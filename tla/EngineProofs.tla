---------------------------- MODULE EngineProofs ----------------------------
(***************************************************************************)
(* What is proved of the two things an engine shares with others: the      *)
(* session through which the ACP agent's requests reach it (AcpSession),   *)
(* and the harness stores that its refinement passes edit (Harness).       *)
(***************************************************************************)
EXTENDS AcpSession, Harness, SequenceTheorems, WellFoundedInduction, TLAPS

-----------------------------------------------------------------------------
(***************************************************************************)
(* A session of the ACP agent. The lock is a line: each request that is    *)
(* being handled is in it once, and what holds it is its first (LineInv).  *)
(* So at most one request has a call of the engine or a delivery (CallInv),*)
(* and when the close has come to the head of the line there is none, nor  *)
(* can there be one again, since every request that follows finds the      *)
(* session closing (EngineInv).                                            *)
(***************************************************************************)

Calls == [of : Prompts \union {"nobody"}, cancel : BOOLEAN,
          at : {"none", "created", "supervisor", "kernel", "turn", "clean", "sent",
                "returned", "cancelled", "failed"}]
Closing == {"queued", "supervisor", "local"}
Over == {"supervisor", "local", "closed", "failed"}

SessionTypes ==
    /\ closing \in BOOLEAN
    /\ request \in [Prompts -> Phases \union Answers]
    /\ queue \in Seq(Prompts \union {CLOSE})
    /\ closer \in {"none", "created"} \union Closing \union Over
    /\ task \in Calls /\ delivery \in Calls
    /\ engine \in [active : BOOLEAN, started : BOOLEAN, closed : BOOLEAN,
                   supervisor : {"none", "up", "stuck", "closed"}, kernel : {"none", "up"}]
    /\ delivered \in Seq(Prompts \union {"nobody"})

In(list, x) == \E i \in 1 .. Len(list) : list[i] = x
Distinct(list) == \A i, j \in 1 .. Len(list) : list[i] = list[j] => i = j

Prompting(p) == request[p] \in {"running", "stopping"}
Delivering(p) == request[p] \in {"delivering", "retracting"}
InLine(p) == request[p] = "queued" \/ Prompting(p) \/ Delivering(p)

LineInv ==
    /\ Distinct(queue)
    /\ \A p \in Prompts : InLine(p) <=> In(queue, p)
    /\ closer \in Closing <=> In(queue, CLOSE)
    /\ \A p \in Prompts : Prompting(p) \/ Delivering(p) => queue[1] = p
    /\ closer \in {"supervisor", "local"} => queue[1] = CLOSE

CallInv ==
    /\ \A p \in Prompts : Prompting(p) <=> task.at # "none" /\ task.of = p
    /\ \A p \in Prompts : Delivering(p) <=> delivery.at # "none" /\ delivery.of = p
    /\ IF task.at = "none" THEN task = NoTask ELSE task.of \in Prompts
    /\ IF delivery.at = "none" THEN delivery = NoTask ELSE delivery.of \in Prompts

Busy(call) == call.at \in {"supervisor", "kernel", "turn", "clean"}

EngineInv ==
    /\ engine.active <=> Busy(task)
    /\ engine.closed => closer \in Over
    /\ closer # "none" => closing
    /\ closer \in Over => task = NoTask /\ delivery = NoTask
    /\ closer \in {"closed", "failed"} => engine.kernel = "none"

SentInv ==
    /\ delivery.at \in {"sent", "returned", "failed"} => In(delivered, delivery.of)
    /\ \A p \in Prompts : request[p] = "end_turn" => In(delivered, p)

SessionInv == SessionTypes /\ LineInv /\ CallInv /\ EngineInv /\ SentInv

-----------------------------------------------------------------------------
\* What is in a list that grows at its end or loses one of its elements.
LEMMA OneMore ==
    ASSUME NEW S, NEW list \in Seq(S), NEW x \in S
    PROVE  /\ Append(list, x) \in Seq(S)
           /\ \A y : In(Append(list, x), y) <=> In(list, y) \/ y = x
           /\ Distinct(list) /\ ~In(list, x) => Distinct(Append(list, x))
           /\ \A y : In(list, y) => Append(list, x)[1] = list[1]
<1> DEFINE more == Append(list, x)
<1>1. /\ more \in Seq(S) /\ Len(more) = Len(list) + 1 /\ Len(list) \in Nat
      /\ (\A i \in 1 .. Len(list) : more[i] = list[i]) /\ more[Len(list) + 1] = x
  BY AppendProperties, LenProperties
<1> HIDE DEF more
<1>2. \A i : i \in 1 .. Len(more) <=> i \in 1 .. Len(list) \/ i = Len(list) + 1
  BY <1>1
<1>3. \A y : In(more, y) <=> In(list, y) \/ y = x
  BY <1>1, <1>2 DEF In
<1>4. Distinct(list) /\ ~In(list, x) => Distinct(more)
  BY <1>1, <1>2 DEF In, Distinct
<1>5. ASSUME NEW y, In(list, y) PROVE more[1] = list[1]
  <2>1. 1 \in 1 .. Len(list)
    BY <1>1, <1>5 DEF In
  <2> QED
    BY <1>1, <2>1
<1> QED
  BY <1>1, <1>3, <1>4, <1>5 DEF more

LEMMA Without ==
    ASSUME NEW S, NEW list \in Seq(S), Distinct(list), NEW n \in 1 .. Len(list),
           NEW rest, Len(rest) = Len(list) - 1,
           \A i \in 1 .. Len(rest) : rest[i] = IF i < n THEN list[i] ELSE list[i + 1]
    PROVE  /\ Distinct(rest)
           /\ \A y : In(rest, y) <=> In(list, y) /\ y # list[n]
           /\ n # 1 => rest[1] = list[1]
<1>1. /\ Len(list) \in Nat /\ n \in Nat /\ n <= Len(list) /\ 1 <= n
      /\ Len(rest) = Len(list) - 1
      /\ \A i \in 1 .. Len(rest) : rest[i] = IF i < n THEN list[i] ELSE list[i + 1]
  BY LenProperties
<1>2. Distinct(rest)
  <2> SUFFICES ASSUME NEW i \in 1 .. Len(rest), NEW j \in 1 .. Len(rest), rest[i] = rest[j]
               PROVE  i = j
    BY DEF Distinct
  <2>1. /\ i \in 1 .. Len(list) /\ i + 1 \in 1 .. Len(list)
        /\ j \in 1 .. Len(list) /\ j + 1 \in 1 .. Len(list)
    BY <1>1, <1>1
  <2>2. (IF i < n THEN list[i] ELSE list[i + 1]) = (IF j < n THEN list[j] ELSE list[j + 1])
    BY <1>1
  <2>3. (IF i < n THEN i ELSE i + 1) = (IF j < n THEN j ELSE j + 1)
    BY <2>1, <2>2 DEF Distinct
  <2> QED
    BY <1>1, <2>3
<1>3. ASSUME NEW y PROVE In(rest, y) <=> In(list, y) /\ y # list[n]
  <2>1. ASSUME In(rest, y) PROVE In(list, y) /\ y # list[n]
    <3>1. PICK i \in 1 .. Len(rest) : rest[i] = y
      BY <2>1 DEF In
    <3>2. PICK k \in 1 .. Len(list) : k # n /\ list[k] = y
      <4>1. CASE i < n
        <5>1. i \in 1 .. Len(list) /\ i # n /\ list[i] = y
          BY <1>1, <1>1, <3>1, <4>1
        <5> QED
          BY <5>1
      <4>2. CASE ~(i < n)
        <5>1. i + 1 \in 1 .. Len(list) /\ i + 1 # n /\ list[i + 1] = y
          BY <1>1, <1>1, <3>1, <4>2
        <5> QED
          BY <5>1
      <4> QED
        BY <4>1, <4>2
    <3> QED
      BY <3>2 DEF In, Distinct
  <2>2. ASSUME In(list, y), y # list[n] PROVE In(rest, y)
    <3>1. PICK k \in 1 .. Len(list) : list[k] = y
      BY <2>2 DEF In
    <3>2. CASE k < n
      <4>1. k \in 1 .. Len(rest) /\ rest[k] = y
        BY <1>1, <1>1, <3>1, <3>2
      <4> QED
        BY <4>1 DEF In
    <3>3. CASE ~(k < n)
      <4>1. k - 1 \in 1 .. Len(rest) /\ ~(k - 1 < n) /\ (k - 1) + 1 = k
        BY <1>1, <1>1, <2>2, <3>1, <3>3
      <4>2. rest[k - 1] = y
        BY <1>1, <3>1, <4>1
      <4> QED
        BY <4>1, <4>2 DEF In
    <3> QED
      BY <3>2, <3>3
  <2> QED
    BY <2>1, <2>2
<1>4. n # 1 => rest[1] = list[1]
  <2> SUFFICES ASSUME n # 1 PROVE rest[1] = list[1]
    OBVIOUS
  <2>1. 1 \in 1 .. Len(rest) /\ 1 < n
    BY <1>1, <1>1
  <2> QED
    BY <1>1, <2>1
<1> QED
  BY <1>2, <1>3, <1>4

LEMMA OneLess ==
    ASSUME NEW S, NEW list \in Seq(S), Distinct(list), NEW n \in 1 .. Len(list)
    PROVE  /\ RemoveAt(list, n) \in Seq(S)
           /\ Distinct(RemoveAt(list, n))
           /\ \A y : In(RemoveAt(list, n), y) <=> In(list, y) /\ y # list[n]
           /\ n # 1 => RemoveAt(list, n)[1] = list[1]
<1> DEFINE left == SubSeq(list, 1, n - 1)
           right == SubSeq(list, n + 1, Len(list))
           rest == RemoveAt(list, n)
<1>1. Len(list) \in Nat /\ n \in Nat /\ n <= Len(list) /\ 1 <= n
  BY LenProperties
<1>2. /\ \A i \in 1 .. n - 1 : list[i] \in S
      /\ \A i \in n + 1 .. Len(list) : list[i] \in S
  <2>1. \A i \in 1 .. Len(list) : list[i] \in S
    BY ElementOfSeq
  <2>2. /\ \A i \in 1 .. n - 1 : i \in 1 .. Len(list)
        /\ \A i \in n + 1 .. Len(list) : i \in 1 .. Len(list)
    BY <1>1
  <2> QED
    BY <2>1, <2>2
<1>3. /\ left \in Seq(S) /\ Len(left) = n - 1
      /\ \A i \in 1 .. n - 1 : left[i] = list[i]
  <2>1. /\ left \in Seq(S)
        /\ Len(left) = IF 1 <= n - 1 THEN (n - 1) - 1 + 1 ELSE 0
        /\ \A i \in 1 .. (n - 1) - 1 + 1 : left[i] = list[1 + i - 1]
    BY <1>1, <1>2, SubSeqProperties
  <2>2. \A i \in 1 .. n - 1 : i \in 1 .. (n - 1) - 1 + 1 /\ 1 + i - 1 = i
    BY <1>1
  <2> HIDE DEF left
  <2>3. Len(left) = n - 1
    BY <1>1, <2>1
  <2> QED
    BY <2>1, <2>2, <2>3
<1>4. /\ right \in Seq(S) /\ Len(right) = Len(list) - n
      /\ \A i \in 1 .. Len(list) - n : right[i] = list[n + i]
  <2>1. /\ right \in Seq(S)
        /\ Len(right) = IF n + 1 <= Len(list) THEN Len(list) - (n + 1) + 1 ELSE 0
        /\ \A i \in 1 .. Len(list) - (n + 1) + 1 : right[i] = list[(n + 1) + i - 1]
    BY <1>1, <1>2, SubSeqProperties
  <2>2. \A i \in 1 .. Len(list) - n : i \in 1 .. Len(list) - (n + 1) + 1 /\ (n + 1) + i - 1 = n + i
    BY <1>1
  <2> HIDE DEF right
  <2>3. Len(right) = Len(list) - n
    BY <1>1, <2>1
  <2> QED
    BY <2>1, <2>2, <2>3
<1> HIDE DEF left, right
<1>5. /\ rest \in Seq(S) /\ Len(rest) = Len(left) + Len(right)
      /\ \A i \in 1 .. Len(left) + Len(right) :
            rest[i] = IF i <= Len(left) THEN left[i] ELSE right[i - Len(left)]
  <2>1. rest = left \o right
    BY DEF RemoveAt, left, right
  <2> HIDE DEF rest
  <2> QED
    BY <1>3, <1>4, <2>1, ConcatProperties
<1> HIDE DEF rest
<1>6. /\ Len(rest) = Len(list) - 1
      /\ \A i \in 1 .. Len(rest) : rest[i] = IF i < n THEN list[i] ELSE list[i + 1]
  <2>1. Len(rest) = Len(list) - 1 /\ Len(left) + Len(right) = Len(list) - 1
    BY <1>1, <1>3, <1>4, <1>5
  <2>2. ASSUME NEW i \in 1 .. Len(rest), i < n PROVE rest[i] = list[i]
    BY <1>1, <1>3, <1>5, <2>1, <2>2
  <2>3. ASSUME NEW i \in 1 .. Len(rest), ~(i < n) PROVE rest[i] = list[i + 1]
    <3>1. ~(i <= Len(left)) /\ i - Len(left) \in 1 .. Len(list) - n /\ n + (i - Len(left)) = i + 1
      BY <1>1, <1>3, <2>1, <2>3
    <3> QED
      BY <1>4, <1>5, <2>1, <3>1
  <2> QED
    BY <2>1, <2>2, <2>3
<1>7. /\ Distinct(rest)
      /\ \A y : In(rest, y) <=> In(list, y) /\ y # list[n]
      /\ n # 1 => rest[1] = list[1]
  BY <1>6, Without
<1> QED
  BY <1>5, <1>7 DEF rest

LEMMA FirstLess ==
    ASSUME NEW S, NEW list \in Seq(S), Distinct(list), In(list, list[1])
    PROVE  /\ Tail(list) \in Seq(S)
           /\ Distinct(Tail(list))
           /\ \A y : In(Tail(list), y) <=> In(list, y) /\ y # list[1]
<1>1. Len(list) \in Nat /\ 1 \in 1 .. Len(list) /\ list # <<>>
  BY LenProperties, EmptySeq DEF In
<1>2. /\ Tail(list) \in Seq(S) /\ Len(Tail(list)) = Len(list) - 1
      /\ \A i \in 1 .. Len(Tail(list)) : Tail(list)[i] = list[i + 1]
  BY <1>1, HeadTailProperties
<1> DEFINE rest == Tail(list)
<1>3. \A i \in 1 .. Len(rest) : rest[i] = IF i < 1 THEN list[i] ELSE list[i + 1]
  BY <1>1, <1>2
<1>4. Len(rest) = Len(list) - 1
  BY <1>2
<1> HIDE DEF rest
<1>5. Distinct(rest) /\ \A y : In(rest, y) <=> In(list, y) /\ y # list[1]
  BY <1>1, <1>3, <1>4, Without
<1> QED
  BY <1>2, <1>5 DEF rest
-----------------------------------------------------------------------------
\* A handler that ends was in the line once, and nowhere else is changed.
LEMMA Answered ==
    ASSUME SessionTypes, Distinct(queue), NEW p \in Prompts, NEW a \in Answers, Answer(p, a)
    PROVE  /\ request' \in [Prompts -> Phases \union Answers]
           /\ request'[p] = a /\ \A q \in Prompts \ {p} : request'[q] = request[q]
           /\ queue' \in Seq(Prompts \union {CLOSE})
           /\ Distinct(queue')
           /\ \A y : In(queue', y) <=> In(queue, y) /\ y # p
           /\ queue[1] # p => queue'[1] = queue[1]
<1>1. request' = [request EXCEPT ![p] = a]
  BY DEF Answer
<1>2. /\ request' \in [Prompts -> Phases \union Answers]
      /\ request'[p] = a /\ \A q \in Prompts \ {p} : request'[q] = request[q]
  BY <1>1 DEF SessionTypes
<1>3. queue \in Seq(Prompts \union {CLOSE}) /\ DOMAIN queue = 1 .. Len(queue)
  BY LenProperties DEF SessionTypes
<1>4. PICK i \in 1 .. Len(queue) : queue[i] = p /\ queue' = RemoveAt(queue, i)
  BY <1>3 DEF Answer
<1>5. /\ queue' \in Seq(Prompts \union {CLOSE})
      /\ Distinct(queue')
      /\ \A y : In(queue', y) <=> In(queue, y) /\ y # queue[i]
      /\ i # 1 => queue'[1] = queue[1]
  BY <1>3, <1>4, OneLess
<1> QED
  BY <1>2, <1>4, <1>5

\* A handler that stays where it is in the line.
LEMMA Moved ==
    ASSUME SessionTypes, NEW p \in Prompts, NEW a \in Phases, request' = [request EXCEPT ![p] = a]
    PROVE  /\ request' \in [Prompts -> Phases \union Answers]
           /\ request'[p] = a /\ \A q \in Prompts \ {p} : request'[q] = request[q]
  BY DEF SessionTypes

LEMMA SessionStart == Init => SessionInv
<1> SUFFICES ASSUME Init PROVE SessionInv
  OBVIOUS
<1>1. SessionTypes
  BY EmptySeq DEF Init, SessionTypes, NoTask, Calls, Phases, Closing, Over
<1>2. Len(queue) = 0 /\ \A y : ~In(queue, y)
  BY EmptySeq DEF Init, In
<1>3. LineInv
  BY <1>2 DEF Init, LineInv, Distinct, InLine, Prompting, Delivering, Closing
<1>4. CallInv /\ EngineInv /\ SentInv
  BY DEF Init, CallInv, EngineInv, SentInv, Prompting, Delivering, Busy, Over, NoTask
<1> QED
  BY <1>1, <1>3, <1>4 DEF SessionInv

\* The steps that answer nothing, move no handler and leave the line alone.
Quiet == NewSession \/ Cancel \/ Deliver \/ Drained \/ DeliveryCancelled \/ EndTurn \/ Engine
         \/ (\E p \in Prompts : CancelRequest(p)) \/ (\E s \in Steers : Steer(s) \/ Inject(s))
         \/ (\E c \in Closers : Closed(c)) \/ UNCHANGED vars
Handled == \E p \in Prompts : Prompt(p) \/ Handle(p)

LEMMA StepKinds == [Next]_vars => Quiet \/ Handled \/ CloseTask \/ \E c \in Closers : Close(c)
  BY DEF Next, Quiet, Handled

LEMMA QuietSame == Quiet => UNCHANGED <<request, queue, closer, closing>>
<1>1. Engine => UNCHANGED <<request, queue, closer, closing>>
  BY DEF Engine, BeginPrompt, StartSupervisor, StartKernel, CleanStart, TurnCancelled
<1> QED
  BY <1>1 DEF Quiet, NewSession, Cancel, Deliver, Drained, DeliveryCancelled, EndTurn, CancelRequest,
              Steer, Inject, Closed, requests, vars

-----------------------------------------------------------------------------
Calm == UNCHANGED <<request, queue, closing, closer>>
AtTypes == task' \in Calls /\ delivery' \in Calls
           /\ engine' \in [active : BOOLEAN, started : BOOLEAN, closed : BOOLEAN,
                           supervisor : {"none", "up", "stuck", "closed"}, kernel : {"none", "up"}]
           /\ delivered' \in Seq(Prompts \union {"nobody"})

LEMMA EngineTypes == SessionTypes /\ Engine => AtTypes
<1> SUFFICES ASSUME SessionTypes, Engine PROVE AtTypes
  OBVIOUS
<1> USE DEF SessionTypes, AtTypes, Calls
<1>1. CASE BeginPrompt
  BY <1>1 DEF BeginPrompt
<1>2. CASE StartSupervisor
  BY <1>2 DEF StartSupervisor, End, Outcome
<1>3. CASE StartKernel
  BY <1>3 DEF StartKernel, End
<1>4. CASE CleanStart
  BY <1>4, ZenonT(40) DEF CleanStart, End, Outcome
<1>5. CASE TurnCancelled
  BY <1>5 DEF TurnCancelled, End
<1> QED
  BY <1>1, <1>2, <1>3, <1>4, <1>5 DEF Engine

LEMMA QuietTypes == SessionTypes /\ Quiet => AtTypes
<1> SUFFICES ASSUME SessionTypes, Quiet PROVE AtTypes
  OBVIOUS
<1> USE DEF SessionTypes, AtTypes, Calls
<1>1. CASE NewSession \/ UNCHANGED vars
  BY <1>1 DEF NewSession, vars
<1>2. CASE Cancel
  BY <1>2, ZenonT(40) DEF Cancel
<1>3. CASE Deliver
  BY <1>3, AppendProperties, ZenonT(40) DEF Deliver
<1>4. CASE Drained \/ DeliveryCancelled
  BY <1>4 DEF Drained, DeliveryCancelled
<1>5. CASE EndTurn
  BY <1>5 DEF EndTurn, End
<1>6. CASE Engine
  BY <1>6, EngineTypes
<1>7. CASE \/ \E p \in Prompts : CancelRequest(p)
           \/ \E s \in Steers : Steer(s) \/ Inject(s)
           \/ \E c \in Closers : Closed(c)
  BY <1>7 DEF CancelRequest, Steer, Inject, Closed
<1> QED
  BY <1>1, <1>2, <1>3, <1>4, <1>5, <1>6, <1>7 DEF Quiet

LEMMA HandleTypes ==
    ASSUME SessionTypes, Distinct(queue), NEW p \in Prompts, Prompt(p) \/ Handle(p)
    PROVE  /\ AtTypes /\ closing' = closing /\ closer' = closer
           /\ request' \in [Prompts -> Phases \union Answers]
           /\ queue' \in Seq(Prompts \union {CLOSE})
<1>1. ASSUME NEW a \in Answers, Answer(p, a)
      PROVE  /\ request' \in [Prompts -> Phases \union Answers]
             /\ queue' \in Seq(Prompts \union {CLOSE})
  BY <1>1, Answered
<1>2. ASSUME NEW a \in Phases \union Answers, request' = [request EXCEPT ![p] = a]
      PROVE  request' \in [Prompts -> Phases \union Answers]
  BY <1>2 DEF SessionTypes
<1>3. /\ {"aborted", "not_found", "invalid", "cancelled", "error", "end_turn"} \subseteq Answers
      /\ {"queued", "running", "stopping", "delivering", "retracting"} \subseteq Phases
  BY DEF Answers, Phases
<1>4. ASSUME UNCHANGED <<task, delivery, engine, delivered>> PROVE AtTypes
  BY <1>4 DEF SessionTypes, AtTypes
<1>13. NoTask \in Calls /\ [of |-> p, at |-> "created", cancel |-> FALSE] \in Calls
  BY DEF NoTask, Calls
<1>5. CASE Prompt(p)
  <2>1. queue' = queue \/ queue' = Append(queue, p)
    BY <1>5 DEF Prompt
  <2>2. queue' \in Seq(Prompts \union {CLOSE})
    BY <2>1, AppendProperties DEF SessionTypes
  <2> QED
    BY <1>2, <1>3, <1>4, <1>5, <2>2 DEF Prompt
<1>6. CASE LeaveQueue(p)
  BY <1>1, <1>3, <1>4, <1>6 DEF LeaveQueue
<1>7. CASE TakeLock(p)
  <2>1. AtTypes
    BY <1>7, <1>13 DEF TakeLock, SessionTypes, AtTypes
  <2> QED
    BY <1>1, <1>2, <1>3, <1>7, <2>1 DEF TakeLock, SessionTypes
<1>8. CASE Stop(p)
  <2>1. AtTypes
    BY <1>8, ZenonT(40) DEF Stop, SessionTypes, AtTypes, Calls
  <2> QED
    BY <1>2, <1>3, <1>8, <2>1 DEF Stop, SessionTypes
<1>9. CASE Stopped(p)
  <2>1. AtTypes
    BY <1>9 DEF Stopped, SessionTypes, AtTypes, Calls, NoTask
  <2> QED
    BY <1>1, <1>3, <1>9, <2>1 DEF Stopped
<1>10. CASE Prompted(p)
  <2>1. AtTypes
    BY <1>10, <1>13 DEF Prompted, SessionTypes, AtTypes
  <2> QED
    BY <1>1, <1>2, <1>3, <1>10, <2>1 DEF Prompted, SessionTypes
<1>11. CASE Retract(p)
  <2>1. AtTypes
    BY <1>11, ZenonT(40) DEF Retract, SessionTypes, AtTypes, Calls
  <2> QED
    BY <1>2, <1>3, <1>11, <2>1 DEF Retract, SessionTypes
<1>12. CASE Delivered(p)
  <2>1. AtTypes
    BY <1>12 DEF Delivered, SessionTypes, AtTypes, Calls, NoTask
  <2> QED
    BY <1>1, <1>3, <1>12, <2>1 DEF Delivered
<1> QED
  BY <1>5, <1>6, <1>7, <1>8, <1>9, <1>10, <1>11, <1>12 DEF Handle

LEMMA TypesStep ==
    ASSUME SessionTypes, Distinct(queue), closer = "local" => In(queue, queue[1]), [Next]_vars
    PROVE  SessionTypes'
<1>1. CASE Quiet
  BY <1>1, QuietSame, QuietTypes DEF SessionTypes, AtTypes
<1>2. CASE Handled
  <2>1. PICK p \in Prompts : Prompt(p) \/ Handle(p)
    BY <1>2 DEF Handled
  <2> QED
    BY <2>1, HandleTypes DEF SessionTypes, AtTypes
<1>3. CASE \E c \in Closers : Close(c)
  BY <1>3 DEF Close, SessionTypes
<1>4. CASE BeginClose
  <2>1. task' \in Calls /\ delivery' \in Calls
    BY <1>4 DEF BeginClose, SessionTypes, Calls
  <2>2. queue' \in Seq(Prompts \union {CLOSE})
    BY <1>4, AppendProperties DEF BeginClose, SessionTypes
  <2> QED
    BY <1>4, <2>1, <2>2 DEF BeginClose, SessionTypes, requests, Closing
<1>5. CASE CloseEngine \/ CloseSupervisor
  BY <1>5 DEF CloseEngine, CloseSupervisor, SessionTypes, requests, Closing
<1>6. CASE CloseLocal
  <2>1. Tail(queue) \in Seq(Prompts \union {CLOSE})
    BY <1>6, FirstLess DEF CloseLocal, SessionTypes
  <2> QED
    BY <1>6, <2>1 DEF CloseLocal, SessionTypes, requests, Over
<1> QED
  BY <1>1, <1>2, <1>3, <1>4, <1>5, <1>6, StepKinds DEF CloseTask

-----------------------------------------------------------------------------
\* The line: whoever leaves it was in it once, and whoever runs is its first.
LEMMA AnswerLine ==
    ASSUME CLOSE \notin Prompts, SessionTypes, LineInv, closer' = closer,
           NEW p \in Prompts, NEW a \in Answers, Answer(p, a)
    PROVE  LineInv'
<1>1. /\ request'[p] = a /\ \A q \in Prompts \ {p} : request'[q] = request[q]
      /\ Distinct(queue')
      /\ \A y : In(queue', y) <=> In(queue, y) /\ y # p
      /\ queue[1] # p => queue'[1] = queue[1]
  BY Answered DEF LineInv
<1>2. ~InLine(p)' /\ ~Prompting(p)' /\ ~Delivering(p)'
  BY <1>1 DEF InLine, Prompting, Delivering, Answers
<1>3. \A q \in Prompts \ {p} : /\ InLine(q)' <=> InLine(q)
                               /\ Prompting(q)' <=> Prompting(q)
                               /\ Delivering(q)' <=> Delivering(q)
  BY <1>1 DEF InLine, Prompting, Delivering
<1>4. \A q \in Prompts : InLine(q)' <=> In(queue', q)
  BY <1>1, <1>2, <1>3 DEF LineInv
<1>5. closer' \in Closing <=> In(queue', CLOSE)
  BY <1>1 DEF LineInv
<1>6. \A q \in Prompts : Prompting(q)' \/ Delivering(q)' => queue'[1] = q
  BY <1>1, <1>2, <1>3 DEF LineInv
<1>7. closer' \in {"supervisor", "local"} => queue'[1] = CLOSE
  BY <1>1 DEF LineInv
<1> QED
  BY <1>1, <1>4, <1>5, <1>6, <1>7 DEF LineInv

LEMMA SameLine ==
    ASSUME SessionTypes, LineInv, closer' = closer, queue' = queue,
           NEW p \in Prompts, InLine(p), queue[1] = p,
           NEW a \in {"running", "stopping", "delivering", "retracting"},
           request' = [request EXCEPT ![p] = a]
    PROVE  LineInv'
<1>1. request'[p] = a /\ \A q \in Prompts \ {p} : request'[q] = request[q]
  BY Moved DEF Phases
<1>2. InLine(p)'
  BY <1>1 DEF InLine, Prompting, Delivering
<1>3. \A q \in Prompts \ {p} : /\ InLine(q)' <=> InLine(q)
                               /\ Prompting(q)' <=> Prompting(q)
                               /\ Delivering(q)' <=> Delivering(q)
  BY <1>1 DEF InLine, Prompting, Delivering
<1>4. \A q \in Prompts : InLine(q)' <=> In(queue', q)
  BY <1>2, <1>3 DEF LineInv
<1>5. \A q \in Prompts : Prompting(q)' \/ Delivering(q)' => queue'[1] = q
  BY <1>3 DEF LineInv
<1> QED
  BY <1>4, <1>5 DEF LineInv

LEMMA PromptLine ==
    ASSUME CLOSE \notin Prompts, SessionTypes, LineInv, NEW p \in Prompts, Prompt(p)
    PROVE  LineInv'
<1>1. CASE UNCHANGED queue
  <2>1. PICK a \in {"not_found", "invalid"} : request' = [request EXCEPT ![p] = a]
    <3>1. Append(queue, p) # queue
      BY AppendProperties, LenProperties DEF SessionTypes
    <3> QED
      BY <1>1, <3>1 DEF Prompt
  <2>2. request'[p] = a /\ \A q \in Prompts \ {p} : request'[q] = request[q]
    BY <2>1 DEF SessionTypes
  <2>3. \A q \in Prompts : /\ InLine(q)' <=> InLine(q)
                           /\ Prompting(q)' <=> Prompting(q)
                           /\ Delivering(q)' <=> Delivering(q)
    BY <2>2 DEF Prompt, InLine, Prompting, Delivering
  <2> QED
    BY <1>1, <2>3 DEF LineInv, Prompt
<1>2. CASE queue' = Append(queue, p) /\ request' = [request EXCEPT ![p] = "queued"]
  <2>1. request'[p] = "queued" /\ \A q \in Prompts \ {p} : request'[q] = request[q]
    BY <1>2 DEF SessionTypes
  <2>2. ~In(queue, p)
    BY DEF LineInv, Prompt, InLine, Prompting, Delivering
  <2>3. queue \in Seq(Prompts \union {CLOSE})
    BY DEF SessionTypes
  <2>4. /\ \A y : In(queue', y) <=> In(queue, y) \/ y = p
        /\ Distinct(queue')
        /\ \A y : In(queue, y) => queue'[1] = queue[1]
    BY <1>2, <2>2, <2>3, OneMore DEF LineInv
  <2>5. InLine(p)' /\ ~Prompting(p)' /\ ~Delivering(p)'
    BY <2>1 DEF InLine, Prompting, Delivering
  <2>6. \A q \in Prompts \ {p} : /\ InLine(q)' <=> InLine(q)
                                 /\ Prompting(q)' <=> Prompting(q)
                                 /\ Delivering(q)' <=> Delivering(q)
    BY <2>1 DEF InLine, Prompting, Delivering
  <2>7. \A q \in Prompts : InLine(q)' <=> In(queue', q)
    BY <2>4, <2>5, <2>6 DEF LineInv
  <2>8. closer' = closer /\ (closer \in Closing <=> In(queue', CLOSE))
    BY <2>4 DEF LineInv, Prompt
  <2>9. \A q \in Prompts : Prompting(q)' \/ Delivering(q)' => queue'[1] = q
    BY <2>4, <2>5, <2>6 DEF LineInv, InLine
  <2>10. closer \in {"supervisor", "local"} => queue'[1] = CLOSE
    BY <2>4 DEF LineInv, Closing
  <2> QED
    BY <2>4, <2>7, <2>8, <2>9, <2>10 DEF LineInv
<1> QED
  BY <1>1, <1>2 DEF Prompt

LEMMA HandleLine ==
    ASSUME CLOSE \notin Prompts, SessionTypes, LineInv, NEW p \in Prompts, Handle(p)
    PROVE  LineInv'
<1>1. closer' = closer
  BY DEF Handle, LeaveQueue, TakeLock, Stop, Stopped, Prompted, Retract, Delivered
<1>2. CASE \E a \in Answers : Answer(p, a)
  BY <1>1, <1>2, AnswerLine
<1>3. CASE /\ queue' = queue /\ InLine(p) /\ queue[1] = p
           /\ \E a \in {"running", "stopping", "delivering", "retracting"} :
                 request' = [request EXCEPT ![p] = a]
  BY <1>1, <1>3, SameLine
<1>4. /\ request[p] = "queued" => InLine(p)
      /\ request[p] \in {"running", "stopping", "delivering", "retracting"} => InLine(p) /\ queue[1] = p
  BY DEF LineInv, InLine, Prompting, Delivering
<1>5. {"aborted", "not_found", "cancelled", "error", "end_turn"} \subseteq Answers
  BY DEF Answers
<1>6. CASE LeaveQueue(p) \/ Stopped(p) \/ Delivered(p)
  BY <1>2, <1>5, <1>6 DEF LeaveQueue, Stopped, Delivered
<1>7. CASE TakeLock(p)
  BY <1>2, <1>3, <1>4, <1>5, <1>7 DEF TakeLock
<1>8. CASE Prompted(p)
  BY <1>2, <1>3, <1>4, <1>5, <1>8 DEF Prompted
<1>9. CASE Stop(p) \/ Retract(p)
  BY <1>3, <1>4, <1>9 DEF Stop, Retract
<1> QED
  BY <1>6, <1>7, <1>8, <1>9 DEF Handle

LEMMA CloseLine ==
    ASSUME CLOSE \notin Prompts, SessionTypes, LineInv, CloseTask \/ \E c \in Closers : Close(c)
    PROVE  LineInv'
<1>1. request' = request
  BY DEF CloseTask, BeginClose, CloseEngine, CloseSupervisor, CloseLocal, Close, requests
<1>2. \A q \in Prompts : /\ InLine(q)' <=> InLine(q)
                         /\ Prompting(q)' <=> Prompting(q)
                         /\ Delivering(q)' <=> Delivering(q)
  BY <1>1 DEF InLine, Prompting, Delivering
<1>3. CASE \E c \in Closers : Close(c)
  <2>1. queue' = queue /\ (closer' = closer \/ (closer = "none" /\ closer' = "created"))
    BY <1>3 DEF Close
  <2> QED
    BY <1>2, <2>1 DEF LineInv, Closing
<1>4. CASE CloseEngine \/ CloseSupervisor
  <2>1. queue' = queue /\ queue[1] = CLOSE /\ closer \in Closing /\ closer' \in Closing
    BY <1>4 DEF CloseEngine, CloseSupervisor, LineInv, Closing
  <2> QED
    BY <1>2, <2>1 DEF LineInv
<1>5. queue \in Seq(Prompts \union {CLOSE})
  BY DEF SessionTypes
<1>6. CASE BeginClose
  <2>1. ~In(queue, CLOSE) /\ queue' = Append(queue, CLOSE) /\ closer' = "queued"
    BY <1>6 DEF BeginClose, LineInv, Closing
  <2>2. /\ \A y : In(queue', y) <=> In(queue, y) \/ y = CLOSE
        /\ Distinct(queue')
        /\ \A y : In(queue, y) => queue'[1] = queue[1]
    BY <1>5, <2>1, OneMore DEF LineInv
  <2>3. \A q \in Prompts : Prompting(q)' \/ Delivering(q)' => queue'[1] = q
    BY <1>2, <2>2 DEF LineInv, InLine
  <2> QED
    BY <1>2, <2>1, <2>2, <2>3 DEF LineInv, Closing
<1>7. CASE CloseLocal
  <2>1. queue[1] = CLOSE /\ In(queue, CLOSE) /\ queue' = Tail(queue)
    BY <1>7 DEF CloseLocal, LineInv, Closing
  <2>2. Distinct(queue') /\ \A y : In(queue', y) <=> In(queue, y) /\ y # CLOSE
    BY <1>5, <2>1, FirstLess DEF LineInv
  <2>3. closer' \in {"closed", "failed"}
    BY <1>7 DEF CloseLocal
  <2>4. \A q \in Prompts : ~(Prompting(q)' \/ Delivering(q)')
    BY <1>2, <2>1 DEF LineInv
  <2> QED
    BY <1>2, <2>2, <2>3, <2>4 DEF LineInv, Closing
<1> QED
  BY <1>3, <1>4, <1>6, <1>7 DEF CloseTask

LEMMA LineStep ==
    ASSUME CLOSE \notin Prompts, SessionTypes, LineInv, [Next]_vars
    PROVE  LineInv'
<1>1. CASE Quiet
  BY <1>1, QuietSame DEF LineInv, InLine, Prompting, Delivering
<1>2. CASE Handled
  BY <1>2, PromptLine, HandleLine DEF Handled
<1> QED
  BY <1>1, <1>2, CloseLine, StepKinds

-----------------------------------------------------------------------------
\* Whoever holds the lock has the only call, and the only delivery.
Calling(call) == call.at # "none"

LEMMA Alone ==
    ASSUME CLOSE \notin Prompts, LineInv, CallInv
    PROVE  /\ \A p \in Prompts : queue[1] = p /\ ~Prompting(p) => task = NoTask
           /\ \A p \in Prompts : queue[1] = p /\ ~Delivering(p) => delivery = NoTask
           /\ queue[1] = CLOSE => task = NoTask /\ delivery = NoTask
  BY DEF LineInv, CallInv

\* A call that moves on stays whose it was.
SameCall(call, next) == /\ Calling(next) <=> Calling(call)
                        /\ next.of = call.of
                        /\ ~Calling(call) => next = call

LEMMA SameCalls ==
    ASSUME CallInv, request' = request, SameCall(task, task'), SameCall(delivery, delivery')
    PROVE  CallInv'
  BY DEF CallInv, SameCall, Calling, Prompting, Delivering

LEMMA QuietCalls == SessionTypes /\ CallInv /\ Quiet => SameCall(task, task') /\ SameCall(delivery, delivery')
<1> SUFFICES ASSUME SessionTypes, CallInv, Quiet
             PROVE  SameCall(task, task') /\ SameCall(delivery, delivery')
  OBVIOUS
<1>1. SameCall(task, task) /\ SameCall(delivery, delivery)
  BY DEF SameCall
<1> USE DEF SessionTypes, Calls, SameCall, Calling
<1>2. CASE /\ UNCHANGED <<task, delivery>>
  BY <1>1, <1>2
<1>3. CASE Cancel
  BY <1>1, <1>3 DEF Cancel, CallInv
<1>4. CASE Deliver \/ Drained \/ DeliveryCancelled
  BY <1>1, <1>4 DEF Deliver, Drained, DeliveryCancelled, Live
<1>5. CASE EndTurn \/ TurnCancelled
  BY <1>1, <1>5 DEF EndTurn, TurnCancelled, End
<1>6. CASE BeginPrompt
  BY <1>1, <1>6 DEF BeginPrompt
<1>7. CASE StartSupervisor
  BY <1>1, <1>7 DEF StartSupervisor, End, Outcome
<1>8. CASE StartKernel
  BY <1>1, <1>8 DEF StartKernel, End
<1>9. CASE CleanStart
  BY <1>1, <1>9 DEF CleanStart, End, Outcome
<1> QED
  BY <1>2, <1>3, <1>4, <1>5, <1>6, <1>7, <1>8, <1>9
  DEF Quiet, Engine, NewSession, CancelRequest, Steer, Inject, Closed, vars

LEMMA HandleCalls ==
    ASSUME CLOSE \notin Prompts, SessionTypes, LineInv, CallInv, NEW p \in Prompts, Prompt(p) \/ Handle(p)
    PROVE  CallInv'
<1>1. ASSUME NEW a \in Answers, Answer(p, a)
      PROVE  request'[p] = a /\ \A q \in Prompts \ {p} : request'[q] = request[q]
  BY <1>1, Answered DEF LineInv
<1>2. ASSUME NEW a \in Phases \union Answers, request' = [request EXCEPT ![p] = a]
      PROVE  request'[p] = a /\ \A q \in Prompts \ {p} : request'[q] = request[q]
  BY <1>2 DEF SessionTypes
<1>3. /\ {"aborted", "not_found", "invalid", "cancelled", "error", "end_turn"} \subseteq Answers
      /\ {"queued", "running", "stopping", "delivering", "retracting"} \subseteq Phases
  BY DEF Answers, Phases
<1>4. \A q \in Prompts : Prompting(q) => q = p \/ queue[1] # p
  BY DEF LineInv
<1>5. ASSUME \A q \in Prompts \ {p} : request'[q] = request[q]
      PROVE  \A q \in Prompts \ {p} : /\ Prompting(q)' <=> Prompting(q)
                                      /\ Delivering(q)' <=> Delivering(q)
  BY <1>5 DEF Prompting, Delivering
<1>6. ASSUME \A q \in Prompts \ {p} : request'[q] = request[q],
             SameCall(task, task'), SameCall(delivery, delivery'),
             Prompting(p)' <=> Prompting(p), Delivering(p)' <=> Delivering(p)
      PROVE  CallInv'
  <2>1. \A q \in Prompts : (Prompting(q)' <=> Prompting(q)) /\ (Delivering(q)' <=> Delivering(q))
    BY <1>5, <1>6
  <2> QED
    BY <1>6, <2>1 DEF CallInv, SameCall, Calling
<1>7. SameCall(task, task) /\ SameCall(delivery, delivery)
  BY DEF SameCall
<1>8. CASE Prompt(p)
  <2>1. PICK a \in {"queued", "not_found", "invalid"} : request' = [request EXCEPT ![p] = a]
    BY <1>8 DEF Prompt
  <2> QED
    BY <1>2, <1>3, <1>6, <1>7, <1>8, <2>1 DEF Prompt, Prompting, Delivering
<1>9. CASE LeaveQueue(p)
  BY <1>1, <1>3, <1>6, <1>7, <1>9 DEF LeaveQueue, Prompting, Delivering
<1>10. CASE TakeLock(p)
  <2>1. CASE closing
    BY <1>1, <1>3, <1>6, <1>7, <1>10, <2>1 DEF TakeLock, Prompting, Delivering
  <2>2. CASE ~closing
    <3>1. /\ request' = [request EXCEPT ![p] = "running"] /\ delivery' = delivery
          /\ task' = [of |-> p, at |-> "created", cancel |-> FALSE]
      BY <1>10, <2>2 DEF TakeLock
    <3>2. request'[p] = "running" /\ \A q \in Prompts \ {p} : request'[q] = request[q]
      BY <1>2, <1>3, <3>1
    <3>3. task = NoTask
      BY <1>10, Alone DEF TakeLock, Prompting
    <3>4. \A q \in Prompts : ~Prompting(q)
      BY <3>3 DEF CallInv, NoTask
    <3>5. Prompting(p)' /\ ~Delivering(p)' /\ ~Delivering(p)
      BY <1>10, <3>2 DEF TakeLock, Prompting, Delivering
    <3>6. \A q \in Prompts : Prompting(q)' <=> task'.at # "none" /\ task'.of = q
      BY <1>5, <3>1, <3>2, <3>4, <3>5
    <3>7. \A q \in Prompts : Delivering(q)' <=> delivery'.at # "none" /\ delivery'.of = q
      BY <1>5, <3>1, <3>2, <3>5 DEF CallInv
    <3> QED
      BY <3>1, <3>6, <3>7 DEF CallInv
  <2> QED
    BY <2>1, <2>2
<1>11. CASE Stop(p)
  <2>1. SameCall(task, task')
    BY <1>11 DEF Stop, SameCall, Calling, SessionTypes, Calls, CallInv, Prompting
  <2> QED
    BY <1>2, <1>3, <1>6, <1>7, <1>11, <2>1 DEF Stop, Prompting, Delivering
<1>12. CASE Retract(p)
  <2>1. SameCall(delivery, delivery')
    BY <1>12 DEF Retract, SameCall, Calling, SessionTypes, Calls, CallInv, Delivering
  <2> QED
    BY <1>2, <1>3, <1>6, <1>7, <1>12, <2>1 DEF Retract, Prompting, Delivering
<1>13. ASSUME Prompting(p), task' = NoTask, delivery' = delivery, NEW a \in Answers, Answer(p, a)
       PROVE  CallInv'
  <2>1. request'[p] = a /\ \A q \in Prompts \ {p} : request'[q] = request[q]
    BY <1>1, <1>13
  <2>2. ~Prompting(p)' /\ ~Delivering(p)' /\ ~Delivering(p)
    BY <1>13, <2>1 DEF Prompting, Delivering, Answers
  <2>3. \A q \in Prompts : ~Prompting(q)'
    BY <1>5, <1>13, <2>1, <2>2 DEF CallInv
  <2>4. \A q \in Prompts : Delivering(q)' <=> delivery'.at # "none" /\ delivery'.of = q
    BY <1>5, <1>13, <2>1, <2>2 DEF CallInv
  <2> QED
    BY <1>13, <2>3, <2>4 DEF CallInv, NoTask
<1>14. CASE Stopped(p)
  BY <1>3, <1>13, <1>14 DEF Stopped, Prompting
<1>15. CASE Prompted(p)
  <2>1. CASE UNCHANGED delivery
    <3>1. CASE \E a \in Answers : Answer(p, a)
      BY <1>13, <1>15, <2>1, <3>1 DEF Prompted, Prompting
    <3>2. CASE delivery' = [of |-> p, at |-> "created", cancel |-> FALSE]
      <4>1. delivery = NoTask
        BY <1>15, Alone DEF Prompted, Prompting, Delivering, LineInv
      <4>2. delivery'.at = "created" /\ delivery.at = "none"
        BY <3>2, <4>1 DEF NoTask
      <4> QED
        BY <2>1, <4>2
    <3> QED
      BY <1>3, <1>15, <3>1, <3>2 DEF Prompted
  <2>2. CASE /\ request' = [request EXCEPT ![p] = "delivering"]
             /\ delivery' = [of |-> p, at |-> "created", cancel |-> FALSE]
    <3>1. request'[p] = "delivering" /\ \A q \in Prompts \ {p} : request'[q] = request[q]
      BY <1>2, <1>3, <2>2
    <3>2. delivery = NoTask /\ task' = NoTask
      BY <1>15, Alone DEF Prompted, Prompting, Delivering, LineInv
    <3>3. Prompting(p) /\ ~Prompting(p)' /\ Delivering(p)'
      BY <1>15, <3>1 DEF Prompted, Prompting, Delivering
    <3>4. \A q \in Prompts : ~Prompting(q)'
      BY <1>5, <3>1, <3>3 DEF CallInv
    <3>5. \A q \in Prompts : ~Delivering(q)
      BY <3>2 DEF CallInv, NoTask
    <3>6. \A q \in Prompts : Delivering(q)' <=> delivery'.at # "none" /\ delivery'.of = q
      BY <1>5, <2>2, <3>1, <3>3, <3>5
    <3> QED
      BY <2>2, <3>2, <3>4, <3>6 DEF CallInv, NoTask
  <2> QED
    BY <1>15, <2>1, <2>2 DEF Prompted
<1>16. CASE Delivered(p)
  <2>1. PICK a \in Answers : Answer(p, a)
    BY <1>3, <1>16 DEF Delivered
  <2>2. request'[p] = a /\ \A q \in Prompts \ {p} : request'[q] = request[q]
    BY <1>1, <2>1
  <2>3. Delivering(p) /\ ~Prompting(p) /\ ~Prompting(p)' /\ ~Delivering(p)'
    BY <1>16, <2>2 DEF Delivered, Prompting, Delivering, Answers
  <2>4. \A q \in Prompts : ~Delivering(q)'
    BY <1>5, <2>2, <2>3 DEF CallInv
  <2>5. delivery' = NoTask /\ task' = task
    BY <1>16 DEF Delivered
  <2>6. \A q \in Prompts : Prompting(q)' <=> task'.at # "none" /\ task'.of = q
    BY <1>5, <2>2, <2>3, <2>5 DEF CallInv
  <2> QED
    BY <2>4, <2>5, <2>6 DEF CallInv, NoTask
<1> QED
  BY <1>8, <1>9, <1>10, <1>11, <1>12, <1>14, <1>15, <1>16 DEF Handle

LEMMA CallStep ==
    ASSUME CLOSE \notin Prompts, SessionTypes, LineInv, CallInv, [Next]_vars
    PROVE  CallInv'
<1>1. CASE Quiet
  BY <1>1, QuietSame, QuietCalls, SameCalls
<1>2. CASE Handled
  BY <1>2, HandleCalls DEF Handled
<1>3. CASE \/ CloseEngine \/ CloseSupervisor \/ CloseLocal
           \/ \E c \in Closers : Close(c)
  <2>1. UNCHANGED <<request, task, delivery>>
    BY <1>3 DEF CloseEngine, CloseSupervisor, CloseLocal, Close, requests
  <2> QED
    BY <2>1 DEF CallInv, Prompting, Delivering
<1>4. CASE BeginClose
  <2>1. SameCall(task, task') /\ SameCall(delivery, delivery')
    BY <1>4 DEF BeginClose, SameCall, Calling, SessionTypes, Calls, CallInv, NoTask
  <2> QED
    BY <1>4, <2>1, SameCalls DEF BeginClose, requests
<1> QED
  BY <1>1, <1>2, <1>3, <1>4, StepKinds DEF CloseTask

-----------------------------------------------------------------------------
\* The engine: what is done to it, and when it may no longer be used.
LEMMA HandleEngine ==
    ASSUME CLOSE \notin Prompts, SessionTypes, LineInv, CallInv, EngineInv, NEW p \in Prompts, Prompt(p) \/ Handle(p)
    PROVE  EngineInv'
<1>1. UNCHANGED <<engine, closer, closing>>
  BY DEF Prompt, Handle, LeaveQueue, TakeLock, Stop, Stopped, Prompted, Retract, Delivered
<1>2. ASSUME Busy(task') <=> Busy(task), closer \in Over => task' = NoTask /\ delivery' = NoTask
      PROVE  EngineInv'
  BY <1>1, <1>2 DEF EngineInv
<1>3. CASE UNCHANGED <<task, delivery>>
  BY <1>2, <1>3 DEF EngineInv
<1>4. ~Busy(NoTask)
  BY DEF Busy, NoTask
<1>5. CASE Prompt(p) \/ LeaveQueue(p)
  BY <1>3, <1>5 DEF Prompt, LeaveQueue
<1>6. CASE TakeLock(p)
  <2>1. CASE closing
    BY <1>3, <1>6, <2>1 DEF TakeLock
  <2>2. CASE ~closing
    <3>1. task = NoTask /\ task' = [of |-> p, at |-> "created", cancel |-> FALSE]
      BY <1>6, <2>2, Alone DEF TakeLock, Prompting
    <3>2. ~Busy(task') /\ closer \notin Over
      BY <2>2, <3>1 DEF Busy, EngineInv, Over
    <3> QED
      BY <1>2, <1>4, <3>1, <3>2
  <2> QED
    BY <2>1, <2>2
<1>7. ASSUME Prompting(p) PROVE closer \notin Over
  BY <1>7 DEF EngineInv, CallInv, NoTask
<1>8. ASSUME Delivering(p) PROVE closer \notin Over
  BY <1>8 DEF EngineInv, CallInv, NoTask
<1>9. CASE Stop(p)
  <2>1. Busy(task') <=> Busy(task)
    BY <1>9 DEF Stop, Busy, SessionTypes, Calls
  <2> QED
    BY <1>2, <1>7, <1>9, <2>1 DEF Stop, Prompting
<1>10. CASE Stopped(p) \/ Prompted(p)
  <2>1. task' = NoTask /\ ~Busy(task) /\ Prompting(p)
    BY <1>10 DEF Stopped, Prompted, Prompting, Ended, Busy
  <2> QED
    BY <1>2, <1>4, <1>7, <2>1
<1>11. CASE Retract(p) \/ Delivered(p)
  <2>1. task' = task /\ Delivering(p)
    BY <1>11 DEF Retract, Delivered, Delivering
  <2> QED
    BY <1>2, <1>8, <2>1
<1> QED
  BY <1>5, <1>6, <1>9, <1>10, <1>11 DEF Handle

LEMMA EngineEngine == SessionTypes /\ EngineInv /\ (Engine \/ EndTurn) => EngineInv'
<1> SUFFICES ASSUME SessionTypes, EngineInv, Engine \/ EndTurn PROVE EngineInv'
  OBVIOUS
<1>1. UNCHANGED <<closer, closing, delivery>>
  BY DEF Engine, EndTurn, BeginPrompt, StartSupervisor, StartKernel, CleanStart, TurnCancelled
<1>2. task.at \in {"created", "supervisor", "kernel", "turn", "clean"}
  BY DEF Engine, EndTurn, BeginPrompt, StartSupervisor, StartKernel, CleanStart, TurnCancelled
<1>3. closer \notin Over
  BY <1>2 DEF EngineInv, NoTask
<1>4. ASSUME engine'.active <=> Busy(task'), engine'.closed = engine.closed PROVE EngineInv'
  BY <1>1, <1>3, <1>4 DEF EngineInv, Over
<1> USE DEF SessionTypes, Calls, Busy
<1>5. ASSUME NEW at \in {"returned", "cancelled", "failed"}, NEW core, End(at, core),
             core.closed = engine.closed, core \in [active : BOOLEAN, started : BOOLEAN, closed : BOOLEAN,
                 supervisor : {"none", "up", "stuck", "closed"}, kernel : {"none", "up"}]
      PROVE  EngineInv'
  BY <1>4, <1>5 DEF End
<1>6. CASE EndTurn \/ TurnCancelled
  BY <1>5, <1>6 DEF EndTurn, TurnCancelled
<1>7. CASE BeginPrompt
  <2>1. CASE UNCHANGED engine /\ task' = [task EXCEPT !.at = "cancelled"]
    BY <1>4, <1>7, <2>1 DEF BeginPrompt, EngineInv
  <2>2. CASE UNCHANGED engine /\ task' = [task EXCEPT !.at = "failed"]
    BY <1>4, <1>7, <2>2 DEF BeginPrompt, EngineInv
  <2>3. CASE /\ engine' = [engine EXCEPT !.active = TRUE]
             /\ task' = [task EXCEPT !.at = IF engine.started THEN "turn" ELSE "supervisor"]
    BY <1>4, <2>3
  <2> QED
    BY <1>7, <2>1, <2>2, <2>3 DEF BeginPrompt
<1>8. CASE StartSupervisor
  <2>1. CASE /\ task' = [task EXCEPT !.at = "kernel"]
             /\ engine' = [engine EXCEPT !.supervisor = "up"]
    BY <1>4, <1>8, <2>1 DEF StartSupervisor, EngineInv
  <2>2. CASE End(Outcome, [engine EXCEPT !.supervisor = "none"])
    BY <1>5, <2>2 DEF Outcome
  <2>3. CASE End(Outcome, engine)
    BY <1>5, <2>3 DEF Outcome
  <2> QED
    BY <1>8, <2>1, <2>2, <2>3 DEF StartSupervisor
<1>9. CASE StartKernel
  <2>1. CASE /\ task' = [task EXCEPT !.at = "turn"]
             /\ engine' = [engine EXCEPT !.kernel = "up", !.started = TRUE]
    BY <1>4, <1>9, <2>1 DEF StartKernel, EngineInv
  <2>2. CASE task' = [task EXCEPT !.at = "clean"] /\ UNCHANGED engine
    BY <1>4, <1>9, <2>2 DEF StartKernel, EngineInv
  <2>3. CASE End("failed", engine)
    BY <1>5, <2>3
  <2> QED
    BY <1>9, <2>1, <2>2, <2>3 DEF StartKernel
<1>10. CASE CleanStart
  <2>1. CASE End(Outcome, [engine EXCEPT !.supervisor = "none", !.kernel = "none"])
    BY <1>5, <2>1 DEF Outcome
  <2>2. CASE End("failed", [engine EXCEPT !.supervisor = "stuck", !.kernel = "none"])
    BY <1>5, <2>2
  <2> QED
    BY <1>10, <2>1, <2>2 DEF CleanStart
<1> QED
  BY <1>6, <1>7, <1>8, <1>9, <1>10 DEF Engine

LEMMA EngineStep ==
    ASSUME CLOSE \notin Prompts, SessionTypes, LineInv, CallInv, EngineInv, [Next]_vars
    PROVE  EngineInv'
<1>1. CASE Engine \/ EndTurn
  BY <1>1, EngineEngine
<1>2. CASE Handled
  BY <1>2, HandleEngine DEF Handled
<1>3. CASE UNCHANGED <<task, delivery, engine, closer, closing>>
  BY <1>3 DEF EngineInv
<1>4. CASE Cancel
  <2>1. (Busy(task') <=> Busy(task)) /\ task # NoTask
    BY <1>4 DEF Cancel, Busy, SessionTypes, Calls
  <2> QED
    BY <1>4, <2>1 DEF Cancel, EngineInv
<1>5. CASE Deliver \/ Drained \/ DeliveryCancelled
  <2>1. delivery # NoTask /\ UNCHANGED <<task, engine, closer, closing>>
    BY <1>5 DEF Deliver, Drained, DeliveryCancelled, Live, NoTask
  <2> QED
    BY <2>1 DEF EngineInv
<1>6. CASE \E c \in Closers : Close(c)
  BY <1>6 DEF Close, EngineInv, Over
<1>7. CASE BeginClose
  <2>1. Busy(task') <=> Busy(task)
    BY <1>7 DEF BeginClose, Busy, SessionTypes, Calls
  <2> QED
    BY <1>7, <2>1 DEF BeginClose, EngineInv, Over
<1>8. CASE CloseEngine
  <2>1. task = NoTask /\ delivery = NoTask
    BY <1>8, Alone DEF CloseEngine
  <2>2. engine'.active = engine.active /\ closer' = "supervisor"
    BY <1>8 DEF CloseEngine, SessionTypes
  <2> QED
    BY <1>8, <2>1, <2>2 DEF CloseEngine, EngineInv, Over
<1>9. CASE CloseSupervisor
  <2>1. engine'.active = engine.active /\ engine'.closed = engine.closed
    BY <1>9 DEF CloseSupervisor, SessionTypes
  <2> QED
    BY <1>9, <2>1 DEF CloseSupervisor, EngineInv, Over
<1>10. CASE CloseLocal
  <2>1. engine'.active = engine.active /\ engine'.closed = engine.closed /\ engine'.kernel = "none"
    BY <1>10 DEF CloseLocal, SessionTypes
  <2> QED
    BY <1>10, <2>1 DEF CloseLocal, EngineInv, Over
<1>11. CASE \/ NewSession \/ UNCHANGED vars \/ \E p \in Prompts : CancelRequest(p)
            \/ \E s \in Steers : Steer(s) \/ Inject(s)
            \/ \E c \in Closers : Closed(c)
  BY <1>3, <1>11 DEF NewSession, CancelRequest, Steer, Inject, Closed, vars
<1> QED
  BY <1>1, <1>2, <1>4, <1>5, <1>6, <1>7, <1>8, <1>9, <1>10, <1>11, StepKinds DEF Quiet, CloseTask

-----------------------------------------------------------------------------
\* What a client was sent.
LEMMA SentStep ==
    ASSUME CLOSE \notin Prompts, SessionTypes, LineInv, CallInv, SentInv, [Next]_vars
    PROVE  SentInv'
<1>1. CASE Deliver
  <2>1. /\ delivered \in Seq(Prompts \union {"nobody"}) /\ delivery.of \in Prompts \union {"nobody"}
        /\ delivered' = Append(delivered, delivery.of)
    BY <1>1 DEF Deliver, SessionTypes, Calls
  <2>2. \A y : In(delivered', y) <=> In(delivered, y) \/ y = delivery.of
    BY <2>1, OneMore
  <2>3. delivery'.of = delivery.of /\ request' = request
    BY <1>1 DEF Deliver, SessionTypes, Calls, requests
  <2> QED
    BY <2>2, <2>3 DEF SentInv
<1>2. CASE \E p \in Prompts : Delivered(p)
  <2>1. PICK p \in Prompts : Delivered(p)
    BY <1>2
  <2>2. PICK a \in Answers : /\ Answer(p, a)
                             /\ a = "end_turn" => delivery.at = "returned" /\ request[p] = "delivering"
    BY <2>1 DEF Delivered, Answers
  <2>3. request'[p] = a /\ \A q \in Prompts \ {p} : request'[q] = request[q]
    BY <2>2, Answered DEF LineInv
  <2>4. a = "end_turn" => In(delivered, p)
    BY <2>2 DEF SentInv, CallInv, Delivering
  <2>5. delivered' = delivered /\ delivery' = NoTask
    BY <2>1 DEF Delivered
  <2>6. \A q \in Prompts : request'[q] = "end_turn" => In(delivered', q)
    BY <2>3, <2>4, <2>5 DEF SentInv
  <2> QED
    BY <2>5, <2>6 DEF SentInv, NoTask
<1>3. ASSUME NEW p \in Prompts, NEW a \in (Phases \union Answers) \ {"end_turn"},
             delivered' = delivered, request'[p] = a, \A q \in Prompts \ {p} : request'[q] = request[q],
             \/ delivery'.at \notin {"sent", "returned", "failed"}
             \/ (delivery'.at = delivery.at /\ delivery'.of = delivery.of)
      PROVE  SentInv'
  <2>1. \A q \in Prompts : request'[q] = "end_turn" => In(delivered', q)
    BY <1>3 DEF SentInv
  <2>2. delivery'.at \in {"sent", "returned", "failed"} => In(delivered', delivery'.of)
    BY <1>3 DEF SentInv
  <2> QED
    BY <2>1, <2>2 DEF SentInv
<1>4. ASSUME NEW p \in Prompts, Prompt(p) \/ Handle(p), ~Delivered(p) PROVE SentInv'
  <2>1. PICK a \in (Phases \union Answers) \ {"end_turn"} :
            (Answer(p, a) /\ a \in Answers) \/ request' = [request EXCEPT ![p] = a]
    BY <1>4 DEF Prompt, Handle, LeaveQueue, TakeLock, Stop, Stopped, Prompted, Retract, Phases, Answers
  <2>2. request'[p] = a /\ \A q \in Prompts \ {p} : request'[q] = request[q]
    <3>1. CASE Answer(p, a) /\ a \in Answers
      BY <3>1, Answered DEF LineInv
    <3>2. CASE request' = [request EXCEPT ![p] = a]
      BY <3>2 DEF SessionTypes
    <3> QED
      BY <2>1, <3>1, <3>2
  <2>3. delivered' = delivered
    BY <1>4 DEF Prompt, Handle, LeaveQueue, TakeLock, Stop, Stopped, Prompted, Retract
  <2>4. \/ delivery' = delivery
        \/ delivery' = [of |-> p, at |-> "created", cancel |-> FALSE]
        \/ delivery' = [delivery EXCEPT !.cancel = TRUE]
    BY <1>4 DEF Prompt, Handle, LeaveQueue, TakeLock, Stop, Stopped, Prompted, Retract
  <2>5. \/ delivery'.at \notin {"sent", "returned", "failed"}
        \/ (delivery'.at = delivery.at /\ delivery'.of = delivery.of)
    BY <2>4 DEF SessionTypes, Calls
  <2> QED
    BY <1>3, <2>2, <2>3, <2>5
<1>5. ASSUME UNCHANGED <<request, delivered>>,
             \/ delivery'.at \notin {"sent", "returned", "failed"}
             \/ (delivery'.of = delivery.of /\ delivery.at \in {"sent", "returned", "failed"})
      PROVE  SentInv'
  BY <1>5 DEF SentInv
<1>6. CASE Drained \/ DeliveryCancelled
  BY <1>5, <1>6 DEF Drained, DeliveryCancelled, SessionTypes, Calls, requests
<1>7. CASE BeginClose
  <2>1. delivery'.at = delivery.at /\ delivery'.of = delivery.of
    BY <1>7 DEF BeginClose, SessionTypes, Calls
  <2> QED
    BY <1>5, <1>7, <2>1 DEF BeginClose, requests
<1>8. CASE UNCHANGED <<request, delivered, delivery>>
  BY <1>8 DEF SentInv
<1>9. CASE NewSession \/ Cancel \/ EndTurn \/ Engine \/ CloseEngine \/ CloseSupervisor \/ CloseLocal \/ UNCHANGED vars
           \/ (\E p \in Prompts : CancelRequest(p)) \/ (\E s \in Steers : Steer(s) \/ Inject(s))
           \/ (\E c \in Closers : Close(c) \/ Closed(c))
  <2>1. Engine => UNCHANGED <<request, delivered, delivery>>
    BY DEF Engine, BeginPrompt, StartSupervisor, StartKernel, CleanStart, TurnCancelled
  <2> QED
    BY <1>8, <1>9, <2>1 DEF NewSession, Cancel, EndTurn, CancelRequest, Steer, Inject, Close, Closed,
                            CloseEngine, CloseSupervisor, CloseLocal, requests, vars
<1> QED
  BY <1>1, <1>2, <1>4, <1>6, <1>7, <1>9, StepKinds DEF Quiet, Handled, CloseTask

LEMMA SessionStep == CLOSE \notin Prompts /\ SessionInv /\ [Next]_vars => SessionInv'
<1> SUFFICES ASSUME CLOSE \notin Prompts, SessionInv, [Next]_vars PROVE SessionInv'
  OBVIOUS
<1>1. SessionTypes'
  BY TypesStep DEF SessionInv, LineInv, Closing
<1> QED
  BY <1>1, LineStep, CallStep, EngineStep, SentStep DEF SessionInv

LEMMA SessionImplied == SessionInv => CloseIsOrderly
<1> SUFFICES ASSUME SessionInv PROVE CloseIsOrderly
  OBVIOUS
<1>1. EngineIsAlone
  BY DEF SessionInv, EngineInv, EngineIsAlone, Busy, NoTask, Live
<1>2. DOMAIN delivered = 1 .. Len(delivered)
  BY LenProperties DEF SessionInv, SessionTypes
<1>3. \A p \in Prompts : request[p] = "end_turn" => \E i \in DOMAIN delivered : delivered[i] = p
  BY <1>2 DEF SessionInv, SentInv, In
<1>4. ToldIsSo
  BY <1>3 DEF SessionInv, EngineInv, ToldIsSo, Over
<1> QED
  BY <1>1, <1>4 DEF CloseIsOrderly

(***************************************************************************)
(* However the requests of a session interleave with its close, fail and   *)
(* are cancelled: no prompt finds the engine in use or closed, the engine  *)
(* is not closed under a call, an answer that ended its turn was sent, and *)
(* after a close nothing runs (prompt, _close_session, RLMEngine.prompt,   *)
(* _aclose_impl).                                                          *)
(***************************************************************************)
THEOREM ClosesOrderly == Spec => []CloseIsOrderly
<1>1. Init => SessionInv
  BY SessionStart
<1>2. SessionInv /\ [Next]_vars => SessionInv'
  BY SessionStep, CloseIsApart
<1>3. SessionInv => CloseIsOrderly
  BY SessionImplied
<1> QED
  BY <1>1, <1>2, <1>3, PTL DEF Spec

-----------------------------------------------------------------------------
(***************************************************************************)
(* The harness stores, for all sets of engines, writers, keys and episodes *)
(* and for proposals of any length.                                        *)
(*                                                                         *)
(* Who is in a transaction holds the lock of the store, and what it has    *)
(* read is the file (LockInv); so what it saves is the file with its own   *)
(* edits over it (Saved). A pass edits by a proposal, one edit after the   *)
(* other (Stages), and what is said of all of a proposal's edits is proved *)
(* by induction over them: that an edited entry was as the planner saw it  *)
(* (Kept), that each edit recorded found what the one before it left       *)
(* (Chained), and that undoing them newest first leads back, an edit at a  *)
(* time, to what the pass found (Undoing). PassOk keeps with each pass     *)
(* what these need of it.                                                  *)
(***************************************************************************)

Entry == {NoEntry} \union [at : Nat \ {0}, text : Texts]
File == [entries : [Ids -> Entry], events : SUBSET Nat, mtime : Nat]
Actions == {"create", "update", "delete"}
EditType == [key : Ids, action : Actions, text : Texts]
Done == [key : Ids, action : Actions, before : Entry, after : Entry]
Baselines == [Ids -> Entry] \union {<<>>}

Passes == [at : {"idle", "judge", "plan", "ready", "apply", "append"}, scope : Scopes, undo : Nat,
           baseline : Baselines, proposal : Seq(EditType), result : Seq(Done)]
Requests == {NoRequest} \union [scope : Scopes, undo : Nat]

HarnessTypes ==
    /\ disk \in [Stores -> File]
    /\ results \in [Stores -> SUBSET [id : Nat, applied : Seq(Done)]]
    /\ lock \in [Stores -> Engines \union Writers \union {Free}]
    /\ cache \in [Engines -> [Scopes -> File]]
    /\ hand \in [Writers -> [at : {"in", "out"}, store : Stores, file : File]]
    /\ pass \in [Engines -> Passes]
    /\ time \in Nat
    /\ written \in [Stores -> [entries : [Ids -> Entry], events : SUBSET Nat]]

NoteTypes ==
    /\ refineRequest \in [Engines -> Requests]
    /\ refined \in [Engines -> Nat]
    /\ told \in [Engines -> SUBSET [id : Nat, scope : Scopes]]

LockInv ==
    /\ \A w \in Writers : hand[w].at = "in" =>
          lock[hand[w].store] = w /\ hand[w].file = disk[hand[w].store]
    /\ \A e \in Engines : pass[e].at = "apply" =>
          /\ lock[StoreOf(e, pass[e].scope)] = e
          /\ cache[e][pass[e].scope] = disk[StoreOf(e, pass[e].scope)]

\* In a list of edits done, each found what the one before it of the same entry left.
Chained(applied) ==
    /\ \A i \in 1 .. Len(applied) :
          /\ applied[i].after.at # 0 => applied[i].after.text # ""
          /\ applied[i].before.at # 0 \/ applied[i].after.at # 0
    /\ \A i, j \in 1 .. Len(applied) :
          /\ i < j /\ applied[i].key = applied[j].key
          /\ \A m \in 1 .. Len(applied) : i < m /\ m < j => applied[m].key # applied[j].key
          => applied[j].before = applied[i].after

PassOk(p) ==
    /\ Chained(p.result)
    /\ p.at \in {"ready", "apply"} /\ p.undo # 0 =>
          p.baseline = <<>> /\ p.proposal = RollbackProposal([applied |-> p.result])
    /\ p.at \in {"plan", "ready", "apply"} /\ p.undo = 0 => p.baseline \in [Ids -> Entry]
    /\ p.at \in {"judge", "plan"} => p.undo = 0

PassInv ==
    /\ \A e \in Engines : PassOk(pass[e])
    /\ \A s \in Stores : \A r \in results[s] : Chained(r.applied)

HarnessInv == HarnessTypes /\ LockInv /\ PassInv /\ FileIsItsWrites

\* Induction over the numbers, with a set in the place of a predicate.
LEMMA Induction ==
    ASSUME NEW S, 0 \in S, \A n \in Nat : n \in S => n + 1 \in S
    PROVE  Nat \subseteq S
<1> DEFINE R == {ss \in Nat \X Nat : ss[1] < ss[2]}
           Missing == Nat \ S
<1> SUFFICES ASSUME Missing # {} PROVE FALSE
  OBVIOUS
<1>1. IsWellFoundedOn(R, Nat)
  BY NatLessThanWellFounded DEF OpToRel
<1> HIDE DEF R
<1>2. PICK n \in Missing : \A m \in Missing : ~(<<m, n>> \in R)
  BY <1>1, WFMin
<1>3. n \in Nat /\ n # 0 /\ n \notin S
  BY <1>2
<1>4. n - 1 \in Nat /\ n - 1 < n /\ (n - 1) + 1 = n
  BY <1>3
<1>5. n - 1 \in Missing
  BY <1>3, <1>4
<1> QED
  BY <1>2, <1>3, <1>4, <1>5 DEF R

\* The stages of a proposal are what their definition says: there is such a function.
LEMMA StagesDefined ==
    ASSUME NEW start, NEW proposal, Len(proposal) \in Nat
    PROVE  \A n \in 0 .. Len(proposal) :
              Stages(start, proposal)[n] =
                IF n = 0 THEN start ELSE ApplyEdit(Stages(start, proposal)[n - 1], proposal[n])
<1> DEFINE Follows(g, m) == g = [n \in 0 .. m |->
              IF n = 0 THEN start ELSE ApplyEdit(g[n - 1], proposal[n])]
           S == {m \in Nat : \E f : Follows(f, m)}
<1>1. 0 \in S
  <2> DEFINE one == [n \in 0 .. 0 |-> start]
  <2>1. Follows(one, 0)
    OBVIOUS
  <2> QED
    BY <2>1
<1>2. ASSUME NEW m \in Nat, m \in S PROVE m + 1 \in S
  <2>1. PICK stage : Follows(stage, m)
    BY <1>2
  <2> DEFINE more == [n \in 0 .. m + 1 |-> IF n = m + 1 THEN ApplyEdit(stage[m], proposal[m + 1]) ELSE stage[n]]
             next == [n \in 0 .. m + 1 |-> IF n = 0 THEN start ELSE ApplyEdit(more[n - 1], proposal[n])]
  <2>2. ASSUME NEW n \in 0 .. m + 1 PROVE more[n] = next[n]
    <3>1. CASE n = m + 1
      <4>1. more[n] = ApplyEdit(stage[m], proposal[m + 1])
        BY <3>1
      <4>2. n # 0 /\ n - 1 = m /\ m \in 0 .. m + 1 /\ m # m + 1
        BY <3>1
      <4>3. next[n] = ApplyEdit(more[m], proposal[m + 1]) /\ more[m] = stage[m]
        BY <3>1, <4>2
      <4> QED
        BY <4>1, <4>3
    <3>2. CASE n = 0
      <4>1. 0 # m + 1 /\ 0 \in 0 .. m /\ 0 \in 0 .. m + 1
        OBVIOUS
      <4>2. stage[0] = start
        BY <2>1, <4>1
      <4> QED
        BY <3>2, <4>1, <4>2
    <3>3. CASE n # 0 /\ n # m + 1
      <4>1. n \in 0 .. m /\ n - 1 \in 0 .. m + 1 /\ n - 1 # m + 1
        BY <3>3
      <4>2. stage[n] = ApplyEdit(stage[n - 1], proposal[n])
        BY <2>1, <3>3, <4>1
      <4>3. more[n] = stage[n] /\ more[n - 1] = stage[n - 1]
        BY <3>3, <4>1
      <4>4. next[n] = ApplyEdit(more[n - 1], proposal[n])
        BY <3>3
      <4> QED
        BY <4>2, <4>3, <4>4
    <3> QED
      BY <3>1, <3>2, <3>3
  <2>3. more = next
    BY <2>2
  <2>4. Follows(more, m + 1)
    BY <2>3
  <2> HIDE DEF more, next, Follows
  <2>5. \E f : Follows(f, m + 1)
    BY <2>4
  <2> QED
    BY <2>5
<1>3. Len(proposal) \in S
  BY <1>1, <1>2, Induction
<1> HIDE DEF S
<1>4. PICK stage : Follows(stage, Len(proposal))
  BY <1>3 DEF S
<1>5. Follows(Stages(start, proposal), Len(proposal))
  BY <1>4 DEF Stages
<1> HIDE DEF Follows
<1>6. \A f : Follows(f, Len(proposal)) => \A n \in 0 .. Len(proposal) :
         f[n] = IF n = 0 THEN start ELSE ApplyEdit(f[n - 1], proposal[n])
  BY DEF Follows
<1> QED
  BY <1>5, <1>6
-----------------------------------------------------------------------------
Accs == [entries : [Ids -> Entry], touched : SUBSET Ids, applied : Seq(Done),
         baseline : Baselines, now : Nat \ {0}]

After(acc, edit) == IF edit.action = "delete" THEN NoEntry ELSE [at |-> acc.now, text |-> edit.text]
DoneBy(acc, edit) == [key |-> edit.key, action |-> edit.action,
                      before |-> acc.entries[edit.key], after |-> After(acc, edit)]
Accepted(acc, edit) ==
    /\ ~Invalid(edit)
    /\ ~Conflict(edit, acc.entries[edit.key], acc.baseline, acc.touched)
    /\ ~Impossible(edit, acc.entries[edit.key])

LEMMA OneEdit ==
    ASSUME NEW acc \in Accs, NEW edit \in EditType, NEW next, next = ApplyEdit(acc, edit)
    PROVE  /\ next \in Accs /\ next.now = acc.now /\ next.baseline = acc.baseline
           /\ ~Accepted(acc, edit) => next = acc
           /\ Accepted(acc, edit) =>
                 /\ next.entries = [acc.entries EXCEPT ![edit.key] = After(acc, edit)]
                 /\ next.touched = acc.touched \union {edit.key}
                 /\ next.applied = Append(acc.applied, DoneBy(acc, edit))
           /\ DoneBy(acc, edit) \in Done
<1>1. /\ edit.key \in Ids /\ edit.action \in Actions /\ edit.text \in Texts
      /\ acc.entries \in [Ids -> Entry] /\ acc.now \in Nat \ {0} /\ acc.applied \in Seq(Done)
      /\ acc.touched \in SUBSET Ids /\ acc.baseline \in Baselines
  BY DEF EditType, Accs
<1>2. After(acc, edit) \in Entry /\ DoneBy(acc, edit) \in Done
  BY <1>1 DEF After, DoneBy, Entry, Done
<1>3. CASE ~Accepted(acc, edit)
  <2>1. next = acc
    BY <1>3 DEF ApplyEdit, Accepted
  <2> QED
    BY <1>2, <1>3, <2>1
<1>4. CASE Accepted(acc, edit)
  <2>1. next = [acc EXCEPT !.entries[edit.key] = After(acc, edit), !.touched = @ \union {edit.key},
                           !.applied = Append(@, DoneBy(acc, edit))]
    BY <1>4 DEF ApplyEdit, Accepted, After, DoneBy
  <2>2. /\ next.entries = [acc.entries EXCEPT ![edit.key] = After(acc, edit)]
        /\ next.touched = acc.touched \union {edit.key}
        /\ next.applied = Append(acc.applied, DoneBy(acc, edit))
        /\ next.now = acc.now /\ next.baseline = acc.baseline
    BY <2>1 DEF Accs
  <2>3. next.entries \in [Ids -> Entry] /\ next.touched \in SUBSET Ids
    BY <1>1, <1>2, <2>2
  <2>4. next.applied \in Seq(Done)
    BY <1>1, <1>2, <2>2, AppendProperties
  <2>5. next \in Accs
    <3>1. next = [entries |-> next.entries, touched |-> next.touched, applied |-> next.applied,
                  baseline |-> next.baseline, now |-> next.now]
      BY <2>1 DEF Accs
    <3> QED
      BY <1>1, <2>2, <2>3, <2>4, <3>1 DEF Accs
  <2> QED
    BY <1>2, <1>4, <2>2, <2>5
<1> QED
  BY <1>3, <1>4

\* What every accepted or refused edit keeps holds after all of them.
LEMMA StageInduction ==
    ASSUME NEW T, NEW start \in T, NEW proposal \in Seq(EditType),
           \A acc \in T : \A edit \in EditType : ApplyEdit(acc, edit) \in T
    PROVE  Stages(start, proposal)[Len(proposal)] \in T
<1> DEFINE S == {n \in Nat : n <= Len(proposal) => Stages(start, proposal)[n] \in T}
<1>1. Len(proposal) \in Nat
  BY LenProperties
<1>2. \A n \in 0 .. Len(proposal) :
         Stages(start, proposal)[n] =
            IF n = 0 THEN start ELSE ApplyEdit(Stages(start, proposal)[n - 1], proposal[n])
  BY <1>1, StagesDefined
<1>3. 0 \in S
  BY <1>1, <1>2
<1>4. ASSUME NEW n \in Nat, n \in S PROVE n + 1 \in S
  <2> SUFFICES ASSUME n + 1 <= Len(proposal) PROVE Stages(start, proposal)[n + 1] \in T
    OBVIOUS
  <2>1. n + 1 \in 0 .. Len(proposal) /\ n + 1 # 0 /\ (n + 1) - 1 = n /\ n + 1 \in 1 .. Len(proposal)
    BY <1>1
  <2>2. Stages(start, proposal)[n + 1] = ApplyEdit(Stages(start, proposal)[n], proposal[n + 1])
    BY <1>2, <2>1
  <2>3. proposal[n + 1] \in EditType
    BY <2>1, ElementOfSeq
  <2>4. Stages(start, proposal)[n] \in T
    BY <1>1, <1>4
  <2> QED
    BY <2>2, <2>3, <2>4
<1> HIDE DEF S
<1>5. Len(proposal) \in S
  BY <1>1, <1>3, <1>4, Induction
<1> QED
  BY <1>1, <1>5 DEF S

\* All the edits of a proposal: what they touched, and what the touched entries were.
Kept(start, acc) ==
    /\ acc \in Accs /\ acc.now = start.now /\ acc.baseline = start.baseline
    /\ \A k \in Ids \ acc.touched : acc.entries[k] = start.entries[k]
    /\ \A k \in acc.touched : acc.baseline = <<>> \/ start.entries[k] = acc.baseline[k]

LEMMA AppliedKeeps ==
    ASSUME NEW entries \in [Ids -> Entry], NEW proposal \in Seq(EditType),
           NEW baseline \in Baselines, NEW now \in Nat \ {0}
    PROVE  Kept(Unapplied(entries, baseline, now), Applied(entries, proposal, baseline, now))
<1> DEFINE start == Unapplied(entries, baseline, now)
           T == {acc \in Accs : Kept(start, acc)}
<1>1. start \in Accs /\ start.touched = {}
  BY EmptySeq DEF Unapplied, Accs
<1> HIDE DEF start
<1>2. start \in T
  BY <1>1 DEF Kept
<1>3. ASSUME NEW acc \in T, NEW edit \in EditType PROVE ApplyEdit(acc, edit) \in T
  <2> DEFINE next == ApplyEdit(acc, edit)
  <2>1. acc \in Accs /\ Kept(start, acc) /\ next = ApplyEdit(acc, edit)
    OBVIOUS
  <2> HIDE DEF next
  <2>2. /\ next \in Accs /\ next.now = acc.now /\ next.baseline = acc.baseline
        /\ ~Accepted(acc, edit) => next = acc
        /\ Accepted(acc, edit) =>
              /\ next.entries = [acc.entries EXCEPT ![edit.key] = After(acc, edit)]
              /\ next.touched = acc.touched \union {edit.key}
    BY <2>1, OneEdit
  <2>3. edit.key \in Ids /\ acc.entries \in [Ids -> Entry]
    BY <2>1 DEF Accs, EditType
  <2>4. Kept(start, next)
    <3>1. CASE Accepted(acc, edit)
      <4>1. \A k \in Ids \ next.touched : next.entries[k] = start.entries[k]
        BY <2>1, <2>2, <2>3, <3>1 DEF Kept
      <4>2. next.baseline = <<>> \/ edit.key \in acc.touched \/ acc.entries[edit.key] = acc.baseline[edit.key]
        BY <2>2, <3>1 DEF Accepted, Conflict
      <4>3. next.baseline = <<>> \/ start.entries[edit.key] = next.baseline[edit.key]
        BY <2>1, <2>2, <2>3, <4>2 DEF Kept
      <4>4. \A k \in next.touched : next.baseline = <<>> \/ start.entries[k] = next.baseline[k]
        BY <2>1, <2>2, <3>1, <4>3 DEF Kept
      <4> QED
        BY <2>1, <2>2, <4>1, <4>4 DEF Kept
    <3> QED
      BY <2>1, <2>2, <3>1
  <2> QED
    BY <2>2, <2>4 DEF next
<1> HIDE DEF T
<1>4. Stages(start, proposal)[Len(proposal)] \in T
  BY <1>2, <1>3, StageInduction
<1> QED
  BY <1>4 DEF T, start, Applied

-----------------------------------------------------------------------------
\* What a pass recorded can be undone step by step: each edit of an entry found
\* what the edit before it had left.
Latest(acc) ==
    \A i \in 1 .. Len(acc.applied) :
        (\A m \in 1 .. Len(acc.applied) : i < m => acc.applied[m].key # acc.applied[i].key)
        => acc.entries[acc.applied[i].key] = acc.applied[i].after

LEMMA NoEntryHas == NoEntry.at = 0 /\ NoEntry.text = ""
  BY DEF NoEntry
LEMMA EntryHas == \A at, text : [at |-> at, text |-> text].at = at /\ [at |-> at, text |-> text].text = text
  OBVIOUS

LEMMA EditChained ==
    ASSUME NEW acc \in Accs, Chained(acc.applied), Latest(acc), NEW edit \in EditType,
           NEW next, next = ApplyEdit(acc, edit)
    PROVE  Chained(next.applied) /\ Latest(next)
<1>1. /\ ~Accepted(acc, edit) => next = acc
      /\ Accepted(acc, edit) =>
            /\ next.entries = [acc.entries EXCEPT ![edit.key] = After(acc, edit)]
            /\ next.applied = Append(acc.applied, DoneBy(acc, edit))
      /\ DoneBy(acc, edit) \in Done
  BY OneEdit
<1>2. CASE ~Accepted(acc, edit)
  BY <1>1, <1>2
<1>3. CASE Accepted(acc, edit)
  <2> DEFINE old == acc.applied
             new == next.applied
             done == DoneBy(acc, edit)
  <2>1. /\ done.key = edit.key /\ done.before = acc.entries[edit.key] /\ done.after = After(acc, edit)
        /\ edit.key \in Ids /\ acc.entries \in [Ids -> Entry] /\ old \in Seq(Done)
    BY DEF DoneBy, Accs, EditType
  <2>2. /\ Len(old) \in Nat /\ Len(new) = Len(old) + 1
        /\ \A i \in 1 .. Len(old) : new[i] = old[i]
        /\ new[Len(old) + 1] = done
    BY <1>1, <1>3, <2>1, AppendProperties, LenProperties
  <2> HIDE DEF old, new, done
  <2>3. \A i : i \in 1 .. Len(new) <=> i \in 1 .. Len(old) \/ i = Len(old) + 1
    BY <2>2
  <2>4. /\ next.entries[edit.key] = done.after
        /\ \A k \in Ids \ {edit.key} : next.entries[k] = acc.entries[k]
    BY <1>1, <1>3, <2>1
  <2>5. /\ done.after.at # 0 => done.after.text # ""
        /\ done.before.at # 0 \/ done.after.at # 0
    <3>1. CASE edit.action = "delete"
      <4>3. done.after = NoEntry
        BY <2>1, <3>1 DEF After
      <4>1. done.after.at = 0
        BY <4>3, NoEntryHas
      <4>2. Present(done.before)
        BY <1>3, <2>1, <3>1 DEF Accepted, Impossible, Present
      <4> QED
        BY <4>1, <4>2 DEF Present
    <3>2. CASE edit.action # "delete"
      <4>1. edit.text # ""
        BY <1>3, <3>2 DEF Accepted, Invalid
      <4>2. done.after = [at |-> acc.now, text |-> edit.text] /\ acc.now # 0
        BY <2>1, <3>2 DEF After, Accs
      <4>3. done.after.text = edit.text /\ done.after.at = acc.now
        BY <4>2, EntryHas
      <4> QED
        BY <4>1, <4>2, <4>3
    <3> QED
      BY <3>1, <3>2
  <2>6. \A i \in 1 .. Len(old) : old[i].key \in Ids
    <3>1. \A i \in 1 .. Len(old) : old[i] \in Done
      BY <2>1, ElementOfSeq
    <3> QED
      BY <3>1 DEF Done
  <2>7. ASSUME NEW i \in 1 .. Len(new)
        PROVE  /\ new[i].after.at # 0 => new[i].after.text # ""
               /\ new[i].before.at # 0 \/ new[i].after.at # 0
    BY <2>2, <2>3, <2>5 DEF Chained, old
  <2>8. ASSUME NEW i \in 1 .. Len(new), NEW j \in 1 .. Len(new), i < j, new[i].key = new[j].key,
               \A m \in 1 .. Len(new) : i < m /\ m < j => new[m].key # new[j].key
        PROVE  new[j].before = new[i].after
    <3>1. i \in 1 .. Len(old)
      BY <2>2, <2>3, <2>8
    <3>2. CASE j \in 1 .. Len(old)
      <4>1. \A m \in 1 .. Len(old) : i < m /\ m < j => old[m].key # old[j].key
        BY <2>2, <2>3, <2>8, <3>2
      <4> QED
        BY <2>2, <2>8, <3>1, <3>2, <4>1 DEF Chained, old
    <3>3. CASE j = Len(old) + 1
      <4>1. \A m \in 1 .. Len(old) : i < m => old[m].key # old[i].key
        BY <2>2, <2>3, <2>8, <3>1, <3>3
      <4>2. acc.entries[old[i].key] = old[i].after
        BY <3>1, <4>1 DEF Latest, old
      <4>3. new[i] = old[i] /\ new[j] = done /\ old[i].key = edit.key
        BY <2>1, <2>2, <2>8, <3>1, <3>3
      <4> QED
        BY <2>1, <4>2, <4>3
    <3> QED
      BY <2>3, <3>2, <3>3
  <2>9. ASSUME NEW i \in 1 .. Len(new), \A m \in 1 .. Len(new) : i < m => new[m].key # new[i].key
        PROVE  next.entries[new[i].key] = new[i].after
    <3>1. CASE i = Len(old) + 1
      BY <2>1, <2>2, <2>4, <3>1
    <3>2. CASE i \in 1 .. Len(old)
      <4>1. new[i] = old[i] /\ i < Len(old) + 1 /\ Len(old) + 1 \in 1 .. Len(new)
        BY <2>2, <3>2
      <4>2. old[i].key # edit.key
        BY <2>1, <2>2, <2>9, <4>1
      <4>3. \A m \in 1 .. Len(old) : i < m => old[m].key # old[i].key
        BY <2>2, <2>3, <2>9, <3>2
      <4>4. acc.entries[old[i].key] = old[i].after
        BY <3>2, <4>3 DEF Latest, old
      <4> QED
        BY <2>4, <2>6, <3>2, <4>1, <4>2, <4>4
    <3> QED
      BY <2>3, <3>1, <3>2
  <2>10. Chained(new)
    BY <2>7, <2>8 DEF Chained
  <2>11. Latest(next)
    BY <2>9 DEF Latest, new
  <2> QED
    BY <2>10, <2>11 DEF new
<1> QED
  BY <1>2, <1>3

LEMMA NothingChained == <<>> \in Seq(Done) /\ Chained(<<>>)
<1>1. <<>> \in Seq(Done) /\ Len(<<>>) = 0
  BY EmptySeq
<1> QED
  BY <1>1 DEF Chained

LEMMA AppliedChained ==
    ASSUME NEW entries \in [Ids -> Entry], NEW proposal \in Seq(EditType),
           NEW baseline \in Baselines, NEW now \in Nat \ {0}
    PROVE  Chained(Applied(entries, proposal, baseline, now).applied)
<1> DEFINE start == Unapplied(entries, baseline, now)
           T == {acc \in Accs : Chained(acc.applied) /\ Latest(acc)}
<1>1. start \in Accs /\ start.applied = <<>>
  BY EmptySeq DEF Unapplied, Accs
<1> HIDE DEF start
<1>2. start \in T
  <2>1. Latest(start)
    <3>1. \A i : i \notin 1 .. Len(start.applied)
      BY <1>1, EmptySeq
    <3> QED
      BY <3>1 DEF Latest
  <2> QED
    BY <1>1, <2>1, NothingChained
<1>3. ASSUME NEW acc \in T, NEW edit \in EditType PROVE ApplyEdit(acc, edit) \in T
  <2> DEFINE next == ApplyEdit(acc, edit)
  <2>1. acc \in Accs /\ Chained(acc.applied) /\ Latest(acc) /\ next = ApplyEdit(acc, edit)
    OBVIOUS
  <2> HIDE DEF next
  <2>2. next \in Accs
    BY <2>1, OneEdit
  <2>3. Chained(next.applied) /\ Latest(next)
    BY <2>1, EditChained
  <2> QED
    BY <2>2, <2>3 DEF next
<1> HIDE DEF T
<1>4. Stages(start, proposal)[Len(proposal)] \in T
  BY <1>2, <1>3, StageInduction
<1> QED
  BY <1>4 DEF T, start, Applied

-----------------------------------------------------------------------------
\* Undoing what a pass recorded, newest first: with n edits left to undo, each
\* entry is as the last of these left it, or as the pass found it.
Alike(one, other) == (Present(one) <=> Present(other)) /\ one.text = other.text
Wordless(entry) == Present(entry) /\ entry.text = ""

Undoing(acc, applied, n) ==
    /\ acc \in Accs /\ acc.baseline = <<>>
    /\ \A i \in 1 .. n :
          (\A m \in 1 .. n : i < m => applied[m].key # applied[i].key)
          => Alike(acc.entries[applied[i].key], applied[i].after)
    /\ \A i \in 1 .. Len(applied) :
          i > n /\ (\A m \in 1 .. Len(applied) : m < i => applied[m].key # applied[i].key)
          => Wordless(applied[i].before) \/ Alike(acc.entries[applied[i].key], applied[i].before)

LEMMA UndoTypes == \A done \in Done : Undo(done) \in EditType /\ Undo(done).key = done.key
<1> SUFFICES ASSUME NEW done \in Done PROVE Undo(done) \in EditType /\ Undo(done).key = done.key
  OBVIOUS
<1>1. done.key \in Ids /\ done.before \in Entry /\ "" \in Texts
  BY DEF Done, Texts
<1>2. done.before.text \in Texts
  <2>1. CASE done.before = NoEntry
    BY <1>1, <2>1, NoEntryHas
  <2>2. CASE done.before # NoEntry
    BY <1>1, <2>2 DEF Entry
  <2> QED
    BY <2>1, <2>2
<1> QED
  BY <1>1, <1>2 DEF Undo, EditType, Actions

\* One step back.
LEMMA UndoOne ==
    ASSUME NEW acc \in Accs, acc.baseline = <<>>, NEW done \in Done,
           Alike(acc.entries[done.key], done.after),
           Present(done.before) \/ Present(done.after),
           NEW next, next = ApplyEdit(acc, Undo(done))
    PROVE  /\ next \in Accs /\ next.baseline = <<>>
           /\ \A k \in Ids \ {done.key} : next.entries[k] = acc.entries[k]
           /\ Wordless(done.before) \/ Alike(next.entries[done.key], done.before)
<1> DEFINE edit == Undo(done)
<1>1. edit \in EditType /\ edit.key = done.key /\ done.key \in Ids /\ acc.entries \in [Ids -> Entry]
  BY UndoTypes DEF Done, Accs
<1>2. /\ Present(done.before) => edit.text = done.before.text /\ edit.action # "delete"
      /\ Present(done.before) => (edit.action = "create" <=> ~Present(done.after))
      /\ ~Present(done.before) => edit.action = "delete"
  BY DEF Undo
<1>3. next = ApplyEdit(acc, edit)
  OBVIOUS
<1> HIDE DEF edit
<1>4. /\ next \in Accs /\ next.baseline = <<>>
      /\ ~Accepted(acc, edit) => next = acc
      /\ Accepted(acc, edit) => next.entries = [acc.entries EXCEPT ![edit.key] = After(acc, edit)]
  BY <1>1, <1>3, OneEdit
<1>5. \A k \in Ids \ {done.key} : next.entries[k] = acc.entries[k]
  BY <1>1, <1>4
<1>6. ASSUME ~Wordless(done.before) PROVE Alike(next.entries[done.key], done.before)
  <2>1. ~Invalid(edit)
    BY <1>2, <1>6 DEF Invalid, Wordless
  <2>2. ~Conflict(edit, acc.entries[edit.key], acc.baseline, acc.touched)
    BY DEF Conflict
  <2>3. ~Impossible(edit, acc.entries[edit.key])
    BY <1>1, <1>2 DEF Impossible, Alike
  <2>4. next.entries[done.key] = After(acc, edit)
    BY <1>1, <1>4, <2>1, <2>2, <2>3 DEF Accepted
  <2>5. CASE Present(done.before)
    <3>1. After(acc, edit) = [at |-> acc.now, text |-> done.before.text] /\ acc.now # 0
      BY <1>2, <2>5 DEF After, Accs
    <3>2. next.entries[done.key].at # 0 /\ next.entries[done.key].text = done.before.text
      BY <2>4, <3>1, EntryHas
    <3> QED
      BY <2>5, <3>2 DEF Alike, Present
  <2>6. CASE ~Present(done.before)
    <3>1. After(acc, edit) = NoEntry
      BY <1>2, <2>6 DEF After
    <3>2. done.before \in Entry
      BY DEF Done
    <3>3. done.before = NoEntry
      BY <2>6, <3>2 DEF Entry, Present
    <3> QED
      BY <2>4, <3>1, <3>3 DEF Alike
  <2> QED
    BY <2>5, <2>6
<1> QED
  BY <1>4, <1>5, <1>6

LEMMA UndoingStep ==
    ASSUME NEW applied \in Seq(Done), Chained(applied), NEW n \in 1 .. Len(applied),
           NEW acc, Undoing(acc, applied, n), NEW next, next = ApplyEdit(acc, Undo(applied[n]))
    PROVE  Undoing(next, applied, n - 1)
<1> DEFINE done == applied[n]
<1>1. /\ Len(applied) \in Nat /\ n \in Nat /\ n - 1 \in Nat
      /\ \A i : i \in 1 .. n <=> i \in 1 .. n - 1 \/ i = n
      /\ \A i \in 1 .. n : i \in 1 .. Len(applied)
      /\ \A i \in 1 .. n - 1 : i < n
  BY LenProperties
<1>2. \A i \in 1 .. Len(applied) : applied[i] \in Done /\ applied[i].key \in Ids
  <2>1. \A i \in 1 .. Len(applied) : applied[i] \in Done
    BY ElementOfSeq
  <2> QED
    BY <2>1 DEF Done
<1>3. Alike(acc.entries[done.key], done.after)
  <2>1. \A m \in 1 .. n : ~(n < m)
    BY <1>1
  <2> QED
    BY <1>1, <2>1 DEF Undoing
<1>4. Present(done.before) \/ Present(done.after)
  BY <1>1 DEF Chained, Present
<1>5. /\ next \in Accs /\ next.baseline = <<>>
      /\ \A k \in Ids \ {done.key} : next.entries[k] = acc.entries[k]
      /\ Wordless(done.before) \/ Alike(next.entries[done.key], done.before)
  BY <1>2, <1>3, <1>4, UndoOne DEF Undoing
<1>6. ASSUME NEW i \in 1 .. n - 1, \A m \in 1 .. n - 1 : i < m => applied[m].key # applied[i].key
      PROVE  Alike(next.entries[applied[i].key], applied[i].after)
  <2>1. i \in 1 .. n /\ i \in 1 .. Len(applied) /\ i < n
    BY <1>1
  <2>2. CASE applied[i].key # done.key
    <3>1. \A m \in 1 .. n : i < m => applied[m].key # applied[i].key
      BY <1>1, <1>6, <2>2
    <3>2. Alike(acc.entries[applied[i].key], applied[i].after)
      BY <2>1, <3>1 DEF Undoing
    <3> QED
      BY <1>2, <1>5, <2>1, <2>2, <3>2
  <2>3. CASE applied[i].key = done.key
    <3>1. \A m \in 1 .. Len(applied) : i < m /\ m < n => applied[m].key # applied[n].key
      <4>1. \A m \in 1 .. Len(applied) : m < n => m \in 1 .. n - 1
        BY <1>1
      <4> QED
        BY <1>6, <2>3, <4>1
    <3>2. done.before = applied[i].after
      BY <2>1, <2>3, <3>1 DEF Chained
    <3>3. ~Wordless(done.before)
      BY <2>1, <3>2 DEF Wordless, Present, Chained
    <3> QED
      BY <1>5, <2>3, <3>2, <3>3
  <2> QED
    BY <2>2, <2>3
<1>7. ASSUME NEW i \in 1 .. Len(applied), i > n - 1,
             \A m \in 1 .. Len(applied) : m < i => applied[m].key # applied[i].key
      PROVE  Wordless(applied[i].before) \/ Alike(next.entries[applied[i].key], applied[i].before)
  <2>1. CASE i = n
    BY <1>5, <2>1
  <2>2. CASE i # n
    <3>1. i > n /\ n \in 1 .. Len(applied) /\ n < i
      BY <1>1, <1>7, <2>2
    <3>2. applied[i].key # done.key
      BY <1>7, <3>1
    <3>3. Wordless(applied[i].before) \/ Alike(acc.entries[applied[i].key], applied[i].before)
      BY <1>7, <3>1 DEF Undoing
    <3> QED
      BY <1>2, <1>5, <3>2, <3>3
  <2> QED
    BY <2>1, <2>2
<1> HIDE DEF done
<1> QED
  BY <1>5, <1>6, <1>7 DEF Undoing

LEMMA LeastOne ==
    ASSUME NEW T \in SUBSET Nat, T # {}
    PROVE  \E x \in T : \A y \in T : x <= y
<1> DEFINE R == {ss \in Nat \X Nat : ss[1] < ss[2]}
<1>1. IsWellFoundedOn(R, Nat)
  BY NatLessThanWellFounded DEF OpToRel
<1> HIDE DEF R
<1>2. PICK x \in T : \A y \in T : ~(<<y, x>> \in R)
  BY <1>1, WFMin
<1>3. ASSUME NEW y \in T PROVE x <= y
  <2>1. x \in Nat /\ y \in Nat
    OBVIOUS
  <2>2. ~(y < x)
    BY <1>2, <2>1 DEF R
  <2> QED
    BY <2>1, <2>2
<1> QED
  BY <1>3

LEMMA RollbackTypes ==
    ASSUME NEW applied \in Seq(Done)
    PROVE  RollbackProposal([applied |-> applied]) \in Seq(EditType)
<1> DEFINE last == Len(applied)
<1>1. last \in Nat /\ \A i \in 1 .. last : applied[i] \in Done
  BY LenProperties, ElementOfSeq
<1>2. RollbackProposal([applied |-> applied]) = [i \in 1 .. last |-> Undo(applied[(last - i) + 1])]
  <2>1. \A i \in 1 .. last : Reverse(applied)[i] = applied[(last - i) + 1]
    BY DEF Reverse
  <2> QED
    BY <2>1 DEF RollbackProposal
<1> HIDE DEF last
<1>3. \A i \in 1 .. last : (last - i) + 1 \in 1 .. last
  BY <1>1
<1>4. RollbackProposal([applied |-> applied]) \in [1 .. last -> EditType]
  BY <1>1, <1>2, <1>3, UndoTypes
<1> QED
  BY <1>1, <1>4, IsASeq

\* Undoing all of it puts back what can be put back.
LEMMA UndoneAll ==
    ASSUME NEW entries \in [Ids -> Entry], NEW applied \in Seq(Done), Chained(applied),
           NEW now \in Nat \ {0},
           \A k \in TouchedBy(applied) : entries[k] = AfterIn(applied, k),
           NEW proposal, proposal = RollbackProposal([applied |-> applied])
    PROVE  /\ proposal \in Seq(EditType)
           /\ \A k \in TouchedBy(applied) :
                 \/ Wordless(BeforeIn(applied, k))
                 \/ Alike(Applied(entries, proposal, <<>>, now).entries[k], BeforeIn(applied, k))
<1> DEFINE last == Len(applied)
           start == Unapplied(entries, <<>>, now)
           S == {n \in Nat : n <= last => Undoing(Stages(start, proposal)[n], applied, last - n)}
<1>1. last \in Nat /\ DOMAIN applied = 1 .. last
  BY LenProperties
<1>2. \A i \in 1 .. last : applied[i] \in Done
  BY ElementOfSeq
<1>3. proposal = [i \in 1 .. last |-> Undo(applied[(last - i) + 1])]
  <2>1. \A i \in 1 .. last : Reverse(applied)[i] = applied[(last - i) + 1]
    BY DEF Reverse
  <2> QED
    BY <2>1 DEF RollbackProposal
<1> HIDE DEF last
<1>4. \A i \in 1 .. last : (last - i) + 1 \in 1 .. last
  BY <1>1
<1>5. proposal \in [1 .. last -> EditType]
  BY <1>2, <1>3, <1>4, UndoTypes
<1>6. proposal \in Seq(EditType) /\ Len(proposal) = last
  BY <1>1, <1>5, IsASeq, LenProperties
<1>7. \A n \in 0 .. last :
         Stages(start, proposal)[n] =
            IF n = 0 THEN start ELSE ApplyEdit(Stages(start, proposal)[n - 1], proposal[n])
  BY <1>1, <1>6, StagesDefined
<1>8. start \in Accs /\ start.baseline = <<>> /\ start.entries = entries
  BY EmptySeq DEF Unapplied, Accs, Baselines
<1> HIDE DEF start
<1>9. Undoing(start, applied, last)
  <2>1. ASSUME NEW i \in 1 .. last, \A m \in 1 .. last : i < m => applied[m].key # applied[i].key
        PROVE  entries[applied[i].key] = applied[i].after
    <3> DEFINE k == applied[i].key
    <3>1. i \in EditsOf(applied, k) /\ k \in TouchedBy(applied)
      BY <1>1 DEF EditsOf, TouchedBy
    <3>2. \A j \in EditsOf(applied, k) : j \in 1 .. last /\ j <= i
      BY <1>1, <2>1 DEF EditsOf
    <3> HIDE DEF k
    <3>3. \A j \in EditsOf(applied, k) : (\A m \in EditsOf(applied, k) : m <= j) => j = i
      BY <1>1, <3>1, <3>2
    <3>4. (CHOOSE j \in EditsOf(applied, k) : \A m \in EditsOf(applied, k) : m <= j) = i
      BY <3>1, <3>2, <3>3
    <3> QED
      BY <3>1, <3>4 DEF AfterIn, k
  <2>2. \A i \in 1 .. Len(applied) : ~(i > last)
    BY <1>1 DEF last
  <2> QED
    BY <1>8, <2>1, <2>2 DEF Undoing, Alike
<1>10. 0 \in S
  <2>1. 0 \in 0 .. last /\ last - 0 = last
    BY <1>1
  <2> QED
    BY <1>7, <1>9, <2>1
<1>11. ASSUME NEW n \in Nat, n \in S PROVE n + 1 \in S
  <2> SUFFICES ASSUME n + 1 <= last PROVE Undoing(Stages(start, proposal)[n + 1], applied, last - (n + 1))
    OBVIOUS
  <2>1. /\ n + 1 \in 0 .. last /\ n + 1 # 0 /\ (n + 1) - 1 = n /\ n + 1 \in 1 .. last /\ n <= last
        /\ last - n \in 1 .. Len(applied) /\ (last - (n + 1)) + 1 = last - n /\ (last - n) - 1 = last - (n + 1)
    BY <1>1 DEF last
  <2>2. Stages(start, proposal)[n + 1] = ApplyEdit(Stages(start, proposal)[n], proposal[n + 1])
    BY <1>7, <2>1
  <2>3. proposal[n + 1] = Undo(applied[last - n])
    BY <1>3, <2>1
  <2>4. Undoing(Stages(start, proposal)[n], applied, last - n)
    BY <1>11, <2>1
  <2>5. Undoing(Stages(start, proposal)[n + 1], applied, (last - n) - 1)
    BY <2>1, <2>2, <2>3, <2>4, UndoingStep
  <2> QED
    BY <2>1, <2>5
<1> HIDE DEF S
<1>12. last \in S
  BY <1>1, <1>10, <1>11, Induction
<1>13. Undoing(Stages(start, proposal)[last], applied, 0)
  <2>1. last - last = 0 /\ last <= last
    BY <1>1
  <2> QED
    BY <1>12, <2>1 DEF S
<1>14. Applied(entries, proposal, <<>>, now) = Stages(start, proposal)[last]
  BY <1>6 DEF Applied, start
<1>15. ASSUME NEW k \in TouchedBy(applied)
       PROVE  \/ Wordless(BeforeIn(applied, k))
              \/ Alike(Applied(entries, proposal, <<>>, now).entries[k], BeforeIn(applied, k))
  <2> DEFINE T == EditsOf(applied, k)
             first == CHOOSE i \in T : \A j \in T : i <= j
  <2>1. T \in SUBSET Nat /\ T # {}
    BY <1>1 DEF EditsOf, TouchedBy
  <2> HIDE DEF T
  <2>2. first \in T /\ \A j \in T : first <= j
    BY <2>1, LeastOne
  <2>3. BeforeIn(applied, k) = applied[first].before
    BY DEF BeforeIn, T
  <2> HIDE DEF first
  <2>4. first \in 1 .. Len(applied) /\ applied[first].key = k
    BY <1>1, <2>2 DEF T, EditsOf, last
  <2>5. \A m \in 1 .. Len(applied) : m < first => applied[m].key # k
    <3>1. \A m \in 1 .. Len(applied) : applied[m].key = k => m \in T
      BY <1>1 DEF T, EditsOf, last
    <3> QED
      BY <2>2, <2>4, <3>1
  <2>6. first > 0
    BY <2>4
  <2> QED
    BY <1>13, <1>14, <2>3, <2>4, <2>5, <2>6 DEF Undoing
<1> QED
  BY <1>6, <1>15

-----------------------------------------------------------------------------
\* What is written over entries: the ones it names are its, the others stay.
LEMMA Overlay ==
    ASSUME NEW f \in [Ids -> Entry], NEW K \in SUBSET Ids, NEW g \in [K -> Entry]
    PROVE  /\ Overwrite(f, g) \in [Ids -> Entry]
           /\ \A k \in Ids : Overwrite(f, g)[k] = IF k \in K THEN g[k] ELSE f[k]
  BY DEF Overwrite

LEMMA StoreOfTypes == \A e \in Engines : \A scope \in Scopes : StoreOf(e, scope) \in Stores
  BY DEF StoreOf, Stores

\* A write that succeeds: the file, and with it what the writes add up to.
LEMMA Saved ==
    ASSUME HarnessTypes, FileIsItsWrites, NEW s \in Stores, NEW file \in File, time' \in Nat,
           Save(s, file), NEW new, NEW events,
           file.entries = Overwrite(disk[s].entries, new), file.events = events \union disk[s].events,
           Writes(s, new, events)
    PROVE  /\ disk' \in [Stores -> File] /\ FileIsItsWrites'
           /\ lock' \in [Stores -> Engines \union Writers \union {Free}]
           /\ written' \in [Stores -> [entries : [Ids -> Entry], events : SUBSET Nat]]
           /\ \A t \in Stores \ {s} : disk'[t] = disk[t] /\ lock'[t] = lock[t]
           /\ disk'[s].entries = file.entries /\ disk'[s].events = file.events
<1>1. disk' = [disk EXCEPT ![s] = [file EXCEPT !.mtime = time']] /\ lock' = [lock EXCEPT ![s] = Free]
  BY DEF Save
<1>2. PICK full \in File : full = [file EXCEPT !.mtime = time'] /\ full.entries = file.entries /\ full.events = file.events
  <2>1. \A n \in Nat : [file EXCEPT !.mtime = n] \in File
                     /\ [file EXCEPT !.mtime = n].entries = file.entries
                     /\ [file EXCEPT !.mtime = n].events = file.events
    BY DEF File
  <2>2. PICK now \in Nat : now = time'
    OBVIOUS
  <2> QED
    BY <2>1, <2>2
<1>3. disk \in [Stores -> File] /\ lock \in [Stores -> Engines \union Writers \union {Free}]
  BY DEF HarnessTypes
<1>4. /\ disk' \in [Stores -> File] /\ disk'[s] = full
      /\ lock' \in [Stores -> Engines \union Writers \union {Free}]
      /\ \A t \in Stores \ {s} : disk'[t] = disk[t] /\ lock'[t] = lock[t]
  BY <1>1, <1>2, <1>3
<1>5. written' = [written EXCEPT ![s] = [entries |-> Overwrite(written[s].entries, new), events |-> events \union written[s].events]]
  BY DEF Writes
<1>6. written[s].entries = disk[s].entries /\ written[s].events = disk[s].events
  BY DEF FileIsItsWrites
<1>7. written' = [written EXCEPT ![s] = [entries |-> file.entries, events |-> file.events]]
  BY <1>5, <1>6
<1>8. file.entries \in [Ids -> Entry] /\ file.events \in SUBSET Nat
  BY DEF File
<1>9. /\ written' \in [Stores -> [entries : [Ids -> Entry], events : SUBSET Nat]]
      /\ written'[s].entries = file.entries /\ written'[s].events = file.events
      /\ \A t \in Stores \ {s} : written'[t] = written[t]
  BY <1>7, <1>8 DEF HarnessTypes
<1>10. FileIsItsWrites'
  BY <1>2, <1>4, <1>9 DEF FileIsItsWrites
<1> QED
  BY <1>2, <1>4, <1>9, <1>10

\* Changing entries and adding events makes a file of a file.
LEMMA FileParts == \A file \in File : file.entries \in [Ids -> Entry] /\ file.events \in SUBSET Nat
  BY DEF File

LEMMA EmptyIsFile == Empty \in File /\ NoEntry \in Entry
  BY DEF Empty, File, Entry

\* The holder of a lock has the file as it is; nobody else has that lock.
LEMMA WriteEnds ==
    ASSUME HarnessInv, NEW w \in Writers, Leave(w), time' = time + 1,
           NEW file \in File, NEW new, NEW events,
           file.entries = Overwrite(disk[hand[w].store].entries, new),
           file.events = events \union disk[hand[w].store].events,
           Save(hand[w].store, file), Writes(hand[w].store, new, events), results' = results
    PROVE  HarnessInv'
<1> DEFINE s == hand[w].store
<1>1. s \in Stores /\ lock[s] = w /\ time' \in Nat
  BY DEF HarnessInv, HarnessTypes, LockInv, Leave
<1>2. /\ disk' \in [Stores -> File] /\ FileIsItsWrites'
      /\ lock' \in [Stores -> Engines \union Writers \union {Free}]
      /\ written' \in [Stores -> [entries : [Ids -> Entry], events : SUBSET Nat]]
      /\ \A t \in Stores \ {s} : disk'[t] = disk[t] /\ lock'[t] = lock[t]
  BY <1>1, Saved DEF HarnessInv
<1>3. /\ hand' \in [Writers -> [at : {"in", "out"}, store : Stores, file : File]]
      /\ hand'[w].at = "out" /\ \A v \in Writers \ {w} : hand'[v] = hand[v]
  <2>1. Out \in [at : {"in", "out"}, store : Stores, file : File] /\ Out.at = "out"
    BY EmptyIsFile DEF Out, Stores
  <2> QED
    BY <2>1 DEF Leave, HarnessInv, HarnessTypes
<1>4. UNCHANGED <<cache, pass, results>>
  BY DEF Leave, unchangedPasses
<1> HIDE DEF s
<1>5. ASSUME NEW v \in Writers, hand'[v].at = "in"
      PROVE  lock'[hand'[v].store] = v /\ hand'[v].file = disk'[hand'[v].store]
  <2>1. v # w /\ hand'[v] = hand[v] /\ hand[v].store \in Stores
    BY <1>3, <1>5 DEF HarnessInv, HarnessTypes
  <2>2. lock[hand[v].store] = v /\ hand[v].file = disk[hand[v].store]
    BY <1>5, <2>1 DEF HarnessInv, LockInv
  <2> QED
    BY <1>1, <1>2, <2>1, <2>2
<1>6. ASSUME NEW e \in Engines, pass[e].at = "apply"
      PROVE  /\ lock'[StoreOf(e, pass[e].scope)] = e
             /\ cache[e][pass[e].scope] = disk'[StoreOf(e, pass[e].scope)]
  <2>1. e # w
    BY HarnessConstants
  <2>2. StoreOf(e, pass[e].scope) \in Stores
    BY StoreOfTypes DEF HarnessInv, HarnessTypes, Passes
  <2>3. /\ lock[StoreOf(e, pass[e].scope)] = e
        /\ cache[e][pass[e].scope] = disk[StoreOf(e, pass[e].scope)]
    BY <1>6 DEF HarnessInv, LockInv
  <2> QED
    BY <1>1, <1>2, <2>1, <2>2, <2>3
<1>7. HarnessTypes'
  BY <1>1, <1>2, <1>3, <1>4 DEF HarnessInv, HarnessTypes
<1>8. LockInv'
  BY <1>4, <1>5, <1>6 DEF LockInv
<1>9. PassInv'
  BY <1>4 DEF HarnessInv, PassInv
<1> QED
  BY <1>2, <1>7, <1>8, <1>9 DEF HarnessInv

ByWriter(w) ==
    \/ \E s \in Stores : Enter(w, s)
    \/ \E k \in Ids : Delete(w, k) \/ \E text \in {"", "noted"} : Put(w, k, text)
    \/ \E gone \in SUBSET Episodes : Prune(w, gone)
    \/ Record(w) \/ Refused(w)

LEMMA WriterStep ==
    ASSUME HarnessInv, NEW w \in Writers, ByWriter(w)
    PROVE  HarnessInv'
<1> DEFINE h == hand[w]
<1>1. h.store \in Stores /\ h.file \in File /\ time \in Nat
  BY DEF HarnessInv, HarnessTypes
<1>2. h.at = "in" => h.file = disk[h.store]
  BY DEF HarnessInv, LockInv
<1>3. Keys \subseteq Ids /\ Episodes \subseteq Ids
  BY DEF Ids
<1>4. /\ h.file.entries \in [Ids -> Entry] /\ h.file.events \in SUBSET Nat
      /\ {} \union h.file.events = h.file.events
  BY <1>1, FileParts
<1>11. time + 1 \in Nat \ {0} /\ h.file.events \union {time + 1} \in SUBSET Nat
  BY <1>1, <1>4
<1>5. CASE \E k \in Ids, text \in {"", "noted"} : Put(w, k, text)
  <2>1. PICK k \in Keys, text \in {"", "noted"} : Put(w, k, text)
    BY <1>5 DEF Put
  <2> DEFINE new == NewEntry(k, text, time + 1)
             file == [h.file EXCEPT !.entries = Overwrite(@, new)]
  <2>2. Overwrite(h.file.entries, new) \in [Ids -> Entry]
    <3>1. new \in [{k} -> Entry] /\ {k} \in SUBSET Ids
      <4>1. [at |-> time + 1, text |-> text] \in Entry
        <5>1. [at |-> time + 1, text |-> text] \in [at : Nat \ {0}, text : Texts]
          <6>1. text \in Texts
            BY DEF Texts
          <6> QED
            BY <1>11, <6>1
        <5> QED
          BY <5>1 DEF Entry
      <4> QED
        BY <1>3, <4>1 DEF NewEntry, Only
    <3> HIDE DEF new, h
    <3> QED
      BY <1>4, <3>1 DEF Overwrite
  <2>3. /\ file = [h.file EXCEPT !.entries = Overwrite(h.file.entries, new)]
        /\ Leave(w) /\ time' = time + 1 /\ results' = results
        /\ Save(h.store, file) /\ Writes(h.store, new, {})
    BY <2>1 DEF Put
  <2> HIDE DEF new, file, h
  <2>4. /\ file \in File /\ file.entries = Overwrite(h.file.entries, new)
        /\ file.events = h.file.events
    BY <1>1, <2>2, <2>3 DEF File
  <2>5. h.at = "in"
    BY <2>3 DEF Leave, h
  <2> QED
    BY <1>2, <1>4, <2>3, <2>4, <2>5, WriteEnds DEF h
<1>6. CASE \E k \in Ids : Delete(w, k)
  <2>1. PICK k \in Keys : Delete(w, k)
    BY <1>6 DEF Delete
  <2> DEFINE new == Only(k, NoEntry)
             file == [h.file EXCEPT !.entries[k] = NoEntry]
  <2>2. /\ Overwrite(h.file.entries, new) \in [Ids -> Entry]
        /\ [h.file.entries EXCEPT ![k] = NoEntry] = Overwrite(h.file.entries, new)
    <3>1. new \in [{k} -> Entry] /\ new[k] = NoEntry /\ {k} \in SUBSET Ids
      BY <1>3, EmptyIsFile DEF Only
    <3> HIDE DEF new, h
    <3>2. /\ Overwrite(h.file.entries, new) \in [Ids -> Entry]
          /\ \A id \in Ids : Overwrite(h.file.entries, new)[id] = IF id \in {k} THEN new[id] ELSE h.file.entries[id]
      BY <1>4, <3>1 DEF Overwrite
    <3>3. \A id \in Ids : [h.file.entries EXCEPT ![k] = NoEntry][id] = Overwrite(h.file.entries, new)[id]
      BY <1>3, <1>4, <3>1, <3>2
    <3> QED
      BY <1>4, <3>2, <3>3
  <2>3. /\ file = [h.file EXCEPT !.entries = [h.file.entries EXCEPT ![k] = NoEntry]]
        /\ Leave(w) /\ time' = time + 1 /\ results' = results
        /\ Save(h.store, file) /\ Writes(h.store, new, {})
    BY <1>1, <2>1 DEF Delete, File
  <2> HIDE DEF new, file, h
  <2>4. /\ file \in File /\ file.entries = Overwrite(h.file.entries, new)
        /\ file.events = h.file.events
    BY <1>1, <2>2, <2>3 DEF File
  <2>5. h.at = "in"
    BY <2>3 DEF Leave, h
  <2> QED
    BY <1>2, <1>4, <2>3, <2>4, <2>5, WriteEnds DEF h
<1>7. CASE Record(w)
  <2> DEFINE file == [h.file EXCEPT !.events = @ \union {time + 1}]
  <2>1. /\ Leave(w) /\ time' = time + 1 /\ results' = results
        /\ Save(h.store, file) /\ Writes(h.store, <<>>, {time + 1})
        /\ file = [h.file EXCEPT !.events = @ \union {time + 1}]
    BY <1>7 DEF Record
  <2> HIDE DEF file, h
  <2>2. /\ file \in File /\ file.entries = h.file.entries
        /\ file.events = {time + 1} \union h.file.events
    <3>1. /\ file \in File /\ file.entries = h.file.entries
          /\ file.events = h.file.events \union {time + 1}
      BY <1>1, <2>1 DEF File
    <3> QED
      BY <3>1
  <2>3. Overwrite(h.file.entries, <<>>) = h.file.entries
    <3>1. \A k : k \notin DOMAIN <<>>
      <4>1. <<>> \in Seq(Nat) /\ Len(<<>>) = 0
        BY EmptySeq
      <4>2. DOMAIN <<>> = 1 .. 0
        BY <4>1, LenProperties
      <4>3. \A k : k \notin 1 .. 0
        OBVIOUS
      <4> QED
        BY <4>2, <4>3, Zenon
    <3>2. Overwrite(h.file.entries, <<>>) = [k \in Ids |-> h.file.entries[k]]
      BY <3>1 DEF Overwrite
    <3> QED
      BY <1>4, <3>2
  <2>4. h.at = "in"
    BY <2>1 DEF Leave, h
  <2> QED
    BY <1>2, <2>1, <2>2, <2>3, <2>4, WriteEnds DEF h
<1>8. CASE \E gone \in SUBSET Episodes : Prune(w, gone)
  <2>1. PICK gone \in SUBSET Episodes : Prune(w, gone)
    BY <1>8
  <2> DEFINE new == [k \in gone |-> NoEntry]
             file == [h.file EXCEPT !.entries = Overwrite(@, new), !.events = @ \union {time + 1}]
  <2>2. Overwrite(h.file.entries, new) \in [Ids -> Entry]
    <3>1. new \in [gone -> Entry] /\ gone \in SUBSET Ids
      BY <1>3, EmptyIsFile
    <3> HIDE DEF new
    <3> QED
      BY <1>4, <3>1, Overlay
  <2>3. /\ file = [h.file EXCEPT !.entries = Overwrite(h.file.entries, new), !.events = @ \union {time + 1}]
        /\ Leave(w) /\ time' = time + 1 /\ results' = results
        /\ Save(h.store, file) /\ Writes(h.store, new, {time + 1})
    BY <2>1 DEF Prune
  <2> HIDE DEF new, file, h
  <2>4. /\ file \in File /\ file.entries = Overwrite(h.file.entries, new)
        /\ file.events = {time + 1} \union h.file.events
    <3>1. /\ file \in File /\ file.entries = Overwrite(h.file.entries, new)
          /\ file.events = h.file.events \union {time + 1}
      BY <1>1, <1>11, <2>2, <2>3 DEF File
    <3> QED
      BY <3>1
  <2>5. h.at = "in"
    BY <2>3 DEF Leave, h
  <2> QED
    BY <1>2, <2>3, <2>4, <2>5, WriteEnds DEF h
<1>9. CASE Refused(w)
  <2>1. /\ h.at = "in" /\ hand' = [hand EXCEPT ![w] = Out] /\ lock' = [lock EXCEPT ![h.store] = Free]
        /\ UNCHANGED <<disk, results, time, written, cache, pass>>
    BY <1>9 DEF Refused, Leave, SaveFails, unchangedPasses
  <2>2. Out \in [at : {"in", "out"}, store : Stores, file : File] /\ Out.at = "out"
    BY EmptyIsFile DEF Out, Stores
  <2>3. HarnessTypes'
    BY <2>1, <2>2 DEF HarnessInv, HarnessTypes
  <2>4. lock[h.store] = w
    BY <2>1 DEF HarnessInv, LockInv
  <2>5. \A t \in Stores : lock[t] # w => lock'[t] = lock[t]
    BY <1>1, <2>1, <2>4 DEF HarnessInv, HarnessTypes
  <2>6. \A e \in Engines : e # w /\ StoreOf(e, pass[e].scope) \in Stores
    BY HarnessConstants, StoreOfTypes DEF HarnessInv, HarnessTypes, Passes
  <2>7. \A v \in Writers \ {w} : hand'[v] = hand[v] /\ hand[v].store \in Stores
    BY <2>1 DEF HarnessInv, HarnessTypes
  <2>8. hand'[w].at = "out"
    BY <2>1, <2>2 DEF HarnessInv, HarnessTypes
  <2>9. LockInv'
    <3>1. \A v \in Writers : hand'[v].at = "in" =>
             lock'[hand'[v].store] = v /\ hand'[v].file = disk'[hand'[v].store]
      <4> TAKE v \in Writers
      <4> HAVE hand'[v].at = "in"
      <4>1. v # w /\ hand'[v] = hand[v] /\ hand[v].store \in Stores /\ hand[v].at = "in"
        BY <2>7, <2>8
      <4>2. lock[hand[v].store] = v /\ hand[v].file = disk[hand[v].store]
        BY <4>1 DEF HarnessInv, LockInv
      <4>3. lock'[hand[v].store] = v
        BY <2>5, <4>1, <4>2
      <4> QED
        BY <2>1, <4>1, <4>2, <4>3
    <3>2. \A e \in Engines : pass[e].at = "apply" =>
             /\ lock'[StoreOf(e, pass[e].scope)] = e
             /\ cache[e][pass[e].scope] = disk[StoreOf(e, pass[e].scope)]
      BY <2>5, <2>6 DEF HarnessInv, LockInv
    <3> QED
      BY <2>1, <3>1, <3>2 DEF LockInv
  <2> QED
    BY <2>1, <2>3, <2>9 DEF HarnessInv, PassInv, FileIsItsWrites
<1>10. CASE \E s \in Stores : Enter(w, s)
  <2>1. PICK s \in Stores : Enter(w, s)
    BY <1>10
  <2>2. /\ lock[s] = Free /\ hand' = [hand EXCEPT ![w] = [at |-> "in", store |-> s, file |-> disk[s]]]
        /\ lock' = [lock EXCEPT ![s] = w]
        /\ UNCHANGED <<disk, results, time, written, cache, pass>>
    BY <2>1 DEF Enter, Unlocked, Load, unchangedPasses
  <2>3. HarnessTypes'
    BY <2>2 DEF HarnessInv, HarnessTypes
  <2>4. /\ hand'[w].store = s /\ hand'[w].file = disk[s] /\ lock'[s] = w
        /\ \A v \in Writers \ {w} : hand'[v] = hand[v] /\ hand[v].store \in Stores
        /\ \A t \in Stores \ {s} : lock'[t] = lock[t]
    BY <2>2 DEF HarnessInv, HarnessTypes
  <2>5. \A x \in Engines \union Writers : x # Free
    BY HarnessConstants DEF Free
  <2>6. \A e \in Engines : StoreOf(e, pass[e].scope) \in Stores
    BY StoreOfTypes DEF HarnessInv, HarnessTypes, Passes
  <2>7. LockInv'
    <3>1. ASSUME NEW v \in Writers, hand'[v].at = "in"
          PROVE  lock'[hand'[v].store] = v /\ hand'[v].file = disk'[hand'[v].store]
      <4>1. CASE v = w
        BY <2>2, <2>4, <4>1
      <4>2. CASE v # w
        <5>1. lock[hand[v].store] = v /\ hand[v].file = disk[hand[v].store] /\ hand'[v] = hand[v]
          BY <2>4, <3>1, <4>2 DEF HarnessInv, LockInv
        <5>2. hand[v].store # s
          BY <2>2, <2>5, <5>1
        <5> QED
          BY <2>2, <2>4, <4>2, <5>1, <5>2
      <4> QED
        BY <4>1, <4>2
    <3>2. \A e \in Engines : pass[e].at = "apply" =>
             /\ lock'[StoreOf(e, pass[e].scope)] = e
             /\ cache[e][pass[e].scope] = disk[StoreOf(e, pass[e].scope)]
      <4> TAKE e \in Engines
      <4> HAVE pass[e].at = "apply"
      <4>1. /\ lock[StoreOf(e, pass[e].scope)] = e
            /\ cache[e][pass[e].scope] = disk[StoreOf(e, pass[e].scope)]
        BY DEF HarnessInv, LockInv
      <4>2. StoreOf(e, pass[e].scope) # s
        BY <2>2, <2>5, <4>1
      <4> QED
        BY <2>4, <2>6, <4>1, <4>2
    <3> QED
      BY <2>2, <3>1, <3>2 DEF LockInv
  <2> QED
    BY <2>2, <2>3, <2>7 DEF HarnessInv, PassInv, FileIsItsWrites
<1> QED
  BY <1>5, <1>6, <1>7, <1>8, <1>9, <1>10 DEF ByWriter

-----------------------------------------------------------------------------
\* Steps of an engine that write nothing to a store file.
LEMMA PassMoves ==
    ASSUME HarnessInv, UNCHANGED <<disk, lock, hand, time, written>>, NEW e \in Engines,
           NEW p \in Passes, PassOk(p), p.at # "apply", pass' = [pass EXCEPT ![e] = p],
           NEW c \in [Scopes -> File], cache' = [cache EXCEPT ![e] = c],
           results' \in [Stores -> SUBSET [id : Nat, applied : Seq(Done)]],
           \A s \in Stores : \A r \in results'[s] : Chained(r.applied)
    PROVE  HarnessInv'
<1>1. /\ pass' \in [Engines -> Passes] /\ cache' \in [Engines -> [Scopes -> File]]
      /\ pass'[e] = p /\ \A d \in Engines \ {e} : pass'[d] = pass[d] /\ cache'[d] = cache[d]
  BY DEF HarnessInv, HarnessTypes
<1>2. HarnessTypes'
  BY <1>1 DEF HarnessInv, HarnessTypes
<1>3. ASSUME NEW d \in Engines, pass'[d].at = "apply"
      PROVE  /\ lock[StoreOf(d, pass'[d].scope)] = d
             /\ cache'[d][pass'[d].scope] = disk[StoreOf(d, pass'[d].scope)]
  <2>1. d # e
    BY <1>1, <1>3
  <2>2. pass'[d] = pass[d] /\ cache'[d] = cache[d]
    BY <1>1, <2>1
  <2> QED
    BY <1>3, <2>2 DEF HarnessInv, LockInv
<1>4. LockInv'
  BY <1>3 DEF HarnessInv, LockInv
<1>5. \A d \in Engines : PassOk(pass'[d])
  BY <1>1 DEF HarnessInv, PassInv
<1>6. PassInv'
  BY <1>5 DEF PassInv
<1> QED
  BY <1>2, <1>4, <1>6 DEF HarnessInv, FileIsItsWrites

LEMMA IdlePass ==
    /\ Idle \in Passes /\ Idle.result = <<>> /\ Idle.baseline = <<>> /\ Idle.undo = 0 /\ Idle.at = "idle"
    /\ PassOk(Idle)
<1>1. <<>> \in Seq(EditType) /\ <<>> \in Seq(Done) /\ Chained(<<>>)
  BY EmptySeq, NothingChained
<1>2. Idle \in Passes /\ Idle.result = <<>> /\ Idle.baseline = <<>> /\ Idle.undo = 0 /\ Idle.at = "idle"
  BY <1>1 DEF Idle, Passes, Baselines, Scopes
<1> QED
  BY <1>1, <1>2 DEF PassOk

\* The pass is planned over the entries as they are, or undoes what is recorded.
LEMMA PlanningOk ==
    ASSUME HarnessInv, UNCHANGED <<disk, lock, hand, time, written, results>>,
           NEW e \in Engines, NEW scope \in Scopes, Planning(e, scope)
    PROVE  HarnessInv'
<1> DEFINE file == disk[StoreOf(e, scope)]
           c == [cache[e] EXCEPT ![scope] = file]
           p == [Idle EXCEPT !.at = "plan", !.scope = scope, !.baseline = file.entries]
<1>1. file \in File /\ file.entries \in [Ids -> Entry]
  BY StoreOfTypes, FileParts DEF HarnessInv, HarnessTypes
<1>2. cache' = [cache EXCEPT ![e] = c] /\ pass' = [pass EXCEPT ![e] = p]
  BY DEF Planning, Load, HarnessInv, HarnessTypes
<1>3. c \in [Scopes -> File]
  BY <1>1 DEF HarnessInv, HarnessTypes
<1> HIDE DEF file
<1>4. /\ p \in Passes /\ p.at = "plan" /\ p.undo = 0 /\ p.result = <<>>
      /\ p.baseline = file.entries
  BY <1>1, IdlePass DEF Passes, Baselines
<1> HIDE DEF p, c
<1>5. PassOk(p)
  BY <1>1, <1>4, NothingChained DEF PassOk
<1> QED
  BY <1>2, <1>3, <1>4, <1>5, PassMoves DEF HarnessInv, HarnessTypes, PassInv

LEMMA RollingBackOk ==
    ASSUME HarnessInv, UNCHANGED <<disk, lock, hand, time, written, results>>,
           NEW e \in Engines, NEW scope \in Scopes, NEW undo \in Nat, undo # 0, RollingBack(e, scope, undo)
    PROVE  HarnessInv'
<1>1. PICK r \in results[StoreOf(e, scope)] :
         /\ pass' = [pass EXCEPT ![e] = [Idle EXCEPT !.at = "ready", !.scope = scope, !.undo = undo,
                                                     !.proposal = RollbackProposal(r), !.result = r.applied]]
         /\ UNCHANGED cache
  BY DEF RollingBack
<1>2. StoreOf(e, scope) \in Stores
  BY StoreOfTypes
<1>3. r.applied \in Seq(Done) /\ Chained(r.applied)
  BY <1>2 DEF HarnessInv, HarnessTypes, PassInv
<1> DEFINE prop == RollbackProposal(r)
           p == [Idle EXCEPT !.at = "ready", !.scope = scope, !.undo = undo, !.proposal = prop, !.result = r.applied]
<1>4. prop = RollbackProposal([applied |-> r.applied])
  BY DEF RollbackProposal
<1>5. prop \in Seq(EditType)
  BY <1>3, <1>4, RollbackTypes
<1>6. pass' = [pass EXCEPT ![e] = p]
  BY <1>1
<1> HIDE DEF prop
<1>7. /\ p \in Passes /\ p.at = "ready" /\ p.undo = undo /\ p.result = r.applied
      /\ p.baseline = <<>> /\ p.proposal = prop
  BY <1>3, <1>5, IdlePass DEF Passes
<1> HIDE DEF p
<1>8. PassOk(p)
  BY <1>3, <1>4, <1>7 DEF PassOk
<1>9. cache' = [cache EXCEPT ![e] = cache[e]] /\ cache[e] \in [Scopes -> File]
  BY <1>1 DEF HarnessInv, HarnessTypes
<1> QED
  BY <1>6, <1>7, <1>8, <1>9, PassMoves DEF HarnessInv, HarnessTypes, PassInv

LEMMA BeginOk ==
    ASSUME HarnessInv, UNCHANGED <<disk, lock, hand, time, written, results>>,
           NEW e \in Engines, NEW scope \in Scopes, NEW undo \in Nat, Begin(e, scope, undo)
    PROVE  HarnessInv'
<1>1. CASE UNCHANGED <<cache, pass>>
  BY <1>1 DEF HarnessInv, HarnessTypes, LockInv, PassInv, FileIsItsWrites
<1>2. CASE Planning(e, scope)
  BY <1>2, PlanningOk
<1>3. CASE undo # 0 /\ RollingBack(e, scope, undo)
  BY <1>3, RollingBackOk
<1> QED
  BY <1>1, <1>2, <1>3 DEF Begin

LEMMA EpisodeOk == ASSUME HarnessInv, NEW e \in Engines, NEW k \in Ids, RecordEpisode(e, k) PROVE HarnessInv'
<1> DEFINE s == "global"
           new == NewEntry(k, "noted", time + 1)
           old == disk[s]
           file == [old EXCEPT !.entries = Overwrite(old.entries, new)]
           copy == [old EXCEPT !.entries = Overwrite(old.entries, new), !.mtime = time + 1]
           c == [cache[e] EXCEPT !["global"] = copy]
<1>1. /\ k \in Ids /\ s \in Stores /\ old \in File /\ time + 1 \in Nat \ {0} /\ old.entries \in [Ids -> Entry]
      /\ {} \union old.events = old.events
  BY FileParts DEF HarnessInv, HarnessTypes, Stores
<1>2. /\ pass[e].at = "idle" /\ lock[s] = Free /\ time' = time + 1 /\ UNCHANGED <<results, hand, pass>>
      /\ Save(s, file) /\ Writes(s, new, {})
  BY DEF RecordEpisode, Unlocked, Load
<1>3. cache' = [cache EXCEPT ![e] = c]
  <2>1. cache' = [cache EXCEPT ![e]["global"] = copy]
    BY DEF RecordEpisode, Load
  <2> HIDE DEF copy
  <2> QED
    BY <2>1 DEF HarnessInv, HarnessTypes
<1>4. Overwrite(old.entries, new) \in [Ids -> Entry]
  <2>1. "noted" \in Texts
    BY DEF Texts
  <2>2. [at |-> time + 1, text |-> "noted"] \in Entry
    BY <1>1, <2>1 DEF Entry
  <2>3. new \in [{k} -> Entry] /\ {k} \in SUBSET Ids
    BY <1>1, <2>2 DEF NewEntry, Only
  <2> HIDE DEF new
  <2> QED
    BY <1>1, <2>3 DEF Overwrite
<1> HIDE DEF new, s, old
<1>5. file \in File /\ file.entries = Overwrite(old.entries, new) /\ file.events = old.events /\ copy \in File
  BY <1>1, <1>4 DEF File
<1> HIDE DEF file, copy
<1>6. c \in [Scopes -> File]
  BY <1>5 DEF HarnessInv, HarnessTypes
<1> HIDE DEF c
<1>7. /\ disk' \in [Stores -> File] /\ FileIsItsWrites'
      /\ lock' \in [Stores -> Engines \union Writers \union {Free}]
      /\ written' \in [Stores -> [entries : [Ids -> Entry], events : SUBSET Nat]]
      /\ \A t \in Stores \ {s} : disk'[t] = disk[t] /\ lock'[t] = lock[t]
  BY <1>1, <1>2, <1>5, Saved DEF HarnessInv, old
<1>8. /\ cache' \in [Engines -> [Scopes -> File]]
      /\ \A d \in Engines \ {e} : cache'[d] = cache[d]
  BY <1>3, <1>6 DEF HarnessInv, HarnessTypes
<1>9. HarnessTypes'
  BY <1>1, <1>2, <1>7, <1>8 DEF HarnessInv, HarnessTypes
<1>10. \A x \in Engines \union Writers : x # Free
  BY HarnessConstants DEF Free
<1>11. ASSUME NEW w \in Writers, hand'[w].at = "in"
       PROVE  lock'[hand'[w].store] = w /\ hand'[w].file = disk'[hand'[w].store]
  <2>1. lock[hand[w].store] = w /\ hand[w].file = disk[hand[w].store] /\ hand[w].store \in Stores
    BY <1>2, <1>11 DEF HarnessInv, LockInv, HarnessTypes
  <2>2. hand[w].store # s
    BY <1>2, <1>10, <2>1
  <2> QED
    BY <1>2, <1>7, <2>1, <2>2
<1>12. ASSUME NEW d \in Engines, pass'[d].at = "apply"
       PROVE  /\ lock'[StoreOf(d, pass'[d].scope)] = d
              /\ cache'[d][pass'[d].scope] = disk'[StoreOf(d, pass'[d].scope)]
  <2>1. d # e /\ StoreOf(d, pass[d].scope) \in Stores
    BY <1>2, <1>12, StoreOfTypes DEF HarnessInv, HarnessTypes, Passes
  <2>2. /\ lock[StoreOf(d, pass[d].scope)] = d
        /\ cache[d][pass[d].scope] = disk[StoreOf(d, pass[d].scope)]
    BY <1>2, <1>12 DEF HarnessInv, LockInv
  <2>3. StoreOf(d, pass[d].scope) # s
    BY <1>2, <1>10, <2>2
  <2> QED
    BY <1>2, <1>7, <1>8, <2>1, <2>2, <2>3
<1>13. LockInv'
  BY <1>11, <1>12 DEF LockInv
<1>14. PassInv'
  BY <1>2 DEF HarnessInv, PassInv
<1> QED
  BY <1>7, <1>9, <1>13, <1>14 DEF HarnessInv

LEMMA ApplyLockOk == ASSUME HarnessInv, NEW e \in Engines, ApplyLock(e) PROVE HarnessInv'
<1> DEFINE scope == pass[e].scope
           s == StoreOf(e, scope)
           p == [pass[e] EXCEPT !.at = "apply"]
           c == [cache[e] EXCEPT ![scope] = disk[s]]
<1>1. scope \in Scopes /\ s \in Stores /\ pass[e] \in Passes /\ disk[s] \in File /\ cache[e] \in [Scopes -> File]
  BY StoreOfTypes DEF HarnessInv, HarnessTypes, Passes
<1>2. /\ pass[e].at = "ready" /\ lock[s] = Free /\ lock' = [lock EXCEPT ![s] = e]
      /\ UNCHANGED <<disk, results, hand, time, written>>
  BY DEF ApplyLock, Unlocked
<1>3. pass' = [pass EXCEPT ![e] = p]
  BY DEF ApplyLock, HarnessInv, HarnessTypes
<1>4. cache' = [cache EXCEPT ![e] = c]
  BY DEF ApplyLock, Load, HarnessInv, HarnessTypes
<1> HIDE DEF s, scope
<1>5. /\ p \in Passes /\ p.at = "apply" /\ p.scope = scope /\ p.undo = pass[e].undo
      /\ p.baseline = pass[e].baseline /\ p.proposal = pass[e].proposal /\ p.result = pass[e].result
  BY <1>1 DEF Passes, scope
<1>6. c \in [Scopes -> File] /\ c[scope] = disk[s]
  BY <1>1
<1> HIDE DEF p, c
<1>7. PassOk(p)
  BY <1>2, <1>5 DEF PassOk, HarnessInv, PassInv
<1>8. /\ pass' \in [Engines -> Passes] /\ cache' \in [Engines -> [Scopes -> File]]
      /\ lock' \in [Stores -> Engines \union Writers \union {Free}]
      /\ pass'[e] = p /\ cache'[e] = c /\ lock'[s] = e
      /\ \A d \in Engines \ {e} : pass'[d] = pass[d] /\ cache'[d] = cache[d]
      /\ \A t \in Stores \ {s} : lock'[t] = lock[t]
  BY <1>1, <1>2, <1>3, <1>4, <1>5, <1>6 DEF HarnessInv, HarnessTypes
<1>9. HarnessTypes'
  BY <1>2, <1>8 DEF HarnessInv, HarnessTypes
<1>10. \A x \in Engines \union Writers : x # Free
  BY HarnessConstants DEF Free
<1>11. ASSUME NEW w \in Writers, hand[w].at = "in"
       PROVE  lock'[hand[w].store] = w /\ hand[w].file = disk[hand[w].store]
  <2>1. lock[hand[w].store] = w /\ hand[w].file = disk[hand[w].store] /\ hand[w].store \in Stores
    BY <1>11 DEF HarnessInv, LockInv, HarnessTypes
  <2>2. hand[w].store # s
    BY <1>2, <1>10, <2>1
  <2> QED
    BY <1>8, <2>1, <2>2
<1>12. ASSUME NEW d \in Engines, pass'[d].at = "apply"
       PROVE  /\ lock'[StoreOf(d, pass'[d].scope)] = d
              /\ cache'[d][pass'[d].scope] = disk[StoreOf(d, pass'[d].scope)]
  <2>1. CASE d = e
    BY <1>5, <1>6, <1>8, <2>1 DEF s
  <2>2. CASE d # e
    <3>1. pass'[d] = pass[d] /\ cache'[d] = cache[d] /\ StoreOf(d, pass[d].scope) \in Stores
      BY <1>8, <2>2, StoreOfTypes DEF HarnessInv, HarnessTypes, Passes
    <3>2. /\ lock[StoreOf(d, pass[d].scope)] = d
          /\ cache[d][pass[d].scope] = disk[StoreOf(d, pass[d].scope)]
      BY <1>12, <3>1 DEF HarnessInv, LockInv
    <3>3. StoreOf(d, pass[d].scope) # s
      BY <1>2, <1>10, <3>2
    <3> QED
      BY <1>8, <3>1, <3>2, <3>3
  <2> QED
    BY <2>1, <2>2
<1>13. LockInv'
  BY <1>2, <1>11, <1>12 DEF LockInv
<1>14. \A d \in Engines : PassOk(pass'[d])
  BY <1>7, <1>8 DEF HarnessInv, PassInv
<1> QED
  BY <1>2, <1>9, <1>13, <1>14 DEF HarnessInv, PassInv, FileIsItsWrites

-----------------------------------------------------------------------------
\* What a proposal makes of the entries: the touched ones are its own.
MadeOf(entries, baseline, out) ==
    /\ out.entries \in [Ids -> Entry]
    /\ out.applied \in Seq(Done) /\ Chained(out.applied)
    /\ Overwrite(entries, [k \in out.touched |-> out.entries[k]]) = out.entries
    /\ \A k \in Ids : out.entries[k] # entries[k] => baseline = <<>> \/ entries[k] = baseline[k]

LEMMA AppliedOutcome ==
    ASSUME NEW entries \in [Ids -> Entry], NEW proposal \in Seq(EditType),
           NEW baseline \in Baselines, NEW now \in Nat \ {0},
           NEW out, out = Applied(entries, proposal, baseline, now)
    PROVE  MadeOf(entries, baseline, out)
<1> DEFINE start == Unapplied(entries, baseline, now)
<1>1. Kept(start, out) /\ Chained(out.applied)
  BY AppliedKeeps, AppliedChained
<1>2. start.entries = entries /\ start.baseline = baseline
  BY DEF Unapplied
<1> HIDE DEF start
<1>3. /\ out \in Accs /\ out.baseline = baseline
      /\ \A k \in Ids \ out.touched : out.entries[k] = entries[k]
      /\ \A k \in out.touched : baseline = <<>> \/ entries[k] = baseline[k]
  BY <1>1, <1>2 DEF Kept
<1>4. /\ out.entries \in [Ids -> Entry] /\ out.touched \in SUBSET Ids
      /\ out.applied \in Seq(Done)
  BY <1>3 DEF Accs
<1>5. Overwrite(entries, [k \in out.touched |-> out.entries[k]]) = out.entries
  <2> DEFINE new == [k \in out.touched |-> out.entries[k]]
  <2>1. new \in [out.touched -> Entry] /\ \A k \in out.touched : new[k] = out.entries[k]
    BY <1>4
  <2> HIDE DEF new
  <2>2. /\ Overwrite(entries, new) \in [Ids -> Entry]
        /\ \A k \in Ids : Overwrite(entries, new)[k] = IF k \in out.touched THEN new[k] ELSE entries[k]
    BY <1>4, <2>1, Overlay
  <2>3. \A k \in Ids : Overwrite(entries, new)[k] = out.entries[k]
    BY <1>3, <2>1, <2>2
  <2>4. Overwrite(entries, new) = out.entries
    BY <1>4, <2>2, <2>3
  <2> QED
    BY <2>4 DEF new
<1> QED
  BY <1>1, <1>3, <1>4, <1>5 DEF MadeOf

\* An engine that gives back its lock leaves the others what they had.
LEMMA EngineEnds ==
    ASSUME HarnessInv, NEW e \in Engines, NEW s \in Stores, lock[s] = e,
           HarnessTypes', FileIsItsWrites', hand' = hand, results' = results,
           \A t \in Stores \ {s} : disk'[t] = disk[t] /\ lock'[t] = lock[t],
           \A d \in Engines \ {e} : cache'[d] = cache[d],
           NEW q, pass' = [pass EXCEPT ![e] = q], PassOk(q), q.at # "apply"
    PROVE  HarnessInv'
<1>1. pass'[e] = q /\ \A d \in Engines \ {e} : pass'[d] = pass[d]
  BY DEF HarnessInv, HarnessTypes
<1>2. ASSUME NEW w \in Writers, hand[w].at = "in"
      PROVE  lock'[hand[w].store] = w /\ hand[w].file = disk'[hand[w].store]
  <2>1. lock[hand[w].store] = w /\ hand[w].file = disk[hand[w].store] /\ hand[w].store \in Stores
    BY <1>2 DEF HarnessInv, LockInv, HarnessTypes
  <2>2. w # e
    BY HarnessConstants
  <2> QED
    BY <2>1, <2>2
<1>3. ASSUME NEW d \in Engines, pass'[d].at = "apply"
      PROVE  /\ lock'[StoreOf(d, pass'[d].scope)] = d
             /\ cache'[d][pass'[d].scope] = disk'[StoreOf(d, pass'[d].scope)]
  <2>1. d # e
    BY <1>1, <1>3
  <2>2. pass'[d] = pass[d] /\ cache'[d] = cache[d] /\ StoreOf(d, pass[d].scope) \in Stores
    BY <1>1, <2>1, StoreOfTypes DEF HarnessInv, HarnessTypes, Passes
  <2>3. /\ lock[StoreOf(d, pass[d].scope)] = d
        /\ cache[d][pass[d].scope] = disk[StoreOf(d, pass[d].scope)]
    BY <1>3, <2>2 DEF HarnessInv, LockInv
  <2> QED
    BY <2>1, <2>2, <2>3
<1>4. LockInv'
  BY <1>2, <1>3 DEF LockInv
<1>5. \A d \in Engines : PassOk(pass'[d])
  BY <1>1 DEF HarnessInv, PassInv
<1>6. PassInv'
  BY <1>5 DEF HarnessInv, PassInv
<1> QED
  BY <1>4, <1>6 DEF HarnessInv

\* The pass that holds the lock saves what its proposal makes of the file, or fails.
AppliesOver(e, scope, s, old, now, out, file) ==
    /\ scope = pass[e].scope /\ s = StoreOf(e, scope) /\ old = disk[s] /\ now = time + 1
    /\ out = Applied(old.entries, pass[e].proposal, pass[e].baseline, now)
    /\ file = [old EXCEPT !.entries = out.entries, !.events = @ \union {now}]

Saves(e, scope, s, old, now, out, file) ==
    /\ pass[e].at = "apply" /\ lock[s] = e /\ time' = now /\ UNCHANGED <<results, hand>>
    /\ SaveEdits(e, s, file, out) \/ LoseEdits(e, s, file)
    /\ scope \in Scopes /\ s \in Stores /\ now \in Nat \ {0}
    /\ file \in File /\ [file EXCEPT !.mtime = now] \in File
    /\ file.events = {now} \union old.events /\ file.entries = out.entries
    /\ file.entries = Overwrite(old.entries, [k \in out.touched |-> out.entries[k]])
    /\ out.applied \in Seq(Done) /\ Chained(out.applied)
    /\ \A k \in Ids : out.entries[k] # old.entries[k]
                        => pass[e].baseline = <<>> \/ old.entries[k] = pass[e].baseline[k]

LEMMA ApplyParts ==
    ASSUME HarnessInv, NEW e \in Engines, ApplySave(e),
           NEW scope, NEW s, NEW old, NEW now, NEW out, NEW file,
           AppliesOver(e, scope, s, old, now, out, file)
    PROVE  Saves(e, scope, s, old, now, out, file)
<1>0. /\ scope = pass[e].scope /\ s = StoreOf(e, scope) /\ old = disk[s] /\ now = time + 1
      /\ out = Applied(old.entries, pass[e].proposal, pass[e].baseline, now)
      /\ file = [old EXCEPT !.entries = out.entries, !.events = @ \union {now}]
  BY DEF AppliesOver
<1>1. /\ pass[e].at = "apply" /\ time' = now
      /\ SaveEdits(e, s, file, out) \/ LoseEdits(e, s, file)
      /\ UNCHANGED <<results, hand>>
  <2>1. pass[e].at = "apply"
    BY <1>0 DEF ApplySave
  <2>2. cache[e][pass[e].scope] = old
    BY <1>0, <2>1 DEF HarnessInv, LockInv
  <2> QED
    BY <1>0, <2>2 DEF ApplySave
<1>2. lock[s] = e
  BY <1>0, <1>1 DEF HarnessInv, LockInv
<1>3. /\ pass[e] \in Passes /\ scope \in Scopes /\ now \in Nat \ {0}
      /\ pass[e].proposal \in Seq(EditType) /\ pass[e].baseline \in Baselines
  BY <1>0 DEF HarnessInv, HarnessTypes, Passes
<1>4. s \in Stores /\ old \in File
  BY <1>0, <1>3, StoreOfTypes DEF HarnessInv, HarnessTypes
<1>5. old.entries \in [Ids -> Entry] /\ old.events \in SUBSET Nat
  BY <1>0, <1>4, FileParts
<1>6. /\ out.entries \in [Ids -> Entry]
      /\ out.applied \in Seq(Done) /\ Chained(out.applied)
      /\ Overwrite(old.entries, [k \in out.touched |-> out.entries[k]]) = out.entries
      /\ \A k \in Ids : out.entries[k] # old.entries[k]
                          => pass[e].baseline = <<>> \/ old.entries[k] = pass[e].baseline[k]
  <2> DEFINE entries == old.entries
             proposal == pass[e].proposal
             baseline == pass[e].baseline
  <2>1. /\ entries \in [Ids -> Entry] /\ proposal \in Seq(EditType) /\ baseline \in Baselines
        /\ out = Applied(entries, proposal, baseline, now)
    BY <1>0, <1>3, <1>5
  <2> HIDE DEF entries, proposal, baseline
  <2>2. MadeOf(entries, baseline, out)
    BY <1>0, <1>3, <2>1, AppliedOutcome
  <2> QED
    BY <1>0, <2>2 DEF MadeOf, entries, baseline
<1>7. {now} \union old.events \in SUBSET Nat /\ old.events \union {now} = {now} \union old.events
  BY <1>0, <1>3, <1>5
<1>8. file \in File /\ file.entries = out.entries /\ file.events = {now} \union old.events
  <2> DEFINE entries == out.entries
             events == old.events \union {now}
  <2>1. file = [old EXCEPT !.entries = entries, !.events = events]
    BY <1>0
  <2>2. entries \in [Ids -> Entry] /\ events \in SUBSET Nat
    BY <1>0, <1>3, <1>5, <1>6
  <2> HIDE DEF entries, events
  <2>3. file \in File /\ file.entries = entries /\ file.events = events
    BY <1>0, <1>4, <2>1, <2>2 DEF File
  <2> QED
    BY <1>0, <1>7, <2>3 DEF entries, events
<1>9. [file EXCEPT !.mtime = now] \in File
  BY <1>0, <1>3, <1>8, ZenonT(40) DEF File
<1> QED
  BY <1>1, <1>2, <1>3, <1>4, <1>6, <1>8, <1>9 DEF Saves

LEMMA ApplyOk == ASSUME HarnessInv, NEW e \in Engines, ApplySave(e) PROVE HarnessInv'
<1>a. PICK scope : scope = pass[e].scope
  OBVIOUS
<1>b. PICK s : s = StoreOf(e, scope)
  OBVIOUS
<1>c. PICK old : old = disk[s]
  OBVIOUS
<1>d. PICK now : now = time + 1
  OBVIOUS
<1>e. PICK out : out = Applied(old.entries, pass[e].proposal, pass[e].baseline, now)
  OBVIOUS
<1>f. PICK file : file = [old EXCEPT !.entries = out.entries, !.events = @ \union {now}]
  OBVIOUS
<1>g. Saves(e, scope, s, old, now, out, file)
  BY <1>a, <1>b, <1>c, <1>d, <1>e, <1>f, ApplyParts DEF AppliesOver
<1> DEFINE copy == [file EXCEPT !.mtime = now]
           q == [pass[e] EXCEPT !.at = "append", !.result = out.applied]
<1>1. /\ pass[e].at = "apply" /\ lock[s] = e /\ time' = now /\ UNCHANGED <<results, hand>>
      /\ SaveEdits(e, s, file, out) \/ LoseEdits(e, s, file)
      /\ scope \in Scopes /\ s \in Stores /\ now \in Nat \ {0}
      /\ file \in File /\ copy \in File
      /\ file.events = {now} \union old.events
      /\ file.entries = Overwrite(old.entries, [k \in out.touched |-> out.entries[k]])
      /\ out.applied \in Seq(Done) /\ Chained(out.applied)
  BY <1>g DEF Saves
<1>2. /\ SaveEdits(e, s, file, out) => pass' = [pass EXCEPT ![e] = q] /\ cache' = [cache EXCEPT ![e][scope] = copy]
      /\ LoseEdits(e, s, file) => pass' = [pass EXCEPT ![e] = Idle] /\ cache' = [cache EXCEPT ![e][scope] = file]
  <2>1. pass \in [Engines -> Passes] /\ scope = pass[e].scope
    BY <1>a DEF HarnessInv, HarnessTypes
  <2>2. ASSUME SaveEdits(e, s, file, out)
        PROVE  pass' = [pass EXCEPT ![e] = q] /\ cache' = [cache EXCEPT ![e][scope] = copy]
    <3>1. pass' = [pass EXCEPT ![e].at = "append", ![e].result = out.applied]
      BY <2>2 DEF SaveEdits
    <3>2. [pass EXCEPT ![e].at = "append", ![e].result = out.applied] = [pass EXCEPT ![e] = q]
      BY <2>1
    <3>3. cache' = [cache EXCEPT ![e][scope] = [file EXCEPT !.mtime = time']]
      BY <2>1, <2>2 DEF SaveEdits
    <3>4. cache' = [cache EXCEPT ![e][scope] = copy]
      BY <1>1, <3>3
    <3> QED
      BY <3>1, <3>2, <3>4
  <2>3. ASSUME LoseEdits(e, s, file)
        PROVE  pass' = [pass EXCEPT ![e] = Idle] /\ cache' = [cache EXCEPT ![e][scope] = file]
    BY <2>1, <2>3 DEF LoseEdits, EndPass
  <2> QED
    BY <2>2, <2>3
<1>3. q \in Passes /\ q.at = "append" /\ PassOk(q)
  <2>1. PICK done \in Seq(Done) : done = out.applied
    BY <1>1
  <2>2. pass[e] \in Passes /\ q = [pass[e] EXCEPT !.at = "append", !.result = done]
    BY <2>1 DEF HarnessInv, HarnessTypes
  <2> HIDE DEF q
  <2>3. q \in Passes /\ q.at = "append" /\ q.result = done
    BY <2>2 DEF Passes
  <2> QED
    BY <1>1, <2>1, <2>3 DEF PassOk
<1> HIDE DEF q, copy
<1>4. ASSUME NEW c \in File, cache' = [cache EXCEPT ![e][scope] = c]
      PROVE  /\ cache' \in [Engines -> [Scopes -> File]]
             /\ \A d \in Engines \ {e} : cache'[d] = cache[d]
  BY <1>1, <1>4 DEF HarnessInv, HarnessTypes
<1>5. CASE SaveEdits(e, s, file, out)
  <2>a. PICK new : new = [k \in out.touched |-> out.entries[k]]
    OBVIOUS
  <2>1. Save(s, file) /\ Writes(s, new, {now}) /\ time' \in Nat
    BY <1>1, <1>5, <2>a DEF SaveEdits
  <2>2. /\ disk' \in [Stores -> File] /\ FileIsItsWrites'
        /\ lock' \in [Stores -> Engines \union Writers \union {Free}]
        /\ written' \in [Stores -> [entries : [Ids -> Entry], events : SUBSET Nat]]
        /\ \A t \in Stores \ {s} : disk'[t] = disk[t] /\ lock'[t] = lock[t]
    BY <1>1, <1>c, <2>1, <2>a, Saved DEF HarnessInv
  <2>3. cache' \in [Engines -> [Scopes -> File]] /\ \A d \in Engines \ {e} : cache'[d] = cache[d]
    BY <1>1, <1>2, <1>4, <1>5
  <2>4. pass' = [pass EXCEPT ![e] = q] /\ pass' \in [Engines -> Passes]
    BY <1>2, <1>3, <1>5 DEF HarnessInv, HarnessTypes
  <2>5. HarnessTypes'
    BY <1>1, <2>2, <2>3, <2>4 DEF HarnessInv, HarnessTypes
  <2> QED
    BY <1>1, <1>3, <2>2, <2>3, <2>4, <2>5, EngineEnds
<1>6. CASE LoseEdits(e, s, file)
  <2>1. UNCHANGED <<disk, written>> /\ lock' = [lock EXCEPT ![s] = Free]
    BY <1>6 DEF LoseEdits, SaveFails
  <2>2. cache' \in [Engines -> [Scopes -> File]] /\ \A d \in Engines \ {e} : cache'[d] = cache[d]
    BY <1>1, <1>2, <1>4, <1>6
  <2>3. pass' = [pass EXCEPT ![e] = Idle] /\ pass' \in [Engines -> Passes]
    BY <1>2, <1>6, IdlePass DEF HarnessInv, HarnessTypes
  <2>4. HarnessTypes' /\ FileIsItsWrites'
    BY <1>1, <2>1, <2>2, <2>3 DEF HarnessInv, HarnessTypes, FileIsItsWrites
  <2>5. \A t \in Stores \ {s} : disk'[t] = disk[t] /\ lock'[t] = lock[t]
    BY <2>1 DEF HarnessInv, HarnessTypes
  <2> QED
    BY <1>1, <2>2, <2>3, <2>4, <2>5, IdlePass, EngineEnds
<1> QED
  BY <1>1, <1>5, <1>6

-----------------------------------------------------------------------------
LEMMA AppendOk == ASSUME HarnessInv, NEW e \in Engines, AppendResult(e) PROVE HarnessInv'
<1> DEFINE p == pass[e]
           s == StoreOf(e, p.scope)
           id == cache[e][p.scope].mtime
           new == [id |-> id, applied |-> p.result]
<1>1. /\ p \in Passes /\ p.scope \in Scopes /\ p.result \in Seq(Done) /\ Chained(p.result)
      /\ s \in Stores /\ id \in Nat
  <2>1. p \in Passes /\ p.scope \in Scopes /\ p.result \in Seq(Done) /\ Chained(p.result)
    BY DEF HarnessInv, HarnessTypes, Passes, PassInv, PassOk
  <2>2. cache[e][p.scope] \in File
    BY <2>1 DEF HarnessInv, HarnessTypes
  <2> QED
    BY <2>1, <2>2, StoreOfTypes DEF File
<1>2. new \in [id : Nat, applied : Seq(Done)] /\ new.applied = p.result
  BY <1>1
<1>3. /\ UNCHANGED <<disk, lock, hand, time, written>> /\ pass' = [pass EXCEPT ![e] = Idle]
      /\ \/ /\ results' = [results EXCEPT ![s] = @ \union {new}]
            /\ cache' = [cache EXCEPT ![e] = [scope \in Scopes |-> Sync(@[scope], StoreOf(e, scope))]]
         \/ UNCHANGED <<results, cache>>
  BY DEF AppendResult, EndPass
<1> HIDE DEF p, s, id, new
<1>4. PICK c \in [Scopes -> File] : cache' = [cache EXCEPT ![e] = c]
  <2>1. CASE UNCHANGED cache
    <3>1. cache[e] \in [Scopes -> File] /\ cache = [cache EXCEPT ![e] = cache[e]]
      BY DEF HarnessInv, HarnessTypes
    <3> QED
      BY <2>1, <3>1
  <2>2. CASE cache' = [cache EXCEPT ![e] = [scope \in Scopes |-> Sync(@[scope], StoreOf(e, scope))]]
    <3> DEFINE c == [scope \in Scopes |-> Sync(cache[e][scope], StoreOf(e, scope))]
    <3>1. ASSUME NEW scope \in Scopes PROVE Sync(cache[e][scope], StoreOf(e, scope)) \in File
      BY StoreOfTypes DEF Sync, HarnessInv, HarnessTypes
    <3>2. c \in [Scopes -> File]
      BY <3>1
    <3>3. cache' = [cache EXCEPT ![e] = c]
      BY <2>2 DEF HarnessInv, HarnessTypes
    <3> HIDE DEF c
    <3> QED
      BY <3>2, <3>3
  <2> QED
    BY <1>3, <2>1, <2>2
<1>5. /\ results' \in [Stores -> SUBSET [id : Nat, applied : Seq(Done)]]
      /\ \A t \in Stores : \A r \in results'[t] : Chained(r.applied)
  <2>1. CASE UNCHANGED results
    BY <2>1 DEF HarnessInv, HarnessTypes, PassInv
  <2>2. CASE results' = [results EXCEPT ![s] = @ \union {new}]
    <3>1. results' \in [Stores -> SUBSET [id : Nat, applied : Seq(Done)]]
      BY <1>1, <1>2, <2>2 DEF HarnessInv, HarnessTypes
    <3>2. \A t \in Stores : \A r \in results'[t] : r = new \/ r \in results[t]
      BY <1>1, <2>2 DEF HarnessInv, HarnessTypes
    <3> QED
      BY <1>1, <1>2, <3>1, <3>2 DEF HarnessInv, PassInv
  <2> QED
    BY <1>3, <2>1, <2>2
<1> QED
  BY <1>3, <1>4, <1>5, IdlePass, PassMoves

\* Steps that change nothing but the pass of an engine.
LEMMA PassOnly ==
    ASSUME HarnessInv, UNCHANGED <<disk, lock, hand, time, written, results, cache>>, NEW e \in Engines,
           NEW p \in Passes, PassOk(p), p.at # "apply", pass' = [pass EXCEPT ![e] = p]
    PROVE  HarnessInv'
<1>1. cache[e] \in [Scopes -> File] /\ cache' = [cache EXCEPT ![e] = cache[e]]
  BY DEF HarnessInv, HarnessTypes
<1>2. /\ results' \in [Stores -> SUBSET [id : Nat, applied : Seq(Done)]]
      /\ \A s \in Stores : \A r \in results'[s] : Chained(r.applied)
  BY DEF HarnessInv, HarnessTypes, PassInv
<1> QED
  BY <1>1, <1>2, PassMoves

LEMMA PlannedOk ==
    ASSUME HarnessInv, NEW e \in Engines, NEW proposal \in Proposals, Planned(e, proposal)
    PROVE  HarnessInv'
<1> DEFINE p == [pass[e] EXCEPT !.at = "ready", !.proposal = proposal]
<1>1. /\ pass[e].at = "plan" /\ UNCHANGED <<disk, lock, hand, time, written, results, cache>>
      /\ pass' = [pass EXCEPT ![e].at = "ready", ![e].proposal = proposal]
  BY DEF Planned, unchangedStores
<1>2. pass[e] \in Passes /\ PassOk(pass[e]) /\ pass \in [Engines -> Passes]
  BY DEF HarnessInv, HarnessTypes, PassInv
<1>3. proposal \in Seq(EditType)
  <2>1. PICK n \in 1 .. MaxEdits : proposal \in [1 .. n -> Edits]
    BY DEF Proposals
  <2>2. \A edit \in Edits : edit \in EditType
    <3> TAKE edit \in Edits
    <3>1. PICK k \in Keys, a \in Actions : edit = [key |-> k, action |-> a, text |-> "planned"]
      BY DEF Edits, Actions
    <3>2. "planned" \in Texts /\ k \in Ids
      BY DEF Texts, Ids
    <3> QED
      BY <3>1, <3>2 DEF EditType
  <2>3. n \in Nat /\ proposal \in [1 .. n -> EditType]
    BY <2>1, <2>2
  <2> QED
    BY <2>3, IsASeq
<1>4. pass' = [pass EXCEPT ![e] = p]
  BY <1>1, <1>2
<1> HIDE DEF p
<1>5. /\ p \in Passes /\ p.at = "ready" /\ p.undo = pass[e].undo /\ p.baseline = pass[e].baseline
      /\ p.result = pass[e].result
  BY <1>2, <1>3 DEF p, Passes
<1>6. PassOk(p)
  BY <1>1, <1>2, <1>5 DEF PassOk
<1> QED
  BY <1>1, <1>4, <1>5, <1>6, PassOnly

LEMMA ReviewOk ==
    ASSUME HarnessInv, NEW e \in Engines, NEW scope \in Scopes, Review(e, scope)
    PROVE  HarnessInv'
<1> DEFINE p == [Idle EXCEPT !.at = "judge", !.scope = scope]
<1>1. UNCHANGED <<disk, lock, hand, time, written, results, cache>> /\ pass' = [pass EXCEPT ![e] = p]
  BY DEF Review, unchangedStores
<1>2. p \in Passes /\ p.at = "judge" /\ p.undo = 0 /\ p.result = <<>>
  BY IdlePass DEF Passes
<1> HIDE DEF p
<1>3. PassOk(p)
  BY <1>2, NothingChained DEF PassOk
<1> QED
  BY <1>1, <1>2, <1>3, PassOnly

LEMMA AbandonedOk == ASSUME HarnessInv, NEW e \in Engines, Abandoned(e) PROVE HarnessInv'
<1>1. UNCHANGED <<disk, lock, hand, time, written, results, cache>> /\ pass' = [pass EXCEPT ![e] = Idle]
  BY DEF Abandoned, EndPass, unchangedStores
<1> QED
  BY <1>1, IdlePass, PassOnly

ByEngine(e) ==
    \/ \E k \in Ids : RecordEpisode(e, k)
    \/ \E scope \in Scopes, undo \in 0 .. MaxTime : Schedule(e, scope, undo) \/ FromHost(e, scope, undo)
    \/ \E scope \in Scopes : Review(e, scope)
    \/ AtBoundary(e) \/ Approved(e)
    \/ \E proposal \in Proposals : Planned(e, proposal)
    \/ Abandoned(e) \/ ApplyLock(e) \/ ApplySave(e) \/ AppendResult(e)

LEMMA NextSplit == HarnessNext <=> (\E w \in Writers : ByWriter(w)) \/ (\E e \in Engines : ByEngine(e))
  BY DEF HarnessNext, ByWriter, ByEngine

LEMMA PassStep ==
    ASSUME HarnessInv, NoteTypes, NEW e \in Engines, ByEngine(e)
    PROVE  HarnessInv'
<1>0. 0 .. MaxTime \subseteq Nat
  BY HarnessConstants
<1>1. CASE \E k \in Ids : RecordEpisode(e, k)
  BY <1>1, EpisodeOk
<1>2. CASE \E scope \in Scopes, undo \in 0 .. MaxTime : Schedule(e, scope, undo)
  <2>1. UNCHANGED <<disk, results, lock, cache, hand, pass, time, written>>
    BY <1>2 DEF Schedule, unchangedStores
  <2> QED
    BY <2>1 DEF HarnessInv, HarnessTypes, LockInv, PassInv, FileIsItsWrites
<1>3. CASE \E scope \in Scopes, undo \in 0 .. MaxTime : FromHost(e, scope, undo)
  <2>1. PICK scope \in Scopes, undo \in Nat : FromHost(e, scope, undo)
    BY <1>0, <1>3
  <2>2. Begin(e, scope, undo) /\ UNCHANGED <<disk, lock, hand, time, written, results>>
    BY <2>1 DEF FromHost, unchangedStores
  <2> QED
    BY <2>2, BeginOk
<1>4. CASE \E scope \in Scopes : Review(e, scope)
  BY <1>4, ReviewOk
<1>5. CASE AtBoundary(e)
  <2>1. /\ refineRequest[e] # NoRequest /\ Begin(e, refineRequest[e].scope, refineRequest[e].undo)
        /\ UNCHANGED <<disk, lock, hand, time, written, results>>
    BY <1>5 DEF AtBoundary, unchangedStores
  <2>2. PICK scope \in Scopes, undo \in Nat : scope = refineRequest[e].scope /\ undo = refineRequest[e].undo
    BY <2>1 DEF NoteTypes, Requests
  <2> QED
    BY <2>1, <2>2, BeginOk
<1>6. CASE Approved(e)
  <2>1. pass[e].scope \in Scopes
    BY DEF HarnessInv, HarnessTypes, Passes
  <2>2. PICK scope \in Scopes : scope = pass[e].scope
    BY <2>1
  <2> QED
    BY <1>6, <2>2, PlanningOk DEF Approved, unchangedStores
<1>7. CASE \E proposal \in Proposals : Planned(e, proposal)
  BY <1>7, PlannedOk
<1>8. CASE Abandoned(e)
  BY <1>8, AbandonedOk
<1>9. CASE ApplyLock(e)
  BY <1>9, ApplyLockOk
<1>10. CASE ApplySave(e)
  BY <1>10, ApplyOk
<1>11. CASE AppendResult(e)
  BY <1>11, AppendOk
<1> QED
  BY <1>1, <1>2, <1>3, <1>4, <1>5, <1>6, <1>7, <1>8, <1>9, <1>10, <1>11 DEF ByEngine

LEMMA NoteStep == HarnessInv /\ NoteTypes /\ [HarnessNext]_harnessVars => NoteTypes'
<1> SUFFICES ASSUME HarnessInv, NoteTypes, [HarnessNext]_harnessVars PROVE NoteTypes'
  OBVIOUS
<1>1. CASE UNCHANGED <<refineRequest, refined, told>>
  BY <1>1 DEF NoteTypes
<1>2. ASSUME NEW e \in Engines, NEW scope \in Scopes, NEW undo \in 0 .. MaxTime, Schedule(e, scope, undo)
      PROVE  NoteTypes'
  <2>1. undo \in Nat
    BY HarnessConstants
  <2>2. [scope |-> scope, undo |-> undo] \in Requests
    BY <2>1 DEF Requests
  <2> QED
    BY <1>2, <2>2 DEF Schedule, NoteTypes
<1>3. ASSUME NEW e \in Engines, AtBoundary(e) PROVE NoteTypes'
  <2>1. NoRequest \in Requests
    BY DEF Requests
  <2> QED
    BY <1>3, <2>1 DEF AtBoundary, NoteTypes
<1>4. ASSUME NEW e \in Engines, AppendResult(e) PROVE NoteTypes'
  <2>1. pass[e].scope \in Scopes
    BY DEF HarnessInv, HarnessTypes, Passes
  <2>2. cache[e][pass[e].scope] \in File
    BY <2>1 DEF HarnessInv, HarnessTypes
  <2>3. Notice(cache[e][pass[e].scope].mtime, pass[e].scope) \in [id : Nat, scope : Scopes]
    BY <2>1, <2>2 DEF Notice, File
  <2>4. refineRequest' = refineRequest
    BY <1>4 DEF AppendResult
  <2>5. \/ UNCHANGED <<told, refined>>
        \/ /\ told' = [told EXCEPT ![e] = @ \union {Notice(cache[e][pass[e].scope].mtime, pass[e].scope)}]
           /\ refined' = [refined EXCEPT ![e] = @ + 1]
    BY <1>4 DEF AppendResult
  <2> QED
    BY <2>3, <2>4, <2>5 DEF NoteTypes
<1>5. ASSUME NEW w \in Writers, ByWriter(w) PROVE UNCHANGED <<refineRequest, refined, told>>
  BY <1>5 DEF ByWriter, Enter, Leave, Put, Delete, Record, Prune, Refused, unchangedPasses
<1>6. ASSUME NEW e \in Engines, ByEngine(e) PROVE NoteTypes'
  <2>1. CASE \E k \in Ids : RecordEpisode(e, k)
    BY <1>1, <2>1 DEF RecordEpisode
  <2>2. CASE \E scope \in Scopes, undo \in 0 .. MaxTime : FromHost(e, scope, undo)
    BY <1>1, <2>2 DEF FromHost
  <2>3. CASE (\E scope \in Scopes : Review(e, scope)) \/ Approved(e) \/ Abandoned(e)
    BY <1>1, <2>3 DEF Review, Approved, Abandoned
  <2>4. CASE (\E proposal \in Proposals : Planned(e, proposal)) \/ ApplyLock(e) \/ ApplySave(e)
    BY <1>1, <2>4 DEF Planned, ApplyLock, ApplySave
  <2> QED
    BY <1>2, <1>3, <1>4, <1>6, <2>1, <2>2, <2>3, <2>4 DEF ByEngine
<1> QED
  BY <1>1, <1>5, <1>6, NextSplit DEF harnessVars

LEMMA HarnessStep == HarnessInv /\ NoteTypes /\ [HarnessNext]_harnessVars => HarnessInv'
<1> SUFFICES ASSUME HarnessInv, NoteTypes, [HarnessNext]_harnessVars PROVE HarnessInv'
  OBVIOUS
<1>1. CASE UNCHANGED harnessVars
  BY <1>1 DEF harnessVars, HarnessInv, HarnessTypes, LockInv, PassInv, FileIsItsWrites
<1> QED
  BY <1>1, WriterStep, PassStep, NextSplit

LEMMA HarnessStarts == HarnessInit => HarnessInv /\ NoteTypes
<1> SUFFICES ASSUME HarnessInit PROVE HarnessInv /\ NoteTypes
  OBVIOUS
<1>1. Empty \in File /\ NoEntry \in Entry /\ Idle \in Passes /\ PassOk(Idle) /\ Idle.at = "idle"
  BY EmptyIsFile, IdlePass
<1>2. Out \in [at : {"in", "out"}, store : Stores, file : File] /\ Out.at = "out"
  BY EmptyIsFile DEF Out, Stores
<1>3. [entries |-> [k \in Ids |-> NoEntry], events |-> {}] \in [entries : [Ids -> Entry], events : SUBSET Nat]
  BY <1>1
<1>4. HarnessTypes
  BY <1>1, <1>2, <1>3 DEF HarnessInit, HarnessTypes
<1>5. LockInv /\ PassInv
  BY <1>1, <1>2 DEF HarnessInit, LockInv, PassInv
<1>6. FileIsItsWrites
  BY DEF HarnessInit, FileIsItsWrites, Empty
<1>7. NoteTypes
  BY DEF HarnessInit, NoteTypes, Requests
<1> QED
  BY <1>4, <1>5, <1>6, <1>7 DEF HarnessInv

LEMMA HarnessHolds == HarnessSpec => [](HarnessInv /\ NoteTypes)
<1>1. (HarnessInv /\ NoteTypes) /\ [HarnessNext]_harnessVars => (HarnessInv /\ NoteTypes)'
  BY HarnessStep, NoteStep
<1> QED
  BY <1>1, HarnessStarts, PTL DEF HarnessSpec

\* Every store file is what the successful writes to it add up to, whoever made them.
THEOREM NoWriteIsLost == HarnessSpec => []FileIsItsWrites
<1>1. HarnessInv => FileIsItsWrites
  BY DEF HarnessInv
<1> QED
  BY <1>1, HarnessHolds, PTL

-----------------------------------------------------------------------------
\* Only the append tells of a pass, and it has the result written by then.
LEMMA ToldStep ==
    ASSUME HarnessInv, NoteTypes, ToldCanBeUndone, [HarnessNext]_harnessVars
    PROVE  ToldCanBeUndone'
<1>1. CASE UNCHANGED <<told, results>>
  BY <1>1 DEF ToldCanBeUndone
<1>2. ASSUME NEW e \in Engines, AppendResult(e) PROVE ToldCanBeUndone'
  <2> DEFINE p == pass[e]
             s == StoreOf(e, p.scope)
             id == cache[e][p.scope].mtime
             new == [id |-> id, applied |-> p.result]
             note == Notice(id, p.scope)
  <2>1. CASE UNCHANGED <<told, results>>
    BY <1>1, <2>1
  <2>2. CASE told' = [told EXCEPT ![e] = @ \union {note}] /\ results' = [results EXCEPT ![s] = @ \union {new}]
    <3>1. s \in Stores
      BY StoreOfTypes DEF HarnessInv, HarnessTypes, Passes
    <3>2. new.id = id /\ note.id = id /\ note.scope = p.scope /\ s = StoreOf(e, note.scope)
      BY DEF Notice
    <3> HIDE DEF s, id, new, note, p
    <3>3. /\ new \in results'[s] /\ \A t \in Stores : results[t] \subseteq results'[t]
          /\ \A d \in Engines : \A n \in told'[d] : n \in told[d] \/ (d = e /\ n = note)
      BY <2>2, <3>1 DEF HarnessInv, HarnessTypes, NoteTypes
    <3>4. ASSUME NEW d \in Engines, NEW n \in told'[d]
          PROVE  \E r \in results'[StoreOf(d, n.scope)] : r.id = n.id
      <4>1. CASE d = e /\ n = note
        BY <3>2, <3>3, <4>1
      <4>2. CASE n \in told[d]
        <5>1. PICK r \in results[StoreOf(d, n.scope)] : r.id = n.id
          BY <4>2 DEF ToldCanBeUndone
        <5>2. StoreOf(d, n.scope) \in Stores
          BY <4>2, StoreOfTypes DEF NoteTypes
        <5> QED
          BY <3>3, <5>1, <5>2
      <4> QED
        BY <3>3, <4>1, <4>2
    <3> QED
      BY <3>4 DEF ToldCanBeUndone
  <2> QED
    BY <1>2, <2>1, <2>2 DEF AppendResult
<1>3. ASSUME NEW w \in Writers, ByWriter(w) PROVE UNCHANGED <<told, results>>
  BY <1>3 DEF ByWriter, Enter, Leave, Put, Delete, Record, Prune, Refused, unchangedPasses
<1>4. ASSUME NEW e \in Engines, ByEngine(e) PROVE ToldCanBeUndone'
  <2>1. CASE \E k \in Ids : RecordEpisode(e, k)
    BY <1>1, <2>1 DEF RecordEpisode
  <2>2. CASE \E scope \in Scopes, undo \in 0 .. MaxTime : Schedule(e, scope, undo) \/ FromHost(e, scope, undo)
    BY <1>1, <2>2 DEF Schedule, FromHost, unchangedStores
  <2>3. CASE AtBoundary(e) \/ Approved(e) \/ Abandoned(e)
    BY <1>1, <2>3 DEF AtBoundary, Approved, Abandoned, unchangedStores
  <2>4. CASE (\E scope \in Scopes : Review(e, scope)) \/ (\E proposal \in Proposals : Planned(e, proposal))
    BY <1>1, <2>4 DEF Review, Planned, unchangedStores
  <2>5. CASE ApplyLock(e) \/ ApplySave(e)
    BY <1>1, <2>5 DEF ApplyLock, ApplySave
  <2> QED
    BY <1>2, <1>4, <2>1, <2>2, <2>3, <2>4, <2>5 DEF ByEngine
<1> QED
  BY <1>1, <1>3, <1>4, NextSplit DEF harnessVars

\* Every pass the model was told of has its result in the store it changed.
THEOREM ToldIsRecorded == HarnessSpec => []ToldCanBeUndone
<1>1. HarnessInit => ToldCanBeUndone
  BY DEF HarnessInit, ToldCanBeUndone
<1>2. (HarnessInv /\ NoteTypes) /\ ToldCanBeUndone /\ [HarnessNext]_harnessVars => ToldCanBeUndone'
  BY ToldStep
<1> QED
  BY <1>1, <1>2, HarnessHolds, PTL DEF HarnessSpec

-----------------------------------------------------------------------------
\* Saving its edits is the only step a pass takes from the lock to the append.
LEMMA OnlySaves ==
    ASSUME HarnessInv, [HarnessNext]_harnessVars, NEW e \in Engines,
           pass[e].at = "apply", pass'[e].at = "append"
    PROVE  ApplySave(e)
<1>1. ASSUME pass' = pass PROVE FALSE
  BY <1>1
<1>2. ASSUME NEW w \in Writers, ByWriter(w) PROVE pass' = pass
  BY <1>2 DEF ByWriter, Enter, Leave, Put, Delete, Record, Prune, Refused, unchangedPasses
<1>3. ASSUME NEW d \in Engines, d # e, NEW p, pass' = [pass EXCEPT ![d] = p] PROVE FALSE
  BY <1>3 DEF HarnessInv, HarnessTypes
<1>4. ASSUME NEW d \in Engines, NEW scope, NEW undo, Begin(d, scope, undo), pass[d].at = "idle" PROVE FALSE
  <2>1. d # e
    BY <1>4
  <2>2. CASE Planning(d, scope)
    BY <1>3, <2>1, <2>2 DEF Planning
  <2>3. CASE RollingBack(d, scope, undo)
    BY <1>3, <2>1, <2>3 DEF RollingBack
  <2> QED
    BY <1>1, <1>4, <2>2, <2>3 DEF Begin
<1>5. ASSUME NEW d \in Engines, ByEngine(d) PROVE ApplySave(e)
  <2>1. CASE \E k \in Ids : RecordEpisode(d, k)
    BY <1>1, <2>1 DEF RecordEpisode
  <2>2. CASE \E scope \in Scopes, undo \in 0 .. MaxTime : Schedule(d, scope, undo)
    BY <1>1, <2>2 DEF Schedule
  <2>3. CASE \E scope \in Scopes, undo \in 0 .. MaxTime : FromHost(d, scope, undo)
    BY <1>4, <2>3 DEF FromHost
  <2>4. CASE AtBoundary(d)
    BY <1>4, <2>4 DEF AtBoundary
  <2>5. CASE \E scope \in Scopes : Review(d, scope)
    BY <1>3, <2>5 DEF Review
  <2>6. CASE Approved(d)
    BY <1>3, <2>6 DEF Approved, Planning
  <2>7. CASE \E proposal \in Proposals : Planned(d, proposal)
    <3>1. d # e
      BY <2>7 DEF Planned
    <3>2. pass'[e] = pass[e]
      BY <2>7, <3>1 DEF Planned, HarnessInv, HarnessTypes
    <3> QED
      BY <3>2
  <2>8. CASE Abandoned(d)
    BY <1>3, <2>8 DEF Abandoned, EndPass
  <2>9. CASE ApplyLock(d)
    <3>1. d # e
      BY <2>9 DEF ApplyLock
    <3>2. pass'[e] = pass[e]
      BY <2>9, <3>1 DEF ApplyLock, HarnessInv, HarnessTypes
    <3> QED
      BY <3>2
  <2>10. CASE ApplySave(d)
    <3>1. CASE d = e
      BY <2>10, <3>1
    <3>2. CASE d # e
      <4>1. \/ pass' = [pass EXCEPT ![d] = Idle]
            \/ \E done : pass' = [pass EXCEPT ![d].at = "append", ![d].result = done]
        BY <2>10 DEF ApplySave, SaveEdits, LoseEdits, EndPass
      <4>2. pass'[e] = pass[e]
        BY <3>2, <4>1 DEF HarnessInv, HarnessTypes
      <4> QED
        BY <4>2
    <3> QED
      BY <3>1, <3>2
  <2>11. CASE AppendResult(d)
    BY <1>3, <2>11 DEF AppendResult, EndPass
  <2> QED
    BY <1>5, <2>1, <2>2, <2>3, <2>4, <2>5, <2>6, <2>7, <2>8, <2>9, <2>10, <2>11 DEF ByEngine
<1> QED
  BY <1>1, <1>2, <1>5, NextSplit DEF harnessVars

\* What such a step makes of the entries of the store.
LEMMA PassSaves ==
    ASSUME HarnessInv, [HarnessNext]_harnessVars, NEW e \in Engines,
           pass[e].at = "apply", pass'[e].at = "append",
           NEW s, s = StoreOf(e, pass[e].scope)
    PROVE  LET out == Applied(disk[s].entries, pass[e].proposal, pass[e].baseline, time + 1)
           IN  /\ disk[s].entries \in [Ids -> Entry] /\ time + 1 \in Nat \ {0}
               /\ disk'[s].entries = out.entries
               /\ \A k \in Ids : out.entries[k] # disk[s].entries[k]
                                   => pass[e].baseline = <<>> \/ disk[s].entries[k] = pass[e].baseline[k]
<1>1. ApplySave(e)
  BY OnlySaves
<1>a. PICK scope : scope = pass[e].scope
  OBVIOUS
<1>c. PICK old : old = disk[s]
  OBVIOUS
<1>d. PICK now : now = time + 1
  OBVIOUS
<1>e. PICK out : out = Applied(old.entries, pass[e].proposal, pass[e].baseline, now)
  OBVIOUS
<1>f. PICK file : file = [old EXCEPT !.entries = out.entries, !.events = @ \union {now}]
  OBVIOUS
<1>2. Saves(e, scope, s, old, now, out, file)
  BY <1>1, <1>a, <1>c, <1>d, <1>e, <1>f, ApplyParts DEF AppliesOver
<1>3. /\ s \in Stores /\ now \in Nat \ {0} /\ file.entries = out.entries
      /\ SaveEdits(e, s, file, out) \/ LoseEdits(e, s, file)
      /\ \A k \in Ids : out.entries[k] # old.entries[k]
                          => pass[e].baseline = <<>> \/ old.entries[k] = pass[e].baseline[k]
  BY <1>2 DEF Saves
<1>4. ~LoseEdits(e, s, file)
  <2>1. Idle.at # "append"
    BY IdlePass
  <2> QED
    BY <2>1 DEF LoseEdits, EndPass, HarnessInv, HarnessTypes
<1>5. disk' = [disk EXCEPT ![s] = [file EXCEPT !.mtime = time']]
  BY <1>3, <1>4 DEF SaveEdits, Save
<1>6. disk'[s].entries = file.entries
  <2>1. file \in File
    BY <1>2 DEF Saves
  <2>2. \A n : [file EXCEPT !.mtime = n].entries = file.entries
    BY <2>1 DEF File
  <2>3. disk'[s] = [file EXCEPT !.mtime = time']
    BY <1>3, <1>5 DEF HarnessInv, HarnessTypes
  <2> QED
    BY <2>2, <2>3
<1>7. disk[s].entries \in [Ids -> Entry]
  BY <1>3, FileParts DEF HarnessInv, HarnessTypes
<1> QED
  BY <1>3, <1>6, <1>7, <1>c, <1>d, <1>e

LEMMA ConflictStep ==
    ASSUME HarnessInv, [HarnessNext]_harnessVars, NEW e \in Engines
    PROVE  RefusesConflicts(e)
<1>a. PICK s : s = StoreOf(e, pass[e].scope)
  OBVIOUS
<1> SUFFICES ASSUME pass[e].at = "apply", pass'[e].at = "append", pass[e].undo = 0,
                    NEW k \in Ids, disk'[s].entries[k] # disk[s].entries[k]
             PROVE  disk[s].entries[k] = pass[e].baseline[k]
  BY <1>a DEF RefusesConflicts
<1>1. pass[e].baseline = <<>> \/ disk[s].entries[k] = pass[e].baseline[k]
  BY <1>a, PassSaves
<1>2. pass[e].baseline \in [Ids -> Entry]
  BY DEF HarnessInv, PassInv, PassOk
<1>3. pass[e].baseline # <<>>
  <2>1. DOMAIN pass[e].baseline # {}
    BY <1>2
  <2>2. DOMAIN <<>> = {}
    BY EmptySeq, LenProperties
  <2> QED
    BY <2>1, <2>2
<1> QED
  BY <1>1, <1>3

LEMMA RollbackStep ==
    ASSUME HarnessInv, [HarnessNext]_harnessVars, NEW e \in Engines
    PROVE  PutsBack(e)
<1>a. PICK s : s = StoreOf(e, pass[e].scope)
  OBVIOUS
<1>b. PICK r : r = pass[e].result
  OBVIOUS
<1> SUFFICES ASSUME pass[e].at = "apply", pass'[e].at = "append", pass[e].undo # 0,
                    \A k \in TouchedBy(r) : disk[s].entries[k] = AfterIn(r, k),
                    NEW k \in TouchedBy(r)
             PROVE  \/ Wordless(BeforeIn(r, k))
                    \/ Alike(disk'[s].entries[k], BeforeIn(r, k))
  <2>1. \A k \in TouchedBy(r) :
           (Wordless(BeforeIn(r, k)) \/ Alike(disk'[s].entries[k], BeforeIn(r, k))) =>
              \/ Present(BeforeIn(r, k)) /\ BeforeIn(r, k).text = ""
              \/ /\ Present(disk'[s].entries[k]) = Present(BeforeIn(r, k))
                 /\ disk'[s].entries[k].text = BeforeIn(r, k).text
    BY DEF Wordless, Alike, Present
  <2> QED
    BY <1>a, <1>b, <2>1 DEF PutsBack
<1>1. PICK entries, proposal, now :
         entries = disk[s].entries /\ proposal = pass[e].proposal /\ now = time + 1
  OBVIOUS
<1>2. r \in Seq(Done) /\ Chained(r) /\ pass[e].baseline = <<>> /\ proposal = RollbackProposal([applied |-> r])
  BY <1>1, <1>b DEF HarnessInv, HarnessTypes, Passes, PassInv, PassOk
<1>3. /\ entries \in [Ids -> Entry] /\ now \in Nat \ {0}
      /\ disk'[s].entries = Applied(entries, proposal, <<>>, now).entries
  BY <1>1, <1>2, <1>a, PassSaves
<1>4. \/ Wordless(BeforeIn(r, k))
      \/ Alike(Applied(entries, proposal, <<>>, now).entries[k], BeforeIn(r, k))
  BY <1>1, <1>2, <1>3, UndoneAll
<1> QED
  BY <1>3, <1>4

\* A planned pass changes no entry that changed since it was planned, and a
\* rollback puts back every entry of the pass that nobody wrote since.
THEOREM PassesKeepToPlan == HarnessSpec => PassesAreExact
<1>1. HarnessInv /\ [HarnessNext]_harnessVars => [\A e \in Engines : RefusesConflicts(e)]_harnessVars
  BY ConflictStep
<1>2. HarnessInv /\ [HarnessNext]_harnessVars => [\A e \in Engines : PutsBack(e)]_harnessVars
  BY RollbackStep
<1>3. HarnessSpec => ConflictsRefused
  BY <1>1, HarnessHolds, PTL DEF HarnessSpec, ConflictsRefused
<1>4. HarnessSpec => RollbackReverses
  BY <1>2, HarnessHolds, PTL DEF HarnessSpec, RollbackReverses
<1> QED
  BY <1>3, <1>4 DEF PassesAreExact

=============================================================================
