------------------------- MODULE ConversationProofs -------------------------
(***************************************************************************)
(* That nothing is told twice and that waits are woken, for any number of  *)
(* steering messages, kernel notices and events.                           *)
(*                                                                         *)
(* The invariant counts how often a message occurs in the conversation,    *)
(* and in the conversation as the rollback of the running prompt would     *)
(* restore it (saved together with applied or delivered): both counts are  *)
(* fixed by its receipt (SteerInv) or by whether the notice was raised     *)
(* (NoticeInv). The lemmas before it say what appending, joining and       *)
(* splitting sequences do to a count. There is a lemma for each kind of    *)
(* step.                                                                   *)
(*                                                                         *)
(* Then, for Context, that the history is the blocks (HistoryInv) and that *)
(* nothing is forgotten (WholeInv), for any fanout and any number of       *)
(* messages, branches and prompts. The lemmas on Staircase before them say *)
(* that what is shown of a range tiles it, whichever blocks it has         *)
(* (ShownIsWhole).                                                         *)
(***************************************************************************)
EXTENDS Conversation, Context, FiniteSetTheorems, FunctionTheorems, SequenceTheorems,
        WellFoundedInduction, TLAPS

-----------------------------------------------------------------------------
(* How often something occurs in a sequence.                               *)

At(s, x) == {i \in DOMAIN s : s[i] = x}
Count(s, x) == Cardinality(At(s, x))

LEMMA CountType ==
    ASSUME NEW S, NEW s \in Seq(S), NEW x
    PROVE  IsFiniteSet(At(s, x)) /\ Count(s, x) \in Nat
<1>1. DOMAIN s = 1 .. Len(s) /\ Len(s) \in Nat
  BY LenProperties
<1>2. IsFiniteSet(1 .. Len(s))
  BY <1>1, FS_Interval
<1>3. At(s, x) \subseteq 1 .. Len(s)
  BY <1>1 DEF At
<1>4. IsFiniteSet(At(s, x))
  BY <1>2, <1>3, FS_Subset
<1> QED
  BY <1>4, FS_CardinalityType DEF Count

LEMMA CountEmpty == \A x : Count(<<>>, x) = 0
  BY FS_EmptySet DEF Count, At

LEMMA CountConcat ==
    ASSUME NEW S, NEW s \in Seq(S), NEW t \in Seq(S), NEW x
    PROVE  Count(s \o t, x) = Count(s, x) + Count(t, x)
<1> DEFINE n == Len(s)
           shifted == {i \in n + 1 .. n + Len(t) : t[i - n] = x}
<1>1. /\ n \in Nat /\ Len(t) \in Nat /\ DOMAIN s = 1 .. n /\ DOMAIN t = 1 .. Len(t)
      /\ DOMAIN (s \o t) = 1 .. n + Len(t)
      /\ \A i \in 1 .. n + Len(t) : (s \o t)[i] = IF i <= n THEN s[i] ELSE t[i - n]
  BY ConcatProperties, LenProperties
<1> HIDE DEF n
<1>2. At(s \o t, x) = At(s, x) \union shifted /\ At(s, x) \intersect shifted = {}
  BY <1>1 DEF At
<1>3. IsFiniteSet(At(s, x)) /\ IsFiniteSet(At(t, x)) /\ Count(s, x) \in Nat /\ Count(t, x) \in Nat
  BY CountType
<1>4. IsFiniteSet(shifted) /\ Cardinality(shifted) = Count(t, x)
  <2> DEFINE f == [i \in At(t, x) |-> i + n]
  <2>1. f \in Bijection(At(t, x), shifted)
    <3>1. f \in [At(t, x) -> shifted]
      BY <1>1 DEF At
    <3>2. \A i, j \in At(t, x) : f[i] = f[j] => i = j
      BY <1>1 DEF At
    <3>3. ASSUME NEW k \in shifted PROVE \E i \in At(t, x) : f[i] = k
      <4>1. k - n \in At(t, x) /\ k = (k - n) + n
        BY <1>1 DEF At
      <4> QED
        BY <4>1
    <3> QED
      BY <3>1, <3>2, <3>3, Fun_IsBij
  <2>2. ExistsBijection(At(t, x), shifted)
    BY <2>1 DEF ExistsBijection
  <2> QED
    BY <1>3, <2>2, FS_Bijection DEF Count
<1> HIDE DEF shifted
<1>5. Cardinality(At(s, x) \union shifted) = Cardinality(At(s, x)) + Cardinality(shifted) - Cardinality({})
  BY <1>2, <1>3, <1>4, FS_Union
<1> QED
  BY <1>2, <1>3, <1>4, <1>5, FS_EmptySet DEF Count

LEMMA CountOne ==
    ASSUME NEW y, NEW x
    PROVE  Count(<<y>>, x) = IF y = x THEN 1 ELSE 0
<1>1. At(<<y>>, x) = IF y = x THEN {1} ELSE {}
  BY DEF At
<1> QED
  BY <1>1, FS_Singleton, FS_EmptySet DEF Count

LEMMA CountAppend ==
    ASSUME NEW S, NEW s \in Seq(S), NEW y \in S, NEW x
    PROVE  Count(Append(s, y), x) = Count(s, x) + (IF y = x THEN 1 ELSE 0)
<1>1. Append(s, y) = s \o <<y>> /\ <<y>> \in Seq(S)
  BY AppendIsConcat
<1>2. Count(s \o <<y>>, x) = Count(s, x) + Count(<<y>>, x)
  BY <1>1, CountConcat
<1> QED
  BY <1>1, <1>2, CountOne

LEMMA CountZero ==
    ASSUME NEW S, NEW s \in Seq(S), NEW x
    PROVE  Count(s, x) = 0 <=> \A i \in 1 .. Len(s) : s[i] # x
<1>1. IsFiniteSet(At(s, x)) /\ DOMAIN s = 1 .. Len(s)
  BY CountType, LenProperties
<1>2. Count(s, x) = 0 <=> At(s, x) = {}
  BY <1>1, FS_EmptySet DEF Count
<1> QED
  BY <1>1, <1>2 DEF At

LEMMA CountItems ==
    ASSUME NEW S, NEW s \in Seq(S), NEW kind, NEW other, NEW x
    PROVE  Count(Items(kind, s), <<other, x>>) = IF kind = other THEN Count(s, x) ELSE 0
<1>1. At(Items(kind, s), <<other, x>>) = IF kind = other THEN At(s, x) ELSE {}
  BY DEF At, Items
<1> QED
  BY <1>1, FS_EmptySet DEF Count

LEMMA CountSplit ==
    ASSUME NEW S, NEW s \in Seq(S), NEW n \in 0 .. Len(s), NEW x
    PROVE  /\ SubSeq(s, 1, n) \in Seq(S) /\ SubSeq(s, n + 1, Len(s)) \in Seq(S)
           /\ Count(s, x) = Count(SubSeq(s, 1, n), x) + Count(SubSeq(s, n + 1, Len(s)), x)
<1>1. Len(s) \in Nat /\ \A i \in 1 .. Len(s) : s[i] \in S
  BY LenProperties, ElementOfSeq
<1>2. SubSeq(s, 1, n) \in Seq(S) /\ SubSeq(s, n + 1, Len(s)) \in Seq(S)
  BY <1>1, SubSeqProperties
<1>3. SubSeq(s, 1, n) \o SubSeq(s, n + 1, Len(s)) = SubSeq(s, 1, Len(s))
  <2>1. 1 \in 1 .. Len(s) + 1 /\ n \in 1 - 1 .. Len(s) /\ Len(s) \in n .. Len(s)
    BY <1>1
  <2> QED
    BY <2>1, ConcatAdjacentSubSeq
<1>4. SubSeq(s, 1, Len(s)) = s
  BY SubSeqFull
<1>5. Count(SubSeq(s, 1, n) \o SubSeq(s, n + 1, Len(s)), x)
        = Count(SubSeq(s, 1, n), x) + Count(SubSeq(s, n + 1, Len(s)), x)
  BY <1>2, CountConcat
<1>6. SubSeq(s, 1, n) \o SubSeq(s, n + 1, Len(s)) = s
  BY <1>3, <1>4
<1> QED
  BY <1>2, <1>5, <1>6

-----------------------------------------------------------------------------
(* The invariant.                                                          *)

Said == ({"steer"} \X Steers) \union ({"kernel"} \X Notices) \union ({"unread"} \X Nat)

TypeInv ==
    /\ turn \in {"none", "starting", "model", "tool", "wait", "settled"}
    /\ context \in Seq(Said) /\ saved \in Seq(Said)
    /\ queue \in Seq(Steers) /\ applied \in Seq(Steers)
    /\ receipt \in [Steers -> {"none", "pending", "injected", "refused"}]
    /\ ready \in BOOLEAN /\ changed \in BOOLEAN
    /\ raised \subseteq Notices
    /\ repl \in Seq(Notices) /\ pending \in Seq(Notices) /\ delivered \in Seq(Notices)
    /\ inbox \in Seq([loud : BOOLEAN, read : BOOLEAN])
    /\ announced \in [all : Nat, loud : Nat, unread : Nat, quiet : Nat]

Once(condition) == IF condition THEN 1 ELSE 0

\* A steering message is queued while its receipt is pending, and told when it is
\* injected: in the conversation as it is, and as a rollback would restore it.
SteerInv(m) ==
    /\ Count(queue, m) = Once(receipt[m] = "pending")
    /\ Count(context, <<"steer", m>>) = Once(receipt[m] = "injected")
    /\ Active => Count(saved, <<"steer", m>>) + Count(applied, m) = Once(receipt[m] = "injected")

\* A notice is in one place, now and after a rollback.
NoticeInv(n) ==
    LET waiting == Count(pending, n) + Count(repl, n) IN
    /\ Count(context, <<"kernel", n>>) + waiting = Once(n \in raised)
    /\ Active => Count(saved, <<"kernel", n>>) + Count(delivered, n) + waiting = Once(n \in raised)

WaitInv ==
    /\ queue # << >> => ready
    /\ ~Active => queue = << >>
    /\ announced.all <= Len(inbox)
    /\ turn = "wait" => (Ready <=> changed)

TalkInv ==
    /\ \A m \in Steers : SteerInv(m)
    /\ \A n \in Notices : NoticeInv(n)

IInv == TypeInv /\ TalkInv /\ WaitInv

LEMMA Starts == Init => IInv
<1> SUFFICES ASSUME Init PROVE IInv
  OBVIOUS
<1>1. TypeInv
  <2>1. \A S : << >> \in Seq(S)
    OBVIOUS
  <2>2. [all |-> 0, loud |-> 0, unread |-> 0, quiet |-> 0] \in [all : Nat, loud : Nat, unread : Nat, quiet : Nat]
    OBVIOUS
  <2> QED
    BY <2>1, <2>2 DEF Init, TypeInv
<1>2. TalkInv
  BY CountEmpty DEF Init, TalkInv, SteerInv, NoticeInv, Once, Active
<1>3. WaitInv
  BY DEF Init, WaitInv, Active
<1> QED
  BY <1>1, <1>2, <1>3 DEF IInv

\* What the agent is told, as part of the conversation.
LEMMA SteeringText ==
    ASSUME NEW s \in Seq(Steers)
    PROVE  /\ Items("steer", s) \in Seq(Said)
           /\ \A m : Count(Items("steer", s), <<"steer", m>>) = Count(s, m)
           /\ \A n : Count(Items("steer", s), <<"kernel", n>>) = 0
<1>1. DOMAIN s = 1 .. Len(s) /\ Len(s) \in Nat /\ \A i \in 1 .. Len(s) : s[i] \in Steers
  BY LenProperties, ElementOfSeq
<1>2. \A i \in 1 .. Len(s) : <<"steer", s[i]>> \in Said
  BY <1>1 DEF Said
<1>3. Items("steer", s) = [i \in 1 .. Len(s) |-> <<"steer", s[i]>>]
  BY <1>1 DEF Items
<1>4. Items("steer", s) \in Seq(Said)
  BY <1>1, <1>2, <1>3, IsASeq
<1> QED
  BY <1>4, CountItems

LEMMA RecoveryText ==
    ASSUME TypeInv
    PROVE  /\ Recovery \in Seq(Said)
           /\ \A m : Count(Recovery, <<"steer", m>>) = 0
           /\ \A n : Count(Recovery, <<"kernel", n>>) = Count(pending, n) + Count(repl, n)
<1> DEFINE s == pending \o repl
<1>1. s \in Seq(Notices) /\ \A n : Count(s, n) = Count(pending, n) + Count(repl, n)
  BY ConcatProperties, CountConcat DEF TypeInv
<1> HIDE DEF s
<1>2. DOMAIN s = 1 .. Len(s) /\ Len(s) \in Nat /\ \A i \in 1 .. Len(s) : s[i] \in Notices
  BY <1>1, LenProperties, ElementOfSeq
<1>3. \A i \in 1 .. Len(s) : <<"kernel", s[i]>> \in Said
  BY <1>2 DEF Said
<1>4. Items("kernel", s) = [i \in 1 .. Len(s) |-> <<"kernel", s[i]>>]
  BY <1>2 DEF Items
<1>5. Items("kernel", s) \in Seq(Said)
  BY <1>2, <1>3, <1>4, IsASeq
<1>6. \A n : Count(Items("kernel", s), <<"kernel", n>>) = Count(s, n)
  BY <1>1, CountItems
<1>7. \A m : Count(Items("kernel", s), <<"steer", m>>) = 0
  BY <1>1, CountItems
<1>8. Recovery = Items("kernel", s)
  BY DEF Recovery, s
<1> QED
  BY <1>1, <1>5, <1>6, <1>7, <1>8

LEMMA UnreadText ==
    ASSUME TypeInv
    PROVE  /\ Unread \in Nat /\ Cardinality(Loud) \in Nat /\ Len(inbox) \in Nat
           /\ UnreadNotice \in Seq(Said)
           /\ \A m : Count(UnreadNotice, <<"steer", m>>) = 0
           /\ \A n : Count(UnreadNotice, <<"kernel", n>>) = 0
<1>1. DOMAIN inbox = 1 .. Len(inbox) /\ Len(inbox) \in Nat
  BY LenProperties DEF TypeInv
<1>2. IsFiniteSet(1 .. Len(inbox))
  BY <1>1, FS_Interval
<1>3. Loud \subseteq 1 .. Len(inbox)
  BY <1>1 DEF Loud, Events
<1>4. IsFiniteSet(Loud) /\ IsFiniteSet({i \in Loud : ~inbox[i].read})
  BY <1>2, <1>3, FS_Subset
<1>5. Unread \in Nat /\ Cardinality(Loud) \in Nat
  BY <1>4, FS_CardinalityType DEF Unread
<1>6. UnreadNotice = << <<"unread", Unread>> >> \/ UnreadNotice = << >>
  BY DEF UnreadNotice
<1>7. CASE UnreadNotice = << >>
  BY <1>1, <1>5, <1>7, CountEmpty
<1>8. CASE UnreadNotice = << <<"unread", Unread>> >>
  <2>1. <<"unread", Unread>> \in Said
    BY <1>5 DEF Said
  <2>2. \A m : <<"unread", Unread>> # <<"steer", m>> /\ <<"unread", Unread>> # <<"kernel", m>>
    OBVIOUS
  <2> QED
    BY <1>1, <1>5, <1>8, <2>1, <2>2, CountOne
<1> QED
  BY <1>6, <1>7, <1>8

\* The first messages of the queue, applied, and what then is left of it.
LEMMA Applies ==
    ASSUME TypeInv, \A m \in Steers : SteerInv(m), NEW k \in 0 .. Len(queue)
    PROVE  LET leading == SubSeq(queue, 1, k)
               rest == SubSeq(queue, k + 1, Len(queue))
           IN /\ leading \in Seq(Steers) /\ rest \in Seq(Steers) /\ applied \o leading \in Seq(Steers)
              /\ \A m \in Steers :
                    /\ Count(leading, m) = Once(\E i \in 1 .. k : queue[i] = m)
                    /\ Count(rest, m) = Once(\E i \in DOMAIN rest : rest[i] = m)
                    /\ Count(leading, m) + Count(rest, m) = Once(receipt[m] = "pending")
                    /\ Count(applied \o leading, m) = Count(applied, m) + Count(leading, m)
<1> DEFINE leading == SubSeq(queue, 1, k)
           rest == SubSeq(queue, k + 1, Len(queue))
<1>1. /\ leading \in Seq(Steers) /\ rest \in Seq(Steers)
      /\ \A m \in Steers : Count(queue, m) = Count(leading, m) + Count(rest, m)
  BY CountSplit DEF TypeInv
<1>2. Len(queue) \in Nat /\ \A i \in 1 .. Len(queue) : queue[i] \in Steers
  BY LenProperties, ElementOfSeq DEF TypeInv
<1>3. Len(leading) = k /\ \A i \in 1 .. k : leading[i] = queue[i]
  BY <1>2, SubSeqProperties
<1> HIDE DEF leading, rest
<1>4. applied \o leading \in Seq(Steers)
  BY <1>1, ConcatProperties DEF TypeInv
<1>5. ASSUME NEW m \in Steers
      PROVE  /\ Count(leading, m) = Once(\E i \in 1 .. k : queue[i] = m)
             /\ Count(rest, m) = Once(\E i \in DOMAIN rest : rest[i] = m)
             /\ Count(leading, m) + Count(rest, m) = Once(receipt[m] = "pending")
             /\ Count(applied \o leading, m) = Count(applied, m) + Count(leading, m)
  <2>1. Count(leading, m) \in Nat /\ Count(rest, m) \in Nat
    BY <1>1, CountType
  <2>2. Count(leading, m) = 0 <=> ~\E i \in 1 .. k : queue[i] = m
    BY <1>1, <1>3, CountZero
  <2>3. Count(rest, m) = 0 <=> ~\E i \in DOMAIN rest : rest[i] = m
    BY <1>1, CountZero, LenProperties
  <2>4. Count(leading, m) + Count(rest, m) = Once(receipt[m] = "pending")
    BY <1>1, <1>5 DEF SteerInv
  <2>5. Count(applied \o leading, m) = Count(applied, m) + Count(leading, m)
    BY <1>1, CountConcat DEF TypeInv
  <2> QED
    BY <2>1, <2>2, <2>3, <2>4, <2>5 DEF Once
<1> QED
  BY <1>1, <1>4, <1>5 DEF leading, rest

\* The notices a prompt has been told of.
LEMMA Delivered ==
    ASSUME TypeInv, NEW n
    PROVE  /\ delivered \o pending \o repl \in Seq(Notices)
           /\ Count(delivered \o pending \o repl, n) = Count(delivered, n) + Count(pending, n) + Count(repl, n)
<1> DEFINE s == delivered \o pending
<1>1. s \in Seq(Notices) /\ Count(s, n) = Count(delivered, n) + Count(pending, n)
  BY ConcatProperties, CountConcat DEF TypeInv
<1>2. repl \in Seq(Notices)
  BY DEF TypeInv
<1> HIDE DEF s
<1>3. s \o repl \in Seq(Notices) /\ Count(s \o repl, n) = Count(s, n) + Count(repl, n)
  BY <1>1, <1>2, ConcatProperties, CountConcat
<1>4. Count(delivered, n) \in Nat /\ Count(pending, n) \in Nat /\ Count(repl, n) \in Nat
  BY CountType DEF TypeInv
<1> QED
  BY <1>1, <1>3, <1>4 DEF s

-----------------------------------------------------------------------------
(* The steps.                                                              *)

\* The conversation, the queue and the notices are left alone.
LEMMA TalkRests ==
    ASSUME TypeInv, TalkInv, UNCHANGED <<context, saved, queue, applied, receipt, kernelVars>>,
           Active' <=> Active
    PROVE  TalkInv'
  BY DEF TalkInv, SteerInv, NoticeInv, kernelVars

LEMMA BeginStep ==
    ASSUME IInv, Begin
    PROVE  IInv'
<1>1. /\ ~Active /\ Active' /\ turn' = "starting" /\ saved' = context
      /\ applied' = << >> /\ delivered' = << >>
      /\ UNCHANGED <<context, queue, receipt, ready, raised, repl, pending, inbox, announced, changed>>
  BY DEF Begin, Active, inboxVars, waitVars
<1>2. TypeInv'
  BY <1>1 DEF IInv, TypeInv
<1>3. ASSUME NEW m \in Steers PROVE SteerInv(m)'
  <2>1. SteerInv(m) /\ Count(context, <<"steer", m>>) \in Nat
    BY CountType DEF IInv, TalkInv, TypeInv
  <2> QED
    BY <1>1, <2>1, CountEmpty DEF SteerInv
<1>4. ASSUME NEW n \in Notices PROVE NoticeInv(n)'
  <2>1. NoticeInv(n) /\ Count(context, <<"kernel", n>>) \in Nat
    BY CountType DEF IInv, TalkInv, TypeInv
  <2> QED
    BY <1>1, <2>1, CountEmpty DEF NoticeInv
<1>5. WaitInv'
  BY <1>1 DEF IInv, WaitInv
<1> QED
  BY <1>2, <1>3, <1>4, <1>5 DEF IInv, TalkInv

LEMMA SteerStep ==
    ASSUME IInv, NEW s \in Steers, Steer(s)
    PROVE  IInv'
<1>1. /\ Active /\ receipt[s] \in {"none", "refused"}
      /\ queue' = Append(queue, s) /\ receipt' = [receipt EXCEPT ![s] = "pending"] /\ ready' = TRUE
      /\ UNCHANGED <<turn, context, saved, applied, raised, repl, pending, delivered, inbox, announced, changed>>
  BY DEF Steer, promptVars, kernelVars, inboxVars, waitVars
<1>2. TypeInv' /\ Active'
  BY <1>1 DEF IInv, TypeInv, Active
<1>3. ASSUME NEW m \in Steers PROVE SteerInv(m)'
  <2>1. SteerInv(m) /\ Count(queue', m) = Count(queue, m) + Once(s = m)
    BY <1>1, CountAppend DEF IInv, TalkInv, TypeInv, Once
  <2>2. receipt'[m] = IF m = s THEN "pending" ELSE receipt[m]
    BY <1>1 DEF IInv, TypeInv
  <2> QED
    BY <1>1, <1>2, <2>1, <2>2 DEF SteerInv, Once
<1>4. \A n \in Notices : NoticeInv(n)'
  BY <1>1, <1>2 DEF IInv, TalkInv, NoticeInv
<1>5. WaitInv'
  BY <1>1, <1>2 DEF IInv, WaitInv, Ready, Events
<1> QED
  BY <1>2, <1>3, <1>4, <1>5 DEF IInv, TalkInv

\* What is injected, told and delivered at a boundary.
LEMMA BoundaryStep ==
    ASSUME IInv, Boundary
    PROVE  IInv'
<1> DEFINE k == Len(queue)
           leading == SubSeq(queue, 1, k)
           rest == SubSeq(queue, k + 1, Len(queue))
<1>1. /\ turn \in {"starting", "model", "settled"} /\ turn' = "model" /\ Active /\ Active'
      /\ queue' = rest /\ applied' = applied \o leading
      /\ receipt' = [m \in Steers |-> IF \E i \in 1 .. k : queue[i] = m THEN "injected" ELSE receipt[m]]
      /\ ready' = FALSE
      /\ delivered' = delivered \o pending \o repl /\ pending' = << >> /\ repl' = << >> /\ raised' = raised
      /\ context' = context \o Items("steer", leading) \o Recovery \o UnreadNotice
      /\ announced' = [announced EXCEPT !.all = Len(inbox), !.loud = Cardinality(Loud), !.unread = Unread]
      /\ UNCHANGED <<saved, inbox, changed>>
  BY DEF Boundary, Active, Inject, DeliverRecovery, Steering, waitVars
<1>2. TypeInv /\ \A m \in Steers : SteerInv(m)
  BY DEF IInv, TalkInv
<1>3. k \in 0 .. Len(queue) /\ Len(queue) \in Nat
  BY <1>2, LenProperties DEF TypeInv
<1>4. rest = << >>
  BY <1>3, SubSeqEmpty
<1>5. /\ leading \in Seq(Steers) /\ applied \o leading \in Seq(Steers)
      /\ \A m \in Steers :
            /\ Count(leading, m) = Once(\E i \in 1 .. k : queue[i] = m)
            /\ Count(rest, m) = Once(\E i \in DOMAIN rest : rest[i] = m)
            /\ Count(leading, m) + Count(rest, m) = Once(receipt[m] = "pending")
            /\ Count(applied \o leading, m) = Count(applied, m) + Count(leading, m)
  BY <1>2, <1>3, Applies
<1> HIDE DEF leading, rest, k
<1> DEFINE steers == Items("steer", leading)
<1>6. /\ steers \in Seq(Said) /\ Recovery \in Seq(Said) /\ UnreadNotice \in Seq(Said) /\ context \in Seq(Said)
      /\ \A m : Count(steers, <<"steer", m>>) = Count(leading, m) /\ Count(steers, <<"kernel", m>>) = 0
      /\ \A m : Count(Recovery, <<"steer", m>>) = 0
                /\ Count(Recovery, <<"kernel", m>>) = Count(pending, m) + Count(repl, m)
      /\ \A m : Count(UnreadNotice, <<"steer", m>>) = 0 /\ Count(UnreadNotice, <<"kernel", m>>) = 0
  <2>1. /\ steers \in Seq(Said)
        /\ \A m : Count(steers, <<"steer", m>>) = Count(leading, m)
        /\ \A m : Count(steers, <<"kernel", m>>) = 0
    BY <1>5, SteeringText
  <2>2. /\ Recovery \in Seq(Said)
        /\ \A m : Count(Recovery, <<"steer", m>>) = 0
        /\ \A m : Count(Recovery, <<"kernel", m>>) = Count(pending, m) + Count(repl, m)
    BY <1>2, RecoveryText
  <2>3. /\ UnreadNotice \in Seq(Said)
        /\ \A m : Count(UnreadNotice, <<"steer", m>>) = 0
        /\ \A m : Count(UnreadNotice, <<"kernel", m>>) = 0
    BY <1>2, UnreadText
  <2>4. context \in Seq(Said)
    BY <1>2 DEF TypeInv
  <2> HIDE DEF steers
  <2> QED
    BY <2>1, <2>2, <2>3, <2>4
<1> HIDE DEF steers
<1>7. /\ context \o steers \in Seq(Said) /\ context \o steers \o Recovery \in Seq(Said)
      /\ context \o steers \o Recovery \o UnreadNotice \in Seq(Said)
  BY <1>6, ConcatProperties
<1>8. \A x : Count(context', x) = Count(context, x) + Count(steers, x) + Count(Recovery, x) + Count(UnreadNotice, x)
  <2>1. ASSUME NEW x
        PROVE  /\ Count(context \o steers, x) = Count(context, x) + Count(steers, x)
               /\ Count(context \o steers \o Recovery, x) = Count(context \o steers, x) + Count(Recovery, x)
               /\ Count(context \o steers \o Recovery \o UnreadNotice, x)
                     = Count(context \o steers \o Recovery, x) + Count(UnreadNotice, x)
    <3>1. Count(context \o steers, x) = Count(context, x) + Count(steers, x)
      BY <1>6, CountConcat
    <3>2. Count(context \o steers \o Recovery, x) = Count(context \o steers, x) + Count(Recovery, x)
      <4> DEFINE s == context \o steers
      <4>1. s \in Seq(Said) /\ Recovery \in Seq(Said)
        BY <1>6, <1>7
      <4> HIDE DEF s
      <4>2. Count(s \o Recovery, x) = Count(s, x) + Count(Recovery, x)
        BY <4>1, CountConcat
      <4> QED
        BY <4>2 DEF s
    <3>3. Count(context \o steers \o Recovery \o UnreadNotice, x)
             = Count(context \o steers \o Recovery, x) + Count(UnreadNotice, x)
      <4> DEFINE s == context \o steers \o Recovery
      <4>1. s \in Seq(Said) /\ UnreadNotice \in Seq(Said)
        BY <1>6, <1>7
      <4> HIDE DEF s
      <4>2. Count(s \o UnreadNotice, x) = Count(s, x) + Count(UnreadNotice, x)
        BY <4>1, CountConcat
      <4> QED
        BY <4>2 DEF s
    <3> QED
      BY <3>1, <3>2, <3>3
  <2>2. \A x : Count(context, x) \in Nat /\ Count(steers, x) \in Nat /\ Count(Recovery, x) \in Nat /\ Count(UnreadNotice, x) \in Nat
    BY <1>6, CountType
  <2>3. context' = context \o steers \o Recovery \o UnreadNotice
    BY <1>1 DEF steers
  <2> QED
    BY <2>1, <2>2, <2>3
<1>9. TypeInv'
  <2>1. context' \in Seq(Said)
    BY <1>1, <1>7 DEF steers
  <2>2. delivered' \in Seq(Notices)
    BY <1>1, <1>2, ConcatProperties DEF TypeInv
  <2>3. announced' \in [all : Nat, loud : Nat, unread : Nat, quiet : Nat]
    BY <1>1, <1>2, UnreadText DEF TypeInv
  <2>4. << >> \in Seq(Notices) /\ << >> \in Seq(Steers)
    OBVIOUS
  <2>5. receipt' \in [Steers -> {"none", "pending", "injected", "refused"}]
    BY <1>1, <1>2 DEF TypeInv
  <2> QED
    BY <1>1, <1>2, <1>4, <1>5, <2>1, <2>2, <2>3, <2>4, <2>5 DEF TypeInv
<1>10. ASSUME NEW m \in Steers PROVE SteerInv(m)'
  <2>1. SteerInv(m) /\ Active /\ Active'
    BY <1>1, <1>2
  <2>2. /\ Count(leading, m) = Once(\E i \in 1 .. k : queue[i] = m)
        /\ Count(leading, m) = Once(receipt[m] = "pending")
    <3>1. Count(rest, m) = 0
      BY <1>4, CountEmpty
    <3>2. Count(leading, m) \in Nat
      BY <1>5, CountType
    <3>3. /\ Count(leading, m) = Once(\E i \in 1 .. k : queue[i] = m)
          /\ Count(leading, m) + Count(rest, m) = Once(receipt[m] = "pending")
      BY <1>5
    <3> QED
      BY <3>1, <3>2, <3>3 DEF Once
  <2>3. receipt'[m] = IF Count(leading, m) = 1 THEN "injected" ELSE receipt[m]
    BY <1>1, <2>2 DEF Once
  <2>4. Count(context', <<"steer", m>>) = Count(context, <<"steer", m>>) + Count(leading, m)
    BY <1>6, <1>8, <1>5, CountType
  <2>5. Count(applied', m) = Count(applied, m) + Count(leading, m)
    BY <1>1, <1>5
  <2>6. Count(queue', m) = 0
    BY <1>1, <1>4, CountEmpty
  <2>7. Count(context, <<"steer", m>>) \in Nat /\ Count(applied, m) \in Nat /\ Count(saved, <<"steer", m>>) \in Nat
    BY <1>2, CountType DEF TypeInv
  <2> QED
    BY <1>1, <2>1, <2>2, <2>3, <2>4, <2>5, <2>6, <2>7 DEF SteerInv, Once
<1>11. ASSUME NEW n \in Notices PROVE NoticeInv(n)'
  <2>1. NoticeInv(n)
    BY DEF IInv, TalkInv
  <2>2. Count(context', <<"kernel", n>>) = Count(context, <<"kernel", n>>) + Count(pending, n) + Count(repl, n)
    <3>1. Count(context, <<"kernel", n>>) \in Nat /\ Count(pending, n) \in Nat /\ Count(repl, n) \in Nat
      BY <1>2, CountType DEF TypeInv
    <3>2. Count(steers, <<"kernel", n>>) = 0 /\ Count(UnreadNotice, <<"kernel", n>>) = 0
          /\ Count(Recovery, <<"kernel", n>>) = Count(pending, n) + Count(repl, n)
      BY <1>6
    <3> QED
      BY <1>8, <3>1, <3>2
  <2>3. Count(delivered', n) = Count(delivered, n) + Count(pending, n) + Count(repl, n)
    <3>1. delivered \o pending \in Seq(Notices) /\ Count(delivered \o pending, n) = Count(delivered, n) + Count(pending, n)
      BY <1>2, ConcatProperties, CountConcat DEF TypeInv
    <3>2. Count(delivered \o pending \o repl, n) = Count(delivered \o pending, n) + Count(repl, n)
      <4> DEFINE s == delivered \o pending
      <4>1. s \in Seq(Notices) /\ repl \in Seq(Notices)
        BY <1>2, <3>1 DEF TypeInv
      <4> HIDE DEF s
      <4>2. Count(s \o repl, n) = Count(s, n) + Count(repl, n)
        BY <4>1, CountConcat
      <4> QED
        BY <4>2 DEF s
    <3>3. /\ Count(delivered, n) \in Nat /\ Count(pending, n) \in Nat /\ Count(repl, n) \in Nat
      BY <1>2, CountType DEF TypeInv
    <3> QED
      BY <1>1, <3>1, <3>2, <3>3
  <2>4. Count(pending', n) = 0 /\ Count(repl', n) = 0
    BY <1>1, CountEmpty
  <2>5. /\ Count(context, <<"kernel", n>>) \in Nat /\ Count(delivered, n) \in Nat
        /\ Count(pending, n) \in Nat /\ Count(repl, n) \in Nat /\ Count(saved, <<"kernel", n>>) \in Nat
    BY <1>2, CountType DEF TypeInv
  <2> QED
    BY <1>1, <2>1, <2>2, <2>3, <2>4, <2>5 DEF NoticeInv
<1>12. WaitInv'
  <2>1. announced'.all = Len(inbox) /\ Len(inbox) \in Nat
    BY <1>1, <1>2, UnreadText DEF TypeInv
  <2> QED
    BY <1>1, <1>4, <2>1 DEF WaitInv
<1> QED
  BY <1>9, <1>10, <1>11, <1>12 DEF IInv, TalkInv

LEMMA ToolDoneStep ==
    ASSUME IInv, ToolDone
    PROVE  IInv'
<1>1. /\ turn = "tool" /\ turn' = "settled" /\ Active /\ Active'
      /\ delivered' = delivered \o pending \o repl /\ pending' = << >> /\ repl' = << >> /\ raised' = raised
      /\ context' = context \o Recovery
      /\ UNCHANGED <<saved, queue, applied, receipt, ready, inbox, announced, changed>>
  BY DEF ToolDone, Active, DeliverRecovery, steerVars, inboxVars, waitVars
<1>2. /\ TypeInv /\ context \in Seq(Said) /\ Recovery \in Seq(Said)
      /\ \A m : Count(Recovery, <<"steer", m>>) = 0
      /\ \A n : Count(Recovery, <<"kernel", n>>) = Count(pending, n) + Count(repl, n)
  BY RecoveryText DEF IInv, TypeInv
<1>3. delivered \o pending \in Seq(Notices) /\ delivered' \in Seq(Notices) /\ context' \in Seq(Said)
  BY <1>1, <1>2, ConcatProperties DEF TypeInv
<1>4. \A x : Count(context', x) = Count(context, x) + Count(Recovery, x) /\ Count(context, x) \in Nat
  BY <1>1, <1>2, CountConcat, CountType
<1>5. TypeInv'
  <2>1. << >> \in Seq(Notices)
    OBVIOUS
  <2> QED
    BY <1>1, <1>2, <1>3, <2>1 DEF TypeInv
<1>6. ASSUME NEW m \in Steers PROVE SteerInv(m)'
  BY <1>1, <1>2, <1>4 DEF IInv, TalkInv, SteerInv
<1>7. ASSUME NEW n \in Notices PROVE NoticeInv(n)'
  <2>1. NoticeInv(n)
    BY DEF IInv, TalkInv
  <2>2. Count(delivered', n) = Count(delivered, n) + Count(pending, n) + Count(repl, n)
    BY <1>1, <1>2, Delivered
  <2>3. Count(pending', n) = 0 /\ Count(repl', n) = 0
    BY <1>1, CountEmpty
  <2>4. /\ Count(context, <<"kernel", n>>) \in Nat /\ Count(delivered, n) \in Nat
        /\ Count(pending, n) \in Nat /\ Count(repl, n) \in Nat /\ Count(saved, <<"kernel", n>>) \in Nat
    BY <1>2, CountType DEF TypeInv
  <2> QED
    BY <1>1, <1>2, <1>4, <2>1, <2>2, <2>3, <2>4 DEF NoticeInv
<1>8. WaitInv'
  BY <1>1 DEF IInv, WaitInv
<1> QED
  BY <1>5, <1>6, <1>7, <1>8 DEF IInv, TalkInv

\* A prompt that ends refuses what is still queued.
LEMMA EndStep ==
    ASSUME IInv, Answer \/ StopShort
    PROVE  IInv'
<1>1. /\ Active /\ ~Active' /\ turn' = "none" /\ queue' = << >> /\ ready' = FALSE /\ saved' = << >>
      /\ receipt' = [m \in Steers |-> IF \E i \in DOMAIN queue : queue[i] = m THEN "refused" ELSE receipt[m]]
      /\ UNCHANGED <<context, applied, raised, repl, pending, delivered, inbox, announced, changed>>
  BY DEF Answer, StopShort, EndPrompt, Active, kernelVars, inboxVars, waitVars
<1>2. TypeInv
  BY DEF IInv
<1>3. TypeInv'
  <2>1. << >> \in Seq(Said) /\ << >> \in Seq(Steers)
    OBVIOUS
  <2>2. receipt' \in [Steers -> {"none", "pending", "injected", "refused"}]
    BY <1>1, <1>2 DEF TypeInv
  <2> QED
    BY <1>1, <1>2, <2>1, <2>2 DEF TypeInv
<1>4. ASSUME NEW m \in Steers PROVE SteerInv(m)'
  <2>1. SteerInv(m) /\ Count(queue, m) \in Nat /\ Count(queue', m) = 0
    BY <1>1, CountType, CountEmpty DEF IInv, TalkInv, TypeInv
  <2>2. Count(queue, m) = 0 <=> ~\E i \in DOMAIN queue : queue[i] = m
    BY <1>2, CountZero, LenProperties DEF TypeInv
  <2>3. receipt'[m] = IF receipt[m] = "pending" THEN "refused" ELSE receipt[m]
    BY <1>1, <2>1, <2>2 DEF SteerInv, Once
  <2> QED
    BY <1>1, <2>1, <2>3 DEF SteerInv, Once
<1>5. ASSUME NEW n \in Notices PROVE NoticeInv(n)'
  BY <1>1 DEF IInv, TalkInv, NoticeInv
<1>6. WaitInv'
  BY <1>1 DEF IInv, WaitInv
<1> QED
  BY <1>3, <1>4, <1>5, <1>6 DEF IInv, TalkInv

\* A rollback with the steering in done applied and that in q still queued.
LEMMA RollbackStep ==
    ASSUME IInv, Active,
           NEW done \in Seq(Steers), NEW q \in Seq(Steers),
           NEW r \in [Steers -> {"none", "pending", "injected", "refused"}],
           \A m \in Steers :
               /\ Count(q, m) = Once(r[m] = "pending")
               /\ Count(saved, <<"steer", m>>) + Count(done, m) = Once(r[m] = "injected"),
           Rollback(done, q, r), applied' \in Seq(Steers),
           announced' \in [all : Nat, loud : Nat, unread : Nat, quiet : Nat],
           announced'.all = announced.all,
           UNCHANGED <<inbox, changed>>
    PROVE  IInv'
<1>1. /\ ~Active' /\ turn' = "none" /\ queue' = << >> /\ ready' = FALSE /\ saved' = << >>
      /\ receipt' = [m \in Steers |-> IF \E i \in DOMAIN q : q[i] = m THEN "refused" ELSE r[m]]
      /\ context' = saved \o Items("steer", done) /\ pending' = pending \o delivered
      /\ UNCHANGED <<raised, repl, delivered>>
  BY DEF Rollback, EndPrompt, Restored, RecoveryAgain, Active
<1>2. TypeInv /\ saved \in Seq(Said)
  BY DEF IInv, TypeInv
<1>3. /\ Items("steer", done) \in Seq(Said)
      /\ \A m : Count(Items("steer", done), <<"steer", m>>) = Count(done, m)
      /\ \A n : Count(Items("steer", done), <<"kernel", n>>) = 0
  BY SteeringText
<1>4. \A x : Count(context', x) = Count(saved, x) + Count(Items("steer", done), x)
  BY <1>1, <1>2, <1>3, CountConcat
<1>5. TypeInv'
  <2>1. << >> \in Seq(Said) /\ << >> \in Seq(Steers)
    OBVIOUS
  <2>2. receipt' \in [Steers -> {"none", "pending", "injected", "refused"}]
    BY <1>1
  <2>3. context' \in Seq(Said) /\ pending' \in Seq(Notices)
    BY <1>1, <1>2, <1>3, ConcatProperties DEF TypeInv
  <2> QED
    BY <1>1, <1>2, <2>1, <2>2, <2>3 DEF TypeInv
<1>6. ASSUME NEW m \in Steers PROVE SteerInv(m)'
  <2>1. Count(q, m) \in Nat /\ Count(queue', m) = 0
    BY <1>1, CountType, CountEmpty
  <2>2. Count(q, m) = 0 <=> ~\E i \in DOMAIN q : q[i] = m
    <3>1. q \in Seq(Steers)
      OBVIOUS
    <3>2. DOMAIN q = 1 .. Len(q)
      BY <3>1, LenProperties
    <3>3. Count(q, m) = 0 <=> \A i \in 1 .. Len(q) : q[i] # m
      BY <3>1, CountZero
    <3> QED
      BY <3>2, <3>3
  <2>3. receipt'[m] = IF r[m] = "pending" THEN "refused" ELSE r[m]
    <3>1. Count(q, m) = Once(r[m] = "pending")
      OBVIOUS
    <3>2. receipt'[m] = IF \E i \in DOMAIN q : q[i] = m THEN "refused" ELSE r[m]
      BY <1>1
    <3> QED
      BY <2>2, <3>1, <3>2 DEF Once
  <2>4. Count(context', <<"steer", m>>) = Once(r[m] = "injected")
    BY <1>3, <1>4
  <2> QED
    BY <1>1, <2>1, <2>3, <2>4 DEF SteerInv, Once
<1>7. ASSUME NEW n \in Notices PROVE NoticeInv(n)'
  <2>1. NoticeInv(n)
    BY DEF IInv, TalkInv
  <2>2. Count(pending', n) = Count(pending, n) + Count(delivered, n)
    BY <1>1, <1>2, CountConcat, SMTT(30) DEF TypeInv
  <2>3. Count(saved, <<"kernel", n>>) \in Nat /\ Count(pending, n) \in Nat /\ Count(repl, n) \in Nat /\ Count(delivered, n) \in Nat
    BY <1>2, CountType DEF TypeInv
  <2> QED
    BY <1>1, <1>3, <1>4, <2>1, <2>2, <2>3, SMTT(30) DEF NoticeInv
<1>8. WaitInv'
  BY <1>1 DEF IInv, WaitInv
<1> QED
  BY <1>5, <1>6, <1>7, <1>8 DEF IInv, TalkInv

LEMMA FailStep ==
    ASSUME IInv, Fail
    PROVE  IInv'
<1>1. /\ Active /\ Rollback(applied, queue, receipt) /\ applied' = applied
      /\ UNCHANGED <<inbox, changed>>
  BY DEF Fail, waitVars
<1>2. applied \in Seq(Steers) /\ queue \in Seq(Steers)
      /\ receipt \in [Steers -> {"none", "pending", "injected", "refused"}]
  BY DEF IInv, TypeInv
<1>3. /\ announced' \in [all : Nat, loud : Nat, unread : Nat, quiet : Nat]
      /\ announced'.all = announced.all
  <2>1. announced' = announced \/ announced' = [announced EXCEPT !.quiet = Len(inbox)]
    BY DEF Fail, WaitCancelled
  <2>2. Len(inbox) \in Nat /\ announced \in [all : Nat, loud : Nat, unread : Nat, quiet : Nat]
    BY UnreadText DEF IInv, TypeInv
  <2> QED
    BY <2>1, <2>2
<1>4. \A m \in Steers :
               /\ Count(queue, m) = Once(receipt[m] = "pending")
               /\ Count(saved, <<"steer", m>>) + Count(applied, m) = Once(receipt[m] = "injected")
  BY <1>1 DEF IInv, TalkInv, SteerInv
<1> QED
  BY <1>1, <1>2, <1>3, <1>4, RollbackStep

LEMMA WriteFailsStep ==
    ASSUME IInv, NEW k \in Nat, WriteFails(k)
    PROVE  IInv'
<1> DEFINE leading == SubSeq(queue, 1, k)
           rest == SubSeq(queue, k + 1, Len(queue))
           r == [m \in Steers |-> IF \E i \in 1 .. k : queue[i] = m THEN "injected" ELSE receipt[m]]
<1>1. /\ Active /\ Rollback(applied \o leading, rest, r) /\ applied' = applied \o leading
      /\ UNCHANGED <<inbox, changed, announced>> /\ k < Len(queue)
  BY DEF WriteFails, waitVars, inboxVars, Active
<1>2. TypeInv /\ (\A m \in Steers : SteerInv(m)) /\ k \in 0 .. Len(queue)
  BY <1>1, UnreadText, LenProperties, SMTT(30) DEF IInv, TalkInv, TypeInv
<1>3. /\ leading \in Seq(Steers) /\ rest \in Seq(Steers) /\ applied \o leading \in Seq(Steers)
      /\ \A m \in Steers :
            /\ Count(leading, m) = Once(\E i \in 1 .. k : queue[i] = m)
            /\ Count(rest, m) = Once(\E i \in DOMAIN rest : rest[i] = m)
            /\ Count(leading, m) + Count(rest, m) = Once(receipt[m] = "pending")
            /\ Count(applied \o leading, m) = Count(applied, m) + Count(leading, m)
  BY <1>2, Applies
<1>4. r \in [Steers -> {"none", "pending", "injected", "refused"}]
  BY <1>2 DEF TypeInv
<1> HIDE DEF leading, rest
<1>5. ASSUME NEW m \in Steers
      PROVE  /\ Count(rest, m) = Once(r[m] = "pending")
             /\ Count(saved, <<"steer", m>>) + Count(applied \o leading, m) = Once(r[m] = "injected")
  <2>1. SteerInv(m) /\ Active
    BY <1>1, <1>2
  <2>2. /\ Count(leading, m) = Once(\E i \in 1 .. k : queue[i] = m)
        /\ Count(rest, m) = Once(\E i \in DOMAIN rest : rest[i] = m)
        /\ Count(leading, m) + Count(rest, m) = Once(receipt[m] = "pending")
        /\ Count(applied \o leading, m) = Count(applied, m) + Count(leading, m)
    BY <1>3
  <2>3. r[m] = IF Count(leading, m) = 1 THEN "injected" ELSE receipt[m]
    BY <2>2 DEF Once
  <2>4. Count(applied, m) \in Nat /\ Count(saved, <<"steer", m>>) \in Nat
    BY <1>2, CountType DEF TypeInv
  <2> HIDE DEF r
  <2> QED
    BY <2>1, <2>2, <2>3, <2>4 DEF SteerInv, Once
<1>6. applied' \in Seq(Steers)
  BY <1>1, <1>3
<1>7. /\ announced' \in [all : Nat, loud : Nat, unread : Nat, quiet : Nat]
      /\ announced'.all = announced.all
  BY <1>1, <1>2 DEF TypeInv
<1> HIDE DEF r
<1> DEFINE done == applied \o leading
<1>8. done \in Seq(Steers) /\ rest \in Seq(Steers) /\ Rollback(done, rest, r)
  BY <1>1, <1>3
<1>9. \A m \in Steers :
          /\ Count(rest, m) = Once(r[m] = "pending")
          /\ Count(saved, <<"steer", m>>) + Count(done, m) = Once(r[m] = "injected")
  BY <1>5
<1> HIDE DEF done
<1> QED
  BY <1>1, <1>4, <1>6, <1>7, <1>8, <1>9, RollbackStep

LEMMA RecoverStep ==
    ASSUME IInv, NEW x \in Notices, Recover(x)
    PROVE  IInv'
<1>1. /\ x \notin raised /\ raised' = raised \union {x} /\ repl' = Append(repl, x) /\ turn' = turn
      /\ UNCHANGED <<context, saved, queue, applied, receipt, ready, pending, delivered, inbox, announced, changed>>
      /\ turn = "tool"
  BY DEF Recover, promptVars, steerVars, inboxVars, waitVars
<1>2. TypeInv' /\ (Active' <=> Active)
  BY <1>1 DEF IInv, TypeInv, Active
<1>3. ASSUME NEW m \in Steers PROVE SteerInv(m)'
  BY <1>1, <1>2 DEF IInv, TalkInv, SteerInv
<1>4. ASSUME NEW n \in Notices PROVE NoticeInv(n)'
  <2>1. NoticeInv(n) /\ Count(repl', n) = Count(repl, n) + Once(n = x)
    BY <1>1, CountAppend DEF IInv, TalkInv, TypeInv, Once
  <2>2. /\ Count(context, <<"kernel", n>>) \in Nat /\ Count(delivered, n) \in Nat
        /\ Count(pending, n) \in Nat /\ Count(repl, n) \in Nat /\ Count(saved, <<"kernel", n>>) \in Nat
    BY CountType DEF IInv, TypeInv
  <2> QED
    BY <1>1, <1>2, <2>1, <2>2 DEF NoticeInv, Once
<1>5. WaitInv'
  BY <1>1, <1>2 DEF IInv, WaitInv
<1> QED
  BY <1>2, <1>3, <1>4, <1>5 DEF IInv, TalkInv

\* The wait, and the tool call in the same prompt.
LEMMA AwaitStep ==
    ASSUME IInv,
           \/ CallTool \/ WaitWoken \/ WaitTimedOut \/ WaitSteered \/ Alarm
           \/ \E block \in BOOLEAN : WaitBegin(block)
    PROVE  IInv'
<1>1. /\ UNCHANGED <<context, saved, queue, applied, receipt, ready, raised, repl, pending, delivered, inbox>>
      /\ Active /\ Active'
  BY DEF CallTool, WaitWoken, WaitTimedOut, WaitSteered, Alarm, WaitBegin, steerVars, kernelVars,
         inboxVars, waitVars, promptVars, Active
<1>2. announced' = announced \/ announced' = [announced EXCEPT !.quiet = Len(inbox)]
  BY DEF CallTool, WaitWoken, WaitTimedOut, WaitSteered, WaitCancelled, Alarm, WaitBegin, inboxVars
<1>3. Len(inbox) \in Nat /\ announced \in [all : Nat, loud : Nat, unread : Nat, quiet : Nat]
  BY UnreadText DEF IInv, TypeInv
<1>4. /\ announced' \in [all : Nat, loud : Nat, unread : Nat, quiet : Nat]
      /\ announced'.all = announced.all
  BY <1>2, <1>3
<1>5. turn' \in {"tool", "settled", "wait"} /\ changed' \in BOOLEAN
  BY DEF CallTool, WaitWoken, WaitTimedOut, WaitSteered, Alarm, WaitBegin, waitVars, promptVars, IInv, TypeInv
<1>6. TypeInv'
  BY <1>1, <1>4, <1>5 DEF IInv, TypeInv
<1>7. TalkInv'
  BY <1>1, TalkRests DEF IInv, kernelVars
<1>8. turn' = "wait" => (Ready <=> changed)' 
  <2>1. CASE Alarm
    BY <2>1 DEF Alarm, IInv, WaitInv, Ready, Events, inboxVars, promptVars
  <2>2. CASE \E block \in BOOLEAN : WaitBegin(block)
    BY <2>2 DEF WaitBegin, Ready, Events
  <2>3. CASE CallTool \/ WaitWoken \/ WaitTimedOut \/ WaitSteered
    BY <2>3 DEF CallTool, WaitWoken, WaitTimedOut, WaitSteered
  <2> QED
    BY <2>1, <2>2, <2>3
<1>9. WaitInv'
  BY <1>1, <1>4, <1>8 DEF IInv, WaitInv
<1> QED
  BY <1>6, <1>7, <1>9 DEF IInv

\* An event that comes wakes the wait, and one that is read is read by a tool.
LEMMA InboxStep ==
    ASSUME IInv, \/ \E loud \in BOOLEAN : Publish(loud)
                 \/ \E i \in 1 .. MaxEvents : Read(i)
    PROVE  IInv'
<1>1. UNCHANGED <<turn, context, saved, queue, applied, receipt, ready, raised, repl, pending, delivered, announced>>
  BY DEF Publish, Read, promptVars, steerVars, kernelVars
<1>2. Len(inbox) \in Nat /\ inbox \in Seq([loud : BOOLEAN, read : BOOLEAN]) /\ announced.all \in Nat
  BY UnreadText DEF IInv, TypeInv
<1>3. TalkInv'
  BY <1>1, TalkRests DEF IInv, kernelVars, Active
<1>4. CASE \E loud \in BOOLEAN : Publish(loud)
  <2>1. PICK loud \in BOOLEAN : inbox' = Append(inbox, [loud |-> loud, read |-> FALSE]) /\ changed' = TRUE
    BY <1>4 DEF Publish
  <2>2. [loud |-> loud, read |-> FALSE] \in [loud : BOOLEAN, read : BOOLEAN]
    OBVIOUS
  <2>3. inbox' \in Seq([loud : BOOLEAN, read : BOOLEAN]) /\ Len(inbox') = Len(inbox) + 1
    BY <1>2, <2>1, <2>2, AppendProperties
  <2>4. TypeInv'
    BY <1>1, <2>1, <2>3 DEF IInv, TypeInv
  <2>5. announced'.all = announced.all /\ announced.all <= Len(inbox)
    BY <1>1 DEF IInv, WaitInv
  <2>6. Ready'
    BY <1>2, <2>3, <2>5 DEF Ready
  <2>7. WaitInv'
    BY <1>1, <1>2, <2>1, <2>3, <2>5, <2>6 DEF IInv, WaitInv, Active
  <2> QED
    BY <1>3, <2>4, <2>7 DEF IInv
<1>5. CASE \E i \in 1 .. MaxEvents : Read(i)
  <2>1. PICK i : i \in DOMAIN inbox /\ inbox' = [inbox EXCEPT ![i].read = TRUE] /\ turn = "tool" /\ changed' = changed
    BY <1>5 DEF Read, Events, waitVars
  <2>2. DOMAIN inbox = 1 .. Len(inbox) /\ inbox[i] \in [loud : BOOLEAN, read : BOOLEAN]
    BY <1>2, <2>1, LenProperties, ElementOfSeq
  <2>3. [inbox[i] EXCEPT !.read = TRUE] \in [loud : BOOLEAN, read : BOOLEAN]
    BY <2>2
  <2>4. inbox' = [inbox EXCEPT ![i] = [inbox[i] EXCEPT !.read = TRUE]]
    BY <2>1
  <2>5. inbox' \in Seq([loud : BOOLEAN, read : BOOLEAN]) /\ Len(inbox') = Len(inbox)
    BY <1>2, <2>1, <2>2, <2>3, <2>4, ExceptSeq
  <2>6. TypeInv'
    BY <1>1, <2>1, <2>5 DEF IInv, TypeInv
  <2>7. WaitInv'
    BY <1>1, <2>1, <2>5 DEF IInv, WaitInv, Active
  <2> QED
    BY <1>3, <2>6, <2>7 DEF IInv
<1> QED
  BY <1>4, <1>5

LEMMA Stutters ==
    ASSUME IInv, UNCHANGED vars
    PROVE  IInv'
<1>1. UNCHANGED <<turn, context, saved, queue, applied, receipt, ready, raised, repl, pending, delivered,
                  announced, inbox, changed>>
  BY DEF vars, promptVars, steerVars, kernelVars, inboxVars, waitVars
<1>2. TypeInv' /\ WaitInv' /\ (Active' <=> Active)
  BY <1>1 DEF IInv, TypeInv, WaitInv, Active, Ready, Events
<1>3. TalkInv'
  BY <1>1, <1>2, TalkRests DEF IInv, kernelVars
<1> QED
  BY <1>2, <1>3 DEF IInv

\* The invariant is inductive.
THEOREM TalkInvariant ==
    ASSUME IsFiniteSet(Steers)
    PROVE  Spec => []IInv
<1>1. Init => IInv
  BY Starts
<1>2. IInv /\ [Next]_vars => IInv'
  <2> SUFFICES ASSUME IInv, Next PROVE IInv'
    BY Stutters
  <2>1. \A n \in 0 .. Cardinality(Steers) : n \in Nat
    BY FS_CardinalityType
  <2> QED
    BY <2>1, BeginStep, SteerStep, BoundaryStep, ToolDoneStep, EndStep, FailStep, WriteFailsStep,
       RecoverStep, AwaitStep, InboxStep DEF Next
<1> QED
  BY <1>1, <1>2, PTL DEF Spec

\* A steering message that was answered injected is in the conversation once, any other
\* is not, and a kernel notice is told or waits, once: for any messages and notices, in
\* any prompts that end, fail, are cancelled and repeated (_apply_steering, prompt).
THEOREM NothingToldTwice ==
    ASSUME IsFiniteSet(Steers)
    PROVE  Spec => []ToldOnce
<1>1. IInv => ToldOnce
  <2> SUFFICES ASSUME IInv PROVE ToldOnce
    OBVIOUS
  <2>1. \A x : Times(x) = Count(context, x)
    BY DEF Times, Count, At
  <2>2. InjectedOnce
    BY <2>1 DEF IInv, TalkInv, SteerInv, InjectedOnce, Once
  <2>3. ASSUME NEW n \in raised
        PROVE  Times(<<"kernel", n>>)
                  + Cardinality({i \in DOMAIN (pending \o repl) : (pending \o repl)[i] = n}) = 1
    <3>1. n \in Notices /\ NoticeInv(n)
      BY <2>3 DEF IInv, TalkInv, TypeInv
    <3>2. Cardinality({i \in DOMAIN (pending \o repl) : (pending \o repl)[i] = n}) = Count(pending \o repl, n)
      BY DEF Count, At
    <3>3. Count(pending \o repl, n) = Count(pending, n) + Count(repl, n)
      BY CountConcat DEF IInv, TypeInv
    <3> QED
      BY <2>1, <2>3, <3>1, <3>2, <3>3 DEF NoticeInv, Once
  <2>4. NoticesKept
    BY <2>3 DEF NoticesKept
  <2> QED
    BY <2>2, <2>4 DEF ToldOnce
<1> QED
  BY <1>1, TalkInvariant, PTL

\* A native wait is woken by what it waits for and by nothing else, and never sleeps
\* on a steering message: for any order of events (wait_for_events, steer, _publish).
THEOREM WaitsAreWoken ==
    ASSUME IsFiniteSet(Steers)
    PROVE  Spec => []WaitIsWoken
<1>1. IInv => WaitIsWoken
  BY DEF IInv, WaitInv, WaitIsWoken
<1> QED
  BY <1>1, TalkInvariant, PTL

-----------------------------------------------------------------------------
(***************************************************************************)
(* What is shown of a staircase. Sizes and the rows of a range are         *)
(* recursive functions, so what they are is proved by induction first.     *)
(***************************************************************************)

\* Induction over the numbers, with a set in the place of a predicate.
LEMMA Induction ==
    ASSUME NEW S, 0 \in S, \A n \in Nat : n \in S => n + 1 \in S
    PROVE  Nat \subseteq S
<1> DEFINE R == {ss \in Nat \X Nat : ss[1] < ss[2]}
           Missing == Nat \ S
<1> SUFFICES ASSUME Missing # {} PROVE FALSE
  OBVIOUS
<1>1. IsWellFoundedOn(R, Nat)
  BY NatLessThanWellFounded DEF OpToRel
<1> HIDE DEF R
<1>2. PICK n \in Missing : \A m \in Missing : ~(<<m, n>> \in R)
  BY <1>1, WFMin
<1>3. n \in Nat /\ n # 0 /\ n \notin S
  BY <1>2
<1>4. n - 1 \in Nat /\ n - 1 < n /\ (n - 1) + 1 = n
  BY <1>3
<1>5. n - 1 \in S
  BY <1>2, <1>4 DEF R
<1> QED
  BY <1>3, <1>4, <1>5

\* A set of numbers has a least one.
LEMMA LeastOfRange ==
    ASSUME NEW S \in SUBSET Nat, S # {}
    PROVE  \E n \in S : \A m \in S : n <= m
<1> DEFINE R == {mn \in Nat \X Nat : mn[1] < mn[2]}
<1>1. IsWellFoundedOn(R, Nat)
  BY NatLessThanWellFounded DEF OpToRel
<1> HIDE DEF R
<1>2. PICK n \in S : \A m \in S : <<m, n>> \notin R
  BY <1>1, WFMin
<1>3. ASSUME NEW m \in S PROVE n <= m
  <2>1. m \in Nat /\ n \in Nat
    OBVIOUS
  <2>2. ~(m < n)
    BY <1>2, <2>1 DEF R
  <2> QED
    BY <2>1, <2>2
<1> QED
  BY <1>3

-----------------------------------------------------------------------------
(* How long the ranges are.                                                *)

TierMax == MaxBranches + 2

LEMMA SizesAre ==
    \A t \in 1 .. TierMax : Sizes[t] = IF t = 1 THEN 1 ELSE Fanout * Sizes[t - 1]
<1> DEFINE Body(f, t) == IF t = 1 THEN 1 ELSE Fanout * f[t - 1]
           Follows(f, m) == f = [t \in 1 .. m |-> Body(f, t)]
           S == {m \in Nat : \E f : Follows(f, m)}
<1>1. 0 \in S
  <2> DEFINE none == [t \in 1 .. 0 |-> 1]
  <2>1. Follows(none, 0)
    OBVIOUS
  <2> QED
    BY <2>1
<1>2. ASSUME NEW m \in Nat, m \in S PROVE m + 1 \in S
  <2>1. PICK f : Follows(f, m)
    BY <1>2
  <2> DEFINE more == [t \in 1 .. m + 1 |-> IF t = m + 1 THEN Body(f, t) ELSE f[t]]
  <2>2. \A t \in 1 .. m + 1 : t = m + 1 \/ t \in 1 .. m
    OBVIOUS
  <2>3. ASSUME NEW t \in 1 .. m + 1 PROVE Body(more, t) = Body(f, t)
    <3>1. t = 1 \/ (t - 1 \in 1 .. m + 1 /\ t - 1 # m + 1)
      OBVIOUS
    <3> QED
      BY <3>1
  <2>4. ASSUME NEW t \in 1 .. m + 1 PROVE more[t] = Body(f, t)
    <3>1. CASE t = m + 1
      BY <3>1
    <3>2. CASE t \in 1 .. m
      BY <2>1, <3>2
    <3> QED
      BY <2>2, <3>1, <3>2
  <2>5. Follows(more, m + 1)
    BY <2>3, <2>4
  <2> HIDE DEF more, Follows
  <2> QED
    BY <2>5
<1>3. TierMax \in Nat
  BY StaircaseConstants DEF TierMax
<1>4. TierMax \in S
  BY <1>1, <1>2, <1>3, Induction
<1>5. PICK f : Follows(f, TierMax)
  BY <1>4
<1>6. Follows(Sizes, TierMax)
  BY <1>5 DEF Sizes, TierMax
<1> QED
  BY <1>6

\* The length of a range grows by the fanout with each tier, and beyond any tier.
LEMMA SizesGrow ==
    /\ Size(1) = 1
    /\ \A t \in 1 .. TierMax : Size(t) \in Nat /\ Size(t) >= t
    /\ \A t \in 1 .. TierMax - 1 : Size(t + 1) = Fanout * Size(t)
<1> DEFINE S == {n \in Nat : n + 1 \in 1 .. TierMax => Size(n + 1) \in Nat /\ Size(n + 1) >= n + 1}
<1>1. TierMax \in Nat /\ TierMax >= 2 /\ Fanout \in Nat /\ Fanout >= 2
  BY StaircaseConstants DEF TierMax
<1>2. Size(1) = 1
  BY <1>1, SizesAre DEF Size
<1>3. ASSUME NEW t \in 1 .. TierMax - 1 PROVE Size(t + 1) = Fanout * Size(t)
  <2>1. t + 1 \in 1 .. TierMax /\ t + 1 # 1 /\ (t + 1) - 1 = t
    BY <1>1
  <2> QED
    BY <2>1, SizesAre DEF Size
<1>4. 0 \in S
  BY <1>2
<1>5. ASSUME NEW n \in Nat, n \in S PROVE n + 1 \in S
  <2> SUFFICES ASSUME (n + 1) + 1 \in 1 .. TierMax
               PROVE  Size((n + 1) + 1) \in Nat /\ Size((n + 1) + 1) >= (n + 1) + 1
    OBVIOUS
  <2>1. n + 1 \in 1 .. TierMax - 1
    BY <1>1
  <2>2. PICK z : z = Size(n + 1)
    OBVIOUS
  <2>3. z \in Nat /\ z >= n + 1
    <3>1. n + 1 \in 1 .. TierMax
      BY <1>1, <2>1
    <3>2. Size(n + 1) \in Nat /\ Size(n + 1) >= n + 1
      BY <1>5, <3>1
    <3> QED
      BY <2>2, <3>2
  <2>5. Size((n + 1) + 1) = Fanout * z
    BY <1>3, <2>1, <2>2
  <2>4. Fanout * z \in Nat /\ Fanout * z >= 2 * z
    BY <1>1, <2>3
  <2> QED
    BY <2>3, <2>4, <2>5
<1>6. Nat \subseteq S
  BY <1>4, <1>5, Induction
<1> HIDE DEF S
<1>7. ASSUME NEW t \in 1 .. TierMax PROVE Size(t) \in Nat /\ Size(t) >= t
  <2>1. t - 1 \in Nat /\ (t - 1) + 1 = t
    BY <1>1
  <2> QED
    BY <1>6, <2>1 DEF S
<1> QED
  BY <1>2, <1>3, <1>7
-----------------------------------------------------------------------------
(* Sequences of blocks that tile an interval of branches.                  *)

Ends(b) == b.from + Size(b.tier)

\* The blocks of s follow each other from branch a to branch z.
Tiles(bs, s, a, z) ==
    /\ s \in Seq(bs)
    /\ IF Len(s) = 0 THEN a = z
       ELSE /\ s[1].from = a /\ Ends(s[Len(s)]) = z
            /\ \A i \in 1 .. Len(s) - 1 : Ends(s[i]) = s[i + 1].from

LEMMA TilesJoin ==
    ASSUME NEW bs, NEW s, NEW t, NEW a, NEW m, NEW z, Tiles(bs, s, a, m), Tiles(bs, t, m, z)
    PROVE  Tiles(bs, s \o t, a, z)
<1>1. /\ s \in Seq(bs) /\ t \in Seq(bs) /\ Len(s) \in Nat /\ Len(t) \in Nat
  BY LenProperties DEF Tiles
<1> PICK j : j = s \o t
  OBVIOUS
<1>2. /\ j \in Seq(bs) /\ Len(j) = Len(s) + Len(t)
      /\ \A i \in 1 .. Len(s) + Len(t) : j[i] = IF i <= Len(s) THEN s[i] ELSE t[i - Len(s)]
  BY <1>1, ConcatProperties
<1>3. CASE Len(s) = 0
  <2>1. \A i \in 1 .. Len(t) : j[i] = t[i]
    BY <1>1, <1>2, <1>3
  <2> QED
    BY <1>1, <1>2, <1>3, <2>1 DEF Tiles
<1>4. CASE Len(t) = 0
  <2>1. \A i \in 1 .. Len(s) : j[i] = s[i]
    BY <1>1, <1>2, <1>4
  <2> QED
    BY <1>1, <1>2, <1>4, <2>1 DEF Tiles
<1>5. CASE Len(s) # 0 /\ Len(t) # 0
  <2>1. j[1] = s[1] /\ j[Len(j)] = t[Len(t)]
    BY <1>1, <1>2, <1>5
  <2>2. ASSUME NEW i \in 1 .. Len(j) - 1 PROVE Ends(j[i]) = j[i + 1].from
    <3>1. CASE i < Len(s)
      <4>1. j[i] = s[i] /\ j[i + 1] = s[i + 1] /\ i \in 1 .. Len(s) - 1
        BY <1>1, <1>2, <3>1
      <4> QED
        BY <1>5, <4>1 DEF Tiles
    <3>2. CASE i = Len(s)
      <4>1. j[i] = s[Len(s)] /\ j[i + 1] = t[1]
        BY <1>1, <1>2, <1>5, <3>2
      <4> QED
        BY <1>5, <4>1 DEF Tiles
    <3>3. CASE i > Len(s)
      <4>1. /\ i - Len(s) \in 1 .. Len(t) - 1 /\ (i + 1) - Len(s) = (i - Len(s)) + 1
            /\ j[i] = t[i - Len(s)] /\ j[i + 1] = t[(i + 1) - Len(s)]
        BY <1>1, <1>2, <3>3
      <4> QED
        BY <1>5, <4>1 DEF Tiles
    <3> QED
      BY <1>1, <3>1, <3>2, <3>3
  <2> QED
    BY <1>1, <1>2, <1>5, <2>1, <2>2 DEF Tiles
<1> QED
  BY <1>1, <1>3, <1>4, <1>5

\* FlattenSeq joins its sequences in turn.
LEMMA FlattenIs ==
    ASSUME NEW m \in Nat, m > 0, NEW seqs, Len(seqs) = m
    PROVE  \E f : /\ f = [i \in 1 .. m |-> IF i = 1 THEN seqs[i] ELSE f[i - 1] \o seqs[i]]
                  /\ FlattenSeq(seqs) = f[m]
<1> DEFINE Body(f, t) == IF t = 1 THEN seqs[t] ELSE f[t - 1] \o seqs[t]
           Follows(f, n) == f = [t \in 1 .. n |-> Body(f, t)]
           S == {n \in Nat : \E f : Follows(f, n)}
<1>1. 0 \in S
  <2> DEFINE none == [t \in 1 .. 0 |-> 1]
  <2>1. Follows(none, 0)
    OBVIOUS
  <2> QED
    BY <2>1
<1>2. ASSUME NEW n \in Nat, n \in S PROVE n + 1 \in S
  <2>1. PICK f : Follows(f, n)
    BY <1>2
  <2> DEFINE more == [t \in 1 .. n + 1 |-> IF t = n + 1 THEN Body(f, t) ELSE f[t]]
  <2>2. \A t \in 1 .. n + 1 : t = n + 1 \/ t \in 1 .. n
    OBVIOUS
  <2>3. ASSUME NEW t \in 1 .. n + 1 PROVE Body(more, t) = Body(f, t)
    <3>1. t = 1 \/ (t - 1 \in 1 .. n + 1 /\ t - 1 # n + 1)
      OBVIOUS
    <3> QED
      BY <3>1
  <2>4. ASSUME NEW t \in 1 .. n + 1 PROVE more[t] = Body(f, t)
    <3>1. CASE t = n + 1
      BY <3>1
    <3>2. CASE t \in 1 .. n
      BY <2>1, <3>2
    <3> QED
      BY <2>2, <3>1, <3>2
  <2>5. Follows(more, n + 1)
    BY <2>3, <2>4
  <2> HIDE DEF more, Follows
  <2> QED
    BY <2>5
<1>3. m \in S
  BY <1>1, <1>2, Induction
<1>4. PICK g : Follows(g, m)
  BY <1>3
<1> DEFINE f == CHOOSE f : Follows(f, m)
<1>5. Follows(f, m)
  BY <1>4
<1>6. FlattenSeq(seqs) = f[m]
  BY DEF FlattenSeq
<1> QED
  BY <1>5, <1>6

\* So sequences that tile adjoining intervals, with boundaries c, tile the whole.
LEMMA FlattenTiles ==
    ASSUME NEW bs, NEW m \in Nat, NEW seqs, NEW c,
           seqs = [i \in 1 .. m |-> seqs[i]],
           \A i \in 1 .. m : Tiles(bs, seqs[i], c[i - 1], c[i])
    PROVE  Tiles(bs, FlattenSeq(seqs), c[0], c[m])
<1>1. Len(seqs) = m /\ seqs \in Seq({seqs[i] : i \in 1 .. m})
  OBVIOUS
<1>2. CASE m = 0
  <2>1. FlattenSeq(seqs) = seqs
    BY <1>1, <1>2 DEF FlattenSeq
  <2>2. seqs \in Seq(bs)
    BY <1>1, <1>2
  <2> QED
    BY <1>1, <1>2, <2>1, <2>2 DEF Tiles
<1>3. CASE m > 0
  <2>1. PICK f : /\ f = [i \in 1 .. m |-> IF i = 1 THEN seqs[i] ELSE f[i - 1] \o seqs[i]]
                 /\ FlattenSeq(seqs) = f[m]
    BY <1>1, <1>3, FlattenIs
  <2> DEFINE S == {n \in Nat : n + 1 <= m => Tiles(bs, f[n + 1], c[0], c[n + 1])}
  <2>2. 0 \in S
    <3>1. 1 \in 1 .. m /\ 1 - 1 = 0
      BY <1>3
    <3>2. f[1] = seqs[1]
      BY <2>1, <3>1
    <3>3. Tiles(bs, seqs[1], c[1 - 1], c[1])
      BY <3>1
    <3>4. Tiles(bs, f[1], c[0], c[1])
      BY <3>1, <3>2, <3>3
    <3> QED
      BY <3>4
  <2>3. ASSUME NEW n \in Nat, n \in S PROVE n + 1 \in S
    <3> SUFFICES ASSUME (n + 1) + 1 <= m PROVE Tiles(bs, f[(n + 1) + 1], c[0], c[(n + 1) + 1])
      OBVIOUS
    <3>1. Tiles(bs, f[n + 1], c[0], c[n + 1])
      BY <2>3
    <3>2. (n + 1) + 1 \in 1 .. m /\ (n + 1) + 1 # 1 /\ ((n + 1) + 1) - 1 = n + 1
      OBVIOUS
    <3>3. f[(n + 1) + 1] = f[n + 1] \o seqs[(n + 1) + 1]
      BY <2>1, <3>2
    <3>4. Tiles(bs, seqs[(n + 1) + 1], c[n + 1], c[(n + 1) + 1])
      BY <3>2
    <3> QED
      BY <3>1, <3>3, <3>4, TilesJoin
  <2>4. Nat \subseteq S
    BY <2>2, <2>3, Induction
  <2> HIDE DEF S
  <2>5. m - 1 \in S /\ (m - 1) + 1 = m
    BY <1>3, <2>4
  <2>6. Tiles(bs, f[m], c[0], c[m])
    BY <2>5 DEF S
  <2> QED
    BY <2>1, <2>6
<1> QED
  BY <1>2, <1>3
-----------------------------------------------------------------------------
(* What is shown of a range.                                               *)

LEMMA RowsAre ==
    ASSUME NEW bs, NEW n
    PROVE  \A t \in Tiers :
              Rows(bs, n)[t] = Row(bs, n, t, IF t = 1 THEN <<>> ELSE Rows(bs, n)[t - 1])
<1> DEFINE Body(f, t) == Row(bs, n, t, IF t = 1 THEN <<>> ELSE f[t - 1])
           Follows(f, m) == f = [t \in 1 .. m |-> Body(f, t)]
           S == {m \in Nat : \E f : Follows(f, m)}
           last == MaxBranches + 1
<1>1. 0 \in S
  <2> DEFINE none == [t \in 1 .. 0 |-> 1]
  <2>1. Follows(none, 0)
    OBVIOUS
  <2> QED
    BY <2>1
<1>2. ASSUME NEW m \in Nat, m \in S PROVE m + 1 \in S
  <2>1. PICK f : Follows(f, m)
    BY <1>2
  <2> DEFINE more == [t \in 1 .. m + 1 |-> IF t = m + 1 THEN Body(f, t) ELSE f[t]]
  <2>2. \A t \in 1 .. m + 1 : t = m + 1 \/ t \in 1 .. m
    OBVIOUS
  <2>3. ASSUME NEW t \in 1 .. m + 1 PROVE Body(more, t) = Body(f, t)
    <3>1. t = 1 \/ (t - 1 \in 1 .. m + 1 /\ t - 1 # m + 1)
      OBVIOUS
    <3>2. (IF t = 1 THEN <<>> ELSE more[t - 1]) = (IF t = 1 THEN <<>> ELSE f[t - 1])
      BY <3>1
    <3> QED
      BY <3>2
  <2>4. ASSUME NEW t \in 1 .. m + 1 PROVE more[t] = Body(f, t)
    <3>1. CASE t = m + 1
      BY <3>1
    <3>2. CASE t \in 1 .. m
      BY <2>1, <3>2
    <3> QED
      BY <2>2, <3>1, <3>2
  <2>5. Follows(more, m + 1)
    BY <2>3, <2>4
  <2> HIDE DEF more, Follows
  <2> QED
    BY <2>5
<1>3. last \in Nat
  BY StaircaseConstants
<1>4. last \in S
  BY <1>1, <1>2, <1>3, Induction
<1>5. PICK f : Follows(f, last)
  BY <1>4
<1>6. Follows(Rows(bs, n), last)
  BY <1>5 DEF Rows, Tiers
<1> QED
  BY <1>6 DEF Tiers

\* Every branch of n has a block of its own.
Founded(bs, n) ==
    /\ n \in 0 .. MaxBranches
    /\ \A b \in bs : b.tier \in Tiers /\ b.from \in Nat /\ Ends(b) <= n
    /\ \A k \in 0 .. n - 1 : \E b \in bs : b.tier = 1 /\ b.from = k

LEMMA Multiples ==
    ASSUME NEW s \in Nat, NEW j \in Nat, NEW l \in Nat, j <= l
    PROVE  j * s \in Nat /\ j * s <= l * s /\ (j + 1) * s = j * s + s
  OBVIOUS

LEMMA RowTiles ==
    ASSUME NEW bs, NEW n, Founded(bs, n), NEW t \in Tiers, NEW finer,
           t # 1 => \A k \in 0 .. n - Size(t - 1) : Tiles(bs, finer[k], k, k + Size(t - 1)),
           NEW from \in 0 .. n - Size(t)
    PROVE  Tiles(bs, Row(bs, n, t, finer)[from], from, from + Size(t))
<1> DEFINE row == Row(bs, n, t, finer)[from]
           here(b) == <<b.tier, b.from>> = <<t, from>>
<1>1. /\ MaxBranches \in Nat /\ TierMax = MaxBranches + 2 /\ Fanout \in Nat /\ Fanout >= 2
      /\ n \in Nat /\ t \in Nat /\ t >= 1 /\ t <= MaxBranches + 1
  BY StaircaseConstants DEF TierMax, Tiers, Founded
<1>2. row = IF \E b \in bs : here(b) THEN <<CHOOSE b \in bs : here(b)>>
            ELSE IF t = 1 THEN <<>>
            ELSE FlattenSeq([i \in 1 .. Fanout |-> finer[from + (i - 1) * Size(t - 1)]])
  BY DEF Row
<1>3. CASE \E b \in bs : here(b)
  <2>1. PICK b \in bs : here(b) /\ row = <<b>>
    BY <1>2, <1>3
  <2>2. b.from = from /\ b.tier = t
    BY <2>1
  <2>3. row \in Seq(bs) /\ Len(row) = 1 /\ row[1] = b
    BY <2>1
  <2> HIDE DEF row
  <2>4. Ends(b) = from + Size(t)
    BY <2>2 DEF Ends
  <2>5. 1 .. Len(row) - 1 = {}
    BY <2>3
  <2>6. row[1].from = from /\ Ends(row[Len(row)]) = from + Size(t)
    BY <2>2, <2>3, <2>4
  <2>7. \A i \in 1 .. Len(row) - 1 : Ends(row[i]) = row[i + 1].from
    BY <2>5
  <2>8. row \in Seq(bs) /\ Len(row) # 0
    BY <2>3
  <2>9. Tiles(bs, row, from, from + Size(t))
    BY <2>6, <2>7, <2>8, Zenon DEF Tiles
  <2> QED
    BY <2>9 DEF row
<1>4. CASE ~(\E b \in bs : here(b)) /\ t = 1
  <2>1. from \in 0 .. n - 1
    BY <1>1, <1>4, SizesGrow
  <2>2. PICK b \in bs : b.tier = 1 /\ b.from = from
    BY <2>1 DEF Founded
  <2> QED
    BY <1>4, <2>2
<1>5. CASE ~(\E b \in bs : here(b)) /\ t # 1
  <2> PICK z : z = Size(t - 1)
    OBVIOUS
  <2> DEFINE parts == [i \in 1 .. Fanout |-> finer[from + (i - 1) * z]]
             c == [i \in 0 .. Fanout |-> from + i * z]
  <2>1. z \in Nat /\ Size(t) = Fanout * z
    <3>1. t - 1 \in 1 .. TierMax - 1 /\ t - 1 \in 1 .. TierMax /\ (t - 1) + 1 = t
      BY <1>1, <1>5
    <3> QED
      BY <3>1, SizesGrow
  <2>2. row = FlattenSeq(parts)
    BY <1>2, <1>5
  <2>3. ASSUME NEW i \in 1 .. Fanout PROVE Tiles(bs, parts[i], c[i - 1], c[i])
    <3>1. i - 1 \in Nat /\ (i - 1) + 1 = i /\ i <= Fanout
      BY <1>1
    <3>2. (i - 1) * z \in Nat /\ i * z = (i - 1) * z + z /\ i * z <= Fanout * z
      BY <1>1, <2>1, <3>1, Multiples
    <3> DEFINE k == from + (i - 1) * z
    <3>3. from \in Nat /\ from + Fanout * z <= n
      BY <1>1, <2>1
    <3>4. k \in 0 .. n - z /\ k + z = from + i * z
      BY <1>1, <2>1, <3>2, <3>3
    <3>5. Tiles(bs, finer[k], k, k + z)
      BY <1>5, <3>4
    <3>7. i - 1 \in 0 .. Fanout /\ i \in 0 .. Fanout
      BY <1>1
    <3>6. parts[i] = finer[k] /\ c[i - 1] = k /\ c[i] = k + z
      BY <3>4, <3>7
    <3> QED
      BY <3>5, <3>6
  <2>4. c[0] = from /\ c[Fanout] = from + Size(t)
    <3>1. 0 * z = 0 /\ 0 \in 0 .. Fanout /\ Fanout \in 0 .. Fanout /\ from + 0 = from
      BY <1>1, <2>1
    <3> QED
      BY <2>1, <3>1
  <2>5. parts = [i \in 1 .. Fanout |-> parts[i]]
    OBVIOUS
  <2> HIDE DEF parts, c
  <2>6. Tiles(bs, FlattenSeq(parts), c[0], c[Fanout])
    BY <1>1, <2>3, <2>5, FlattenTiles
  <2> QED
    BY <2>2, <2>4, <2>6
<1> QED
  BY <1>3, <1>4, <1>5

LEMMA RowsTile ==
    ASSUME NEW bs, NEW n, Founded(bs, n)
    PROVE  \A t \in Tiers : \A k \in 0 .. n - Size(t) :
              Tiles(bs, Rows(bs, n)[t][k], k, k + Size(t))
<1> DEFINE Good(t) == \A k \in 0 .. n - Size(t) : Tiles(bs, Rows(bs, n)[t][k], k, k + Size(t))
           S == {m \in Nat : m + 1 \in Tiers => Good(m + 1)}
<1>1. MaxBranches \in Nat /\ 1 \in Tiers
  BY StaircaseConstants DEF Tiers
<1>2. 0 \in S
  <2>1. Rows(bs, n)[1] = Row(bs, n, 1, <<>>)
    BY <1>1, RowsAre
  <2>2. Good(1)
    BY <1>1, <2>1, RowTiles
  <2> HIDE DEF Good
  <2> QED
    BY <2>2
<1>3. ASSUME NEW m \in Nat, m \in S PROVE m + 1 \in S
  <2> SUFFICES ASSUME (m + 1) + 1 \in Tiers PROVE Good((m + 1) + 1)
    OBVIOUS
  <2>1. m + 1 \in Tiers /\ (m + 1) + 1 # 1 /\ ((m + 1) + 1) - 1 = m + 1
    BY <1>1 DEF Tiers
  <2>2. Good(m + 1)
    BY <1>3, <2>1
  <2>3. Rows(bs, n)[(m + 1) + 1] = Row(bs, n, (m + 1) + 1, Rows(bs, n)[m + 1])
    <3>1. PICK t \in Tiers : t = (m + 1) + 1
      OBVIOUS
    <3>2. t # 1 /\ t - 1 = m + 1
      BY <2>1, <3>1
    <3>3. Rows(bs, n)[t] = Row(bs, n, t, Rows(bs, n)[t - 1])
      BY <3>2, RowsAre
    <3> QED
      BY <3>1, <3>2, <3>3
  <2> QED
    BY <2>1, <2>2, <2>3, RowTiles
<1>4. Nat \subseteq S
  BY <1>2, <1>3, Induction
<1>5. ASSUME NEW t \in Tiers PROVE Good(t)
  <2>1. t - 1 \in Nat /\ (t - 1) + 1 = t
    BY <1>1 DEF Tiers
  <2> HIDE DEF Good
  <2> QED
    BY <1>4, <2>1
<1> QED
  BY <1>5
-----------------------------------------------------------------------------
(* The tiers in turn.                                                      *)

LEMMA Division ==
    ASSUME NEW n \in Nat, NEW s \in Nat \ {0}
    PROVE  /\ n \div s \in Nat /\ n % s \in 0 .. s - 1
           /\ n = s * (n \div s) + (n % s)
  OBVIOUS

LEMMA Multiple ==
    ASSUME NEW s \in Nat \ {0}, NEW j \in Nat
    PROVE  (j * s) \div s = j
<1>1. j * s \in Nat
  OBVIOUS
<1> PICK q : q = (j * s) \div s
  OBVIOUS
<1> PICK r : r = (j * s) % s
  OBVIOUS
<1>2. q \in Nat /\ r \in 0 .. s - 1 /\ j * s = s * q + r
  BY <1>1, Division
<1>3. CASE q = j
  BY <1>3
<1>4. CASE q >= j + 1
  <2>1. s * q >= s * (j + 1) /\ s * (j + 1) = j * s + s
    BY <1>2, <1>4
  <2> QED
    BY <1>1, <1>2, <2>1
<1>5. CASE j >= q + 1
  <2>1. j * s >= (q + 1) * s /\ (q + 1) * s = s * q + s
    BY <1>2, <1>5
  <2> QED
    BY <1>1, <1>2, <2>1
<1> QED
  BY <1>2, <1>3, <1>4, <1>5

LEMMA Products ==
    ASSUME NEW a \in Int, NEW b \in Int, NEW c \in Int
    PROVE  /\ a * b \in Int /\ (a * b) * c = (a * c) * b /\ (a - b) * c = a * c - b * c
           /\ a * b = b * a /\ (a + 1) * c = a * c + c
  OBVIOUS

\* Below the multiples of a coarser length lie as many of a finer one as it takes.
StepsUp(n, s, w) ==
    /\ n - (n % w) \in Nat
    /\ \E j \in Nat : n - (n % s) = (n - (n % w)) + j * s

LEMMA Coarser ==
    ASSUME NEW n \in Nat, NEW s \in Nat \ {0}, NEW f \in Nat \ {0}
    PROVE  /\ f * s \in Nat \ {0}
           /\ StepsUp(n, s, f * s)
<1> PICK w : w = f * s
  OBVIOUS
<1>1. w \in Nat \ {0}
  OBVIOUS
<1> PICK q : q = n \div w
  OBVIOUS
<1> PICK r : r = n % w
  OBVIOUS
<1> PICK p : p = n \div s
  OBVIOUS
<1> PICK o : o = n % s
  OBVIOUS
<1>2. q \in Nat /\ r \in 0 .. w - 1 /\ n = w * q + r
  BY <1>1, Division
<1>3. p \in Nat /\ o \in 0 .. s - 1 /\ n = s * p + o
  BY Division
<1> PICK m : m = f * q
  OBVIOUS
<1>4. m \in Nat /\ w * q = m * s /\ w * q \in Nat
  <2>1. f \in Int /\ s \in Int /\ q \in Int
    BY <1>2
  <2>2. (f * s) * q = (f * q) * s
    BY <2>1, Products
  <2>3. f * q \in Nat
    BY <1>2
  <2>4. w * q \in Nat
    BY <1>1, <1>2
  <2> QED
    BY <2>2, <2>3, <2>4
<1>5. m <= p
  <2> SUFFICES ASSUME m >= p + 1 PROVE FALSE
    BY <1>3, <1>4
  <2>1. m * s >= (p + 1) * s
    BY <1>3, <1>4
  <2>2. (p + 1) * s = p * s + s /\ p * s = s * p
    BY <1>3, Products
  <2>3. m * s \in Nat /\ s * p \in Nat
    BY <1>3, <1>4
  <2> QED
    BY <1>2, <1>3, <1>4, <2>1, <2>2, <2>3
<1>6. p - m \in Nat
  BY <1>3, <1>4, <1>5
<1>7. (p - m) * s = p * s - m * s /\ p * s = s * p
  <2>1. p \in Int /\ m \in Int /\ s \in Int
    BY <1>3, <1>4
  <2>2. (p - m) * s = p * s - m * s
    BY <2>1
  <2>3. p * s = s * p
    BY <2>1
  <2> QED
    BY <2>2, <2>3
<1>8. s * p \in Nat /\ m * s \in Nat
  BY <1>3, <1>4
<1>9. n - o = (n - r) + (p - m) * s
  BY <1>2, <1>3, <1>4, <1>7, <1>8
<1>10. n - r \in Nat
  BY <1>2, <1>4
<1>11. StepsUp(n, s, w)
  BY <1>6, <1>9, <1>10 DEF StepsUp
<1> QED
  BY <1>1, <1>11

\* What the tiers from the coarsest to one of them contribute.
Before(n, t) == n - (n % Size(t))

LEMMA AlignedTiles ==
    ASSUME NEW bs, NEW n, Founded(bs, n), NEW t \in Tiers
    PROVE  Tiles(bs, FlattenSeq([k \in DOMAIN Aligned(t, n) |-> Rows(bs, n)[t][Aligned(t, n)[k]]]),
                 Before(n, t + 1), Before(n, t))
<1>1. /\ n \in Nat /\ MaxBranches \in Nat /\ t \in 1 .. TierMax - 1 /\ t \in 1 .. TierMax
      /\ Fanout \in Nat \ {0}
  BY StaircaseConstants DEF TierMax, Tiers, Founded
<1> PICK z : z = Size(t)
  OBVIOUS
<1> PICK older : older = Before(n, t + 1)
  OBVIOUS
<1> PICK newer : newer = Before(n, t)
  OBVIOUS
<1>2. z \in Nat \ {0} /\ Size(t + 1) = Fanout * z
  BY <1>1, SizesGrow
<1>3. /\ older \in Nat /\ \E j \in Nat : newer = older + j * z
  <2>1. older = n - (n % (Fanout * z)) /\ newer = n - (n % z)
    BY <1>2 DEF Before
  <2>2. StepsUp(n, z, Fanout * z)
    BY <1>1, <1>2, Coarser
  <2> QED
    BY <2>1, <2>2 DEF StepsUp
<1>4. newer \in Nat /\ newer <= n
  <2>1. n % z \in 0 .. z - 1 /\ n = z * (n \div z) + (n % z) /\ n \div z \in Nat
    BY <1>1, <1>2, Division
  <2>2. z * (n \div z) \in Nat
    BY <1>2, <2>1
  <2> QED
    BY <1>1, <2>1, <2>2 DEF Before
<1> PICK m \in Nat : newer = older + m * z
  BY <1>3
<1>5. m * z \in Nat /\ (newer - older) \div z = m
  <2>1. m * z \in Nat /\ (m * z) \div z = m
    BY <1>2, Multiple
  <2>2. newer - older = m * z
    BY <1>3, <2>1
  <2> QED
    BY <2>1, <2>2
<1>6. Aligned(t, n) = [i \in 1 .. m |-> older + (i - 1) * z]
  BY <1>5 DEF Aligned, Before
<1> DEFINE parts == [i \in 1 .. m |-> Rows(bs, n)[t][older + (i - 1) * z]]
           c == [i \in 0 .. m |-> older + i * z]
<1>7. [k \in DOMAIN Aligned(t, n) |-> Rows(bs, n)[t][Aligned(t, n)[k]]] = parts
  BY <1>6
<1>8. ASSUME NEW i \in 1 .. m PROVE Tiles(bs, parts[i], c[i - 1], c[i])
  <2>1. i - 1 \in Nat /\ (i - 1) + 1 = i /\ i <= m /\ i - 1 \in 0 .. m /\ i \in 0 .. m
    OBVIOUS
  <2>2. (i - 1) * z \in Nat /\ i * z = (i - 1) * z + z /\ i * z <= m * z
    BY <1>2, <2>1, Multiples
  <2> DEFINE k == older + (i - 1) * z
  <2>3. k \in 0 .. n - z /\ k + z = older + i * z
    BY <1>1, <1>2, <1>3, <1>4, <1>5, <2>2
  <2>4. Tiles(bs, Rows(bs, n)[t][k], k, k + z)
    BY <2>3, RowsTile
  <2>5. parts[i] = Rows(bs, n)[t][k] /\ c[i - 1] = k /\ c[i] = k + z
    BY <2>1, <2>3
  <2> QED
    BY <2>4, <2>5
<1>9. c[0] = older /\ c[m] = newer
  <2>1. 0 * z = 0 /\ 0 \in 0 .. m /\ m \in 0 .. m /\ older + 0 = older
    BY <1>2, <1>3
  <2> QED
    BY <2>1
<1>10. parts = [i \in 1 .. m |-> parts[i]]
  OBVIOUS
<1> HIDE DEF parts, c
<1>11. Tiles(bs, FlattenSeq(parts), c[0], c[m])
  BY <1>8, <1>10, FlattenTiles
<1> QED
  BY <1>7, <1>9, <1>11

\* What is shown of n branches tiles them, whatever ranges have a block.
LEMMA ShownTiling ==
    ASSUME NEW bs, NEW n, Founded(bs, n)
    PROVE  Tiles(bs, Shown(bs, n), 0, n)
<1>1. /\ n \in Nat /\ n <= MaxBranches /\ MaxBranches \in Nat
      /\ 1 \in 1 .. TierMax /\ TierMax \in 1 .. TierMax /\ TierMax = MaxBranches + 2
  BY StaircaseConstants DEF TierMax, Founded
<1> PICK m : m = MaxBranches + 1
  OBVIOUS
<1> DEFINE tier(t) ==
               FlattenSeq([k \in DOMAIN Aligned(t, n) |-> Rows(bs, n)[t][Aligned(t, n)[k]]])
           parts == [i \in 1 .. m |-> tier(MaxBranches + 2 - i)]
           c == [i \in 0 .. m |-> Before(n, MaxBranches + 2 - i)]
<1>2. Shown(bs, n) = FlattenSeq(parts)
  BY DEF Shown, Tiers
<1>3. ASSUME NEW i \in 1 .. m PROVE Tiles(bs, parts[i], c[i - 1], c[i])
  <2> PICK t : t = MaxBranches + 2 - i
    OBVIOUS
  <2>1. t \in Tiers /\ MaxBranches + 2 - (i - 1) = t + 1 /\ i - 1 \in 0 .. m /\ i \in 0 .. m
    BY <1>1 DEF Tiers
  <2>2. Tiles(bs, tier(t), Before(n, t + 1), Before(n, t))
    BY <2>1, AlignedTiles
  <2>3. c[i - 1] = Before(n, t + 1) /\ c[i] = Before(n, t)
    BY <2>1
  <2> HIDE DEF tier
  <2>4. parts[i] = tier(t)
    OBVIOUS
  <2> QED
    BY <2>2, <2>3, <2>4
<1>4. c[0] = 0 /\ c[m] = n
  <2>1. Size(TierMax) \in Nat /\ Size(TierMax) > n /\ Size(1) = 1
    BY <1>1, SizesGrow
  <2>2. n % Size(TierMax) = n
    <3> PICK z : z = Size(TierMax)
      OBVIOUS
    <3> PICK q : q = n \div z
      OBVIOUS
    <3> PICK r : r = n % z
      OBVIOUS
    <3>1. z \in Nat \ {0} /\ n < z
      BY <1>1, <2>1
    <3>2. q \in Nat /\ r \in 0 .. z - 1 /\ n = z * q + r
      BY <1>1, <3>1, Division
    <3>3. CASE q >= 1
      <4>1. 1 * z <= q * z /\ 1 * z = z /\ q * z = z * q
        <5>1. 1 * z <= q * z
          BY <3>1, <3>2, <3>3, Multiples
        <5>2. q \in Int /\ z \in Int
          BY <3>1, <3>2
        <5>3. 1 * z = z
          BY <5>2
        <5>4. q * z = z * q
          BY <5>2, Products
        <5> QED
          BY <5>1, <5>3, <5>4
      <4> QED
        BY <1>1, <3>1, <3>2, <4>1
    <3>4. CASE q = 0
      <4>1. z * q = 0
        BY <3>1, <3>4
      <4> QED
        BY <1>1, <3>2, <4>1
    <3> QED
      BY <3>2, <3>3, <3>4
  <2>3. n % Size(1) = 0
    BY <1>1, <2>1
  <2>4. 0 \in 0 .. m /\ m \in 0 .. m /\ MaxBranches + 2 - 0 = TierMax /\ MaxBranches + 2 - m = 1
    BY <1>1
  <2>5. c[0] = Before(n, TierMax) /\ c[m] = Before(n, 1)
    BY <2>4
  <2> QED
    BY <1>1, <2>2, <2>3, <2>5 DEF Before
<1>5. parts = [i \in 1 .. m |-> parts[i]]
  OBVIOUS
<1>6. m \in Nat
  BY <1>1
<1> HIDE DEF parts, c
<1>7. Tiles(bs, FlattenSeq(parts), c[0], c[m])
  BY <1>3, <1>5, <1>6, FlattenTiles
<1> QED
  BY <1>2, <1>4, <1>7
\* In Staircase's words; and each branch is in one of the blocks shown.
LEMMA ShownIsWhole ==
    ASSUME NEW bs, NEW n, Founded(bs, n)
    PROVE  /\ Tile(Shown(bs, n), n)
           /\ \A i \in DOMAIN Shown(bs, n) : Shown(bs, n)[i] \in bs
           /\ \A k \in 0 .. n - 1 : \E i \in DOMAIN Shown(bs, n) :
                 Shown(bs, n)[i].from <= k /\ k < Ends(Shown(bs, n)[i])
<1> PICK s : s = Shown(bs, n)
  OBVIOUS
<1>1. Tiles(bs, s, 0, n)
  BY ShownTiling
<1>2. s \in Seq(bs) /\ Len(s) \in Nat /\ DOMAIN s = 1 .. Len(s)
  BY <1>1, LenProperties DEF Tiles
<1>3. n \in Nat
  BY StaircaseConstants DEF Founded
<1>4. CASE Len(s) = 0
  <2>1. n = 0 /\ s = <<>>
    BY <1>1, <1>2, <1>4 DEF Tiles
  <2>2. Tile(s, n)
    BY <2>1 DEF Tile
  <2> QED
    BY <1>2, <1>3, <1>4, <2>1, <2>2
<1>5. CASE Len(s) # 0
  <2>1. /\ s[1].from = 0 /\ Ends(s[Len(s)]) = n
        /\ \A i \in 1 .. Len(s) - 1 : Ends(s[i]) = s[i + 1].from
    BY <1>1, <1>5 DEF Tiles
  <2>2. \A i \in 1 .. Len(s) : s[i] \in bs /\ s[i].from \in Nat
    BY <1>2 DEF Founded
  <2>3. n > 0
    <3>1. s[Len(s)].tier \in Tiers /\ s[Len(s)].from \in Nat
      BY <1>2, <1>5 DEF Founded
    <3>2. Size(s[Len(s)].tier) \in Nat /\ Size(s[Len(s)].tier) >= 1
      <4> PICK t \in Tiers : t = s[Len(s)].tier
        BY <3>1
      <4>1. t \in 1 .. TierMax /\ t >= 1 /\ t \in Nat
        BY StaircaseConstants DEF Tiers, TierMax
      <4>2. Size(t) \in Nat /\ Size(t) >= t
        BY <4>1, SizesGrow
      <4> QED
        BY <4>1, <4>2
    <3> QED
      BY <1>3, <2>1, <3>1, <3>2 DEF Ends
  <2>4. Tile(s, n)
    BY <1>2, <1>5, <2>1, <2>3 DEF Tile, Ends
  <2>5. ASSUME NEW k \in 0 .. n - 1
        PROVE  \E i \in 1 .. Len(s) : s[i].from <= k /\ k < Ends(s[i])
    <3> DEFINE rest == {Len(s) - i : i \in {i \in 1 .. Len(s) : s[i].from <= k}}
    <3>1. rest \in SUBSET Nat /\ rest # {}
      <4>1. 1 \in 1 .. Len(s) /\ s[1].from <= k
        BY <1>2, <1>3, <1>5, <2>1
      <4>2. Len(s) - 1 \in rest
        BY <4>1
      <4> QED
        BY <1>2, <4>2
    <3>2. PICK r \in rest : \A q \in rest : r <= q
      BY <3>1, LeastOfRange
    <3>3. PICK i \in 1 .. Len(s) : s[i].from <= k /\ r = Len(s) - i
      BY <3>2
    <3>4. CASE i = Len(s)
      BY <1>3, <2>1, <3>3, <3>4
    <3>5. CASE i # Len(s)
      <4>1. i \in 1 .. Len(s) - 1 /\ i + 1 \in 1 .. Len(s)
        <5>1. i \in 1 .. Len(s) /\ Len(s) \in Nat
          BY <1>2
        <5> HIDE DEF rest
        <5> QED
          BY <3>5, <5>1
      <4>2. ~(s[i + 1].from <= k)
        <5> SUFFICES ASSUME s[i + 1].from <= k PROVE FALSE
          OBVIOUS
        <5>1. Len(s) - (i + 1) \in rest
          BY <4>1
        <5>2. r <= Len(s) - (i + 1)
          BY <3>2, <5>1
        <5> QED
          BY <1>2, <3>3, <5>2
      <4>3. s[i + 1].from \in Nat
        BY <2>2, <4>1
      <4> QED
        BY <1>3, <2>1, <3>3, <4>1, <4>2, <4>3
    <3> QED
      BY <3>4, <3>5
  <2> QED
    BY <1>2, <2>2, <2>4, <2>5
<1> QED
  BY <1>4, <1>5

-----------------------------------------------------------------------------
(***************************************************************************)
(* The context and its ledger. What a reader of the ledger takes for the   *)
(* blocks changes with each record in a way that three lemmas say: a block *)
(* is added, a prompt changes nothing, and a rollback leaves the blocks    *)
(* that were there when its prompt was logged. That these are the blocks   *)
(* the engine puts back is the invariant (HistoryInv).                     *)
(***************************************************************************)

IsList(l) == \E S : l \in Seq(S)

LEMMA LongerLedger ==
    ASSUME IsList(ledger), NEW r, ledger' = Append(ledger, r)
    PROVE  /\ IsList(ledger') /\ Len(ledger) \in Nat /\ Len(ledger') = Len(ledger) + 1
           /\ ledger'[Len(ledger) + 1] = r /\ \A i \in 1 .. Len(ledger) : ledger'[i] = ledger[i]
           /\ DOMAIN ledger = 1 .. Len(ledger) /\ DOMAIN ledger' = 1 .. Len(ledger) + 1
<1>1. PICK S : ledger \in Seq(S)
  BY DEF IsList
<1>2. ledger \in Seq(S \union {r})
  BY <1>1, SeqMonotonic
<1>3. ledger' \in Seq(S \union {r})
  BY <1>2
<1>4. IsList(ledger')
  BY <1>3 DEF IsList
<1> QED
  BY <1>2, <1>3, <1>4, LenProperties

Prompt(n) == [kind |-> "prompt", prompt |-> n]

\* A block that no later rollback takes back.
Survives(i) == \A n \in DOMAIN ledger : n > i /\ ledger[n].kind = "rollback" => i < Attempt(n)
Blocks(S) == {ledger[i].block : i \in {i \in S : ledger[i].kind = "block" /\ Survives(i)}}

LEMMA HistoryIsSurvivors == HistoryBlocks = Blocks(DOMAIN ledger)
  BY DEF HistoryBlocks, Blocks, Survives

LEMMA OneRecord ==
    ASSUME IsList(ledger), NEW r, ledger' = Append(ledger, r), NEW last, last = Len(ledger) + 1
    PROVE  /\ \A i \in 1 .. Len(ledger) :
                Survives(i)' <=> Survives(i) /\ (r.kind = "rollback" => i < Attempt(last)')
           /\ Survives(last)'
<1>1. /\ Len(ledger) \in Nat /\ Len(ledger') = Len(ledger) + 1 /\ ledger'[Len(ledger) + 1] = r
      /\ \A i \in 1 .. Len(ledger) : ledger'[i] = ledger[i]
      /\ DOMAIN ledger = 1 .. Len(ledger) /\ DOMAIN ledger' = 1 .. Len(ledger) + 1
  BY LongerLedger
<1>2. ASSUME NEW n \in 1 .. Len(ledger) PROVE Attempt(n)' = Attempt(n)
  <2> DEFINE begun(l) == {i \in 1 .. n : l[i] = [kind |-> "prompt", prompt |-> l[n].prompt]}
             found(l) == IF begun(l) = {} THEN n ELSE CHOOSE i \in begun(l) : TRUE
  <2>1. ledger'[n] = ledger[n] /\ \A i \in 1 .. n : ledger'[i] = ledger[i]
    BY <1>1
  <2>2. begun(ledger') = begun(ledger)
    BY <2>1
  <2>3. Attempt(n) = found(ledger) /\ Attempt(n)' = found(ledger')
    BY DEF Attempt
  <2> HIDE DEF begun
  <2> QED
    BY <2>2, <2>3
<1>3. /\ DOMAIN ledger' = (DOMAIN ledger) \union {last} /\ \A i \in DOMAIN ledger : i < last
      /\ ledger'[last] = r /\ \A n \in DOMAIN ledger : ledger'[n] = ledger[n] /\ Attempt(n)' = Attempt(n)
  BY <1>1, <1>2
<1>4. ASSUME NEW i \in 1 .. Len(ledger)
      PROVE  Survives(i)' <=> Survives(i) /\ (r.kind = "rollback" => i < Attempt(last)')
  <2>1. i < last
    BY <1>1, <1>3
  <2>2. Survives(i)' <=> \A n \in DOMAIN ledger' :
            n > i /\ ledger'[n].kind = "rollback" => i < Attempt(n)'
    BY DEF Survives
  <2>3. Survives(i) <=> \A n \in DOMAIN ledger :
            n > i /\ ledger[n].kind = "rollback" => i < Attempt(n)
    BY DEF Survives
  <2>4. ASSUME Survives(i)' PROVE Survives(i) /\ (r.kind = "rollback" => i < Attempt(last)')
    BY <1>3, <2>1, <2>2, <2>3, <2>4
  <2>5. ASSUME Survives(i), r.kind = "rollback" => i < Attempt(last)' PROVE Survives(i)'
    BY <1>3, <2>1, <2>2, <2>3, <2>5
  <2> QED
    BY <2>4, <2>5
<1>5. Survives(last)'
  <2>1. \A n \in DOMAIN ledger' : ~(n > last)
    BY <1>1
  <2> QED
    BY <2>1 DEF Survives
<1> QED
  BY <1>4, <1>5

\* A record that is not a rollback adds at most its block.
LEMMA OneMoreRecord ==
    ASSUME IsList(ledger), NEW r, ledger' = Append(ledger, r), r.kind # "rollback"
    PROVE  /\ \A s \in 1 .. Len(ledger) : Blocks(1 .. s - 1)' = Blocks(1 .. s - 1)
           /\ HistoryBlocks' = HistoryBlocks \union (IF r.kind = "block" THEN {r.block} ELSE {})
<1>1. /\ Len(ledger) \in Nat /\ Len(ledger') = Len(ledger) + 1 /\ ledger'[Len(ledger) + 1] = r
      /\ \A i \in 1 .. Len(ledger) : ledger'[i] = ledger[i]
      /\ DOMAIN ledger = 1 .. Len(ledger) /\ DOMAIN ledger' = 1 .. Len(ledger) + 1
  BY LongerLedger
<1>2. PICK last : last = Len(ledger) + 1
  OBVIOUS
<1>3. Survives(last)' /\ \A i \in 1 .. Len(ledger) : Survives(i)' <=> Survives(i)
  BY <1>2, OneRecord
<1>4. ASSUME NEW s \in 1 .. Len(ledger) PROVE Blocks(1 .. s - 1)' = Blocks(1 .. s - 1)
  <2>1. \A i \in 1 .. s - 1 : i \in 1 .. Len(ledger)
    BY <1>1
  <2>2. \A i \in 1 .. s - 1 : ledger'[i] = ledger[i] /\ (Survives(i)' <=> Survives(i))
    BY <1>1, <1>3, <2>1
  <2>3. {i \in 1 .. s - 1 : ledger'[i].kind = "block" /\ Survives(i)'}
          = {i \in 1 .. s - 1 : ledger[i].kind = "block" /\ Survives(i)}
    BY <2>2
  <2> QED
    BY <2>2, <2>3 DEF Blocks
<1>5. HistoryBlocks' = HistoryBlocks \union (IF r.kind = "block" THEN {r.block} ELSE {})
  <2>2. /\ DOMAIN ledger' = (DOMAIN ledger) \union {last} /\ last \notin DOMAIN ledger
        /\ ledger'[last] = r /\ Survives(last)'
        /\ \A i \in DOMAIN ledger : ledger'[i] = ledger[i] /\ (Survives(i)' <=> Survives(i))
    BY <1>1, <1>2, <1>3
  <2>3. HistoryBlocks' = {ledger'[i].block : i \in
             {i \in DOMAIN ledger' : ledger'[i].kind = "block" /\ Survives(i)'}}
    BY DEF HistoryBlocks, Survives
  <2>4. HistoryBlocks = {ledger[i].block : i \in
             {i \in DOMAIN ledger : ledger[i].kind = "block" /\ Survives(i)}}
    BY DEF HistoryBlocks, Survives
  <2> QED
    BY <2>2, <2>3, <2>4
<1> QED
  BY <1>4, <1>5

Unique(l) == \A i, j \in 1 .. Len(l) : \A n : l[i] = Prompt(n) /\ l[j] = Prompt(n) => i = j

\* A rollback leaves the blocks that were there before its prompt.
LEMMA RolledBack ==
    ASSUME IsList(ledger), Unique(ledger), NEW p,
           ledger' = Append(ledger, [kind |-> "rollback", prompt |-> p])
    PROVE  /\ \A s \in 1 .. Len(ledger) :
                ledger[s] = Prompt(p) => HistoryBlocks' = Blocks(1 .. s - 1)
           /\ (\A i \in 1 .. Len(ledger) : ledger[i] # Prompt(p)) => HistoryBlocks' = HistoryBlocks
<1> DEFINE r == [kind |-> "rollback", prompt |-> p]
<1>1. /\ Len(ledger) \in Nat /\ Len(ledger') = Len(ledger) + 1 /\ ledger'[Len(ledger) + 1] = r
      /\ \A i \in 1 .. Len(ledger) : ledger'[i] = ledger[i]
      /\ DOMAIN ledger = 1 .. Len(ledger) /\ DOMAIN ledger' = 1 .. Len(ledger) + 1
  BY LongerLedger
<1>2. PICK last : last = Len(ledger) + 1
  OBVIOUS
<1>3. \A i \in 1 .. Len(ledger) : Survives(i)' <=> Survives(i) /\ i < Attempt(last)'
  BY <1>2, OneRecord
<1>4. Attempt(last)' =
         LET begun == {i \in 1 .. last : ledger'[i] = Prompt(p)}
         IN  IF begun = {} THEN last ELSE CHOOSE i \in begun : TRUE
  <2> DEFINE begun(l) == {i \in 1 .. last : l[i] = [kind |-> "prompt", prompt |-> l[last].prompt]}
             found(l) == IF begun(l) = {} THEN last ELSE CHOOSE i \in begun(l) : TRUE
             ours == {i \in 1 .. last : ledger'[i] = Prompt(p)}
  <2>1. ledger'[last].prompt = p
    BY <1>1, <1>2
  <2>2. begun(ledger') = ours
    BY <2>1 DEF Prompt
  <2>3. Attempt(last)' = found(ledger')
    BY DEF Attempt
  <2> HIDE DEF begun, ours
  <2>4. Attempt(last)' = IF ours = {} THEN last ELSE CHOOSE i \in ours : TRUE
    BY <2>2, <2>3
  <2> QED
    BY <2>4 DEF ours
<1>5. ledger'[last] # Prompt(p) /\ ledger'[last].kind # "block"
  BY <1>1, <1>2 DEF Prompt
<1>6. HistoryBlocks' = {ledger'[i].block : i \in
          {i \in DOMAIN ledger' : ledger'[i].kind = "block" /\ Survives(i)'}}
  BY DEF HistoryBlocks, Survives
<1>7. {i \in DOMAIN ledger' : ledger'[i].kind = "block" /\ Survives(i)'}
        = {i \in 1 .. Len(ledger) : ledger[i].kind = "block" /\ Survives(i) /\ i < Attempt(last)'}
  BY <1>1, <1>2, <1>3, <1>5
<1>8. HistoryBlocks' = {ledger[i].block : i \in
          {i \in 1 .. Len(ledger) : ledger[i].kind = "block" /\ Survives(i) /\ i < Attempt(last)'}}
  BY <1>1, <1>6, <1>7
<1>9. ASSUME NEW s \in 1 .. Len(ledger), ledger[s] = Prompt(p)
      PROVE  HistoryBlocks' = Blocks(1 .. s - 1)
  <2>1. {i \in 1 .. last : ledger'[i] = Prompt(p)} = {s}
    BY <1>1, <1>2, <1>5, <1>9 DEF Unique
  <2>2. Attempt(last)' = s
    BY <1>4, <2>1
  <2>3. {i \in 1 .. Len(ledger) : ledger[i].kind = "block" /\ Survives(i) /\ i < s}
          = {i \in 1 .. s - 1 : ledger[i].kind = "block" /\ Survives(i)}
    BY <1>1
  <2> QED
    BY <1>8, <2>2, <2>3 DEF Blocks
<1>10. ASSUME \A i \in 1 .. Len(ledger) : ledger[i] # Prompt(p)
       PROVE  HistoryBlocks' = HistoryBlocks
  <2>1. {i \in 1 .. last : ledger'[i] = Prompt(p)} = {}
    BY <1>1, <1>2, <1>5, <1>10
  <2>2. Attempt(last)' = last
    BY <1>4, <2>1
  <2>3. {i \in 1 .. Len(ledger) : ledger[i].kind = "block" /\ Survives(i) /\ i < last}
          = {i \in DOMAIN ledger : ledger[i].kind = "block" /\ Survives(i)}
    BY <1>1, <1>2
  <2> QED
    BY <1>8, <2>2, <2>3, HistoryIsSurvivors DEF Blocks
<1> QED
  BY <1>9, <1>10
-----------------------------------------------------------------------------
(* The ranges still to be rolled up.                                       *)

\* A pass over the ranges comes to each: one of them is the soonest.
LEMMA SoonestIsOne ==
    ASSUME NEW n \in Nat, NEW keys, keys \subseteq (Nat \X (0 .. n)), keys # {}
    PROVE  Soonest(keys) \in keys
<1> DEFINE tiers == {key[1] : key \in keys}
<1>1. \A key \in keys : key = <<key[1], key[2]>> /\ key[1] \in Nat /\ key[2] \in 0 .. n
  OBVIOUS
<1>2. tiers \in SUBSET Nat /\ tiers # {}
  BY <1>1
<1>3. PICK t \in tiers : \A m \in tiers : t <= m
  BY <1>2, LeastOfRange
<1> DEFINE older == {n - key[2] : key \in {key \in keys : key[1] = t}}
<1>4. older \in SUBSET Nat /\ older # {}
  BY <1>1, <1>3
<1>5. PICK o \in older : \A m \in older : o <= m
  BY <1>4, LeastOfRange
<1>6. PICK key \in keys : key[1] = t /\ o = n - key[2]
  BY <1>5
<1>7. ASSUME NEW other \in keys \ {key} PROVE Finer(key, other)
  <2>1. CASE other[1] = t
    <3>1. n - other[2] \in older
      BY <2>1
    <3>2. o <= n - other[2] /\ other[2] # key[2]
      BY <1>1, <1>5, <1>6, <2>1, <3>1
    <3> QED
      BY <1>1, <1>6, <2>1, <3>2 DEF Finer
  <2>2. CASE other[1] # t
    <3>1. other[1] \in tiers /\ other[1] \in Nat /\ t \in Nat
      BY <1>1, <1>2
    <3>2. t <= other[1]
      BY <1>3, <3>1
    <3> HIDE DEF tiers
    <3>3. t < other[1]
      BY <2>2, <3>1, <3>2
    <3> QED
      BY <1>6, <3>3 DEF Finer
  <2> QED
    BY <2>1, <2>2
<1> QED
  BY <1>7 DEF Soonest

\* Blocks of n branches: one per range, and those of the finest tier are of branches
\* that are closed.
Stair(bs, n) ==
    /\ n \in Nat
    /\ \A b, c \in bs : b.tier = c.tier /\ b.from = c.from => b = c
    /\ \A b \in bs : b.tier = 1 => b.from \in 0 .. n - 1

\* What a pass has still to come to are ranges of more than a branch, without a block.
DueIsOpen ==
    /\ due \subseteq (Tiers \ {1}) \X (0 .. branches)
    /\ \A key \in due, b \in blocks : key # <<b.tier, b.from>>

LEMMA DueGoesOn ==
    ASSUME DueIsOpen, due # {}, branches \in Nat, branches' = branches, Advance
    PROVE  /\ blocks' = blocks => DueIsOpen'
           /\ blocks' = blocks \union {Merged(Soonest(due))} => DueIsOpen'
           /\ Soonest(due) \in due
<1>1. due \subseteq Nat \X (0 .. branches)
  BY StaircaseConstants DEF DueIsOpen, Tiers
<1>2. Soonest(due) \in due
  BY <1>1, SoonestIsOne
<1>3. \A b \in blocks' : <<b.tier, b.from>> \in Keys'
  BY DEF Keys
<1>4. /\ Unsealed' \subseteq (Tiers \ {1}) \X (0 .. branches')
      /\ \A key \in Unsealed', b \in blocks' : key # <<b.tier, b.from>>
  BY <1>3 DEF Unsealed, Tiers
<1>5. CASE due' = Unsealed' \ skipped'
  BY <1>2, <1>4, <1>5 DEF DueIsOpen, Tiers
<1>6. CASE due' = due \ {Soonest(due)}
  <2> DEFINE k == Soonest(due)
  <2>1. Merged(k).tier = k[1] /\ Merged(k).from = k[2] /\ k = <<k[1], k[2]>>
    BY <1>1, <1>2 DEF Merged
  <2>2. \A key \in due' : key \in due /\ key # k
    BY <1>6
  <2> QED
    BY <1>2, <2>1, <2>2 DEF DueIsOpen, Tiers
<1> QED
  BY <1>5, <1>6 DEF Advance

\* The block of a roll-up is a new one, of a range of its own.
LEMMA MergedIsNew ==
    ASSUME DueIsOpen, NEW key \in due
    PROVE  /\ Merged(key).tier # 1 /\ Merged(key) \notin blocks
           /\ \A b \in blocks : b.tier # Merged(key).tier \/ b.from # Merged(key).from
<1>1. Merged(key).tier = key[1] /\ Merged(key).from = key[2]
  BY DEF Merged
<1>2. key = <<key[1], key[2]>> /\ key[1] # 1
  BY DEF DueIsOpen
<1> QED
  BY <1>1, <1>2 DEF DueIsOpen
-----------------------------------------------------------------------------
\* A step that writes no record leaves what a reader takes for the blocks.
LEMMA NoRecord ==
    ASSUME ledger' = ledger
    PROVE  HistoryBlocks' = HistoryBlocks /\ \A S : Blocks(S)' = Blocks(S)
<1>1. \A n : Attempt(n)' = Attempt(n)
  BY DEF Attempt
<1>2. \A i : Survives(i)' <=> Survives(i)
  BY <1>1 DEF Survives
<1>3. HistoryBlocks' = HistoryBlocks
  BY <1>1 DEF HistoryBlocks
<1>4. ASSUME NEW S PROVE Blocks(S)' = Blocks(S)
  BY <1>2 DEF Blocks
<1> QED
  BY <1>3, <1>4

\* What the ledger says of the blocks: of those when the prompt began, and of those now.
LedgerInv ==
    /\ IsList(ledger) /\ Unique(ledger) /\ prompts \in Nat
    /\ \A n \in Nat, i \in 1 .. Len(ledger) : n > prompts => ledger[i] # Prompt(n)
    /\ at = "entered" =>
           (\A i \in 1 .. Len(ledger) : ledger[i] # Prompt(prompts)) /\ blocks = prior.blocks
    /\ at \notin {"idle", "entered"} =>
           \E s \in 1 .. Len(ledger) :
               ledger[s] = Prompt(prompts) /\ Blocks(1 .. s - 1) = prior.blocks
    /\ at # "idle" => ~writeFailed
    /\ at # "rollup" /\ ~writeFailed => HistoryBlocks = blocks
    /\ at = "rollup" =>
           \E b \in blocks : /\ b.tier = 1 /\ b.from = branches - 1
                             /\ HistoryBlocks \union {b} = blocks

\* A record that is not of a prompt leaves those of the prompts.
LEMMA StillUnique ==
    ASSUME IsList(ledger), NEW r, ledger' = Append(ledger, r), r.kind # "prompt"
    PROVE  /\ \A i \in 1 .. Len(ledger') : \A n :
                  ledger'[i] = Prompt(n) => i \in 1 .. Len(ledger) /\ ledger[i] = Prompt(n)
           /\ Unique(ledger) => Unique(ledger')
           /\ \A n : (\A i \in 1 .. Len(ledger) : ledger[i] # Prompt(n))
                         => \A i \in 1 .. Len(ledger') : ledger'[i] # Prompt(n)
<1>1. /\ Len(ledger) \in Nat /\ Len(ledger') = Len(ledger) + 1
      /\ ledger'[Len(ledger) + 1] = r /\ \A i \in 1 .. Len(ledger) : ledger'[i] = ledger[i]
  BY LongerLedger
<1>2. \A n : r # Prompt(n)
  BY DEF Prompt
<1>3. \A i \in 1 .. Len(ledger') : i \in 1 .. Len(ledger) \/ i = Len(ledger) + 1
  BY <1>1
<1>4. \A i \in 1 .. Len(ledger') : \A n :
          ledger'[i] = Prompt(n) => i \in 1 .. Len(ledger) /\ ledger[i] = Prompt(n)
  BY <1>1, <1>2, <1>3
<1>5. Unique(ledger) => Unique(ledger')
  BY <1>4 DEF Unique
<1> QED
  BY <1>4, <1>5

\* And what its proof needs of the blocks.
HistoryInv ==
    /\ LedgerInv
    /\ Stair(blocks, branches) /\ Stair(prior.blocks, prior.branches) /\ DueIsOpen
    /\ plan.then \in {"turn", "retry"}

LEMMA HistoryUnlogged ==
    ASSUME HistoryInv, UNCHANGED <<blocks, branches, due, prior, plan, ledger, prompts, writeFailed>>,
           \/ at' = at
           \/ at # "rollup" /\ at' = "idle"
           \/ at \notin {"idle", "entered", "rollup"} /\ at' \notin {"idle", "entered", "rollup"}
    PROVE  HistoryInv'
<1>1. HistoryBlocks' = HistoryBlocks /\ \A S : Blocks(S)' = Blocks(S)
  BY NoRecord
<1>2. LedgerInv'
  BY <1>1 DEF HistoryInv, LedgerInv
<1> QED
  BY <1>2 DEF HistoryInv, DueIsOpen, Tiers
LEMMA HistoryEnter == ASSUME HistoryInv, Enter PROVE HistoryInv'
<1>1. HistoryBlocks' = HistoryBlocks /\ \A S : Blocks(S)' = Blocks(S)
  BY NoRecord DEF Enter
<1>2. prior'.blocks = blocks /\ prior'.branches = branches
  BY DEF Enter, Snapshot
<1>3. /\ prompts' = prompts + 1 /\ at = "idle" /\ at' = "entered" /\ ~writeFailed
      /\ UNCHANGED <<blocks, branches, due, plan, ledger, writeFailed>>
  BY DEF Enter, stairVars
<1>4. \A i \in 1 .. Len(ledger) : ledger[i] # Prompt(prompts')
  BY <1>3 DEF HistoryInv, LedgerInv
<1>5. LedgerInv'
  BY <1>1, <1>2, <1>3, <1>4 DEF HistoryInv, LedgerInv
<1> QED
  BY <1>2, <1>3, <1>5 DEF HistoryInv, DueIsOpen, Tiers

\* The record of a prompt is the only one of it, and begins its attempt.
LEMMA HistoryLogPrompt ==
    ASSUME HistoryInv, NEW pins, NEW fits, LogPrompt(pins, fits)
    PROVE  HistoryInv'
<1> DEFINE r == Prompt(prompts)
<1>1. /\ at = "entered" /\ at' = "turn" /\ ledger' = Append(ledger, r)
      /\ UNCHANGED <<blocks, branches, due, prior, plan, prompts, writeFailed>>
  BY DEF LogPrompt, stairVars, Prompt
<1>2. r.kind = "prompt"
  BY DEF Prompt
<1>3. /\ IsList(ledger') /\ Len(ledger) \in Nat /\ Len(ledger') = Len(ledger) + 1
      /\ ledger'[Len(ledger) + 1] = r /\ \A i \in 1 .. Len(ledger) : ledger'[i] = ledger[i]
      /\ DOMAIN ledger = 1 .. Len(ledger)
  <2>1. IsList(ledger)
    BY DEF HistoryInv, LedgerInv
  <2> HIDE DEF r
  <2> QED
    BY <1>1, <2>1, LongerLedger
<1>4. HistoryBlocks' = HistoryBlocks
  BY <1>1, <1>2, OneMoreRecord DEF HistoryInv, LedgerInv
<1>5. \A n : r = Prompt(n) => n = prompts
  BY DEF Prompt
<1>6. \A i \in 1 .. Len(ledger) : ledger[i] # Prompt(prompts)
  BY <1>1 DEF HistoryInv, LedgerInv
<1>7. Unique(ledger')
  <2>1. ASSUME NEW i \in 1 .. Len(ledger'), NEW j \in 1 .. Len(ledger'), NEW n,
               ledger'[i] = Prompt(n), ledger'[j] = Prompt(n)
        PROVE  i = j
    <3>1. CASE i = Len(ledger) + 1 \/ j = Len(ledger) + 1
      BY <1>3, <1>5, <1>6, <2>1, <3>1
    <3>2. CASE i \in 1 .. Len(ledger) /\ j \in 1 .. Len(ledger)
      BY <1>3, <2>1, <3>2 DEF HistoryInv, LedgerInv, Unique
    <3> QED
      BY <1>3, <3>1, <3>2
  <2> QED
    BY <2>1 DEF Unique
<1>8. \A n \in Nat, i \in 1 .. Len(ledger') : n > prompts' => ledger'[i] # Prompt(n)
  <2>1. ASSUME NEW n \in Nat, NEW i \in 1 .. Len(ledger'), n > prompts
        PROVE  ledger'[i] # Prompt(n)
    <3>1. CASE i = Len(ledger) + 1
      BY <1>3, <1>5, <2>1, <3>1 DEF HistoryInv, LedgerInv
    <3>2. CASE i \in 1 .. Len(ledger)
      BY <1>3, <2>1, <3>2 DEF HistoryInv, LedgerInv
    <3> QED
      BY <1>3, <3>1, <3>2
  <2> QED
    BY <1>1, <2>1
<1>9. PICK last : last = Len(ledger) + 1
  OBVIOUS
<1>10. Blocks(1 .. last - 1)' = prior'.blocks
  <2>1. Survives(last)' /\ \A i \in 1 .. Len(ledger) : Survives(i)' <=> Survives(i)
    BY <1>1, <1>2, <1>9, OneRecord DEF HistoryInv, LedgerInv
  <2>2. 1 .. last - 1 = DOMAIN ledger
    BY <1>3, <1>9
  <2>3. {i \in 1 .. last - 1 : ledger'[i].kind = "block" /\ Survives(i)'}
          = {i \in DOMAIN ledger : ledger[i].kind = "block" /\ Survives(i)}
    BY <1>3, <2>1, <2>2
  <2>4. Blocks(1 .. last - 1)' = Blocks(DOMAIN ledger)
    BY <1>3, <2>2, <2>3 DEF Blocks
  <2>5. Blocks(DOMAIN ledger) = blocks /\ blocks = prior.blocks
    BY <1>1, HistoryIsSurvivors DEF HistoryInv, LedgerInv
  <2> QED
    BY <1>1, <2>4, <2>5
<1>11. \E s \in 1 .. Len(ledger') :
           ledger'[s] = Prompt(prompts') /\ Blocks(1 .. s - 1)' = prior'.blocks
  BY <1>1, <1>3, <1>9, <1>10
<1>12. LedgerInv'
  BY <1>1, <1>3, <1>4, <1>7, <1>8, <1>11 DEF HistoryInv, LedgerInv
<1> QED
  BY <1>1, <1>12 DEF HistoryInv, DueIsOpen, Tiers

LEMMA HistoryCompact ==
    ASSUME HistoryInv, NEW choice, NEW discarded, Compact(choice, discarded)
    PROVE  HistoryInv'
<1> PICK l : l = LastIndex(choice, count + IF discarded THEN 1 ELSE 0)
  OBVIOUS
<1> DEFINE new == [tier |-> 1, from |-> branches, first |-> first, last |-> l]
<1>1. /\ at \in {"turn", "result"} /\ at' = "rollup" /\ plan'.then \in {"turn", "retry"}
      /\ AddBranch(first, l)
      /\ UNCHANGED <<prior, ledger, prompts, writeFailed>>
  BY DEF Compact
<1>2. blocks' = blocks \union {new} /\ branches' = branches + 1 /\ due' = Unsealed'
  BY <1>1 DEF AddBranch
<1>3. HistoryBlocks' = HistoryBlocks /\ \A S : Blocks(S)' = Blocks(S)
  BY <1>1, NoRecord
<1>4. \A b \in blocks' : <<b.tier, b.from>> \in Keys'
  BY DEF Keys
<1>5. DueIsOpen'
  BY <1>2, <1>4 DEF DueIsOpen, Unsealed, Tiers
<1>6. Stair(blocks', branches')
  <2>1. branches \in Nat /\ new.tier = 1 /\ new.from = branches
    BY DEF HistoryInv, Stair
  <2>2. \A b \in blocks : b.tier = 1 => b.from # branches
    BY <2>1 DEF HistoryInv, Stair
  <2> HIDE DEF new
  <2> QED
    BY <1>2, <2>1, <2>2 DEF HistoryInv, Stair
<1>7. new.tier = 1 /\ new.from = branches' - 1
  BY <1>2 DEF HistoryInv, Stair
<1> HIDE DEF new
<1>8. LedgerInv'
  BY <1>1, <1>2, <1>3, <1>7 DEF HistoryInv, LedgerInv
<1> QED
  BY <1>1, <1>5, <1>6, <1>8 DEF HistoryInv

LEMMA HistoryRollup == ASSUME HistoryInv, Rollup PROVE HistoryInv'
<1>1. /\ at = "rollup" /\ at' = "rollup"
      /\ UNCHANGED <<prior, plan, prompts, writeFailed>>
  BY DEF Rollup
<1>2. CASE RollupSealed /\ ledger' = Append(ledger,
              [kind |-> "block", block |-> CHOOSE b \in blocks' : b \notin blocks])
  <2> DEFINE new == Merged(Soonest(due))
  <2>1. /\ blocks' = blocks \union {new} /\ branches' = branches /\ Advance
        /\ due # {}
    BY <1>2 DEF RollupSealed, Settled
  <2>2. DueIsOpen' /\ Soonest(due) \in due
    BY <2>1, DueGoesOn DEF HistoryInv, Stair
  <2>3. /\ new.tier # 1 /\ new \notin blocks
        /\ \A b \in blocks : b.tier # new.tier \/ b.from # new.from
    BY <2>2, MergedIsNew DEF HistoryInv
  <2> HIDE DEF new
  <2>4. (CHOOSE b \in blocks' : b \notin blocks) = new
    BY <2>1, <2>3
  <2>5. Stair(blocks', branches')
    BY <2>1, <2>3 DEF HistoryInv, Stair
  <2> PICK r : r = [kind |-> "block", block |-> new]
    OBVIOUS
  <2>6. ledger' = Append(ledger, r) /\ r.kind = "block" /\ r.block = new
    BY <1>2, <2>4
  <2>7. IsList(ledger) /\ Unique(ledger)
    BY DEF HistoryInv, LedgerInv
  <2>8. /\ IsList(ledger') /\ Len(ledger) \in Nat /\ Len(ledger') = Len(ledger) + 1
        /\ \A i \in 1 .. Len(ledger) : ledger'[i] = ledger[i]
    BY <2>6, <2>7, LongerLedger
  <2>9. /\ HistoryBlocks' = HistoryBlocks \union {new}
        /\ \A s \in 1 .. Len(ledger) : Blocks(1 .. s - 1)' = Blocks(1 .. s - 1)
    BY <2>6, <2>7, OneMoreRecord
  <2>10. /\ Unique(ledger')
         /\ \A n : (\A i \in 1 .. Len(ledger) : ledger[i] # Prompt(n))
                       => \A i \in 1 .. Len(ledger') : ledger'[i] # Prompt(n)
    BY <2>6, <2>7, StillUnique
  <2>11. PICK b \in blocks : /\ b.tier = 1 /\ b.from = branches - 1
                             /\ HistoryBlocks \union {b} = blocks
    BY <1>1 DEF HistoryInv, LedgerInv
  <2>12. b \in blocks' /\ HistoryBlocks' \union {b} = blocks'
    BY <2>1, <2>9, <2>11
  <2>13. \E s \in 1 .. Len(ledger') :
             ledger'[s] = Prompt(prompts') /\ Blocks(1 .. s - 1)' = prior'.blocks
    BY <1>1, <2>8, <2>9 DEF HistoryInv, LedgerInv
  <2>14. \A n \in Nat, i \in 1 .. Len(ledger') : n > prompts' => ledger'[i] # Prompt(n)
    BY <1>1, <2>10 DEF HistoryInv, LedgerInv
  <2>15. prompts' \in Nat /\ ~writeFailed'
    BY <1>1 DEF HistoryInv, LedgerInv
  <2>16. LedgerInv'
    BY <1>1, <2>1, <2>8, <2>10, <2>11, <2>12, <2>13, <2>14, <2>15 DEF LedgerInv
  <2> QED
    BY <1>1, <2>2, <2>5, <2>16 DEF HistoryInv
<1>3. CASE (RollupEmpty \/ RollupSkipped) /\ UNCHANGED ledger
  <2>1. UNCHANGED <<blocks, branches, ledger>>
    BY <1>3 DEF RollupEmpty, RollupSkipped
  <2>2. DueIsOpen'
    <3>1. CASE RollupEmpty
      BY <3>1 DEF RollupEmpty, HistoryInv, DueIsOpen, Tiers
    <3>2. CASE RollupSkipped
      BY <2>1, <3>2, DueGoesOn DEF RollupSkipped, Settled, HistoryInv, Stair
    <3> QED
      BY <1>3, <3>1, <3>2
  <2>3. HistoryBlocks' = HistoryBlocks /\ \A S : Blocks(S)' = Blocks(S)
    BY <2>1, NoRecord
  <2>4. LedgerInv'
    BY <1>1, <2>1, <2>3 DEF HistoryInv, LedgerInv
  <2> QED
    BY <1>1, <2>1, <2>2, <2>4 DEF HistoryInv
<1> QED
  BY <1>2, <1>3 DEF Rollup
LEMMA HistoryInstall == ASSUME HistoryInv, Install PROVE HistoryInv'
<1>1. /\ at = "rollup" /\ at' = plan.then /\ plan'.then = "turn"
      /\ ledger' = Append(ledger, [kind |-> "block", block |-> BlockAt(<<1, branches - 1>>)])
      /\ UNCHANGED <<blocks, branches, due, prior, prompts, writeFailed>>
  BY DEF Install, stairVars, NoPlan
<1>2. PICK b \in blocks : /\ b.tier = 1 /\ b.from = branches - 1
                          /\ HistoryBlocks \union {b} = blocks
  BY <1>1 DEF HistoryInv, LedgerInv
<1>3. BlockAt(<<1, branches - 1>>) = b
  <2>1. \A c \in blocks : <<c.tier, c.from>> = <<1, branches - 1>> => c = b
    BY <1>2 DEF HistoryInv, Stair
  <2>2. <<b.tier, b.from>> = <<1, branches - 1>>
    BY <1>2
  <2> QED
    BY <2>1, <2>2 DEF BlockAt
<1> PICK r : r = [kind |-> "block", block |-> b]
  OBVIOUS
<1>4. ledger' = Append(ledger, r) /\ r.kind = "block" /\ r.block = b
  BY <1>1, <1>3
<1>5. IsList(ledger) /\ Unique(ledger)
  BY DEF HistoryInv, LedgerInv
<1>6. /\ IsList(ledger') /\ Len(ledger) \in Nat /\ Len(ledger') = Len(ledger) + 1
      /\ \A i \in 1 .. Len(ledger) : ledger'[i] = ledger[i]
  BY <1>4, <1>5, LongerLedger
<1>7. /\ HistoryBlocks' = HistoryBlocks \union {b}
      /\ \A s \in 1 .. Len(ledger) : Blocks(1 .. s - 1)' = Blocks(1 .. s - 1)
  BY <1>4, <1>5, OneMoreRecord
<1>8. /\ Unique(ledger')
      /\ \A n : (\A i \in 1 .. Len(ledger) : ledger[i] # Prompt(n))
                    => \A i \in 1 .. Len(ledger') : ledger'[i] # Prompt(n)
  BY <1>4, <1>5, StillUnique
<1>9. \E s \in 1 .. Len(ledger') :
          ledger'[s] = Prompt(prompts') /\ Blocks(1 .. s - 1)' = prior'.blocks
  BY <1>1, <1>6, <1>7 DEF HistoryInv, LedgerInv
<1>10. \A n \in Nat, i \in 1 .. Len(ledger') : n > prompts' => ledger'[i] # Prompt(n)
  BY <1>1, <1>8 DEF HistoryInv, LedgerInv
<1>11. prompts' \in Nat /\ ~writeFailed' /\ HistoryBlocks' = blocks'
       /\ at' \in {"turn", "retry"}
  BY <1>1, <1>2, <1>7 DEF HistoryInv, LedgerInv
<1>12. LedgerInv'
  BY <1>6, <1>8, <1>9, <1>10, <1>11 DEF LedgerInv
<1> QED
  BY <1>1, <1>12 DEF HistoryInv, DueIsOpen, Tiers

\* A rollback puts back the blocks of before its prompt, and they are what a reader of
\* the ledger is left with.
LEMMA HistoryPutBack ==
    ASSUME HistoryInv, NEW writes \in BOOLEAN, PutBack(writes)
    PROVE  HistoryInv'
<1> PICK r : r = [kind |-> "rollback", prompt |-> prompts]
  OBVIOUS
<1>1. /\ at # "idle" /\ at' = "idle" /\ plan'.then = "turn" /\ writeFailed' = ~writes
      /\ blocks' = prior.blocks /\ branches' = prior.branches /\ due' = {}
      /\ ledger' = ledger \/ ledger' = Append(ledger, r)
      /\ writes => ledger' = Append(ledger, r)
      /\ UNCHANGED <<prior, prompts>>
  BY DEF PutBack, Restore, NoPlan
<1>2. r.kind = "rollback" /\ r.prompt = prompts
  OBVIOUS
<1>3. IsList(ledger) /\ Unique(ledger) /\ prompts \in Nat
      /\ \A n \in Nat, i \in 1 .. Len(ledger) : n > prompts => ledger[i] # Prompt(n)
  BY DEF HistoryInv, LedgerInv
<1>4. IsList(ledger') /\ Unique(ledger')
      /\ \A n \in Nat, i \in 1 .. Len(ledger') : n > prompts' => ledger'[i] # Prompt(n)
  <2>1. CASE ledger' = ledger
    BY <1>1, <1>3, <2>1
  <2>2. ASSUME ledger' = Append(ledger, r)
        PROVE  IsList(ledger') /\ Unique(ledger')
               /\ \A n \in Nat, i \in 1 .. Len(ledger') : n > prompts => ledger'[i] # Prompt(n)
    <3>1. IsList(ledger')
      BY <1>3, <2>2, LongerLedger
    <3>2. /\ Unique(ledger')
          /\ \A n : (\A i \in 1 .. Len(ledger) : ledger[i] # Prompt(n))
                        => \A i \in 1 .. Len(ledger') : ledger'[i] # Prompt(n)
      BY <1>2, <1>3, <2>2, StillUnique
    <3> QED
      BY <1>3, <3>1, <3>2
  <2> QED
    BY <1>1, <2>1, <2>2
<1>5. ASSUME writes PROVE HistoryBlocks' = blocks'
  <2>1. PICK p : p = prompts
    OBVIOUS
  <2>2. ledger' = Append(ledger, [kind |-> "rollback", prompt |-> p])
    BY <1>1, <1>5, <2>1
  <2>3. /\ \A s \in 1 .. Len(ledger) :
                ledger[s] = Prompt(p) => HistoryBlocks' = Blocks(1 .. s - 1)
        /\ (\A i \in 1 .. Len(ledger) : ledger[i] # Prompt(p)) => HistoryBlocks' = HistoryBlocks
    BY <1>3, <2>2, RolledBack
  <2>4. ASSUME at = "entered" PROVE HistoryBlocks' = blocks'
    <3>1. /\ \A i \in 1 .. Len(ledger) : ledger[i] # Prompt(prompts)
          /\ blocks = prior.blocks /\ HistoryBlocks = blocks
      BY <2>4 DEF HistoryInv, LedgerInv
    <3> QED
      BY <1>1, <2>1, <2>3, <3>1
  <2>5. ASSUME at # "entered" PROVE HistoryBlocks' = blocks'
    <3>1. \E s \in 1 .. Len(ledger) :
              ledger[s] = Prompt(prompts) /\ Blocks(1 .. s - 1) = prior.blocks
      BY <1>1, <2>5 DEF HistoryInv, LedgerInv
    <3> QED
      BY <1>1, <2>1, <2>3, <3>1
  <2> QED
    BY <2>4, <2>5
<1>6. LedgerInv'
  BY <1>1, <1>3, <1>4, <1>5 DEF LedgerInv
<1>7. DueIsOpen'
  BY <1>1 DEF DueIsOpen
<1>8. Stair(blocks', branches') /\ Stair(prior'.blocks, prior'.branches)
  BY <1>1 DEF HistoryInv
<1> QED
  BY <1>1, <1>6, <1>7, <1>8 DEF HistoryInv

LEMMA HistoryInit == ASSUME InitContext PROVE HistoryInv
<1>1. /\ ledger = <<>> /\ prompts = 0 /\ at = "idle" /\ blocks = {} /\ branches = 0 /\ due = {}
      /\ prior.blocks = {} /\ prior.branches = 0 /\ plan.then = "turn"
  BY DEF InitContext, StairInit, Snapshot, NoPlan
<1>2. /\ IsList(ledger) /\ Len(ledger) = 0 /\ DOMAIN ledger = {} /\ 1 .. Len(ledger) = {}
  <2>1. ledger \in Seq({}) /\ Len(ledger) = 0
    BY <1>1
  <2> QED
    BY <2>1 DEF IsList
<1>3. HistoryBlocks = {}
  BY <1>2 DEF HistoryBlocks
<1>4. LedgerInv
  BY <1>1, <1>2, <1>3 DEF LedgerInv, Unique
<1> QED
  BY <1>1, <1>4 DEF HistoryInv, Stair, DueIsOpen

LEMMA HistoryStep == ASSUME HistoryInv, [NextContext]_contextVars PROVE HistoryInv'
<1>1. CASE Enter
  BY <1>1, HistoryEnter
<1>2. ASSUME NEW pins \in BOOLEAN, NEW fits \in BOOLEAN, LogPrompt(pins, fits) PROVE HistoryInv'
  BY <1>2, HistoryLogPrompt
<1>3. CASE Refine
  BY <1>3, HistoryUnlogged DEF Refine, stairVars
<1>4. ASSUME NEW steering \in BOOLEAN, Deliver(steering) PROVE HistoryInv'
  BY <1>4, HistoryUnlogged DEF Deliver, stairVars
<1>5. ASSUME NEW next \in {"tool", "turn", "idle"}, Reply(next) PROVE HistoryInv'
  BY <1>5, HistoryUnlogged DEF Reply, stairVars
<1>6. ASSUME NEW truncated \in BOOLEAN, Result(truncated) PROVE HistoryInv'
  BY <1>6, HistoryUnlogged DEF Result, stairVars
<1>7. CASE NextTurn
  BY <1>7, HistoryUnlogged DEF NextTurn, stairVars
<1>8. CASE Finish
  BY <1>8, HistoryUnlogged DEF Finish, stairVars
<1>9. ASSUME NEW choice \in Tails, NEW discarded \in BOOLEAN, Compact(choice, discarded)
      PROVE  HistoryInv'
  BY <1>9, HistoryCompact
<1>10. CASE Rollup
  BY <1>10, HistoryRollup
<1>11. CASE Install
  BY <1>11, HistoryInstall
<1>12. ASSUME NEW writes \in BOOLEAN, PutBack(writes) PROVE HistoryInv'
  BY <1>12, HistoryPutBack
<1>13. CASE UNCHANGED contextVars
  BY <1>13, HistoryUnlogged DEF contextVars, stairVars
<1> QED
  BY <1>1, <1>2, <1>3, <1>4, <1>5, <1>6, <1>7, <1>8, <1>9, <1>10, <1>11, <1>12, <1>13 DEF NextContext

\* History.blocks: who reads the ledger finds the blocks the engine shows, whatever was
\* compacted, rolled up and rolled back, unless a write failed.
THEOREM HistoryIsTheBlocks == ContextSpec => []HistoryAgrees
<1>1. HistoryInv => HistoryAgrees
  BY DEF HistoryInv, LedgerInv, HistoryAgrees
<1> QED
  BY <1>1, HistoryInit, HistoryStep, PTL DEF ContextSpec

-----------------------------------------------------------------------------
(***************************************************************************)
(* Nothing is forgotten. The messages of a block are those of its branches *)
(* (Staired), and a message that is no longer in the context is in one of  *)
(* a branch and was there when it was summarised (Past).                   *)
(***************************************************************************)

\* The blocks of n branches, with messages below hi.
Staired(bs, n, hi) ==
    /\ Founded(bs, n) /\ Stair(bs, n)
    /\ \A b \in bs : b.first \in Nat /\ b.last \in 0 .. hi - 1
    /\ \A b, c \in bs : b.tier = 1 /\ c.tier = 1 /\ b.from < c.from => b.last < c.first
    /\ \A b, c \in bs : c.tier = 1 /\ b.from <= c.from /\ c.from < Ends(b)
                            => b.first <= c.first /\ c.last <= b.last

\* What a pass comes to are complete ranges whose children have blocks.
DueIsWhole == \A key \in due : Until(key) <= branches /\ Children(key) \subseteq Keys

LEMMA StairedAdd ==
    ASSUME NEW bs, NEW n, NEW hi \in Nat, NEW hj \in Nat, Staired(bs, n, hi), n < MaxBranches,
           hi <= hj, NEW f \in Nat, NEW l \in 0 .. hj - 1,
           \A b \in bs : b.tier = 1 => b.last < f
    PROVE  Staired(bs \union {[tier |-> 1, from |-> n, first |-> f, last |-> l]}, n + 1, hj)
<1> PICK new : new = [tier |-> 1, from |-> n, first |-> f, last |-> l]
  OBVIOUS
<1> PICK more : more = bs \union {new}
  OBVIOUS
<1>1. new.tier = 1 /\ new.from = n /\ new.first = f /\ new.last = l
  OBVIOUS
<1>2. n \in Nat /\ n + 1 \in 0 .. MaxBranches /\ 1 \in Tiers /\ MaxBranches \in Nat
  BY StaircaseConstants DEF Staired, Founded, Tiers
<1>3. Ends(new) = n + 1
  <2>1. Size(1) = 1
    BY SizesGrow
  <2> QED
    BY <1>1, <2>1 DEF Ends
<1>4. \A b \in bs : /\ b.tier \in Tiers /\ b.from \in Nat /\ Ends(b) <= n
                    /\ b.tier = 1 => b.from \in 0 .. n - 1
  BY DEF Staired, Founded, Stair
<1>5. \A b \in bs : Ends(b) \in Int
  <2> TAKE b \in bs
  <2>1. b.tier \in 1 .. TierMax
    BY <1>2, <1>4 DEF Tiers, TierMax
  <2>2. Size(b.tier) \in Nat
    BY <2>1, SizesGrow
  <2> QED
    BY <1>4, <2>2 DEF Ends
<1>6. Founded(more, n + 1)
  <2>1. \A b \in more : b.tier \in Tiers /\ b.from \in Nat /\ Ends(b) <= n + 1
    BY <1>1, <1>2, <1>3, <1>4, <1>5
  <2>2. \A k \in 0 .. (n + 1) - 1 : \E b \in more : b.tier = 1 /\ b.from = k
    <3> TAKE k \in 0 .. (n + 1) - 1
    <3>1. CASE k = n
      BY <1>1, <3>1
    <3>2. CASE k # n
      <4>1. k \in 0 .. n - 1
        BY <1>2, <3>2
      <4> QED
        BY <4>1 DEF Staired, Founded
    <3> QED
      BY <3>1, <3>2
  <2> QED
    BY <1>2, <2>1, <2>2 DEF Founded
<1>7. Stair(more, n + 1)
  BY <1>1, <1>2, <1>4 DEF Staired, Stair
<1>8. \A b \in more : b.first \in Nat /\ b.last \in 0 .. hj - 1
  BY <1>1 DEF Staired
<1>9. ASSUME NEW b \in more, NEW c \in more, b.tier = 1, c.tier = 1, b.from < c.from
      PROVE  b.last < c.first
  <2>1. CASE b \in bs /\ c \in bs
    BY <1>9, <2>1 DEF Staired
  <2>2. CASE b \in bs /\ c = new
    BY <1>1, <1>9, <2>2
  <2>3. CASE b = new
    BY <1>1, <1>2, <1>4, <1>9, <2>3
  <2> QED
    BY <2>1, <2>2, <2>3
<1>10. ASSUME NEW b \in more, NEW c \in more, c.tier = 1, b.from <= c.from, c.from < Ends(b)
       PROVE  b.first <= c.first /\ c.last <= b.last
  <2>1. CASE b \in bs /\ c \in bs
    BY <1>10, <2>1 DEF Staired
  <2>2. CASE b \in bs /\ c = new
    BY <1>1, <1>2, <1>4, <1>5, <1>10, <2>2
  <2>3. CASE b = new /\ c \in bs
    BY <1>1, <1>2, <1>4, <1>10, <2>3
  <2>4. CASE b = new /\ c = new
    BY <1>1, <2>4
  <2> QED
    BY <2>1, <2>2, <2>3, <2>4
<1> QED
  BY <1>6, <1>7, <1>8, <1>9, <1>10 DEF Staired

LEMMA LeastAndGreatest ==
    ASSUME NEW hi \in Nat, NEW S \in SUBSET (0 .. hi), S # {}
    PROVE  /\ Min(S) \in S /\ \A x \in S : Min(S) <= x
           /\ Max(S) \in S /\ \A x \in S : x <= Max(S)
<1>1. \E n \in S : \A m \in S : n <= m
  BY LeastOfRange
<1>2. \E n \in S : \A m \in S : n >= m
  <2> DEFINE T == {hi - x : x \in S}
  <2>1. T \in SUBSET Nat /\ T # {}
    <3>1. \A x \in S : x \in Int /\ 0 <= x /\ x <= hi
      OBVIOUS
    <3>2. \A x \in S : hi - x \in Nat
      BY <3>1
    <3> QED
      BY <3>2
  <2>2. PICK y \in T : \A z \in T : y <= z
    BY <2>1, LeastOfRange
  <2>3. PICK n \in S : y = hi - n
    BY <2>2
  <2>4. ASSUME NEW m \in S PROVE n >= m
    <3>1. hi - m \in T
      OBVIOUS
    <3>2. y <= hi - m
      BY <2>2, <3>1
    <3> HIDE DEF T
    <3> QED
      BY <2>3, <3>2
  <2> QED
    BY <2>4
<1> QED
  BY <1>1, <1>2 DEF Min, Max

\* A branch of a range is in one of its children.
LEMMA InAChild ==
    ASSUME NEW f \in Nat, NEW z \in Nat \ {0}, NEW a \in Nat, NEW x \in Nat,
           a <= x, x < a + f * z
    PROVE  \E i \in 0 .. f - 1 : a + i * z <= x /\ x < (a + i * z) + z
<1>1. x - a \in Nat
  OBVIOUS
<1>2. \E i \in Nat, r \in 0 .. z - 1 : x - a = z * i + r
  BY <1>1, Division
<1>3. PICK i \in Nat, r \in 0 .. z - 1 : x - a = z * i + r
  BY <1>2
<1>4. z * i = i * z
  OBVIOUS
<1> PICK w : w = i * z
  OBVIOUS
<1>5. w \in Nat
  BY Multiples
<1>6. a + w <= x /\ x < (a + w) + z
  BY <1>3, <1>4, <1>5
<1>7. i \in 0 .. f - 1
  <2> SUFFICES ASSUME i >= f PROVE FALSE
    OBVIOUS
  <2>1. f * z <= w /\ f * z \in Nat
    BY Multiples
  <2> QED
    BY <1>5, <1>6, <2>1
<1> QED
  BY <1>6, <1>7

LEMMA StairedSeal ==
    ASSUME NEW hi \in Nat, Staired(blocks, branches, hi), DueIsOpen, DueIsWhole, NEW key \in due
    PROVE  Staired(blocks \union {Merged(key)}, branches, hi)
<1> PICK new : new = Merged(key)
  OBVIOUS
<1> PICK t : t = key[1]
  OBVIOUS
<1> PICK from : from = key[2]
  OBVIOUS
<1> PICK z : z = Size(t - 1)
  OBVIOUS
<1>1. /\ branches \in Nat /\ MaxBranches \in Nat /\ Fanout \in Nat /\ Fanout >= 2
      /\ t \in Tiers /\ t # 1 /\ from \in Nat /\ t \in 1 .. TierMax /\ t - 1 \in 1 .. TierMax - 1
      /\ t - 1 \in 1 .. TierMax
  <2>1. MaxBranches \in Nat /\ Fanout \in Nat /\ Fanout >= 2 /\ branches \in Nat
    BY StaircaseConstants DEF Staired, Stair
  <2>2. t \in Tiers /\ t # 1 /\ from \in 0 .. branches
    BY DEF DueIsOpen
  <2> QED
    BY <2>1, <2>2 DEF Tiers, TierMax
<1>2. z \in Nat \ {0} /\ Size(t) = Fanout * z
  <2>1. (t - 1) + 1 = t
    BY <1>1
  <2> QED
    BY <1>1, <2>1, SizesGrow
<1>3. Until(key) = from + Fanout * z /\ from + Fanout * z <= branches
  BY <1>2 DEF DueIsWhole, Until
<1>4. /\ new.tier = t /\ new.from = from /\ new \notin blocks
      /\ \A b \in blocks : b.tier # t \/ b.from # from
  <2>1. new.tier = t /\ new.from = from
    BY DEF Merged
  <2> QED
    BY <2>1, MergedIsNew
<1> DEFINE child(i) == <<t - 1, from + i * z>>
           parts == {BlockAt(c) : c \in Children(key)}
           firsts == {b.first : b \in parts}
           lasts == {b.last : b \in parts}
<1>5. Children(key) = {child(i) : i \in 0 .. Fanout - 1}
  BY DEF Children
<1>6. \A i \in 0 .. Fanout - 1 : /\ BlockAt(child(i)) \in blocks /\ BlockAt(child(i)) \in parts
                                 /\ BlockAt(child(i)).tier = t - 1
                                 /\ BlockAt(child(i)).from = from + i * z
  <2> TAKE i \in 0 .. Fanout - 1
  <2>1. child(i) \in Keys
    BY <1>5 DEF DueIsWhole
  <2>2. \E b \in blocks : <<b.tier, b.from>> = child(i)
    BY <2>1 DEF Keys
  <2>3. BlockAt(child(i)) \in blocks
        /\ <<BlockAt(child(i)).tier, BlockAt(child(i)).from>> = child(i)
    BY <2>2 DEF BlockAt
  <2>4. BlockAt(child(i)) \in parts
    BY <1>5
  <2> QED
    BY <2>3, <2>4
<1>7. parts \subseteq blocks /\ parts # {}
  <2>1. 0 \in 0 .. Fanout - 1
    BY <1>1
  <2> QED
    <3>1. \A c \in Children(key) : BlockAt(c) \in blocks
      <4> TAKE c \in Children(key)
      <4>1. PICK i \in 0 .. Fanout - 1 : c = child(i)
        BY <1>5
      <4>2. BlockAt(child(i)) \in blocks
        BY <1>6
      <4> QED
        BY <4>1, <4>2
    <3>2. BlockAt(child(0)) \in parts
      BY <1>6, <2>1
    <3>3. parts \subseteq blocks
      BY <3>1
    <3> HIDE DEF parts, child
    <3> QED
      BY <3>2, <3>3
<1>8. /\ new.first = Min(firsts) /\ new.last = Max(lasts)
  BY DEF Merged
<1>9. \A b \in blocks : b.first \in Nat /\ b.last \in 0 .. hi - 1
  BY DEF Staired
<1> HIDE DEF parts
<1>10. new.first \in Nat /\ \A b \in parts : new.first <= b.first
  <2>1. firsts \in SUBSET Nat /\ firsts # {}
    BY <1>7, <1>9
  <2>2. \E n \in firsts : \A m \in firsts : n <= m
    BY <2>1, LeastOfRange
  <2>3. Min(firsts) \in firsts /\ \A m \in firsts : Min(firsts) <= m
    BY <2>2 DEF Min
  <2> QED
    BY <1>8, <2>1, <2>3
<1>11. new.last \in 0 .. hi - 1 /\ \A b \in parts : b.last <= new.last
  <2>1. lasts \in SUBSET (0 .. hi - 1) /\ lasts # {}
    BY <1>7, <1>9
  <2>2. lasts \in SUBSET (0 .. hi)
    BY <2>1
  <2>3. Max(lasts) \in lasts /\ \A m \in lasts : m <= Max(lasts)
    BY <2>1, <2>2, LeastAndGreatest
  <2> QED
    BY <1>8, <2>1, <2>3
<1>12. Ends(new) = from + Fanout * z
  BY <1>2, <1>4 DEF Ends
<1>13. ASSUME NEW c \in blocks, c.tier = 1, from <= c.from, c.from < from + Fanout * z
       PROVE  new.first <= c.first /\ c.last <= new.last
  <2>1. c.from \in Nat /\ c.from - from \in Nat
    <3>1. c.from \in Nat
      BY DEF Staired, Founded
    <3> QED
      BY <1>1, <1>13, <3>1
  <2>2. \E i \in 0 .. Fanout - 1 : from + i * z <= c.from /\ c.from < (from + i * z) + z
    <3> PICK x : x = c.from
      OBVIOUS
    <3>1. x \in Nat /\ from <= x /\ x < from + Fanout * z
      BY <1>13, <2>1
    <3> QED
      BY <1>1, <1>2, <3>1, InAChild
  <2> PICK i \in 0 .. Fanout - 1 : from + i * z <= c.from /\ c.from < (from + i * z) + z
    BY <2>2
  <2> PICK b : b = BlockAt(child(i))
    OBVIOUS
  <2>5. b \in blocks /\ b \in parts /\ b.tier = t - 1 /\ b.from = from + i * z
    BY <1>6
  <2>6. Ends(b) = (from + i * z) + z
    BY <2>5 DEF Ends
  <2>7. b.from <= c.from /\ c.from < Ends(b)
    BY <2>5, <2>6
  <2>8. b.first <= c.first /\ c.last <= b.last
    BY <1>13, <2>5, <2>7 DEF Staired
  <2> QED
    BY <1>9, <1>10, <1>11, <2>5, <2>8
<1> PICK more : more = blocks \union {new}
  OBVIOUS
<1>14. Founded(more, branches)
  <2>1. \A b \in blocks : b.tier \in Tiers /\ b.from \in Nat /\ Ends(b) <= branches
    BY DEF Staired, Founded
  <2>2. \A b \in more : b.tier \in Tiers /\ b.from \in Nat /\ Ends(b) <= branches
    BY <1>1, <1>3, <1>4, <1>12, <2>1
  <2>3. \A k \in 0 .. branches - 1 : \E b \in more : b.tier = 1 /\ b.from = k
    BY DEF Staired, Founded
  <2>4. branches \in 0 .. MaxBranches
    BY DEF Staired, Founded
  <2> QED
    BY <2>2, <2>3, <2>4 DEF Founded
<1>15. Stair(more, branches)
  BY <1>1, <1>4 DEF Staired, Stair
<1>16. \A b \in more : b.first \in Nat /\ b.last \in 0 .. hi - 1
  BY <1>9, <1>10, <1>11
<1>17. \A b, c \in more : b.tier = 1 /\ c.tier = 1 /\ b.from < c.from => b.last < c.first
  BY <1>1, <1>4 DEF Staired
<1>18. ASSUME NEW b \in more, NEW c \in more, c.tier = 1, b.from <= c.from, c.from < Ends(b)
       PROVE  b.first <= c.first /\ c.last <= b.last
  <2>1. c \in blocks
    BY <1>1, <1>4, <1>18
  <2>2. CASE b = new
    BY <1>4, <1>12, <1>13, <1>18, <2>1, <2>2
  <2>3. CASE b \in blocks
    BY <1>18, <2>1, <2>3 DEF Staired
  <2> QED
    BY <2>2, <2>3
<1> QED
  BY <1>14, <1>15, <1>16, <1>17, <1>18 DEF Staired
-----------------------------------------------------------------------------
\* A message that was summarised: it was in the context then, and is one of a branch.
Past(s, i) ==
    i \in s.seen /\ \E b \in s.blocks : b.tier = 1 /\ b.first <= i /\ i <= b.last

\* What is taken back to, and what there is now: n messages are logged.
Sound(s, n) ==
    /\ n \in Nat /\ s.first \in 1 .. n
    /\ s.told \subseteq 1 .. n - 1 /\ s.body \subseteq 1 .. n - 1
    /\ s.ahead \in 0 .. n - 1 /\ s.system \in 0 .. n - 1 /\ s.pinned.index \in 0 .. n - 1
    /\ Staired(s.blocks, s.branches, n)
    /\ \A i \in s.told : i \in s.body \/ i = s.ahead \/ Past(s, i)
    /\ s.ahead # 0 => Past(s, s.ahead)
    /\ \A i \in s.body : i >= s.first \/ Past(s, i)
    /\ s.pinned.fits => /\ s.pinned.index # 0
                        /\ (s.pinned.index = s.ahead) # (s.pinned.index \in s.body)

\* The branch under way begins behind the blocks.
Behind(bs, f) == \A b \in bs : b.tier = 1 => b.last < f

LEMMA StairedHigher ==
    ASSUME NEW bs, NEW k, NEW n \in Nat, NEW m \in Nat, n <= m, Staired(bs, k, n)
    PROVE  Staired(bs, k, m)
  BY DEF Staired

\* New messages are told, and one of them may be the new prompt.
LEMMA SoundTold ==
    ASSUME NEW s, NEW r, NEW n, NEW m \in Nat, Sound(s, n), n <= m, NEW X \in SUBSET (n .. m - 1),
           r.told = s.told \union X, r.body = s.body \union X,
           r.ahead = s.ahead, r.first = s.first, r.seen = s.seen,
           r.blocks = s.blocks, r.branches = s.branches, r.system \in 0 .. m - 1,
           r.pinned = s.pinned \/ r.pinned.index \in X
    PROVE  Sound(r, m)
<1>1. n \in Nat /\ \A i \in X : i \in 1 .. m - 1 /\ i >= n /\ i # s.ahead /\ i >= s.first
  <2>1. n \in Nat /\ s.first \in 1 .. n /\ s.ahead \in 0 .. n - 1
    BY DEF Sound
  <2> QED
    BY <2>1
<1>2. \A i : Past(r, i) <=> Past(s, i)
  BY DEF Past
<1>3. Staired(r.blocks, r.branches, m)
  BY <1>1, StairedHigher DEF Sound
<1>4. r.first \in 1 .. m /\ r.ahead \in 0 .. m - 1 /\ r.pinned.index \in 0 .. m - 1
  <2>1. s.first \in 1 .. n /\ s.ahead \in 0 .. n - 1 /\ s.pinned.index \in 0 .. n - 1
    BY DEF Sound
  <2>2. s.pinned.index \in 0 .. m - 1
    BY <1>1, <2>1
  <2> QED
    <3>1. r.first \in 1 .. m /\ r.ahead \in 0 .. m - 1
      BY <1>1, <2>1
    <3>2. CASE r.pinned = s.pinned
      BY <2>2, <3>1, <3>2
    <3>3. CASE r.pinned.index \in X
      <4>1. r.pinned.index \in 1 .. m - 1
        BY <1>1, <3>3
      <4> QED
        BY <3>1, <4>1
    <3> QED
      BY <3>2, <3>3
<1>5. r.told \subseteq 1 .. m - 1 /\ r.body \subseteq 1 .. m - 1
  <2>1. s.told \subseteq 1 .. n - 1 /\ s.body \subseteq 1 .. n - 1
    BY DEF Sound
  <2>2. 1 .. n - 1 \subseteq 1 .. m - 1
    BY <1>1
  <2>3. X \subseteq 1 .. m - 1
    BY <1>1
  <2> QED
    BY <2>1, <2>2, <2>3
<1>6. /\ \A i \in r.told : i \in r.body \/ i = r.ahead \/ Past(r, i)
      /\ r.ahead # 0 => Past(r, r.ahead)
      /\ \A i \in r.body : i >= r.first \/ Past(r, i)
  BY <1>1, <1>2 DEF Sound
<1>7. ASSUME r.pinned.fits
      PROVE  r.pinned.index # 0 /\ (r.pinned.index = r.ahead) # (r.pinned.index \in r.body)
  <2>1. CASE r.pinned.index \in X
    <3>1. r.pinned.index # s.ahead /\ r.pinned.index \in s.body \union X
      BY <1>1, <2>1
    <3>2. r.pinned.index # 0
      BY <1>1, <2>1
    <3> QED
      BY <3>1, <3>2
  <2>2. CASE r.pinned = s.pinned
    <3>1. s.pinned.index \in 0 .. n - 1 /\ s.pinned.index # 0
          /\ (s.pinned.index = s.ahead) # (s.pinned.index \in s.body)
      BY <1>7, <2>2 DEF Sound
    <3>2. s.pinned.index \notin X
      BY <1>1, <3>1
    <3> QED
      BY <2>2, <3>1, <3>2
  <2> QED
    BY <2>1, <2>2
<1> QED
  BY <1>3, <1>4, <1>5, <1>6, <1>7 DEF Sound

\* The window a compaction is about to install.
PlanIsWhole ==
    /\ plan.tail \subseteq 1 .. count - 1 /\ NextFirst \in 1 .. count + 1
    /\ \A i \in body : i \in plan.tail \/ Past(Snapshot, i)
    /\ \A i \in plan.tail : i >= NextFirst \/ Past(Snapshot, i)
    /\ plan.ahead \in 0 .. count - 1
    /\ plan.ahead # 0 => Past(Snapshot, plan.ahead)
    /\ pinned.fits => (pinned.index = plan.ahead) # (pinned.index \in plan.tail)
    /\ Behind(blocks, NextFirst)

WholeInv ==
    /\ Sound(Snapshot, count)
    /\ at # "rollup" => Behind(blocks, first)
    /\ at = "rollup" => PlanIsWhole
    /\ DueIsWhole
    /\ \E n \in Nat : /\ Sound(prior, n) /\ n <= count /\ steered \subseteq n .. count - 1
                      /\ Behind(prior.blocks, prior.first)

LEMMA SnapshotFields ==
    /\ Snapshot.system = system /\ Snapshot.ahead = ahead /\ Snapshot.compact = compact
    /\ Snapshot.body = body /\ Snapshot.first = first /\ Snapshot.pinned = pinned
    /\ Snapshot.told = told /\ Snapshot.seen = seen
    /\ Snapshot.blocks = blocks /\ Snapshot.branches = branches
  BY DEF Snapshot

LEMMA SnapshotNext ==
    ASSUME NEW r, r = Snapshot'
    PROVE  /\ r.system = system' /\ r.ahead = ahead' /\ r.compact = compact'
           /\ r.body = body' /\ r.first = first' /\ r.pinned = pinned'
           /\ r.told = told' /\ r.seen = seen'
           /\ r.blocks = blocks' /\ r.branches = branches'
  BY DEF Snapshot

\* A step that only tells the model more.
LEMMA WholeTold ==
    ASSUME WholeInv, NEW m \in Nat, count' = m, count <= m, NEW X \in SUBSET (count .. m - 1),
           told' = told \union X, body' = body \union X,
           UNCHANGED <<ahead, first, seen, blocks, branches, due>>,
           system' = system \/ system' \in count .. m - 1,
           pinned' = pinned \/ pinned'.index \in X,
           \/ UNCHANGED <<prior, steered>>
           \/ prior' = prior /\ steered' \subseteq steered \union X
           \/ prior' = Snapshot /\ steered' = {},
           at # "rollup", at' # "rollup"
    PROVE  WholeInv'
<1> PICK s : s = Snapshot
  OBVIOUS
<1> PICK r : r = Snapshot'
  OBVIOUS
<1> PICK c : c = count
  OBVIOUS
<1>1. /\ s.system = system /\ s.ahead = ahead /\ s.body = body /\ s.first = first
      /\ s.pinned = pinned /\ s.told = told /\ s.seen = seen
      /\ s.blocks = blocks /\ s.branches = branches
  BY SnapshotFields
<1>2. /\ r.system = system' /\ r.ahead = ahead' /\ r.body = body' /\ r.first = first'
      /\ r.pinned = pinned' /\ r.told = told' /\ r.seen = seen'
      /\ r.blocks = blocks' /\ r.branches = branches'
  BY SnapshotNext
<1>3. Sound(s, c) /\ c \in Nat /\ system \in 0 .. c - 1
  <2>1. Sound(s, c)
    BY DEF WholeInv
  <2> QED
    BY <1>1, <2>1 DEF Sound
<1>4. r.system \in 0 .. m - 1
  BY <1>2, <1>3
<1>5. Sound(r, m)
  <2>1. X \in SUBSET (c .. m - 1) /\ c <= m
    OBVIOUS
  <2>2. /\ r.told = s.told \union X /\ r.body = s.body \union X
        /\ r.ahead = s.ahead /\ r.first = s.first /\ r.seen = s.seen
        /\ r.blocks = s.blocks /\ r.branches = s.branches
        /\ (r.pinned = s.pinned \/ r.pinned.index \in X)
    BY <1>1, <1>2
  <2>3. m \in Nat /\ Sound(s, c)
    BY <1>3
  <2> QED
    BY <1>4, <2>1, <2>2, <2>3, SoundTold, SMTT(60)
<1>6. Sound(Snapshot, count)'
  BY <1>5
<1>7. Behind(blocks, first) /\ Behind(blocks', first')
  <2>1. Behind(blocks, first)
    BY DEF WholeInv
  <2> QED
    BY <2>1
<1>8. DueIsWhole'
  BY DEF WholeInv, DueIsWhole, Keys, Until, Children
<1>9. \E n \in Nat : /\ Sound(prior', n) /\ n <= m /\ steered' \subseteq n .. m - 1
                     /\ Behind(prior'.blocks, prior'.first)
  <2>1. CASE prior' = s /\ steered' = {}
    <3>1. Sound(prior', c) /\ Behind(prior'.blocks, prior'.first)
      BY <1>1, <1>3, <1>7, <2>1
    <3> QED
      BY <1>3, <2>1, <3>1
  <2>2. CASE prior' = prior /\ steered' \subseteq steered \union X
    <3>1. PICK n \in Nat : /\ Sound(prior, n) /\ n <= c /\ steered \subseteq n .. c - 1
                           /\ Behind(prior.blocks, prior.first)
      BY DEF WholeInv
    <3>2. n .. c - 1 \subseteq n .. m - 1 /\ X \subseteq n .. m - 1 /\ n <= m
      BY <1>3, <3>1
    <3> QED
      BY <2>2, <3>1, <3>2
  <2> QED
    BY <2>1, <2>2
<1> QED
  BY <1>6, <1>7, <1>8, <1>9 DEF WholeInv
LEMMA WholeQuiet ==
    ASSUME WholeInv, at # "rollup", at' # "rollup",
           UNCHANGED <<count, places, first, pinned, told, seen, blocks, branches, due>>,
           UNCHANGED <<prior, steered>> \/ (prior' = Snapshot /\ steered' = {})
    PROVE  WholeInv'
<1>1. count \in Nat
  BY DEF WholeInv, Sound
<1> PICK X : X = {}
  OBVIOUS
<1> PICK m : m = count
  OBVIOUS
<1>2. /\ X \in SUBSET (count .. m - 1) /\ told' = told \union X /\ body' = body \union X
      /\ m \in Nat /\ count' = m /\ count <= m
  BY <1>1 DEF places
<1>3. /\ UNCHANGED <<ahead, first, seen, blocks, branches, due>>
      /\ system' = system /\ pinned' = pinned
      /\ \/ UNCHANGED <<prior, steered>>
         \/ prior' = Snapshot /\ steered' = {}
  BY DEF places
<1> QED
  BY <1>1, <1>2, <1>3, WholeTold

LEMMA WholeTell ==
    ASSUME WholeInv, at # "rollup", at' # "rollup", NEW n \in {1, 2}, Tell(n),
           UNCHANGED <<ahead, first, seen, blocks, branches, due, prior>>,
           system' = system \/ (n = 2 /\ system' = count),
           pinned' = pinned \/ (n = 1 /\ pinned'.index = count),
           steered' = steered \/ (n = 1 /\ steered' = steered \union {count})
    PROVE  WholeInv'
<1>1. count \in Nat
  BY DEF WholeInv, Sound
<1> PICK i : i = count + n - 1
  OBVIOUS
<1> PICK m : m = count + n
  OBVIOUS
<1>2. /\ m \in Nat /\ count' = m /\ count <= m /\ {i} \in SUBSET (count .. m - 1)
      /\ told' = told \union {i} /\ body' = body \union {i}
      /\ count \in count .. m - 1 /\ (n = 1 => i = count)
  BY <1>1 DEF Tell
<1> DEFINE X == {i}
<1>3. /\ system' = system \/ system' \in count .. m - 1
      /\ pinned' = pinned \/ pinned'.index \in X
      /\ steered' \subseteq steered \union X
  BY <1>2
<1> QED
  BY <1>2, <1>3, WholeTold

LEMMA WholeLogPrompt ==
    ASSUME WholeInv, NEW pins \in BOOLEAN, NEW fits \in BOOLEAN, LogPrompt(pins, fits)
    PROVE  WholeInv'
<1>1. /\ at # "rollup" /\ at' # "rollup" /\ Tell(1)
      /\ UNCHANGED <<ahead, first, seen, blocks, branches, due, prior, system, steered>>
      /\ pinned' = pinned \/ pinned'.index = count
  BY DEF LogPrompt, stairVars
<1> QED
  BY <1>1, WholeTell

LEMMA WholeDeliver ==
    ASSUME WholeInv, NEW steering \in BOOLEAN, Deliver(steering)
    PROVE  WholeInv'
<1>1. /\ at # "rollup" /\ at' # "rollup" /\ Tell(1)
      /\ UNCHANGED <<ahead, first, seen, blocks, branches, due, prior, system, pinned>>
      /\ steered' = steered \/ steered' = steered \union {count}
  BY DEF Deliver, stairVars
<1> QED
  BY <1>1, WholeTell

LEMMA WholeRefine == ASSUME WholeInv, Refine PROVE WholeInv'
<1>1. /\ at # "rollup" /\ at' # "rollup" /\ Tell(2) /\ system' = count
      /\ UNCHANGED <<ahead, first, seen, blocks, branches, due, prior, pinned, steered>>
  BY DEF Refine, stairVars
<1> QED
  BY <1>1, WholeTell

LEMMA WholeReply ==
    ASSUME WholeInv, NEW next \in {"tool", "turn", "idle"}, Reply(next)
    PROVE  WholeInv'
<1>1. /\ at # "rollup" /\ at' # "rollup" /\ Tell(1)
      /\ UNCHANGED <<ahead, first, seen, blocks, branches, due, prior, system, pinned, steered>>
  BY DEF Reply, stairVars
<1> QED
  BY <1>1, WholeTell

LEMMA WholeResult ==
    ASSUME WholeInv, NEW truncated \in BOOLEAN, Result(truncated)
    PROVE  WholeInv'
<1> PICK n \in {1, 2} : n = IF truncated THEN 2 ELSE 1
  OBVIOUS
<1>1. /\ at # "rollup" /\ at' # "rollup" /\ Tell(n)
      /\ UNCHANGED <<ahead, first, seen, blocks, branches, due, prior, system, pinned, steered>>
  BY DEF Result, stairVars
<1> QED
  BY <1>1, WholeTell

LEMMA PastGrows ==
    ASSUME NEW s, NEW r, s.seen \subseteq r.seen, s.blocks \subseteq r.blocks
    PROVE  \A i : Past(s, i) => Past(r, i)
  BY DEF Past

\* The branch that a compaction closes takes in what its tail leaves.
LEMMA WholeCompact ==
    ASSUME HistoryInv, WholeInv, NEW choice \in Tails, NEW discarded \in BOOLEAN,
           Compact(choice, discarded)
    PROVE  WholeInv'
<1> PICK c : c = count
  OBVIOUS
<1> PICK n : n = count + IF discarded THEN 1 ELSE 0
  OBVIOUS
<1> PICK l : l = LastIndex(choice, n)
  OBVIOUS
<1> PICK tail : tail = choice.tail
  OBVIOUS
<1> PICK start : start = choice.start
  OBVIOUS
<1> PICK new : new = [tier |-> 1, from |-> branches, first |-> first, last |-> l]
  OBVIOUS
<1> PICK s : s = Snapshot
  OBVIOUS
<1> PICK r : r = Snapshot'
  OBVIOUS
<1>1. /\ at # "rollup" /\ at' = "rollup" /\ AddBranch(first, l) /\ count' = n
      /\ seen' = seen \union body
      /\ plan'.tail = tail /\ plan'.start = start /\ plan'.ahead = KeptPrompt(tail)
      /\ UNCHANGED <<places, first, pinned, told, steered, prior>>
  BY DEF Compact
<1>2. /\ branches < MaxBranches /\ blocks' = blocks \union {new} /\ branches' = branches + 1
      /\ due' = Unsealed'
  BY <1>1 DEF AddBranch
<1>3. /\ s.system = system /\ s.ahead = ahead /\ s.body = body /\ s.first = first
      /\ s.pinned = pinned /\ s.told = told /\ s.seen = seen
      /\ s.blocks = blocks /\ s.branches = branches
  BY SnapshotFields
<1>4. /\ r.system = system /\ r.ahead = ahead /\ r.body = body /\ r.first = first
      /\ r.pinned = pinned /\ r.told = told /\ r.seen = seen \union body
      /\ r.blocks = blocks \union {new} /\ r.branches = branches + 1
  BY <1>1, <1>2, SnapshotNext DEF places
<1>5. Sound(s, c) /\ Behind(blocks, first)
  BY <1>1 DEF WholeInv
<1>6. /\ c \in Nat /\ n \in Nat /\ c <= n /\ n <= c + 1 /\ first \in 1 .. c
      /\ body \subseteq 1 .. c - 1 /\ system \in 0 .. c - 1 /\ ahead \in 0 .. c - 1
      /\ pinned.index \in 0 .. c - 1
      /\ Staired(blocks, branches, c)
  BY <1>3, <1>5 DEF Sound
<1> PICK z : z = IF tail = {} THEN n + 1 ELSE start
  OBVIOUS
<1>7. /\ l \in 0 .. n - 1 /\ l < z /\ first <= z /\ z \in 1 .. n + 1 /\ tail \subseteq 1 .. c - 1
      /\ \A i \in body : i \in tail \/ i <= l
      /\ \A i \in tail : i >= z \/ (i \in body /\ i <= l)
  <2>1. CASE choice = [tail |-> {}, start |-> 0]
    <3>1. tail = {} /\ l = n - 1 /\ z = n + 1
      BY <2>1 DEF LastIndex
    <3>2. \A i \in body : i <= l
      BY <1>6, <3>1
    <3> QED
      BY <1>6, <3>1, <3>2
  <2>2. ASSUME NEW k \in body, k > first, choice = [tail |-> {i \in body : i >= k}, start |-> k]
        PROVE  /\ l = k - 1 /\ z = k /\ k \in 1 .. c - 1 /\ tail = {i \in body : i >= k}
    <3>1. k \in 1 .. c - 1 /\ k >= k
      BY <1>6
    <3>2. tail = {i \in body : i >= k} /\ start = k
      BY <2>2
    <3>3. k \in tail
      BY <3>1, <3>2
    <3>4. tail # {}
      BY <3>3
    <3> QED
      BY <3>1, <3>2, <3>4 DEF LastIndex
  <2>3. ASSUME NEW k \in body, k > first, choice = [tail |-> {i \in body : i >= k}, start |-> k]
        PROVE  <1>7!:
    <3>1. l = k - 1 /\ z = k /\ k \in 1 .. c - 1 /\ tail = {i \in body : i >= k}
      BY <2>2, <2>3
    <3>2. \A i \in body : i \in 1 .. c - 1
      BY <1>6
    <3>3. tail \subseteq 1 .. c - 1 /\ \A i \in tail : i >= z
      BY <3>1, <3>2
    <3>4. \A i \in body : i \in tail \/ i <= l
      BY <3>1, <3>2
    <3>5. l \in 0 .. n - 1 /\ l < z /\ first <= z /\ z \in 1 .. n + 1
      BY <1>6, <2>3, <3>1
    <3> QED
      BY <3>3, <3>4, <3>5
  <2>4. ASSUME compact = 0, system > first, \A i \in body : i > first,
               choice = [tail |-> body \union {system}, start |-> system]
        PROVE  <1>7!:
    <3>1. tail = body \union {system} /\ start = system /\ tail # {}
      BY <2>4
    <3>2. l = system - 1 /\ z = system /\ system \in 1 .. c - 1
      BY <1>6, <2>4, <3>1 DEF LastIndex
    <3>3. tail \subseteq 1 .. c - 1 /\ \A i \in body : i \in tail
      BY <1>6, <3>1, <3>2
    <3>4. \A i \in tail : i >= z \/ (i \in body /\ i <= l)
      <4> TAKE i \in tail
      <4>1. i \in 1 .. c - 1
        BY <3>3
      <4>2. CASE i = system
        BY <1>6, <3>2, <4>2
      <4>3. CASE i \in body
        BY <1>6, <3>2, <4>1, <4>3
      <4> QED
        BY <3>1, <4>2, <4>3
    <3>5. l \in 0 .. n - 1 /\ l < z /\ first <= z /\ z \in 1 .. n + 1
      BY <1>6, <2>4, <3>2
    <3> QED
      BY <3>3, <3>4, <3>5
  <2>5. \/ choice = [tail |-> {}, start |-> 0]
        \/ \E k \in body : k > first /\ choice = [tail |-> {i \in body : i >= k}, start |-> k]
        \/ /\ compact = 0 /\ system > first /\ \A i \in body : i > first
           /\ choice = [tail |-> body \union {system}, start |-> system]
    BY DEF Tails
  <2> QED
    BY <2>1, <2>3, <2>4, <2>5
<1>8. Staired(blocks', branches', n)
  <2>1. \A b \in blocks : b.tier = 1 => b.last < first
    BY <1>5 DEF Behind
  <2>2. first \in Nat
    BY <1>6
  <2>3. Staired(blocks \union {[tier |-> 1, from |-> branches, first |-> first, last |-> l]},
                branches + 1, n)
    BY <1>2, <1>6, <1>7, <2>1, <2>2, StairedAdd
  <2> QED
    BY <1>2, <2>3
<1>9. \A i : Past(s, i) => Past(r, i)
  <2>1. s.seen \subseteq r.seen /\ s.blocks \subseteq r.blocks
    BY <1>3, <1>4
  <2> QED
    BY <2>1, PastGrows
\* What the branch takes in.
<1>10. \A i \in body : i <= l => Past(r, i)
  <2> TAKE i \in body
  <2>1. CASE i >= first
    <3>1. new \in r.blocks /\ new.tier = 1 /\ new.first = first /\ new.last = l /\ i \in r.seen
      BY <1>4
    <3> QED
      BY <2>1, <3>1 DEF Past
  <2>2. CASE Past(s, i)
    BY <1>9, <2>2
  <2>3. i >= first \/ Past(s, i)
    BY <1>3, <1>5 DEF Sound
  <2> QED
    BY <2>1, <2>2, <2>3
<1>11. Sound(r, n)
  <2>1. n \in Nat /\ r.first \in 1 .. n
    BY <1>4, <1>6
  <2>2. r.told \subseteq 1 .. n - 1 /\ r.body \subseteq 1 .. n - 1
    <3>1. 1 .. c - 1 \subseteq 1 .. n - 1
      BY <1>6
    <3>2. s.told \subseteq 1 .. c - 1 /\ s.body \subseteq 1 .. c - 1
      BY <1>5 DEF Sound
    <3> QED
      BY <1>3, <1>4, <3>1, <3>2
  <2>3. r.ahead \in 0 .. n - 1 /\ r.system \in 0 .. n - 1 /\ r.pinned.index \in 0 .. n - 1
    <3>1. 0 .. c - 1 \subseteq 0 .. n - 1
      BY <1>6
    <3> QED
      BY <1>4, <1>6, <3>1
  <2>4. Staired(r.blocks, r.branches, n)
    BY <1>2, <1>4, <1>8
  <2>5. \A i \in r.told : i \in r.body \/ i = r.ahead \/ Past(r, i)
    BY <1>3, <1>4, <1>5, <1>9 DEF Sound
  <2>6. r.ahead # 0 => Past(r, r.ahead)
    BY <1>3, <1>4, <1>5, <1>9 DEF Sound
  <2>7. \A i \in r.body : i >= r.first \/ Past(r, i)
    BY <1>3, <1>4, <1>5, <1>9 DEF Sound
  <2>8. r.pinned.fits => /\ r.pinned.index # 0
                         /\ (r.pinned.index = r.ahead) # (r.pinned.index \in r.body)
    BY <1>3, <1>4, <1>5 DEF Sound
  <2> QED
    BY <2>1, <2>2, <2>3, <2>4, <2>5, <2>6, <2>7, <2>8 DEF Sound
<1>12. NextFirst' = z
  BY <1>1 DEF NextFirst
<1> PICK a : a = KeptPrompt(tail)
  OBVIOUS
<1>13. /\ a \in 0 .. c - 1
       /\ a # 0 => Past(r, a)
       /\ pinned.fits => (pinned.index = a) # (pinned.index \in tail)
  <2>1. pinned.fits => pinned.index # 0 /\ (pinned.index = ahead) # (pinned.index \in body)
    BY <1>3, <1>5 DEF Sound
  <2>2. ahead # 0 => Past(r, ahead)
    BY <1>4, <1>11 DEF Sound
  <2>3. CASE pinned.fits /\ pinned.index \notin tail
    <3>1. a = pinned.index /\ a # 0
      BY <2>1, <2>3 DEF KeptPrompt
    <3>2. CASE a = ahead
      BY <1>6, <2>2, <2>3, <3>1, <3>2
    <3>3. CASE a \in body
      BY <1>6, <1>7, <1>10, <2>3, <3>1, <3>3
    <3> QED
      BY <2>1, <2>3, <3>1, <3>2, <3>3
  <2>4. CASE ~(pinned.fits /\ pinned.index \notin tail)
    <3>1. a = 0
      BY <2>4 DEF KeptPrompt
    <3>2. 0 \in 0 .. c - 1
      BY <1>6
    <3>3. pinned.fits => pinned.index # 0 /\ pinned.index \in tail
      BY <2>1, <2>4
    <3> QED
      BY <3>1, <3>2, <3>3
  <2> QED
    BY <2>3, <2>4
<1>14. PlanIsWhole'
  <2>1. tail \subseteq 1 .. n - 1 /\ z \in 1 .. n + 1 /\ a \in 0 .. n - 1
    <3>1. 1 .. c - 1 \subseteq 1 .. n - 1 /\ 0 .. c - 1 \subseteq 0 .. n - 1
      BY <1>6
    <3> QED
      BY <1>7, <1>13, <3>1
  <2>2. \A i \in body : i \in tail \/ Past(r, i)
    BY <1>7, <1>10
  <2>3. \A i \in tail : i >= z \/ Past(r, i)
    BY <1>7, <1>10
  <2>4. Behind(blocks', z)
    <3>1. \A b \in blocks : b.tier = 1 => b.last \in Int /\ b.last < first
      BY <1>5, <1>6 DEF Behind, Staired
    <3>2. \A b \in blocks : b.tier = 1 => b.last < z
      BY <1>6, <1>7, <3>1
    <3>3. new.last < z
      BY <1>7
    <3> QED
      BY <1>2, <3>2, <3>3 DEF Behind
  <2>5. /\ plan'.tail = tail /\ plan'.ahead = a /\ body' = body /\ pinned' = pinned
        /\ count' = n
    BY <1>1 DEF places
  <2> QED
    BY <1>12, <1>13, <2>1, <2>2, <2>3, <2>4, <2>5 DEF PlanIsWhole
<1>15. DueIsWhole'
  <2>1. \A key \in Unsealed' : Until(key)' <= branches' /\ Children(key)' \subseteq Keys'
    BY DEF Unsealed
  <2> QED
    BY <1>2, <2>1 DEF DueIsWhole
<1>16. \E k \in Nat : /\ Sound(prior', k) /\ k <= n /\ steered' \subseteq k .. n - 1
                      /\ Behind(prior'.blocks, prior'.first)
  <2>1. PICK k \in Nat : /\ Sound(prior, k) /\ k <= c /\ steered \subseteq k .. c - 1
                         /\ Behind(prior.blocks, prior.first)
    BY DEF WholeInv
  <2>2. k .. c - 1 \subseteq k .. n - 1 /\ k <= n
    BY <1>6, <2>1
  <2> QED
    BY <1>1, <2>1, <2>2
<1>17. Sound(Snapshot, count)' /\ at' = "rollup"
  BY <1>1, <1>11
<1> QED
  BY <1>1, <1>14, <1>15, <1>16, <1>17 DEF WholeInv
LEMMA DueStaysWhole ==
    ASSUME DueIsWhole, Advance, blocks \subseteq blocks', branches' = branches
    PROVE  DueIsWhole'
<1>1. \A key : Until(key)' = Until(key) /\ Children(key)' = Children(key)
  BY DEF Until, Children
<1>2. Keys \subseteq Keys'
  BY DEF Keys
<1>3. ASSUME NEW key \in due' PROVE Until(key) <= branches /\ Children(key) \subseteq Keys'
  <2>1. CASE key \in due
    BY <1>2, <2>1 DEF DueIsWhole
  <2>2. CASE key \in Unsealed'
    BY <1>1, <2>2 DEF Unsealed
  <2>3. key \in due \/ key \in Unsealed'
    BY DEF Advance
  <2> QED
    BY <2>1, <2>2, <2>3
<1> QED
  BY <1>1, <1>3 DEF DueIsWhole

LEMMA WholeRollup == ASSUME HistoryInv, WholeInv, Rollup PROVE WholeInv'
<1> PICK c : c = count
  OBVIOUS
<1> PICK s : s = Snapshot
  OBVIOUS
<1> PICK r : r = Snapshot'
  OBVIOUS
<1>1. /\ at = "rollup" /\ at' = "rollup"
      /\ UNCHANGED <<count, places, first, pinned, told, seen, steered, prior, plan>>
      /\ RollupSealed \/ RollupEmpty \/ RollupSkipped
  BY DEF Rollup, kept
<1>2. /\ s.system = system /\ s.ahead = ahead /\ s.body = body /\ s.first = first
      /\ s.pinned = pinned /\ s.told = told /\ s.seen = seen
      /\ s.blocks = blocks /\ s.branches = branches
  BY SnapshotFields
<1>3. /\ r.system = system /\ r.ahead = ahead /\ r.body = body /\ r.first = first
      /\ r.pinned = pinned /\ r.told = told /\ r.seen = seen
      /\ r.blocks = blocks' /\ r.branches = branches'
  BY <1>1, SnapshotNext DEF places
<1>4. Sound(s, c) /\ c \in Nat /\ Staired(blocks, branches, c) /\ PlanIsWhole
  BY <1>1, <1>2 DEF WholeInv, Sound
<1>5. /\ branches' = branches
      /\ blocks' = blocks \/ \E b : b.tier # 1 /\ blocks' = blocks \union {b}
      /\ Staired(blocks', branches', c) /\ DueIsWhole'
  <2>1. CASE RollupSealed
    <3>1. /\ blocks' = blocks \union {Merged(Soonest(due))} /\ branches' = branches /\ Advance
          /\ due # {}
      BY <2>1 DEF RollupSealed, Settled
    <3>2. Soonest(due) \in due
      BY <3>1, DueGoesOn DEF HistoryInv, Stair
    <3> PICK b : b = Merged(Soonest(due))
      OBVIOUS
    <3>3. b.tier # 1
      BY <3>2, MergedIsNew DEF HistoryInv
    <3>4. Staired(blocks \union {b}, branches, c)
      BY <1>4, <3>2, StairedSeal DEF HistoryInv, WholeInv
    <3>5. DueIsWhole'
      BY <3>1, DueStaysWhole DEF WholeInv
    <3> QED
      BY <3>1, <3>3, <3>4, <3>5
  <2>2. CASE RollupEmpty
    <3>1. UNCHANGED <<blocks, branches, due>>
      BY <2>2 DEF RollupEmpty
    <3>2. DueIsWhole'
      BY <3>1 DEF WholeInv, DueIsWhole, Keys, Until, Children
    <3> QED
      BY <1>4, <3>1, <3>2
  <2>3. CASE RollupSkipped
    <3>1. UNCHANGED <<blocks, branches>> /\ Advance
      BY <2>3 DEF RollupSkipped
    <3>2. DueIsWhole'
      BY <3>1, DueStaysWhole DEF WholeInv
    <3> QED
      BY <1>4, <3>1, <3>2
  <2> QED
    BY <1>1, <2>1, <2>2, <2>3
<1>6. \A i : Past(s, i) => Past(r, i)
  <2>1. s.seen \subseteq r.seen /\ s.blocks \subseteq r.blocks
    BY <1>2, <1>3, <1>5
  <2> QED
    BY <2>1, PastGrows
<1>7. Sound(r, c)
  <2>1. /\ r.first = s.first /\ r.told = s.told /\ r.body = s.body /\ r.ahead = s.ahead
        /\ r.system = s.system /\ r.pinned = s.pinned
    BY <1>2, <1>3
  <2>2. Staired(r.blocks, r.branches, c)
    BY <1>3, <1>5
  <2> QED
    BY <1>4, <1>6, <2>1, <2>2 DEF Sound
<1>8. NextFirst' = NextFirst
  BY <1>1 DEF NextFirst
<1>9. PlanIsWhole'
  <2>1. /\ \A i \in body : i \in plan.tail \/ Past(r, i)
        /\ \A i \in plan.tail : i >= NextFirst \/ Past(r, i)
        /\ plan.ahead # 0 => Past(r, plan.ahead)
    BY <1>4, <1>6 DEF PlanIsWhole
  <2>2. Behind(blocks', NextFirst)
    BY <1>4, <1>5 DEF PlanIsWhole, Behind
  <2>3. UNCHANGED <<count, body, pinned, plan>>
    BY <1>1 DEF places
  <2> QED
    BY <1>4, <1>8, <2>1, <2>2, <2>3 DEF PlanIsWhole
<1>10. Sound(Snapshot, count)'
  BY <1>1, <1>7
<1>11. \E n \in Nat : /\ Sound(prior', n) /\ n <= count' /\ steered' \subseteq n .. count' - 1
                      /\ Behind(prior'.blocks, prior'.first)
  BY <1>1 DEF WholeInv
<1> QED
  BY <1>1, <1>5, <1>9, <1>10, <1>11 DEF WholeInv

\* The new window: the kept prompt, the compaction message and the tail.
LEMMA WholeInstall == ASSUME HistoryInv, WholeInv, Install PROVE WholeInv'
<1> PICK c : c = count
  OBVIOUS
<1> PICK s : s = Snapshot
  OBVIOUS
<1> PICK r : r = Snapshot'
  OBVIOUS
<1> PICK z : z = NextFirst
  OBVIOUS
<1>1. /\ at = "rollup" /\ at' # "rollup" /\ count' = c + 1
      /\ ahead' = plan.ahead /\ body' = plan.tail /\ first' = z
      /\ UNCHANGED <<blocks, branches, due, system, pinned, told, seen, steered, prior>>
  BY DEF Install, stairVars, HistoryInv
<1>2. /\ s.system = system /\ s.ahead = ahead /\ s.body = body /\ s.first = first
      /\ s.pinned = pinned /\ s.told = told /\ s.seen = seen
      /\ s.blocks = blocks /\ s.branches = branches
  BY SnapshotFields
<1>3. /\ r.system = system /\ r.ahead = plan.ahead /\ r.body = plan.tail /\ r.first = z
      /\ r.pinned = pinned /\ r.told = told /\ r.seen = seen
      /\ r.blocks = blocks /\ r.branches = branches
  BY <1>1, SnapshotNext
<1>4. Sound(s, c) /\ c \in Nat /\ c + 1 \in Nat /\ PlanIsWhole
  BY <1>1 DEF WholeInv, Sound
<1>5. \A i : Past(s, i) <=> Past(r, i)
  BY <1>2, <1>3 DEF Past
<1>6. 1 .. c - 1 \subseteq 1 .. (c + 1) - 1 /\ 0 .. c - 1 \subseteq 0 .. (c + 1) - 1
  BY <1>4
<1>7. Sound(r, c + 1)
  <2>1. r.first \in 1 .. c + 1 /\ r.told \subseteq 1 .. (c + 1) - 1
        /\ r.body \subseteq 1 .. (c + 1) - 1
    BY <1>2, <1>3, <1>4, <1>6 DEF Sound, PlanIsWhole
  <2>2. r.ahead \in 0 .. (c + 1) - 1 /\ r.system \in 0 .. (c + 1) - 1
        /\ r.pinned.index \in 0 .. (c + 1) - 1
    BY <1>2, <1>3, <1>4, <1>6 DEF Sound, PlanIsWhole
  <2>3. Staired(r.blocks, r.branches, c + 1)
    <3>1. Staired(blocks, branches, c)
      BY <1>2, <1>4 DEF Sound
    <3>2. c <= c + 1
      BY <1>4
    <3> QED
      BY <1>3, <1>4, <3>1, <3>2, StairedHigher
  <2>4. \A i \in r.told : i \in r.body \/ i = r.ahead \/ Past(r, i)
    <3> TAKE i \in r.told
    <3>1. i \in body \/ i = ahead \/ Past(s, i)
      BY <1>2, <1>3, <1>4 DEF Sound
    <3>2. CASE i \in body
      BY <1>3, <1>4, <1>5, <3>2 DEF PlanIsWhole
    <3>3. CASE i = ahead
      <4>1. i # 0
        BY <1>2, <1>3, <1>4 DEF Sound
      <4> QED
        BY <1>2, <1>4, <1>5, <3>3, <4>1 DEF Sound
    <3> QED
      BY <1>5, <3>1, <3>2, <3>3
  <2>5. r.ahead # 0 => Past(r, r.ahead)
    BY <1>3, <1>4, <1>5 DEF PlanIsWhole
  <2>6. \A i \in r.body : i >= r.first \/ Past(r, i)
    BY <1>3, <1>4, <1>5 DEF PlanIsWhole
  <2>7. r.pinned.fits => /\ r.pinned.index # 0
                         /\ (r.pinned.index = r.ahead) # (r.pinned.index \in r.body)
    BY <1>2, <1>3, <1>4 DEF Sound, PlanIsWhole
  <2> QED
    BY <1>4, <2>1, <2>2, <2>3, <2>4, <2>5, <2>6, <2>7 DEF Sound
<1>8. Sound(Snapshot, count)'
  BY <1>1, <1>7
<1>9. Behind(blocks', first')
  BY <1>1, <1>4 DEF PlanIsWhole
<1>10. DueIsWhole'
  BY <1>1 DEF WholeInv, DueIsWhole, Keys, Until, Children
<1>11. \E n \in Nat : /\ Sound(prior', n) /\ n <= c + 1 /\ steered' \subseteq n .. (c + 1) - 1
                      /\ Behind(prior'.blocks, prior'.first)
  <2>1. PICK n \in Nat : /\ Sound(prior, n) /\ n <= c /\ steered \subseteq n .. c - 1
                         /\ Behind(prior.blocks, prior.first)
    BY DEF WholeInv
  <2>2. n .. c - 1 \subseteq n .. (c + 1) - 1 /\ n <= c + 1
    BY <1>4, <2>1
  <2> QED
    BY <1>1, <2>1, <2>2
<1> QED
  BY <1>1, <1>8, <1>9, <1>10, <1>11 DEF WholeInv

\* A rollback keeps the steering messages, which are later than what it puts back.
LEMMA WholePutBack ==
    ASSUME WholeInv, NEW writes \in BOOLEAN, PutBack(writes)
    PROVE  WholeInv'
<1> PICK c : c = count
  OBVIOUS
<1> PICK r : r = Snapshot'
  OBVIOUS
<1>1. /\ at' = "idle" /\ count' = c
      /\ system' = prior.system /\ ahead' = prior.ahead
      /\ body' = prior.body \union steered /\ first' = prior.first /\ pinned' = prior.pinned
      /\ told' = prior.told \union steered /\ seen' = prior.seen
      /\ blocks' = prior.blocks /\ branches' = prior.branches /\ due' = {}
      /\ UNCHANGED <<steered, prior>>
  BY DEF PutBack, Restore
<1>2. PICK n \in Nat : /\ Sound(prior, n) /\ n <= c /\ steered \subseteq n .. c - 1
                       /\ Behind(prior.blocks, prior.first)
  BY DEF WholeInv
<1>3. c \in Nat
  BY DEF WholeInv, Sound
<1>4. /\ r.told = prior.told \union steered /\ r.body = prior.body \union steered
      /\ r.ahead = prior.ahead /\ r.first = prior.first /\ r.seen = prior.seen
      /\ r.blocks = prior.blocks /\ r.branches = prior.branches /\ r.system = prior.system
      /\ r.pinned = prior.pinned
  BY <1>1, SnapshotNext
<1> PICK s : s = prior
  OBVIOUS
<1> PICK X : X = steered
  OBVIOUS
<1>5. Sound(r, c)
  <2>1. Sound(s, n) /\ X \in SUBSET (n .. c - 1)
    BY <1>2
  <2>2. s.system \in 0 .. n - 1
    BY <2>1 DEF Sound
  <2>3. r.system \in 0 .. c - 1
    BY <1>2, <1>3, <1>4, <2>2
  <2> QED
    BY <1>2, <1>3, <1>4, <2>1, <2>3, SoundTold
<1>6. Sound(Snapshot, count)'
  BY <1>1, <1>5
<1>7. Behind(blocks', first') /\ DueIsWhole'
  BY <1>1, <1>2 DEF DueIsWhole
<1> QED
  BY <1>1, <1>2, <1>6, <1>7 DEF WholeInv

LEMMA WholeStutter == ASSUME WholeInv, UNCHANGED contextVars PROVE WholeInv'
<1>1. /\ UNCHANGED <<count, body, ahead, pinned, plan, at, blocks, branches, due, first,
                     steered, prior>>
      /\ Snapshot' = Snapshot
  BY DEF contextVars, kept, places, stairVars, Snapshot
<1>2. NextFirst' = NextFirst
  BY <1>1 DEF NextFirst
<1>3. PlanIsWhole => PlanIsWhole'
  BY <1>1, <1>2 DEF PlanIsWhole
<1>4. DueIsWhole'
  BY <1>1 DEF WholeInv, DueIsWhole, Keys, Until, Children
<1> QED
  BY <1>1, <1>3, <1>4 DEF WholeInv

LEMMA WholeInit == ASSUME InitContext PROVE WholeInv
<1> PICK s : s = Snapshot
  OBVIOUS
<1>1. /\ count = 1 /\ s.system = 0 /\ s.ahead = 0 /\ s.body = {} /\ s.first = 1
      /\ s.pinned.index = 0 /\ s.pinned.fits = FALSE /\ s.told = {} /\ s.blocks = {}
      /\ s.branches = 0 /\ prior = s /\ at = "idle" /\ steered = {} /\ due = {}
      /\ first = 1 /\ blocks = {}
  BY SnapshotFields DEF InitContext, StairInit
<1>2. Staired({}, 0, 1)
  BY StaircaseConstants DEF Staired, Founded, Stair
<1>3. Sound(s, 1)
  BY <1>1, <1>2 DEF Sound
<1>4. Behind(blocks, first) /\ DueIsWhole /\ Behind(s.blocks, s.first)
  BY <1>1 DEF Behind, DueIsWhole
<1>5. Sound(Snapshot, count)
  BY <1>1, <1>3
<1>6. /\ Sound(prior, 1) /\ 1 \in Nat /\ 1 <= count /\ steered \subseteq 1 .. count - 1
      /\ Behind(prior.blocks, prior.first)
  BY <1>1, <1>3, <1>4
<1> QED
  BY <1>1, <1>4, <1>5, <1>6 DEF WholeInv

LEMMA WholeStep ==
    ASSUME HistoryInv, WholeInv, [NextContext]_contextVars
    PROVE  WholeInv'
<1>1. CASE Enter
  <2>1. /\ at # "rollup" /\ at' # "rollup" /\ prior' = Snapshot /\ steered' = {}
        /\ UNCHANGED <<count, places, first, pinned, told, seen, blocks, branches, due>>
    BY <1>1 DEF Enter, kept, stairVars
  <2> QED
    BY <2>1, WholeQuiet
<1>2. ASSUME NEW pins \in BOOLEAN, NEW fits \in BOOLEAN, LogPrompt(pins, fits) PROVE WholeInv'
  BY <1>2, WholeLogPrompt
<1>3. CASE Refine
  BY <1>3, WholeRefine
<1>4. ASSUME NEW steering \in BOOLEAN, Deliver(steering) PROVE WholeInv'
  BY <1>4, WholeDeliver
<1>5. ASSUME NEW next \in {"tool", "turn", "idle"}, Reply(next) PROVE WholeInv'
  BY <1>5, WholeReply
<1>6. ASSUME NEW truncated \in BOOLEAN, Result(truncated) PROVE WholeInv'
  BY <1>6, WholeResult
<1>7. CASE NextTurn \/ Finish
  <2>1. /\ at # "rollup" /\ at' # "rollup" /\ UNCHANGED <<prior, steered>>
        /\ UNCHANGED <<count, places, first, pinned, told, seen, blocks, branches, due>>
    BY <1>7 DEF NextTurn, Finish, kept, stairVars
  <2> QED
    BY <2>1, WholeQuiet
<1>8. ASSUME NEW choice \in Tails, NEW discarded \in BOOLEAN, Compact(choice, discarded)
      PROVE  WholeInv'
  BY <1>8, WholeCompact
<1>9. CASE Rollup
  BY <1>9, WholeRollup
<1>10. CASE Install
  BY <1>10, WholeInstall
<1>11. ASSUME NEW writes \in BOOLEAN, PutBack(writes) PROVE WholeInv'
  BY <1>11, WholePutBack
<1>12. CASE UNCHANGED contextVars
  BY <1>12, WholeStutter
<1> QED
  BY <1>1, <1>2, <1>3, <1>4, <1>5, <1>6, <1>7, <1>8, <1>9, <1>10, <1>11, <1>12 DEF NextContext

LEMMA WholeImplies == WholeInv => BlocksAreWhole
<1> SUFFICES ASSUME WholeInv PROVE BlocksAreWhole
  OBVIOUS
<1> PICK s : s = Snapshot
  OBVIOUS
<1>1. /\ s.ahead = ahead /\ s.body = body /\ s.first = first
      /\ s.pinned = pinned /\ s.told = told /\ s.seen = seen
      /\ s.blocks = blocks /\ s.branches = branches
  BY SnapshotFields
<1>2. Sound(s, count) /\ Staired(blocks, branches, count) /\ branches \in Nat
  <2>1. Sound(s, count)
    BY DEF WholeInv
  <2> QED
    BY <1>1, <2>1 DEF Sound, Staired, Stair
<1>3. /\ Tile(Segments, branches) /\ \A i \in DOMAIN Segments : Segments[i] \in blocks
      /\ \A k \in 0 .. branches - 1 : \E i \in DOMAIN Segments :
            Segments[i].from <= k /\ k < Ends(Segments[i])
  BY <1>2, ShownIsWhole DEF Staired, Segments
<1>4. NothingForgotten
  <2>1. ASSUME NEW i \in told, Past(s, i) PROVE i \in seen /\ i \in Covered(Segments)
    <3>1. PICK b \in blocks : b.tier = 1 /\ b.first <= i /\ i <= b.last
      BY <1>1, <2>1 DEF Past
    <3>2. b.from \in 0 .. branches - 1
      BY <1>2, <3>1 DEF Staired, Stair
    <3>3. PICK j \in DOMAIN Segments : Segments[j].from <= b.from /\ b.from < Ends(Segments[j])
      BY <1>3, <3>2
    <3>4. Segments[j].first <= b.first /\ b.last <= Segments[j].last
      BY <1>2, <1>3, <3>1, <3>3 DEF Staired
    <3>5. /\ Segments[j].first \in Nat /\ Segments[j].last \in Nat
          /\ b.first \in Nat /\ b.last \in Nat
      BY <1>2, <1>3, <3>1 DEF Staired
    <3>6. i \in Int
      BY <1>1, <1>2 DEF Sound
    <3>7. i \in Segments[j].first .. Segments[j].last
      BY <3>1, <3>4, <3>5, <3>6
    <3> QED
      BY <1>1, <2>1, <3>7 DEF Covered, Past
  <2>2. \A i \in told : i \in body \/ i = ahead \/ Past(s, i)
    BY <1>1, <1>2 DEF Sound
  <2> QED
    BY <2>1, <2>2 DEF NothingForgotten
<1>5. BranchesApart
  <2>1. ASSUME NEW k \in 0 .. branches - 1
        PROVE  /\ BlockAt(<<1, k>>) \in blocks /\ BlockAt(<<1, k>>).tier = 1
               /\ BlockAt(<<1, k>>).from = k
    <3>1. PICK b \in blocks : b.tier = 1 /\ b.from = k
      BY <1>2 DEF Staired, Founded
    <3>2. <<b.tier, b.from>> = <<1, k>>
      BY <3>1
    <3>3. /\ BlockAt(<<1, k>>) \in blocks
          /\ <<BlockAt(<<1, k>>).tier, BlockAt(<<1, k>>).from>> = <<1, k>>
      BY <3>2 DEF BlockAt
    <3> QED
      BY <3>3
  <2>2. ASSUME NEW k \in 1 .. branches - 1
        PROVE  BlockAt(<<1, k - 1>>).last < BlockAt(<<1, k>>).first
    <3>1. k \in 0 .. branches - 1 /\ k - 1 \in 0 .. branches - 1 /\ k - 1 < k
      BY <1>2
    <3> PICK b : b = BlockAt(<<1, k - 1>>)
      OBVIOUS
    <3> PICK d : d = BlockAt(<<1, k>>)
      OBVIOUS
    <3>2. b \in blocks /\ b.tier = 1 /\ b.from = k - 1
      BY <2>1, <3>1
    <3>3. d \in blocks /\ d.tier = 1 /\ d.from = k
      BY <2>1, <3>1
    <3> QED
      BY <1>2, <3>1, <3>2, <3>3 DEF Staired
  <2>3. ASSUME at # "rollup", branches > 0
        PROVE  BlockAt(<<1, branches - 1>>).last < first
    <3>1. branches - 1 \in 0 .. branches - 1
      BY <1>2, <2>3
    <3>2. BlockAt(<<1, branches - 1>>) \in blocks /\ BlockAt(<<1, branches - 1>>).tier = 1
      BY <2>1, <3>1
    <3> QED
      BY <2>3, <3>2 DEF WholeInv, Behind
  <2> QED
    BY <2>2, <2>3 DEF BranchesApart
<1>6. PinnedOnce
  BY <1>1, <1>2 DEF Sound, PinnedOnce
<1> QED
  BY <1>3, <1>4, <1>5, <1>6 DEF BlocksAreWhole, Tiled

\* docs/context.md, "nothing in the session is unrepresented": what a session shows of its
\* past is whole, for any fanout, any number of messages, branches and prompts.
THEOREM NothingIsForgotten == ContextSpec => []BlocksAreWhole
<1>1. HistoryInv /\ WholeInv /\ [NextContext]_contextVars => HistoryInv' /\ WholeInv'
  BY HistoryStep, WholeStep
<1>2. InitContext => HistoryInv /\ WholeInv
  BY HistoryInit, WholeInit
<1> QED
  BY <1>1, <1>2, WholeImplies, PTL DEF ContextSpec
=============================================================================
