---------------------------- MODULE KernelProofs ----------------------------
(***************************************************************************)
(* That the calls of a kernel are apart and that every loss of its state   *)
(* is told, for any number of cells, cancellations, crashes and failures.  *)
(*                                                                         *)
(* As long as no control call took too long, the one under way is the head *)
(* of the queue; between cells the queue ends with the call that takes an  *)
(* interrupt back, and a flag that is set has that call still before it    *)
(* (ControlInv). A cell that was not cancelled waited for the queue to be  *)
(* empty, so no interrupt is left that could hit it.                       *)
(***************************************************************************)
EXTENDS Kernel, SequenceTheorems, TLAPS

Calls == {"none", "control", "history", "tool", "ok", "error"}
Kinds == {"interrupt", "finish"}
ReplStages == {"free", "asked", "begin", "scope", "install", "submit", "run", "interrupt",
               "recover", "reply"}
Counters == {"cells", "cancels", "crashes", "errors", "timeouts", "controls"}

TypeInv ==
    /\ at \in {"between", "calling", "settling"} /\ call \in Calls /\ repl \in ReplStages
    /\ cut \in BOOLEAN /\ flag \in BOOLEAN /\ late \in BOOLEAN
    /\ strayed \in BOOLEAN /\ torn \in BOOLEAN
    /\ ahead \in Nat /\ sent \in Nat /\ gen \in Nat
    /\ ledger \in Nat /\ synced \in Nat /\ copy \in Nat
    /\ control \in Seq(Kinds)
    /\ wire \subseteq [id : Nat, kind : Kinds, step : {"new", "flagged"}]
    /\ count \in [Counters -> Nat]

\* Where the engine is goes with where its call is, and that with where the REPL is.
CallInv ==
    /\ at = "between" <=> call = "none"
    /\ at = "calling" => ~cut
    /\ at = "settling" => cut
    /\ call = "tool" <=> repl # "free"

\* The copy holds what was sent, and during a cell all of the ledger.
CopyInv ==
    /\ ~torn
    /\ synced <= copy /\ synced <= ledger
    /\ repl \notin {"free", "asked"} => copy = ledger

\* A restart is told, or its notice waits; a result has taken the notices along.
NoticeInv ==
    /\ 1 .. gen \subseteq told \union carried \union notices
    /\ call = "ok" => notices = {}

UnderWay ==
    /\ sent = 0 => wire = {}
    /\ sent # 0 => control # <<>>
    /\ \A r \in wire : r.id = sent /\ r.kind = Head(control)
    /\ \A r \in wire : r.step = "flagged" => r.kind = "interrupt"

\* Between cells every interrupt is taken back by a call that is still to come.
TakenBack ==
    /\ control # <<>> => control[Len(control)] = "finish"
    /\ flag => control # <<>> /\ (Len(control) = 1 /\ sent # 0 => wire # {})

ControlInv ==
    /\ UnderWay
    /\ at # "settling" => TakenBack
    /\ at = "calling" => ahead = Len(control)
    /\ at = "calling" /\ call # "control" => control = <<>>

CalmInv == ~late => ControlInv /\ ~strayed

IInv == TypeInv /\ CallInv /\ CopyInv /\ NoticeInv /\ CalmInv

-----------------------------------------------------------------------------
LEMMA Starts == Init => IInv
<1> SUFFICES ASSUME Init PROVE IInv
  OBVIOUS
<1>1. TypeInv
  <2>1. <<>> \in Seq(Kinds)
    BY EmptySeq
  <2>2. count \in [Counters -> Nat]
    BY DEF Init, Counters
  <2> QED
    BY <2>1, <2>2 DEF Init, TypeInv, Calls, ReplStages
<1>2. CallInv /\ CopyInv /\ CalmInv
  BY DEF Init, CallInv, CopyInv, CalmInv, ControlInv, UnderWay, TakenBack
<1>3. NoticeInv
  BY DEF Init, NoticeInv
<1> QED
  BY <1>1, <1>2, <1>3 DEF IInv

\* Nothing is left that could interrupt the cell of a call that was not cancelled.
LEMMA NothingHits ==
    ASSUME IInv, ~late, call = "tool", ~cut
    PROVE  control = <<>> /\ ~flag /\ wire = {} /\ sent = 0
<1>1. at = "calling"
  BY DEF IInv, TypeInv, CallInv
<1>2. control = <<>>
  BY <1>1 DEF IInv, CalmInv, ControlInv
<1>3. wire = {} /\ sent = 0
  BY <1>2 DEF IInv, CalmInv, ControlInv, UnderWay
<1>4. ~flag
  BY <1>1, <1>2 DEF IInv, CalmInv, ControlInv, TakenBack
<1> QED
  BY <1>2, <1>3, <1>4

\* What becomes of the queue and its last call.
LEMMA Appended ==
    ASSUME NEW s \in Seq(Kinds), NEW k \in Kinds
    PROVE  /\ Append(s, k) \in Seq(Kinds) /\ Append(s, k) # <<>>
           /\ Len(Append(s, k)) = Len(s) + 1 /\ Append(s, k)[Len(s) + 1] = k
           /\ s # <<>> => Head(Append(s, k)) = Head(s)
           /\ Len(s) \in Nat /\ (Len(s) = 0 <=> s = <<>>)
  BY AppendProperties, LenProperties, EmptySeq

LEMMA Shortened ==
    ASSUME NEW s \in Seq(Kinds), s # <<>>
    PROVE  /\ Tail(s) \in Seq(Kinds) /\ Len(Tail(s)) = Len(s) - 1 /\ Len(s) \in Nat /\ Len(s) > 0
           /\ Tail(s) = <<>> <=> Len(s) = 1
           /\ Tail(s) # <<>> => Tail(s)[Len(s) - 1] = s[Len(s)]
           /\ Head(s) = s[1] /\ Head(s) \in Kinds
<1>1. Len(s) \in Nat /\ Len(s) # 0 /\ Head(s) = s[1] /\ DOMAIN s = 1 .. Len(s)
  BY LenProperties, EmptySeq, HeadTailProperties
<1>2. Tail(s) \in Seq(Kinds) /\ Len(Tail(s)) = Len(s) - 1
      /\ \A i \in 1 .. Len(Tail(s)) : Tail(s)[i] = s[i + 1]
  BY HeadTailProperties
<1>3. Tail(s) = <<>> <=> Len(Tail(s)) = 0
  BY <1>2, EmptySeq
<1>4. s[1] \in Kinds
  BY <1>1, ElementOfSeq
<1> QED
  BY <1>1, <1>2, <1>3, <1>4

-----------------------------------------------------------------------------
(* The engine.                                                             *)

LEMMA StartStep ==
    ASSUME IInv, Start
    PROVE  IInv'
<1> USE DEF Start, engineVars, clientVars, controlVars, replVars, kernelVars
<1>1. PICK n \in 1 .. 2 : ledger' = ledger + n
  OBVIOUS
<1>2. Len(control) \in Nat
  BY LenProperties DEF IInv, TypeInv
<1>3. count' \in [Counters -> Nat]
  BY DEF IInv, TypeInv, Counters, Counted
<1>4. TypeInv'
  <2>1. ledger' \in Nat
    BY <1>1 DEF IInv, TypeInv
  <2> QED
    BY <2>1, <1>2, <1>3 DEF IInv, TypeInv, Calls
<1>5. CallInv' /\ CopyInv' /\ NoticeInv'
  BY DEF IInv, TypeInv, CallInv, CopyInv, NoticeInv
<1>6. CalmInv'
  BY <1>2 DEF IInv, TypeInv, CallInv, CalmInv, ControlInv, UnderWay, TakenBack
<1> QED
  BY <1>4, <1>5, <1>6 DEF IInv

LEMMA CancelStep ==
    ASSUME IInv, Cancel
    PROVE  IInv'
<1> USE DEF Cancel, Control, clientVars, replVars, kernelVars
<1>1. count' \in [Counters -> Nat]
  BY DEF IInv, TypeInv, Counters, Counted
<1>2. TypeInv'
  BY <1>1, Appended DEF IInv, TypeInv, Kinds
<1>3. CallInv' /\ CopyInv' /\ NoticeInv'
  BY DEF IInv, TypeInv, CallInv, CopyInv, NoticeInv
<1>4. CalmInv'
  <2> SUFFICES ASSUME ~late PROVE ControlInv' /\ ~strayed'
    BY DEF CalmInv
  <2>1. /\ control \in Seq(Kinds) /\ "interrupt" \in Kinds
        /\ control' # <<>> /\ (control # <<>> => Head(control') = Head(control))
    BY Appended DEF IInv, TypeInv, Kinds
  <2>2. UnderWay'
    BY <2>1 DEF IInv, CalmInv, ControlInv, UnderWay
  <2> QED
    BY <2>2 DEF IInv, CalmInv, ControlInv
<1> QED
  BY <1>2, <1>3, <1>4 DEF IInv

LEMMA ResultStep ==
    ASSUME IInv, Result
    PROVE  IInv'
<1> USE DEF Result, controlVars, replVars, kernelVars
<1>1. TypeInv' /\ CallInv' /\ CopyInv' /\ NoticeInv'
  BY DEF IInv, TypeInv, Calls, CallInv, CopyInv, NoticeInv
<1>2. CalmInv'
  BY DEF IInv, CallInv, CalmInv, ControlInv, UnderWay, TakenBack
<1> QED
  BY <1>1, <1>2 DEF IInv

LEMMA SettledStep ==
    ASSUME IInv, Settled
    PROVE  IInv'
<1> USE DEF Settled, Control, replVars, kernelVars
<1>1. /\ control \in Seq(Kinds) /\ "finish" \in Kinds
      /\ control' \in Seq(Kinds) /\ control' # <<>> /\ (control # <<>> => Head(control') = Head(control))
      /\ Len(control') = Len(control) + 1 /\ control'[Len(control) + 1] = "finish"
      /\ Len(control) \in Nat /\ (Len(control) = 0 <=> control = <<>>)
  BY Appended DEF IInv, TypeInv, Kinds
<1>2. TypeInv' /\ CallInv' /\ CopyInv' /\ NoticeInv'
  BY <1>1 DEF IInv, TypeInv, Calls, CallInv, CopyInv, NoticeInv
<1>3. CalmInv'
  <2> SUFFICES ASSUME ~late PROVE ControlInv' /\ ~strayed'
    BY DEF CalmInv
  <2>1. UnderWay'
    BY <1>1 DEF IInv, CalmInv, ControlInv, UnderWay
  <2>2. TakenBack'
    BY <1>1 DEF IInv, CalmInv, ControlInv, UnderWay, TakenBack
  <2> QED
    BY <2>1, <2>2 DEF IInv, CalmInv, ControlInv
<1> QED
  BY <1>2, <1>3 DEF IInv

-----------------------------------------------------------------------------
(* The client and the control thread.                                      *)

\* The queue, what is under way and where the engine is stay as they are, and the flag
\* is not set: so does the order of the control calls.
LEMMA OrderRests ==
    ASSUME IInv, UNCHANGED <<at, ahead, control, sent, wire>>, flag' => flag,
           at = "calling" => (call' # "control" => call # "control" \/ ahead = 0),
           ~late
    PROVE  ControlInv'
<1>1. Len(control) \in Nat /\ (Len(control) = 0 <=> control = <<>>)
  BY LenProperties, EmptySeq DEF IInv, TypeInv
<1>2. UnderWay' /\ (at # "settling" => TakenBack')
  BY DEF IInv, CalmInv, ControlInv, UnderWay, TakenBack
<1> QED
  BY <1>1, <1>2 DEF IInv, CalmInv, ControlInv

LEMMA ClientStep ==
    ASSUME IInv, WorkerCall \/ SendChunk \/ SendTool \/ Refuse
    PROVE  IInv'
<1> USE DEF WorkerCall, SendChunk, SendTool, Refuse, MayProceed, Sync, engineVars, clientVars,
            controlVars, replVars, kernelVars
<1>1. count' \in [Counters -> Nat]
  BY DEF IInv, TypeInv, Counters, Counted
<1>2. TypeInv'
  BY <1>1 DEF IInv, TypeInv, Calls, ReplStages, CopyInv
<1>3. CallInv' /\ CopyInv' /\ NoticeInv'
  BY DEF IInv, TypeInv, CallInv, CopyInv, NoticeInv
<1>4. CalmInv'
  BY OrderRests DEF CalmInv, IInv
<1> QED
  BY <1>2, <1>3, <1>4 DEF IInv

LEMMA SendControlStep ==
    ASSUME IInv, SendControl
    PROVE  IInv'
<1> USE DEF SendControl, engineVars, clientVars, replVars, kernelVars
<1> DEFINE r == [id |-> sent', kind |-> Head(control), step |-> "new"]
<1>1. Head(control) \in Kinds
  BY Shortened DEF IInv, TypeInv
<1>2. count' \in [Counters -> Nat] /\ sent' \in Nat /\ sent' # 0
  BY DEF IInv, TypeInv, Counters, Counted
<1>3. wire' = wire \union {r} /\ r \in [id : Nat, kind : Kinds, step : {"new", "flagged"}]
  BY <1>1, <1>2
<1>4. TypeInv'
  BY <1>2, <1>3 DEF IInv, TypeInv
<1>5. CallInv' /\ CopyInv' /\ NoticeInv'
  BY DEF IInv, TypeInv, CallInv, CopyInv, NoticeInv
<1>6. CalmInv'
  <2> SUFFICES ASSUME ~late PROVE ControlInv' /\ ~strayed'
    BY DEF CalmInv
  <2>1. wire' = {r}
    BY <1>3 DEF IInv, CalmInv, ControlInv, UnderWay
  <2>2. UnderWay'
    BY <2>1, <1>2 DEF UnderWay
  <2> QED
    BY <2>1, <2>2 DEF IInv, CalmInv, ControlInv, TakenBack
<1> QED
  BY <1>4, <1>5, <1>6 DEF IInv

LEMMA PoppedStep ==
    ASSUME IInv, Answered \/ TimeOut
    PROVE  IInv'
<1> USE DEF Popped, Ahead, engineVars, replVars, kernelVars
<1>1. sent # 0 /\ Popped
  BY DEF Answered, TimeOut
<1>2. count' \in [Counters -> Nat] /\ late' \in BOOLEAN
  <2>1. CASE Answered
    BY <2>1 DEF IInv, TypeInv, Answered
  <2>2. CASE TimeOut
    BY <2>2 DEF IInv, TypeInv, Counters, Counted, TimeOut
  <2> QED
    BY <2>1, <2>2
<1>3. ASSUME ~late'
      PROVE  /\ ~late /\ wire = {}
             /\ control # <<>>
  BY <1>3 DEF IInv, CalmInv, ControlInv, UnderWay, Answered, TimeOut
<1>4. Tail(control) \in Seq(Kinds)
  <2>1. CASE control = <<>>
    BY <2>1, EmptySeq
  <2>2. CASE control # <<>>
    BY <2>2, Shortened DEF IInv, TypeInv
  <2> QED
    BY <2>1, <2>2
<1>5. TypeInv'
  BY <1>1, <1>2, <1>4 DEF IInv, TypeInv
<1>6. CallInv' /\ CopyInv' /\ NoticeInv'
  BY <1>1 DEF IInv, TypeInv, CallInv, CopyInv, NoticeInv
<1>7. CalmInv'
  <2> SUFFICES ASSUME ~late' PROVE ControlInv' /\ ~strayed'
    BY DEF CalmInv
  <2>1. /\ Len(control') = Len(control) - 1 /\ Len(control) \in Nat /\ Len(control) > 0
        /\ control' = <<>> <=> Len(control) = 1
        /\ control' # <<>> => control'[Len(control) - 1] = control[Len(control)]
    BY <1>1, <1>3, Shortened DEF IInv, TypeInv
  <2>2. UnderWay'
    BY <1>1, <1>3 DEF UnderWay
  <2>3. ASSUME at # "settling" PROVE TakenBack'
    BY <1>1, <1>3, <2>1, <2>3 DEF IInv, CalmInv, ControlInv, TakenBack
  <2> QED
    BY <1>1, <1>3, <2>1, <2>2, <2>3 DEF IInv, TypeInv, CalmInv, ControlInv
<1> QED
  BY <1>5, <1>6, <1>7 DEF IInv

LEMMA HandleStep ==
    ASSUME IInv, NEW r, HandleInterrupt(r) \/ HandleSignal(r) \/ HandleFinish(r)
    PROVE  IInv'
<1> DEFINE flagged == [r EXCEPT !.step = "flagged"]
<1> USE DEF engineVars, clientVars, controlVars, replVars, kernelVars
<1>1. r \in wire
  BY DEF HandleInterrupt, HandleSignal, HandleFinish
<1>2. flagged \in [id : Nat, kind : Kinds, step : {"new", "flagged"}]
      /\ flagged.id = r.id /\ flagged.kind = r.kind
  BY <1>1 DEF IInv, TypeInv
<1> HIDE DEF flagged
<1>3. ~late /\ at = "calling" => call # "tool"
  BY <1>1, NothingHits DEF IInv, CallInv
<1>4. ~late => strayed' = strayed
  BY <1>3 DEF IInv, TypeInv, CallInv, HandleInterrupt, HandleSignal, HandleFinish, Stray
<1>5. TypeInv'
  BY <1>2 DEF IInv, TypeInv, HandleInterrupt, HandleSignal, HandleFinish, Stray, flagged
<1>6. CallInv' /\ CopyInv' /\ NoticeInv'
  BY DEF IInv, TypeInv, CallInv, CopyInv, NoticeInv, HandleInterrupt, HandleSignal, HandleFinish
<1>7. CalmInv'
  <2> SUFFICES ASSUME ~late PROVE ControlInv'
    BY <1>4 DEF CalmInv, IInv, HandleInterrupt, HandleSignal, HandleFinish
  <2>1. UNCHANGED <<at, ahead, control, sent, call>>
    BY DEF HandleInterrupt, HandleSignal, HandleFinish
  <2>2. sent # 0 /\ r.id = sent /\ r.kind = Head(control) /\ control # <<>>
    BY <1>1 DEF IInv, CalmInv, ControlInv, UnderWay
  <2>3. wire' \subseteq wire \union {flagged} /\ (flagged \in wire' => r.kind = "interrupt" \/ flagged \in wire)
    BY DEF HandleInterrupt, HandleSignal, HandleFinish, flagged
  <2>4. UnderWay'
    BY <1>2, <2>1, <2>2, <2>3 DEF IInv, CalmInv, ControlInv, UnderWay
  <2>5. Len(control) = 1 => control[Len(control)] = Head(control)
    BY <2>2, Shortened DEF IInv, TypeInv
  <2>6. ASSUME at # "settling" PROVE TakenBack'
    <3>1. TakenBack
      BY <2>6 DEF IInv, CalmInv, ControlInv
    <3>2. CASE HandleFinish(r)
      BY <3>1, <3>2, <2>1 DEF HandleFinish, TakenBack
    <3>3. CASE HandleInterrupt(r)
      BY <3>1, <3>3, <2>1, <2>2, <2>5 DEF HandleInterrupt, TakenBack
    <3>4. CASE HandleSignal(r)
      <4>1. r.kind = "interrupt"
        BY <3>4 DEF HandleSignal, IInv, CalmInv, ControlInv, UnderWay
      <4> QED
        BY <3>1, <3>4, <4>1, <2>1, <2>2, <2>5 DEF HandleSignal, TakenBack
    <3> QED
      BY <3>2, <3>3, <3>4
  <2> QED
    BY <2>1, <2>4, <2>6 DEF IInv, CalmInv, ControlInv
<1> QED
  BY <1>5, <1>6, <1>7 DEF IInv

-----------------------------------------------------------------------------
(* The REPL and the kernel.                                                *)

\* What no step of the REPL that keeps its call touches.
Kept == UNCHANGED <<at, ledger, told, call, ahead, synced, carried, control, sent, late, wire, cut>>

\* Such a step keeps the invariant when it keeps the parts of its own.
LEMMA ReplKeeps ==
    ASSUME IInv, Kept, repl # "free", repl' \in ReplStages \ {"free"},
           flag' \in BOOLEAN, flag' => flag, count' \in [Counters -> Nat], gen' \in Nat,
           torn' = torn, repl' # "asked", copy' = ledger,
           1 .. gen' \subseteq (1 .. gen) \union notices', notices \subseteq notices',
           strayed' \in BOOLEAN, strayed' => strayed \/ (flag /\ ~cut)
    PROVE  IInv'
<1>1. call = "tool" /\ call' = "tool"
  BY DEF IInv, CallInv, Kept
<1>2. TypeInv'
  BY DEF IInv, TypeInv, Kept
<1>3. CallInv'
  BY <1>1 DEF IInv, CallInv, ReplStages, Kept
<1>4. CopyInv'
  BY DEF IInv, TypeInv, CopyInv, Kept
<1>5. NoticeInv'
  BY <1>1 DEF IInv, NoticeInv, Kept
<1>6. CalmInv'
  <2> SUFFICES ASSUME ~late PROVE ControlInv' /\ ~strayed'
    BY DEF CalmInv, Kept
  <2>1. ControlInv'
    BY <1>1, OrderRests DEF Kept
  <2>2. ~strayed
    BY DEF IInv, CalmInv
  <2>3. ~cut => ~flag
    BY <1>1, NothingHits
  <2> QED
    BY <2>1, <2>2, <2>3
<1> QED
  BY <1>2, <1>3, <1>4, <1>5, <1>6 DEF IInv

LEMMA ReplStepKeeps ==
    ASSUME IInv, ReplStep \/ DeadlinePasses
    PROVE  IInv'
<1> USE DEF replRest, engineVars, clientVars, controlVars, replVars, kernelVars, Return, Sync
<1>1. CASE Reply \/ ReplyFails \/ ReplyLost
  <2> USE DEF Reply, ReplyFails, ReplyLost
  <2>1. count' \in [Counters -> Nat]
    BY <1>1 DEF IInv, TypeInv, Counters, Counted
  <2>2. TypeInv'
    BY <1>1, <2>1 DEF IInv, TypeInv, Calls, ReplStages
  <2>3. call = "tool"
    BY <1>1 DEF IInv, CallInv
  <2>4. CallInv' /\ CopyInv' /\ NoticeInv'
    BY <1>1, <2>3 DEF IInv, TypeInv, CallInv, CopyInv, NoticeInv
  <2>5. CalmInv'
    BY <1>1, <2>3, OrderRests DEF IInv, CalmInv
  <2> QED
    BY <2>2, <2>4, <2>5 DEF IInv
<1>2. CASE Recover
  <2>1. Kept
    BY <1>2 DEF Recover, Kept
  <2>2. count' \in [Counters -> Nat] /\ gen' \in Nat /\ 1 .. gen' \subseteq (1 .. gen) \union notices'
    BY <1>2 DEF Recover, RestartKernel, IInv, TypeInv, Counters, Counted
  <2> QED
    BY <1>2, <2>1, <2>2, ReplKeeps DEF Recover, ReplStages, IInv, TypeInv, CopyInv
<1>3. CASE TakeTool
  BY <1>3, ReplKeeps DEF TakeTool, Kept, ReplStages, IInv, TypeInv, CopyInv
<1>4. CASE Begin \/ ScopeInterrupted \/ Submit \/ RunInterrupted
  <2>1. Kept /\ count' = count /\ notices' = notices /\ gen' = gen /\ copy' = copy /\ torn' = torn
    BY <1>4 DEF Begin, ScopeInterrupted, Submit, RunInterrupted, Kept
  <2>2. repl # "free" /\ repl # "asked" /\ repl' \in ReplStages \ {"free", "asked"}
    BY <1>4 DEF Begin, ScopeInterrupted, Submit, RunInterrupted, ReplStages
  <2>3. flag' \in BOOLEAN /\ (flag' => flag)
    BY <1>4 DEF Begin, ScopeInterrupted, Submit, RunInterrupted, IInv, TypeInv
  <2>4. strayed' \in BOOLEAN /\ (strayed' => strayed \/ (flag /\ ~cut))
    BY <1>4 DEF Begin, ScopeInterrupted, Submit, RunInterrupted, IInv, TypeInv, Stray
  <2> QED
    BY <2>1, <2>2, <2>3, <2>4, ReplKeeps DEF IInv, TypeInv, CopyInv
<1>5. CASE InstallScope \/ ScopeInstalled \/ ScopeFailed \/ RunEnds \/ RunDies \/ InterruptKernel
           \/ DeadlinePasses
  <2> USE DEF InstallScope, ScopeInstalled, ScopeFailed, RunEnds, RunDies, InterruptKernel, DeadlinePasses
  <2>1. Kept /\ count' = count /\ notices' = notices /\ gen' = gen /\ copy' = copy /\ torn' = torn
        /\ strayed' = strayed
    BY <1>5 DEF Kept
  <2>2. repl # "free" /\ repl # "asked" /\ repl' \in ReplStages \ {"free", "asked"}
    BY <1>5 DEF ReplStages
  <2>3. flag' = flag \/ flag' = FALSE
    BY <1>5
  <2>4. flag \in BOOLEAN
    BY DEF IInv, TypeInv
  <2>5. flag' \in BOOLEAN /\ (flag' => flag)
    <3>1. CASE flag' = flag
      BY <2>4, <3>1
    <3>2. CASE flag' = FALSE
      BY <3>2
    <3> QED
      BY <2>3, <3>1, <3>2
  <2> QED
    BY <2>1, <2>2, <2>5, ReplKeeps DEF IInv, TypeInv, CopyInv
<1> QED
  BY <1>1, <1>2, <1>3, <1>4, <1>5 DEF ReplStep

LEMMA KernelStep ==
    ASSUME IInv, CellEnds \/ Crash
    PROVE  IInv'
<1> USE DEF CellEnds, Crash, engineVars, clientVars, controlVars, replVars
<1>1. count' \in [Counters -> Nat]
  BY DEF IInv, TypeInv, Counters, Counted
<1>2. TypeInv'
  BY <1>1 DEF IInv, TypeInv
<1>3. CallInv' /\ CopyInv' /\ NoticeInv'
  BY DEF IInv, CallInv, CopyInv, NoticeInv
<1>4. CalmInv'
  BY OrderRests DEF IInv, CalmInv
<1> QED
  BY <1>2, <1>3, <1>4 DEF IInv

-----------------------------------------------------------------------------
\* The invariant is inductive.
THEOREM KernelInvariant == Spec => []IInv
<1>1. IInv /\ [Next]_vars => IInv'
  <2> SUFFICES ASSUME IInv, [Next]_vars PROVE IInv'
    OBVIOUS
  <2>1. CASE UNCHANGED vars
    <3>1. TypeInv' /\ CallInv' /\ CopyInv' /\ NoticeInv'
      BY <2>1 DEF IInv, TypeInv, CallInv, CopyInv, NoticeInv, vars, engineVars, clientVars,
         controlVars, replVars, kernelVars
    <3>2. CalmInv'
      BY <2>1, OrderRests DEF IInv, CalmInv, vars, engineVars, clientVars, controlVars
    <3> QED
      BY <3>1, <3>2 DEF IInv
  <2>2. CASE Handle
    BY <2>2, HandleStep DEF Handle
  <2>3. CASE Next /\ ~Handle
    BY <2>3, StartStep, CancelStep, ResultStep, SettledStep, ClientStep, SendControlStep,
       PoppedStep, ReplStepKeeps, KernelStep DEF Next, Engine, Client
  <2> QED
    BY <2>1, <2>2, <2>3
<1> QED
  BY <1>1, Starts, PTL DEF Spec

\* An interrupt ends no other cell than the one that was cancelled, and the worker's copy
\* of the ledger is never behind what it is taken to hold: for any cells, cancellations
\* and failing calls (execute_tool, _interrupt_and_recover, sync_history).
THEOREM CallsStayApart == Spec => []CallsAreApart
<1>1. IInv => CallsAreApart
  BY DEF IInv, TypeInv, CalmInv, CopyInv, CallsAreApart, InterruptStaysInCell, InSync
<1> QED
  BY <1>1, KernelInvariant, PTL

\* When a result is in the conversation, every restart that lost the kernel's state has
\* been told, but for a notice lost with its reply (_recover, _deliver_kernel_notices).
THEOREM EveryLossIsTold == Spec => LossIsTold
<1>1. IInv /\ [Next]_vars =>
        [call = "ok" /\ at = "calling" /\ at' = "between" => 1 .. gen \subseteq told']_vars
  <2> SUFFICES ASSUME IInv, Next, call = "ok", at = "calling", at' = "between"
               PROVE  1 .. gen \subseteq told'
    OBVIOUS
  <2>1. repl = "free"
    BY DEF IInv, CallInv
  <2>2. Result
    BY <2>1 DEF Next, Start, Cancel, Engine, Settled, Client, Refuse, TimeOut, Popped, Handle,
       HandleInterrupt, HandleSignal, HandleFinish, WorkerCall, SendChunk, SendTool, SendControl,
       Answered, ReplStep, DeadlinePasses, CellEnds, Crash, TakeTool, Begin, InstallScope,
       ScopeInterrupted, ScopeInstalled, ScopeFailed, Submit, RunEnds, RunDies, RunInterrupted,
       InterruptKernel, Recover, Reply, ReplyFails, ReplyLost, engineVars
  <2> QED
    BY <2>2 DEF Result, IInv, NoticeInv
<1> QED
  BY <1>1, KernelInvariant, PTL DEF Spec, LossIsTold
=============================================================================
