------------------------- MODULE SemanticEdgesProofs -------------------------
(***************************************************************************)
(* The semantic graph, for any number of agents, of messages and of        *)
(* requests: no call of the tracker raises, a request continues a          *)
(* surviving one, and every edge that is due is carried once.              *)
(***************************************************************************)
EXTENDS SemanticEdges, TLAPS

Labels == {"call", "continuation", "message", "return", "failed", "compaction", "refinement",
           "attempt", "refinement_attempt", "violation", "cancel"}
Single == {"call", "return", "compaction", "refinement"}
Phases == {"idle", "ready", "retry", "calling", "replied", "cell", "side"}
Statuses == {"unborn", "running", "idle", "completed", "failed", "cancelled"}
Kinds == {"none", "work", "summary", "rollup", "plan"}

Marks == Ids \X Labels
Points == [last : Ids, pending : SUBSET Marks, claimed : BOOLEAN]
Calls == [id : Ids, kind : Kinds, inbound : SUBSET Marks, retry : BOOLEAN]
Compactions == [stage : {"none", "summary", "rollup"}, source : Ids, captured : SUBSET Marks,
                slot : Ids, retry : BOOLEAN]
Refinements == [on : BOOLEAN, source : Ids, slot : Ids]
Origins == [by : Sessions \cup {"none"}, kind : Kinds, from : Ids]
Histories == [count : Ids, due : SUBSET Marks]

TypeInv ==
    /\ count \in Ids
    /\ session \in [Sessions -> Points] /\ saved \in [Sessions -> Points]
    /\ returned \in [Sessions -> Ids]
    /\ phase \in [Sessions -> Phases]
    /\ call \in [Sessions -> Calls]
    /\ scope \in [Sessions -> Ids]
    /\ comp \in [Sessions -> Compactions]
    /\ refine \in [Sessions -> Refinements]
    /\ edges \subseteq Ids \X Requests \X Labels
    /\ status \in [Children -> Statuses]
    /\ spawner \in [Children -> Ids] /\ result \in [Children -> Ids]
    /\ mail \in [Sessions -> SUBSET Ids]
    /\ origin \in [Requests -> Origins]
    /\ gone \subseteq Requests
    /\ due \in [Sessions -> SUBSET Marks]
    /\ mark \in [Sessions -> Histories]

\* Requests continue earlier ones of their session, and go when those go.
OriginInv ==
    /\ \A r \in Requests :
          IF r > count THEN origin[r] = NoOrigin
          ELSE /\ origin[r].by \in Sessions /\ origin[r].from < r
               /\ LET q == origin[r].from IN
                  q # 0 => origin[q].by = origin[r].by /\ (q \in gone => r \in gone)
    /\ \A r \in gone : r <= count
    /\ \A e \in edges : e[1] \in 1 .. count /\ e[2] <= count
    /\ \A e \in edges : LET o == origin[e[2]] IN
          e[3] # "cancel" /\ o.from # 0 => \E f \in edges : f[1] = o.from /\ f[2] = e[2]

MailInv == \A s \in Sessions : \A q \in mail[s] : q <= count

\* A surviving request of a session carries an edge of the kind l from q; one of them
\* before its running prompt; a work request.
Kept(s, q, l) ==
    \E e \in edges : e[1] = q /\ e[3] = l /\ e[2] \notin gone /\ origin[e[2]].by = s
KeptBefore(s, q, l) ==
    \E e \in edges : /\ e[1] = q /\ e[3] = l /\ e[2] \notin gone /\ origin[e[2]].by = s
                     /\ e[2] <= mark[s].count
Carried(s, q, l) ==
    \E e \in edges : /\ e[1] = q /\ e[3] = l /\ e[2] \notin gone /\ origin[e[2]].by = s
                     /\ origin[e[2]].kind = "work"
CarriedBefore(s, q, l) ==
    \E e \in edges : /\ e[1] = q /\ e[3] = l /\ e[2] \notin gone /\ origin[e[2]].by = s
                     /\ origin[e[2]].kind = "work" /\ e[2] <= mark[s].count

Owned(s, q) == q # 0 => origin[q].by = s /\ q \notin gone

\* What an open work request has taken, and what is not carried yet.
Taken(s) == IF phase[s] = "calling" THEN call[s].inbound ELSE {}
Waiting(s) == session[s].pending \cup Taken(s)

\* The continuation point.  What waits has not been carried, and what is due waits or
\* has been carried by a request that survives.
PointInv(s) ==
    /\ session[s].last <= count /\ Owned(s, session[s].last)
    /\ \A x \in Waiting(s) :
          x[1] \in 1 .. count /\ (x[2] \in Single => ~Carried(s, x[1], x[2]))
    /\ s # "root" /\ ~session[s].claimed => \A q \in Ids : ~Carried(s, q, "call")
    /\ \A x \in due[s] :
          /\ x[2] = "call" => s # "root" /\ x[1] = spawner[s]
          /\ \/ x \in Waiting(s)
             \/ x[2] = "call" /\ ~session[s].claimed
             \/ Kept(s, x[1], x[2]) \/ Kept(s, x[1], "attempt")

\* The same of the checkpoint, when the running prompt began.
SavedInv(s) ==
    /\ saved[s].last <= mark[s].count /\ mark[s].count <= count /\ Owned(s, saved[s].last)
    /\ phase[s] = "idle" => saved[s] = NoPoint /\ mark[s] = NoMark
    /\ \A x \in saved[s].pending :
          x[1] \in 1 .. count /\ (x[2] \in Single => ~CarriedBefore(s, x[1], x[2]))
    /\ s # "root" /\ ~saved[s].claimed => \A q \in Ids : ~CarriedBefore(s, q, "call")
    /\ \A x \in mark[s].due :
          /\ x[2] = "call" => s # "root" /\ x[1] = spawner[s]
          /\ \/ x \in saved[s].pending
             \/ x[2] = "call" /\ ~saved[s].claimed
             \/ KeptBefore(s, x[1], x[2]) \/ KeptBefore(s, x[1], "attempt")

\* An open request continues the session's last one, and says so.
CallInv(s) ==
    call[s].id # 0 =>
       /\ call[s].id <= count /\ call[s].id > mark[s].count /\ call[s].id \notin gone
       /\ origin[call[s].id] = [by |-> s, kind |-> call[s].kind, from |-> session[s].last]
       /\ \A x \in call[s].inbound : x[1] \in 1 .. count
       /\ session[s].last # 0 => \E x \in call[s].inbound : x[1] = session[s].last

\* Which operation is open goes with the phase, and its slot with the open call.
StageInv(s) ==
    LET c == call[s]
        m == comp[s]
        r == refine[s]
    IN /\ phase[s] \notin {"calling", "side"} => c = NoCall /\ m = NoCompaction /\ r = NoRefinement
       /\ phase[s] = "calling" =>
             /\ c.kind = "work" /\ m = NoCompaction /\ r = NoRefinement
             /\ session[s].pending = {} /\ session[s].claimed = (s # "root")
       /\ phase[s] = "side" =>
             \/ /\ m.stage = "summary" /\ r = NoRefinement
                /\ c.kind \in {"none", "summary"} /\ m.slot = c.id
             \/ /\ m.stage = "rollup" /\ r = NoRefinement
                /\ c.kind \in {"none", "rollup"} /\ m.slot # 0 /\ m.slot # c.id
             \/ /\ r.on /\ m = NoCompaction
                /\ c.kind \in {"none", "plan"} /\ r.slot = c.id
       /\ (c.id = 0 <=> c.kind = "none") /\ (c.kind = "none" => c = NoCall)

\* What a side operation began from is still there; its request is carried by none.
SideInv(s) ==
    /\ comp[s].stage # "none" =>
          comp[s].source = session[s].last /\ comp[s].captured \subseteq session[s].pending
    /\ refine[s].on => refine[s].source = session[s].last
    /\ comp[s].slot # 0 =>
          /\ comp[s].slot <= count /\ comp[s].slot > session[s].last
          /\ Owned(s, comp[s].slot) /\ ~Carried(s, comp[s].slot, "compaction")
    /\ call[s].kind = "summary" => call[s].inbound = Attempt(s)
    /\ comp[s].stage = "rollup" =>
          \A x \in comp[s].captured : Kept(s, x[1], x[2]) \/ Kept(s, x[1], "attempt")
    /\ refine[s].slot # 0 =>
          refine[s].slot <= count /\ ~Carried(s, refine[s].slot, "refinement")

CellInv(s) == scope[s] <= count /\ (phase[s] = "cell" => scope[s] # 0)

\* A child without a life has no requests; one in a prompt is running.
BirthInv(c) ==
    /\ status[c] = "unborn" =>
          /\ phase[c] = "idle" /\ session[c] = NoPoint /\ returned[c] = 0 /\ result[c] = 0
          /\ \A r \in Requests : origin[r].by # c
    /\ status[c] # "unborn" => spawner[c] \in 1 .. count
    /\ phase[c] # "idle" => status[c] = "running"
    /\ result[c] <= count /\ returned[c] <= count

Live == {"running", "idle", "completed"}

\* What the root was handed of a child comes before what it has yet to be handed.
ReturnInv(c) ==
    status[c] \in Live =>
       /\ returned[c] <= result[c] /\ result[c] <= session[c].last
       /\ result[c] # 0 => origin[result[c]].by = c
       /\ \A x \in Waiting("root") \cup saved["root"].pending :
             x[2] = "return" /\ origin[x[1]].by = c => x[1] <= returned[c]
       /\ \A q \in 1 .. count : Carried("root", q, "return") /\ origin[q].by = c => q <= returned[c]

SessionInv(s) ==
    PointInv(s) /\ SavedInv(s) /\ CallInv(s) /\ StageInv(s) /\ SideInv(s) /\ CellInv(s)

IInv ==
    /\ TypeInv /\ NeverRaises /\ OriginInv /\ MailInv /\ ConsumedOnce
    /\ \A s \in Sessions : SessionInv(s)
    /\ \A c \in Children : BirthInv(c) /\ ReturnInv(c)
----------------------------------------------------------------------------
\* The history outside the session that acts: requests only start, edges only are
\* added and requests only go that are that session's.
World(s) ==
    /\ count \in Ids /\ count' \in Ids /\ count <= count'
    /\ \A r \in Requests : origin'[r] = origin[r] \/ (r > count /\ origin'[r].by = s)
    /\ edges \subseteq edges'
    /\ \A e \in edges' \ edges : e[3] = "cancel" \/ origin'[e[2]].by = s
    /\ gone \subseteq gone'
    /\ \A r \in gone' \ gone : origin[r].by = s

\* What a session keeps to itself does not change.
Still(t) ==
    /\ session'[t] = session[t] /\ saved'[t] = saved[t] /\ phase'[t] = phase[t]
    /\ call'[t] = call[t] /\ scope'[t] = scope[t] /\ comp'[t] = comp[t]
    /\ refine'[t] = refine[t] /\ due'[t] = due[t] /\ mark'[t] = mark[t]
    /\ t # "root" => spawner'[t] = spawner[t]

\* The history is as it was.
LEMMA SameHistory ==
    ASSUME TypeInv, UNCHANGED <<count, origin, edges, gone>>, NEW s \in Sessions
    PROVE  World(s)
  BY DEF World, TypeInv, Ids

\* A new request of the session s starts.
LEMMA Starts ==
    ASSUME TypeInv, OriginInv, NEW s \in Sessions, NEW kind, count < MaxRequests,
           count' = count + 1, Originates(s, kind), UNCHANGED <<edges, gone>>
    PROVE  /\ World(s)
           /\ origin'[count + 1] = [by |-> s, kind |-> kind, from |-> session[s].last]
           /\ \A r \in 1 .. count : origin'[r] = origin[r]
  <1>1. MaxRequests \in Nat
    BY EdgeConstants
  <1>2. count + 1 \in Requests
    BY <1>1 DEF TypeInv, Ids, Requests
  <1>3. origin'[count + 1] = [by |-> s, kind |-> kind, from |-> session[s].last]
    BY <1>2 DEF TypeInv, Originates
  <1>4. \A r \in Requests : r # count + 1 => origin'[r] = origin[r]
    BY <1>2 DEF TypeInv, Originates
  <1>5. count + 1 > count /\ count + 1 \in Ids
    BY <1>1 DEF TypeInv, Ids
  <1>6. \A r \in 1 .. count : r \in Requests /\ r # count + 1
    BY <1>1 DEF TypeInv, Ids, Requests
  <1>7. \A r \in Requests : origin'[r] = origin[r] \/ (r > count /\ origin'[r].by = s)
    BY <1>3, <1>4, <1>5
  <1>8. World(s)
    BY <1>5, <1>7 DEF World, TypeInv, Ids
  <1> QED BY <1>3, <1>4, <1>6, <1>8

\* The targets of edges are requests whose origin stays.
LEMMA EdgesKnown ==
    ASSUME TypeInv, OriginInv, NEW s \in Sessions, World(s), NEW e \in edges
    PROVE  /\ e[1] \in 1 .. count /\ e[2] \in 1 .. count /\ e[2] \in Requests
           /\ origin'[e[2]] = origin[e[2]] /\ e \in edges'
  <1>1. e[1] \in 1 .. count /\ e[2] <= count /\ e[2] \in Requests
    BY DEF TypeInv, OriginInv
  <1>2. e[2] \in 1 .. count
    BY <1>1 DEF TypeInv, Ids, Requests
  <1> QED BY <1>1, <1>2 DEF World, TypeInv, Ids, Requests

\* Of the others no edge is lost or added, but for cancels.
LEMMA Elsewhere ==
    ASSUME TypeInv, OriginInv, NEW s \in Sessions, World(s),
           NEW t \in Sessions, t # s, NEW q, NEW l
    PROVE  /\ Kept(t, q, l) => Kept(t, q, l)'
           /\ l # "cancel" => (Carried(t, q, l)' => Carried(t, q, l))
           /\ mark'[t] = mark[t] =>
                 /\ KeptBefore(t, q, l) => KeptBefore(t, q, l)'
                 /\ l # "cancel" => (CarriedBefore(t, q, l)' => CarriedBefore(t, q, l))
  <1>1. \A e \in edges : e[2] \in Requests /\ origin'[e[2]] = origin[e[2]] /\ e \in edges'
    BY EdgesKnown
  <1>2. \A e \in edges : e[2] \notin gone /\ origin[e[2]].by = t => e[2] \notin gone'
    BY <1>1 DEF World
  <1>3. \A e \in edges' : e \notin edges => e[3] = "cancel" \/ origin'[e[2]].by # t
    BY DEF World
  <1>4. \A r : r \notin gone' => r \notin gone
    BY DEF World
  <1>5. Kept(t, q, l) => Kept(t, q, l)'
    BY <1>1, <1>2 DEF Kept
  <1>6. l # "cancel" => (Carried(t, q, l)' => Carried(t, q, l))
    BY <1>1, <1>3, <1>4 DEF Carried
  <1>7. mark'[t] = mark[t] => (KeptBefore(t, q, l) => KeptBefore(t, q, l)')
    BY <1>1, <1>2 DEF KeptBefore
  <1>8. mark'[t] = mark[t] /\ l # "cancel" => (CarriedBefore(t, q, l)' => CarriedBefore(t, q, l))
    BY <1>1, <1>3, <1>4 DEF CarriedBefore
  <1> QED BY <1>5, <1>6, <1>7, <1>8

\* Nor are requests.
LEMMA OwnedElsewhere ==
    ASSUME TypeInv, OriginInv, NEW s \in Sessions, World(s), NEW t \in Sessions, t # s,
           NEW q \in Ids, q <= count, Owned(t, q)
    PROVE  Owned(t, q)' /\ (q # 0 => origin'[q] = origin[q])
  <1> SUFFICES ASSUME q # 0 PROVE Owned(t, q)' /\ origin'[q] = origin[q]
    BY DEF Owned
  <1>1. q \in Requests
    BY EdgeConstants DEF Ids, Requests
  <1>2. origin'[q] = origin[q]
    BY <1>1 DEF World, TypeInv, Ids
  <1> QED BY <1>2 DEF World, Owned

\* In the session that acts nothing is lost either while nothing is rolled back.
LEMMA Here ==
    ASSUME TypeInv, OriginInv, NEW s \in Sessions, World(s), gone' = gone, NEW q, NEW l
    PROVE  /\ Kept(s, q, l) => Kept(s, q, l)'
           /\ mark'[s] = mark[s] => (KeptBefore(s, q, l) => KeptBefore(s, q, l)')
           /\ l # "cancel" /\ (\A e \in edges' \ edges :
                 e[3] = l /\ e[3] # "cancel" => origin'[e[2]].kind # "work") =>
              (Carried(s, q, l)' => Carried(s, q, l))
           /\ mark'[s] = mark[s] /\ l # "cancel" /\ (\A e \in edges' \ edges :
                 e[3] = "cancel" \/ ~(e[2] <= mark[s].count)) =>
              (CarriedBefore(s, q, l)' => CarriedBefore(s, q, l))
  <1>1. \A e \in edges : e[2] \in Requests /\ origin'[e[2]] = origin[e[2]] /\ e \in edges'
    BY EdgesKnown
  <1>2. Kept(s, q, l) => Kept(s, q, l)'
    BY <1>1 DEF Kept
  <1>3. mark'[s] = mark[s] => (KeptBefore(s, q, l) => KeptBefore(s, q, l)')
    BY <1>1 DEF KeptBefore
  <1>4. l # "cancel" /\ (\A e \in edges' \ edges :
            e[3] = l /\ e[3] # "cancel" => origin'[e[2]].kind # "work") =>
        (Carried(s, q, l)' => Carried(s, q, l))
    BY <1>1 DEF Carried
  <1>5. mark'[s] = mark[s] /\ l # "cancel" /\ (\A e \in edges' \ edges :
            e[3] = "cancel" \/ ~(e[2] <= mark[s].count)) =>
        (CarriedBefore(s, q, l)' => CarriedBefore(s, q, l))
    BY <1>1 DEF CarriedBefore
  <1> QED BY <1>2, <1>3, <1>4, <1>5

LEMMA OwnedHere ==
    ASSUME TypeInv, OriginInv, NEW s \in Sessions, World(s), gone' = gone,
           NEW q \in Ids, q <= count, Owned(s, q)
    PROVE  Owned(s, q)' /\ (q # 0 => origin'[q] = origin[q])
  <1> SUFFICES ASSUME q # 0 PROVE Owned(s, q)' /\ origin'[q] = origin[q]
    BY DEF Owned
  <1>1. q \in Requests
    BY EdgeConstants DEF Ids, Requests
  <1>2. origin'[q] = origin[q]
    BY <1>1 DEF World, TypeInv, Ids
  <1> QED BY <1>2 DEF World, Owned

----------------------------------------------------------------------------
\* A session that another one's step leaves alone keeps its part of the invariant.
LEMMA PointElsewhere ==
    ASSUME TypeInv, TypeInv', OriginInv, NEW s \in Sessions, World(s),
           NEW t \in Sessions, t # s, Still(t), PointInv(t)
    PROVE  PointInv(t)'
  <1>1. /\ session'[t] = session[t] /\ due'[t] = due[t]
        /\ (t # "root" => spawner'[t] = spawner[t])
    BY DEF Still
  <1>2. Waiting(t)' = Waiting(t)
    BY DEF Still, Waiting, Taken
  <1>3. session[t].last \in Ids
    BY DEF TypeInv, Points
  <1>4. Owned(t, session[t].last)'
    BY <1>1, <1>3, OwnedElsewhere DEF PointInv, Owned
  <1>5. count <= count' /\ count \in Nat /\ count' \in Nat
    BY DEF World, Ids
  <1>6. Waiting(t) \subseteq Marks /\ due[t] \subseteq Marks
    BY DEF TypeInv, Waiting, Taken, Points, Calls
  <1>7. \A l \in Single : l # "cancel"
    BY DEF Single
  <1>8. ASSUME NEW x \in Waiting(t)
        PROVE  x[1] \in 1 .. count' /\ (x[2] \in Single => ~Carried(t, x[1], x[2])')
    <2>1. x[1] \in 1 .. count /\ (x[2] \in Single => ~Carried(t, x[1], x[2]))
      BY DEF PointInv
    <2>2. x[1] \in 1 .. count'
      BY <2>1, <1>5
    <2>3. x[2] # "cancel" => (Carried(t, x[1], x[2])' => Carried(t, x[1], x[2]))
      BY Elsewhere
    <2> QED BY <2>1, <2>2, <2>3, <1>7
  <1>9. ASSUME NEW q \in Ids, t # "root", ~session[t].claimed
        PROVE  ~Carried(t, q, "call")'
    <2>1. Carried(t, q, "call")' => Carried(t, q, "call")
      BY Elsewhere
    <2> QED BY <2>1, <1>9 DEF PointInv
  <1>10. ASSUME NEW x \in due[t]
         PROVE  \/ x \in Waiting(t)
                \/ x[2] = "call" /\ ~session[t].claimed
                \/ Kept(t, x[1], x[2])' \/ Kept(t, x[1], "attempt")'
    <2>1. Kept(t, x[1], x[2]) => Kept(t, x[1], x[2])'
      BY Elsewhere
    <2>2. Kept(t, x[1], "attempt") => Kept(t, x[1], "attempt")'
      BY Elsewhere
    <2> QED BY <2>1, <2>2 DEF PointInv
  <1>11. \A x \in due[t] : x[2] = "call" => t # "root" /\ x[1] = spawner'[t]
    BY <1>1 DEF PointInv
  <1>12. session[t].last <= count'
    BY <1>3, <1>5 DEF PointInv, Ids
  <1> QED BY <1>1, <1>2, <1>4, <1>8, <1>9, <1>10, <1>11, <1>12 DEF PointInv

LEMMA SavedElsewhere ==
    ASSUME TypeInv, TypeInv', OriginInv, NEW s \in Sessions, World(s),
           NEW t \in Sessions, t # s, Still(t), SavedInv(t)
    PROVE  SavedInv(t)'
  <1>1. /\ saved'[t] = saved[t] /\ mark'[t] = mark[t] /\ phase'[t] = phase[t]
        /\ (t # "root" => spawner'[t] = spawner[t])
    BY DEF Still
  <1>2. count <= count' /\ count \in Nat /\ count' \in Nat
    BY DEF World, Ids
  <1>3. saved[t].last \in Ids /\ mark[t].count \in Ids
    BY DEF TypeInv, Points, Histories
  <1>4. saved[t].last <= mark[t].count /\ mark[t].count <= count' /\ saved[t].last <= count
    BY <1>2, <1>3 DEF SavedInv, Ids
  <1>5. Owned(t, saved[t].last)'
    <2>1. PICK q \in Ids : q = saved[t].last
      BY <1>3
    <2>2. Owned(t, q) /\ q <= count
      BY <2>1, <1>4 DEF SavedInv
    <2>3. Owned(t, q)'
      BY <2>2, OwnedElsewhere
    <2> QED BY <2>1, <2>3, <1>1 DEF Owned
  <1>6. \A l \in Single : l # "cancel"
    BY DEF Single
  <1>7. ASSUME NEW x \in saved[t].pending
        PROVE  x[1] \in 1 .. count' /\ (x[2] \in Single => ~CarriedBefore(t, x[1], x[2])')
    <2>1. x[1] \in 1 .. count /\ (x[2] \in Single => ~CarriedBefore(t, x[1], x[2]))
      BY DEF SavedInv
    <2>2. x[1] \in 1 .. count'
      BY <2>1, <1>2
    <2>3. x[2] # "cancel" => (CarriedBefore(t, x[1], x[2])' => CarriedBefore(t, x[1], x[2]))
      BY <1>1, Elsewhere
    <2> QED BY <2>1, <2>2, <2>3, <1>6
  <1>8. ASSUME NEW q \in Ids, t # "root", ~saved[t].claimed
        PROVE  ~CarriedBefore(t, q, "call")'
    <2>1. CarriedBefore(t, q, "call")' => CarriedBefore(t, q, "call")
      BY <1>1, Elsewhere
    <2> QED BY <2>1, <1>8 DEF SavedInv
  <1>9. ASSUME NEW x \in mark[t].due
        PROVE  \/ x \in saved[t].pending
               \/ x[2] = "call" /\ ~saved[t].claimed
               \/ KeptBefore(t, x[1], x[2])' \/ KeptBefore(t, x[1], "attempt")'
    <2>1. KeptBefore(t, x[1], x[2]) => KeptBefore(t, x[1], x[2])'
      BY <1>1, Elsewhere
    <2>2. KeptBefore(t, x[1], "attempt") => KeptBefore(t, x[1], "attempt")'
      BY <1>1, Elsewhere
    <2> QED BY <2>1, <2>2 DEF SavedInv
  <1>10. \A x \in mark[t].due : x[2] = "call" => t # "root" /\ x[1] = spawner'[t]
    BY <1>1 DEF SavedInv
  <1>11. phase[t] = "idle" => saved[t] = NoPoint /\ mark[t] = NoMark
    BY DEF SavedInv
  <1> QED BY <1>1, <1>4, <1>5, <1>7, <1>8, <1>9, <1>10, <1>11 DEF SavedInv

LEMMA CallElsewhere ==
    ASSUME TypeInv, TypeInv', OriginInv, NEW s \in Sessions, World(s),
           NEW t \in Sessions, t # s, Still(t), CallInv(t)
    PROVE  CallInv(t)'
  <1>1. call'[t] = call[t] /\ mark'[t] = mark[t] /\ session'[t] = session[t]
    BY DEF Still
  <1> SUFFICES ASSUME call[t].id # 0 PROVE CallInv(t)'
    BY <1>1 DEF CallInv
  <1>0. PICK q \in Ids : q = call[t].id
    BY DEF TypeInv, Calls
  <1>2. /\ q <= count /\ q > mark[t].count /\ q \notin gone
        /\ origin[q] = [by |-> t, kind |-> call[t].kind, from |-> session[t].last]
        /\ \A x \in call[t].inbound : x[1] \in 1 .. count
        /\ session[t].last # 0 => \E x \in call[t].inbound : x[1] = session[t].last
    BY <1>0 DEF CallInv
  <1>3. q # 0 /\ mark[t].count \in Ids
    BY <1>0 DEF TypeInv, Histories
  <1>4. Owned(t, q)
    BY <1>2 DEF Owned
  <1>5. Owned(t, q)' /\ origin'[q] = origin[q]
    BY <1>2, <1>3, <1>4, OwnedElsewhere
  <1>6. count <= count' /\ count \in Nat /\ count' \in Nat
    BY DEF World, Ids
  <1>7. q \notin gone' /\ q <= count'
    BY <1>2, <1>3, <1>5, <1>6 DEF Owned, Ids
  <1>8. \A x \in call[t].inbound : x[1] \in 1 .. count'
    BY <1>2, <1>6
  <1> QED BY <1>0, <1>1, <1>2, <1>5, <1>7, <1>8 DEF CallInv

LEMMA SideElsewhere ==
    ASSUME TypeInv, TypeInv', OriginInv, NEW s \in Sessions, World(s),
           NEW t \in Sessions, t # s, Still(t), SideInv(t)
    PROVE  SideInv(t)'
  <1>1. /\ call'[t] = call[t] /\ comp'[t] = comp[t] /\ refine'[t] = refine[t]
        /\ session'[t] = session[t]
    BY DEF Still
  <1>2. Attempt(t)' = Attempt(t)
    BY <1>1 DEF Attempt
  <1>3. count <= count' /\ count \in Nat /\ count' \in Nat
    BY DEF World, Ids
  <1>4. comp[t].slot \in Ids /\ refine[t].slot \in Ids
    BY DEF TypeInv, Compactions, Refinements
  <1>5. ASSUME comp[t].slot # 0
        PROVE  /\ comp[t].slot <= count' /\ comp[t].slot > session[t].last
               /\ Owned(t, comp[t].slot)' /\ ~Carried(t, comp[t].slot, "compaction")'
    <2>0. PICK q \in Ids : q = comp[t].slot
      BY <1>4
    <2>1. /\ q <= count /\ q > session[t].last /\ Owned(t, q) /\ ~Carried(t, q, "compaction")
      BY <1>5, <2>0 DEF SideInv
    <2>2. session[t].last \in Ids
      BY DEF TypeInv, Points
    <2>3. Owned(t, q)'
      BY <2>1, <2>2, OwnedElsewhere
    <2>4. Carried(t, q, "compaction")' => Carried(t, q, "compaction")
      BY Elsewhere
    <2>5. q <= count'
      BY <2>1, <2>2, <1>3 DEF Ids
    <2>6. q > session[t].last /\ q <= count' /\ Owned(t, q)' /\ ~Carried(t, q, "compaction")'
      BY <2>1, <2>3, <2>4, <2>5
    <2> QED BY <2>0, <2>6, <1>1 DEF Owned, Carried
  <1>6. ASSUME refine[t].slot # 0
        PROVE  refine[t].slot <= count' /\ ~Carried(t, refine[t].slot, "refinement")'
    <2>0. PICK q \in Ids : q = refine[t].slot
      BY <1>4
    <2>1. q <= count /\ ~Carried(t, q, "refinement")
      BY <1>6, <2>0 DEF SideInv
    <2>3. Carried(t, q, "refinement")' => Carried(t, q, "refinement")
      BY Elsewhere
    <2>4. q <= count' /\ ~Carried(t, q, "refinement")'
      BY <2>1, <2>3, <1>3 DEF Ids
    <2> QED BY <2>0, <2>4, <1>1 DEF Carried
  <1>7. ASSUME comp[t].stage = "rollup", NEW x \in comp[t].captured
        PROVE  Kept(t, x[1], x[2])' \/ Kept(t, x[1], "attempt")'
    <2>1. Kept(t, x[1], x[2]) \/ Kept(t, x[1], "attempt")
      BY <1>7 DEF SideInv
    <2>2. Kept(t, x[1], x[2]) => Kept(t, x[1], x[2])'
      BY Elsewhere
    <2>3. Kept(t, x[1], "attempt") => Kept(t, x[1], "attempt")'
      BY Elsewhere
    <2> QED BY <2>1, <2>2, <2>3
  <1>8. /\ comp[t].stage # "none" =>
              comp[t].source = session[t].last /\ comp[t].captured \subseteq session[t].pending
        /\ refine[t].on => refine[t].source = session[t].last
        /\ call[t].kind = "summary" => call[t].inbound = Attempt(t)
    BY DEF SideInv
  <1> QED BY <1>1, <1>2, <1>5, <1>6, <1>7, <1>8 DEF SideInv, Owned, Carried

LEMMA Bystander ==
    ASSUME TypeInv, TypeInv', OriginInv, NEW s \in Sessions, World(s),
           NEW t \in Sessions, t # s, Still(t), SessionInv(t)
    PROVE  SessionInv(t)'
  <1>1. PointInv(t)' /\ SavedInv(t)' /\ CallInv(t)' /\ SideInv(t)'
    BY PointElsewhere, SavedElsewhere, CallElsewhere, SideElsewhere DEF SessionInv
  <1>2. StageInv(t)'
    BY DEF SessionInv, StageInv, Still
  <1>3. CellInv(t)'
    BY DEF SessionInv, CellInv, Still, World, TypeInv, Ids
  <1> QED BY <1>1, <1>2, <1>3 DEF SessionInv

----------------------------------------------------------------------------
\* A child that another session's step leaves alone.
LEMMA BirthElsewhere ==
    ASSUME TypeInv, NEW s \in Sessions, World(s), NEW c \in Children, c # s, Still(c),
           status'[c] = status[c], returned'[c] = returned[c], result'[c] = result[c],
           BirthInv(c)
    PROVE  BirthInv(c)'
  <1>1. /\ session'[c] = session[c] /\ phase'[c] = phase[c] /\ spawner'[c] = spawner[c]
    BY EdgeConstants DEF Still
  <1>2. count <= count' /\ count \in Nat /\ count' \in Nat
    BY DEF World, Ids
  <1>3. result[c] \in Nat /\ returned[c] \in Nat
    BY DEF TypeInv, Ids, Sessions
  <1>4. \A r \in Requests : origin'[r].by = c => origin[r].by = c
    BY DEF World
  <1> QED BY <1>1, <1>2, <1>3, <1>4 DEF BirthInv

\* The root is handed no return in this step, and carries no other than it had taken.
RootKeeps ==
    /\ \A x \in Waiting("root")' \cup saved'["root"].pending :
          x[2] = "return" => x \in Waiting("root") \cup saved["root"].pending
    /\ \A q \in Ids : Carried("root", q, "return")' =>
          Carried("root", q, "return") \/ <<q, "return">> \in Waiting("root")

\* What the root is handed of a child that has ended no prompt in this step, or has
\* ended one with its last request.
LEMMA ReturnStep ==
    ASSUME TypeInv, TypeInv', OriginInv, NEW s \in Sessions, World(s), SessionInv("root"),
           NEW c \in Children, ReturnInv(c), session[c].last <= count,
           status'[c] \in Live => status[c] \in Live,
           returned'[c] = returned[c],
           session[c].last <= session'[c].last,
           \/ result'[c] = result[c]
           \/ /\ result'[c] = session[c].last
              /\ (session[c].last # 0 => origin[session[c].last].by = c),
           RootKeeps
    PROVE  ReturnInv(c)'
  <1>0. /\ \A x \in Waiting("root")' \cup saved'["root"].pending :
              x[2] = "return" => x \in Waiting("root") \cup saved["root"].pending
        /\ \A q \in Ids : Carried("root", q, "return")' =>
              Carried("root", q, "return") \/ <<q, "return">> \in Waiting("root")
    BY DEF RootKeeps
  <1> SUFFICES ASSUME status'[c] \in Live PROVE ReturnInv(c)'
    BY DEF ReturnInv
  <1>1. /\ returned[c] <= result[c] /\ result[c] <= session[c].last
        /\ result[c] # 0 => origin[result[c]].by = c
        /\ \A x \in Waiting("root") \cup saved["root"].pending :
             x[2] = "return" /\ origin[x[1]].by = c => x[1] <= returned[c]
        /\ \A q \in 1 .. count :
              Carried("root", q, "return") /\ origin[q].by = c => q <= returned[c]
    BY DEF ReturnInv
  <1>2. /\ returned[c] \in Nat /\ result[c] \in Nat /\ session[c].last \in Nat
        /\ session'[c].last \in Nat /\ result'[c] \in Nat
    BY DEF TypeInv, Points, Ids, Sessions
  <1>3. returned'[c] <= result'[c] /\ result'[c] <= session'[c].last
    BY <1>1, <1>2
  <1>4. \A r \in 1 .. count : r \in Requests /\ origin'[r] = origin[r]
    BY EdgeConstants DEF World, Ids, Requests
  <1>5. result'[c] # 0 => result'[c] \in 1 .. count /\ origin[result'[c]].by = c
    <2>1. count \in Nat
      BY DEF World, Ids
    <2>2. result'[c] <= count
      BY <1>1, <1>2, <2>1
    <2>3. result'[c] # 0 => result'[c] \in 1 .. count
      BY <1>2, <2>1, <2>2
    <2> QED BY <2>3, <1>1
  <1>6. result'[c] # 0 => origin'[result'[c]].by = c
    BY <1>4, <1>5
  <1>7. \A x \in Waiting("root") \cup saved["root"].pending : x[1] \in 1 .. count
    BY DEF SessionInv, PointInv, SavedInv
  <1>8. \A x \in Waiting("root")' \cup saved'["root"].pending :
           x[2] = "return" /\ origin'[x[1]].by = c => x[1] <= returned'[c]
    BY <1>0, <1>1, <1>4, <1>7
  <1>9. ASSUME NEW q \in 1 .. count', Carried("root", q, "return")', origin'[q].by = c
        PROVE  q <= returned'[c]
    <2>1. q \in Ids
      BY EdgeConstants DEF World, Ids
    <2>2. CASE Carried("root", q, "return")
      <3>1. q \in 1 .. count
        BY <2>2 DEF Carried, OriginInv
      <3> QED BY <3>1, <2>2, <1>1, <1>4, <1>9
    <2>3. CASE <<q, "return">> \in Waiting("root")
      <3>1. <<q, "return">>[1] = q /\ <<q, "return">>[2] = "return"
        OBVIOUS
      <3>2. q \in 1 .. count
        BY <2>3, <3>1, <1>7
      <3>3. origin[q].by = c
        BY <3>2, <1>4, <1>9
      <3>4. origin[<<q, "return">>[1]].by = c
        BY <3>1, <3>3
      <3>5. <<q, "return">>[1] <= returned[c]
        BY <2>3, <3>1, <3>4, <1>1
      <3> QED BY <3>5, <3>1
    <2> QED BY <2>1, <2>2, <2>3, <1>0, <1>9
  <1>10. \A q \in 1 .. count' :
            Carried("root", q, "return")' /\ origin'[q].by = c => q <= returned'[c]
    BY <1>9
  <1> QED BY <1>3, <1>6, <1>8, <1>10 DEF ReturnInv

\* In the step of a child nothing changes at the root.
LEMMA RootElsewhere ==
    ASSUME TypeInv, OriginInv, NEW s \in Sessions, World(s), s # "root", Still("root")
    PROVE  RootKeeps
  <1>1. Waiting("root")' = Waiting("root") /\ saved'["root"] = saved["root"]
    BY DEF Still, Waiting, Taken
  <1>2. \A q \in Ids : Carried("root", q, "return")' => Carried("root", q, "return")
    BY Elsewhere DEF Sessions
  <1> QED BY <1>1, <1>2 DEF RootKeeps

----------------------------------------------------------------------------
\* The checkpoint of a prompt that goes on, and the lack of one.
LEMMA SavedStep ==
    ASSUME TypeInv, TypeInv', OriginInv, NEW s \in Sessions, World(s), gone' = gone,
           saved'[s] = saved[s], mark'[s] = mark[s], phase'[s] = "idle" => phase[s] = "idle",
           s # "root" => spawner'[s] = spawner[s],
           \A e \in edges' \ edges : e[3] = "cancel" \/ ~(e[2] <= mark[s].count),
           SavedInv(s)
    PROVE  SavedInv(s)'
  <1>2. count <= count' /\ count \in Nat /\ count' \in Nat
    BY DEF World, Ids
  <1>3. saved[s].last \in Ids /\ mark[s].count \in Ids
    BY DEF TypeInv, Points, Histories
  <1>4. saved[s].last <= mark[s].count /\ mark[s].count <= count' /\ saved[s].last <= count
    BY <1>2, <1>3 DEF SavedInv, Ids
  <1>5. Owned(s, saved[s].last)'
    <2>1. PICK q \in Ids : q = saved[s].last
      BY <1>3
    <2>2. Owned(s, q) /\ q <= count
      BY <2>1, <1>4 DEF SavedInv
    <2>3. Owned(s, q)'
      BY <2>2, OwnedHere
    <2> QED BY <2>1, <2>3 DEF Owned
  <1>6. \A l \in Single : l # "cancel"
    BY DEF Single
  <1>7. ASSUME NEW x \in saved[s].pending
        PROVE  x[1] \in 1 .. count' /\ (x[2] \in Single => ~CarriedBefore(s, x[1], x[2])')
    <2>1. x[1] \in 1 .. count /\ (x[2] \in Single => ~CarriedBefore(s, x[1], x[2]))
      BY DEF SavedInv
    <2>2. x[1] \in 1 .. count'
      BY <2>1, <1>2
    <2>3. x[2] # "cancel" => (CarriedBefore(s, x[1], x[2])' => CarriedBefore(s, x[1], x[2]))
      BY Here
    <2> QED BY <2>1, <2>2, <2>3, <1>6
  <1>8. ASSUME NEW q \in Ids, s # "root", ~saved[s].claimed
        PROVE  ~CarriedBefore(s, q, "call")'
    <2>1. CarriedBefore(s, q, "call")' => CarriedBefore(s, q, "call")
      BY Here
    <2> QED BY <2>1, <1>8 DEF SavedInv
  <1>9. ASSUME NEW x \in mark[s].due
        PROVE  \/ x \in saved[s].pending
               \/ x[2] = "call" /\ ~saved[s].claimed
               \/ KeptBefore(s, x[1], x[2])' \/ KeptBefore(s, x[1], "attempt")'
    <2>1. KeptBefore(s, x[1], x[2]) => KeptBefore(s, x[1], x[2])'
      BY Here
    <2>2. KeptBefore(s, x[1], "attempt") => KeptBefore(s, x[1], "attempt")'
      BY Here
    <2> QED BY <2>1, <2>2 DEF SavedInv
  <1>10. \A x \in mark[s].due : x[2] = "call" => s # "root" /\ x[1] = spawner'[s]
    BY DEF SavedInv
  <1>11. phase'[s] = "idle" => saved[s] = NoPoint /\ mark[s] = NoMark
    BY DEF SavedInv
  <1> QED BY <1>4, <1>5, <1>7, <1>8, <1>9, <1>10, <1>11 DEF SavedInv

LEMMA SavedReset ==
    ASSUME TypeInv', OriginInv', NEW s \in Sessions, saved'[s] = NoPoint, mark'[s] = NoMark
    PROVE  SavedInv(s)'
  <1>1. count' \in Nat
    BY DEF TypeInv, Ids
  <1>2. /\ saved'[s].last = 0 /\ saved'[s].pending = {} /\ mark'[s].count = 0 /\ mark'[s].due = {}
    BY DEF NoPoint, NoMark
  <1>3. \A e \in edges' : e[2] \in Nat /\ e[2] # 0
    BY EdgeConstants DEF TypeInv, Requests
  <1>4. \A q : ~CarriedBefore(s, q, "call")'
    BY <1>2, <1>3 DEF CarriedBefore
  <1>5. Owned(s, saved[s].last)'
    BY <1>2 DEF Owned
  <1> QED BY <1>1, <1>2, <1>4, <1>5 DEF SavedInv

\* The continuation point when nothing but deliveries are new.
LEMMA PointStep ==
    ASSUME TypeInv, TypeInv', OriginInv, NEW s \in Sessions, World(s), gone' = gone,
           session'[s].last = session[s].last, session'[s].claimed = session[s].claimed,
           s # "root" => spawner'[s] = spawner[s],
           NEW new, Waiting(s)' = Waiting(s) \cup new, due'[s] = due[s] \cup new,
           \A x \in new : /\ x[1] \in 1 .. count /\ x[2] # "call"
                          /\ x[2] \in Single => ~Carried(s, x[1], x[2]),
           \A e \in edges' \ edges :
              e[3] \notin Single \/ origin'[e[2]].kind # "work",
           PointInv(s)
    PROVE  PointInv(s)'
  <1>1. count <= count' /\ count \in Nat /\ count' \in Nat
    BY DEF World, Ids
  <1>2. session[s].last \in Ids
    BY DEF TypeInv, Points
  <1>3. session[s].last <= count'
    BY <1>1, <1>2 DEF PointInv, Ids
  <1>4. Owned(s, session[s].last)'
    <2>1. PICK q \in Ids : q = session[s].last
      BY <1>2
    <2>2. Owned(s, q) /\ q <= count
      BY <2>1 DEF PointInv
    <2>3. Owned(s, q)'
      BY <2>2, OwnedHere
    <2> QED BY <2>1, <2>3 DEF Owned
  <1>5. \A l \in Single : l # "cancel"
    BY DEF Single
  <1>6. ASSUME NEW q, NEW l \in Single
        PROVE  Carried(s, q, l)' => Carried(s, q, l)
    <2>1. \A e \in edges' \ edges : e[3] = l /\ e[3] # "cancel" => origin'[e[2]].kind # "work"
      OBVIOUS
    <2> QED BY <2>1, <1>5, Here
  <1>7. ASSUME NEW x \in Waiting(s)'
        PROVE  x[1] \in 1 .. count' /\ (x[2] \in Single => ~Carried(s, x[1], x[2])')
    <2>1. x[1] \in 1 .. count /\ (x[2] \in Single => ~Carried(s, x[1], x[2]))
      BY DEF PointInv
    <2> QED BY <2>1, <1>1, <1>6
  <1>8. ASSUME NEW q \in Ids, s # "root", ~session[s].claimed
        PROVE  ~Carried(s, q, "call")'
    <2>1. Carried(s, q, "call")' => Carried(s, q, "call")
      BY <1>6 DEF Single
    <2> QED BY <2>1, <1>8 DEF PointInv
  <1>9. ASSUME NEW x \in due'[s]
        PROVE  \/ x \in Waiting(s)'
               \/ x[2] = "call" /\ ~session[s].claimed
               \/ Kept(s, x[1], x[2])' \/ Kept(s, x[1], "attempt")'
    <2>1. Kept(s, x[1], x[2]) => Kept(s, x[1], x[2])'
      BY Here
    <2>2. Kept(s, x[1], "attempt") => Kept(s, x[1], "attempt")'
      BY Here
    <2> QED BY <2>1, <2>2 DEF PointInv
  <1>10. \A x \in due'[s] : x[2] = "call" => s # "root" /\ x[1] = spawner'[s]
    BY DEF PointInv
  <1> QED BY <1>3, <1>4, <1>7, <1>8, <1>9, <1>10 DEF PointInv

LEMMA PointStays ==
    ASSUME TypeInv, TypeInv', OriginInv, NEW s \in Sessions, World(s), gone' = gone,
           session'[s].last = session[s].last, session'[s].claimed = session[s].claimed,
           s # "root" => spawner'[s] = spawner[s],
           Waiting(s)' = Waiting(s), due'[s] = due[s],
           \A e \in edges' \ edges :
              e[3] \notin Single \/ origin'[e[2]].kind # "work",
           PointInv(s)
    PROVE  PointInv(s)'
  <1>1. PICK new : new = {}
    OBVIOUS
  <1>2. Waiting(s)' = Waiting(s) \cup new /\ due'[s] = due[s] \cup new
    BY <1>1
  <1>3. \A x \in new : /\ x[1] \in 1 .. count /\ x[2] # "call"
                       /\ x[2] \in Single => ~Carried(s, x[1], x[2])
    BY <1>1
  <1> QED BY <1>2, <1>3, PointStep

\* An open call goes on; a call begins.
LEMMA CallStep ==
    ASSUME TypeInv, TypeInv', OriginInv, NEW s \in Sessions, World(s), gone' = gone,
           call'[s] = call[s], mark'[s] = mark[s], session'[s].last = session[s].last,
           CallInv(s)
    PROVE  CallInv(s)'
  <1> SUFFICES ASSUME call[s].id # 0 PROVE CallInv(s)'
    BY DEF CallInv
  <1>0. PICK q \in Ids : q = call[s].id
    BY DEF TypeInv, Calls
  <1>1. /\ q <= count /\ q > mark[s].count /\ q \notin gone
        /\ origin[q] = [by |-> s, kind |-> call[s].kind, from |-> session[s].last]
        /\ \A x \in call[s].inbound : x[1] \in 1 .. count
        /\ session[s].last # 0 => \E x \in call[s].inbound : x[1] = session[s].last
    BY <1>0 DEF CallInv
  <1>2. Owned(s, q)
    BY <1>1 DEF Owned
  <1>3. Owned(s, q)' /\ origin'[q] = origin[q]
    BY <1>0, <1>1, <1>2, OwnedHere
  <1>4. count <= count' /\ count \in Nat /\ count' \in Nat
    BY DEF World, Ids
  <1>5. q <= count'
    BY <1>1, <1>4 DEF Ids
  <1>6. \A x \in call[s].inbound : x[1] \in 1 .. count'
    BY <1>1, <1>4
  <1> QED BY <1>0, <1>1, <1>3, <1>5, <1>6 DEF CallInv

LEMMA CallOpens ==
    ASSUME TypeInv, TypeInv', OriginInv, NEW s \in Sessions, NEW kind, NEW again, NEW inbound,
           gone' = gone, count' = count + 1,
           call'[s] = [id |-> count + 1, kind |-> kind, inbound |-> inbound, retry |-> again],
           origin'[count + 1] = [by |-> s, kind |-> kind, from |-> session[s].last],
           mark'[s] = mark[s], mark[s].count <= count, session'[s].last = session[s].last,
           \A x \in inbound : x[1] \in 1 .. count,
           session[s].last # 0 => \E x \in inbound : x[1] = session[s].last
    PROVE  CallInv(s)'
  <1>1. count \in Nat /\ mark[s].count \in Nat
    BY DEF TypeInv, Histories, Ids
  <1>2. call'[s].id = count + 1 /\ call'[s].kind = kind /\ call'[s].inbound = inbound
    OBVIOUS
  <1>3. count + 1 > mark[s].count /\ count + 1 <= count'
    BY <1>1
  <1>4. count + 1 \notin gone
    BY <1>1 DEF OriginInv
  <1>5. \A x \in inbound : x[1] \in 1 .. count'
    BY <1>1
  <1> QED BY <1>2, <1>3, <1>4, <1>5 DEF CallInv

\* No side operation is open.
LEMMA SideClosed ==
    ASSUME NEW s \in Sessions, comp'[s] = NoCompaction, refine'[s] = NoRefinement,
           call'[s].kind # "summary"
    PROVE  SideInv(s)'
  BY DEF SideInv, NoCompaction, NoRefinement

\* A side operation goes on.
LEMMA SideStep ==
    ASSUME TypeInv, TypeInv', OriginInv, NEW s \in Sessions, World(s), gone' = gone,
           session'[s] = session[s],
           comp'[s].stage # "none" => comp'[s].stage = comp[s].stage,
           comp'[s].source = comp[s].source, comp'[s].captured = comp[s].captured,
           comp'[s].slot \in {0, comp[s].slot},
           refine'[s].on => refine[s].on, refine'[s].source = refine[s].source,
           refine'[s].slot \in {0, refine[s].slot},
           call'[s].kind = "summary" => call'[s].inbound = Attempt(s)',
           \A e \in edges' \ edges :
              e[3] \notin Single \/ origin'[e[2]].kind # "work",
           SideInv(s)
    PROVE  SideInv(s)'
  <1>1. count <= count' /\ count \in Nat /\ count' \in Nat
    BY DEF World, Ids
  <1>2. \A l \in Single : l # "cancel"
    BY DEF Single
  <1>3. ASSUME NEW q, NEW l \in Single
        PROVE  Carried(s, q, l)' => Carried(s, q, l)
    <2>1. \A e \in edges' \ edges : e[3] = l /\ e[3] # "cancel" => origin'[e[2]].kind # "work"
      OBVIOUS
    <2> QED BY <2>1, <1>2, Here
  <1>4. comp'[s].slot \in Ids /\ refine'[s].slot \in Ids /\ session[s].last \in Ids
    BY DEF TypeInv, Compactions, Refinements, Points
  <1>5. ASSUME comp'[s].slot # 0
        PROVE  /\ comp'[s].slot <= count' /\ comp'[s].slot > session[s].last
               /\ Owned(s, comp[s].slot)' /\ ~Carried(s, comp[s].slot, "compaction")'
    <2>0. PICK q \in Ids : q = comp'[s].slot
      BY <1>4
    <2>1. q = comp[s].slot
      BY <2>0, <1>5
    <2>2. q <= count /\ q > session[s].last /\ Owned(s, q) /\ ~Carried(s, q, "compaction")
      BY <2>0, <2>1, <1>5 DEF SideInv
    <2>3. Owned(s, q)'
      BY <2>2, OwnedHere
    <2>4. ~Carried(s, q, "compaction")'
      BY <2>2, <1>3 DEF Single
    <2>5. q <= count'
      BY <2>2, <1>1 DEF Ids
    <2> QED BY <2>0, <2>2, <2>3, <2>4, <2>5 DEF Owned, Carried
  <1>6. ASSUME refine'[s].slot # 0
        PROVE  refine'[s].slot <= count' /\ ~Carried(s, refine[s].slot, "refinement")'
    <2>0. PICK q \in Ids : q = refine'[s].slot
      BY <1>4
    <2>1. q = refine[s].slot
      BY <2>0, <1>6
    <2>2. q <= count /\ ~Carried(s, q, "refinement")
      BY <2>0, <2>1, <1>6 DEF SideInv
    <2>3. ~Carried(s, q, "refinement")'
      BY <2>2, <1>3 DEF Single
    <2>4. q <= count'
      BY <2>2, <1>1 DEF Ids
    <2> QED BY <2>0, <2>3, <2>4 DEF Carried
  <1>7. ASSUME comp'[s].stage = "rollup", NEW x \in comp'[s].captured
        PROVE  Kept(s, x[1], x[2])' \/ Kept(s, x[1], "attempt")'
    <2>1. Kept(s, x[1], x[2]) \/ Kept(s, x[1], "attempt")
      BY <1>7 DEF SideInv
    <2>2. Kept(s, x[1], x[2]) => Kept(s, x[1], x[2])'
      BY Here
    <2>3. Kept(s, x[1], "attempt") => Kept(s, x[1], "attempt")'
      BY Here
    <2> QED BY <2>1, <2>2, <2>3
  <1>8. comp'[s].stage # "none" =>
           comp'[s].source = session'[s].last /\ comp'[s].captured \subseteq session'[s].pending
    BY DEF SideInv
  <1>9. refine'[s].on => refine'[s].source = session'[s].last
    BY DEF SideInv
  <1> QED BY <1>5, <1>6, <1>7, <1>8, <1>9 DEF SideInv, Owned, Carried

\* A side operation begins.
LEMMA SideBegins ==
    ASSUME NEW s \in Sessions, call'[s] = NoCall,
           \/ comp'[s].stage = "none" /\ comp'[s].slot = 0
           \/ /\ comp'[s].stage = "summary" /\ comp'[s].slot = 0
              /\ comp'[s].source = session'[s].last
              /\ comp'[s].captured \subseteq session'[s].pending,
           refine'[s].on => refine'[s].source = session'[s].last, refine'[s].slot = 0
    PROVE  SideInv(s)'
  BY DEF SideInv, NoCall

LEMMA CellStep ==
    ASSUME TypeInv, NEW s \in Sessions, World(s),
           \/ scope'[s] = 0 /\ phase'[s] # "cell"
           \/ scope'[s] = scope[s] /\ (phase'[s] = "cell" => phase[s] = "cell"),
           CellInv(s)
    PROVE  CellInv(s)'
  <1>1. count <= count' /\ count \in Nat /\ count' \in Nat /\ scope[s] \in Nat
    BY DEF World, TypeInv, Ids
  <1> QED BY <1>1 DEF CellInv

----------------------------------------------------------------------------
\* The histories that grow: nothing new, a request that starts, edges of a request of
\* the session that is open, a cancel.
LEMMA QuietHistory ==
    ASSUME TypeInv, OriginInv, ConsumedOnce, UNCHANGED <<count, origin, edges, gone>>
    PROVE  OriginInv' /\ ConsumedOnce'
  BY DEF OriginInv, ConsumedOnce, Surviving, NoOrigin

LEMMA StartHistory ==
    ASSUME TypeInv, OriginInv, ConsumedOnce, NEW s \in Sessions, NEW kind, count < MaxRequests,
           count' = count + 1, Originates(s, kind), UNCHANGED <<edges, gone>>,
           session[s].last <= count, Owned(s, session[s].last)
    PROVE  OriginInv' /\ ConsumedOnce'
  <1>1. /\ World(s)
        /\ origin'[count + 1] = [by |-> s, kind |-> kind, from |-> session[s].last]
        /\ \A r \in 1 .. count : origin'[r] = origin[r]
    BY Starts
  <1>2. count \in Nat /\ session[s].last \in Nat
    BY DEF TypeInv, Points, Ids
  <1>3. \A r \in Requests : r > count + 1 => origin'[r] = NoOrigin
    <2> SUFFICES ASSUME NEW r \in Requests, r > count + 1 PROVE origin'[r] = NoOrigin
      OBVIOUS
    <2>1. r # count + 1 /\ r > count
      BY <1>2 DEF Requests
    <2>2. origin'[r] = origin[r]
      BY <2>1 DEF Originates, TypeInv
    <2> QED BY <2>1, <2>2 DEF OriginInv
  <1>4. ASSUME NEW r \in Requests, ~(r > count + 1)
        PROVE  /\ origin'[r].by \in Sessions /\ origin'[r].from < r
               /\ LET q == origin'[r].from IN
                  q # 0 => origin'[q].by = origin'[r].by /\ (q \in gone => r \in gone)
    <2>1. CASE r = count + 1
      <3>1. origin'[r].by = s /\ origin'[r].from = session[s].last
        BY <2>1, <1>1
      <3>2. session[s].last # 0 => session[s].last \in 1 .. count
        BY <1>2
      <3>3. session[s].last # 0 => origin'[session[s].last].by = s /\ session[s].last \notin gone
        BY <3>2, <1>1 DEF Owned
      <3> QED BY <3>1, <3>3, <2>1, <1>2
    <2>2. CASE r # count + 1
      <3>1. r \in 1 .. count /\ ~(r > count)
        BY <2>2, <1>2, <1>4 DEF Requests
      <3>2. origin'[r] = origin[r]
        BY <3>1, <1>1
      <3>3. /\ origin[r].by \in Sessions /\ origin[r].from < r
            /\ origin[r].from # 0 => /\ origin[origin[r].from].by = origin[r].by
                                     /\ origin[r].from \in gone => r \in gone
        BY <3>1 DEF OriginInv
      <3>4. origin[r].from \in Nat
        BY DEF TypeInv, Origins, Ids
      <3>5. origin[r].from # 0 => origin[r].from \in 1 .. count
        BY <3>1, <3>3, <3>4, <1>2
      <3>6. origin[r].from # 0 => origin'[origin[r].from] = origin[origin[r].from]
        BY <3>5, <1>1
      <3> QED BY <3>2, <3>3, <3>6
    <2> QED BY <2>1, <2>2
  <1>5. \A e \in edges : e[2] \in 1 .. count /\ e[2] \in Requests /\ origin'[e[2]] = origin[e[2]]
    BY <1>1, EdgesKnown
  <1>6. \A e \in edges : e[1] \in 1 .. count + 1 /\ e[2] <= count + 1
    BY <1>2, <1>5 DEF OriginInv
  <1>7. \A r \in gone : r <= count + 1
    BY <1>2 DEF OriginInv, TypeInv, Requests
  <1>8. \A e \in edges : LET o == origin'[e[2]] IN
           e[3] # "cancel" /\ o.from # 0 => \E f \in edges : f[1] = o.from /\ f[2] = e[2]
    BY <1>5 DEF OriginInv
  <1>9. OriginInv'
    BY <1>3, <1>4, <1>6, <1>7, <1>8 DEF OriginInv, NoOrigin
  <1>10. ConsumedOnce'
    BY <1>5 DEF ConsumedOnce, Surviving
  <1> QED BY <1>9, <1>10

\* Edges of the session s are added, and none leads twice from a spawn, a return, a
\* compaction or a refinement to work; cancels are added as they come.
LEMMA EdgesHistory ==
    ASSUME TypeInv, TypeInv', OriginInv, ConsumedOnce, NEW s \in Sessions,
           UNCHANGED <<count, origin, gone>>, edges \subseteq edges',
           \A e \in edges' \ edges : e[1] \in 1 .. count /\ e[2] \in 1 .. count,
           \A e \in edges' \ edges : e[3] = "cancel" \/
              /\ origin[e[2]].by = s
              /\ origin[e[2]].from # 0 =>
                    \E f \in edges' : f[1] = origin[e[2]].from /\ f[2] = e[2]
              /\ \/ e[3] \notin Single \/ origin[e[2]].kind # "work"
                 \/ e[2] = call[s].id /\ ~Carried(s, e[1], e[3])
    PROVE  OriginInv' /\ ConsumedOnce' /\ World(s)
  <1>1. count \in Nat
    BY DEF TypeInv, Ids
  <1>2. World(s)
    BY DEF World, TypeInv, Ids
  <1>3. \A e \in edges' : e[1] \in 1 .. count /\ e[2] <= count
    BY <1>1 DEF OriginInv
  <1>4. \A e \in edges' : LET o == origin[e[2]] IN
           e[3] # "cancel" /\ o.from # 0 => \E f \in edges' : f[1] = o.from /\ f[2] = e[2]
    BY DEF OriginInv
  <1>5. OriginInv'
    BY <1>3, <1>4 DEF OriginInv, NoOrigin
  <1> DEFINE Twin(e, f) ==
         /\ e[1] = f[1] /\ e[3] = f[3] /\ e[3] \in Single
         /\ origin[e[2]].kind = "work" /\ origin[f[2]].kind = "work"
         /\ origin[e[2]].by = origin[f[2]].by
         /\ e[2] \notin gone /\ f[2] \notin gone
  <1>6. ASSUME NEW e \in edges' \ edges, NEW f \in edges, Twin(e, f)
        PROVE  FALSE
    <2>1. e[3] # "cancel"
      BY <1>6 DEF Single
    <2>2. origin[e[2]].by = s /\ ~Carried(s, e[1], e[3])
      BY <1>6, <2>1
    <2>3. f[1] = e[1] /\ f[3] = e[3] /\ f[2] \notin gone /\ origin[f[2]].by = s
          /\ origin[f[2]].kind = "work"
      BY <1>6, <2>2
    <2> QED BY <2>2, <2>3 DEF Carried
  <1>7. ASSUME NEW e \in edges' \ edges, NEW f \in edges' \ edges, Twin(e, f)
        PROVE  e = f
    <2>1. e[3] # "cancel" /\ f[3] # "cancel" /\ f[3] \in Single
      BY <1>7 DEF Single
    <2>2. e[2] = call[s].id /\ f[2] = call[s].id
      BY <1>7, <2>1
    <2>3. e \in Ids \X Requests \X Labels /\ f \in Ids \X Requests \X Labels
      BY DEF TypeInv
    <2> QED BY <2>2, <2>3, <1>7
  <1>8. ASSUME NEW e \in edges, NEW f \in edges, Twin(e, f)
        PROVE  e = f
    BY <1>8 DEF ConsumedOnce, Surviving, Single
  <1>9. ASSUME NEW e \in edges', NEW f \in edges', Twin(e, f)
        PROVE  e = f
    <2>1. Twin(f, e)
      BY <1>9
    <2>2. CASE e \in edges /\ f \in edges
      BY <1>8, <1>9, <2>2
    <2>3. CASE e \notin edges /\ f \notin edges
      BY <1>7, <1>9, <2>3
    <2>4. CASE e \notin edges /\ f \in edges
      BY <1>6, <1>9, <2>4
    <2>5. CASE e \in edges /\ f \notin edges
      BY <1>6, <2>1, <2>5
    <2> QED BY <2>2, <2>3, <2>4, <2>5
  <1>10. ConsumedOnce'
    BY <1>9 DEF ConsumedOnce, Surviving, Single
  <1> QED BY <1>2, <1>5, <1>10

\* The open request of a session is committed; a summary may add its violation.
LEMMA CommitHistory ==
    ASSUME TypeInv, TypeInv', OriginInv, ConsumedOnce, NEW s \in Sessions,
           UNCHANGED <<count, origin, gone>>, call[s].id # 0, CallInv(s), PointInv(s),
           NEW extra, edges' = edges \cup Into(call[s].inbound, call[s].id) \cup extra,
           \A e \in extra : e[1] \in 1 .. count /\ e[2] = call[s].id /\ e[3] = "violation",
           call[s].kind # "work" \/ phase[s] = "calling"
    PROVE  /\ OriginInv' /\ ConsumedOnce' /\ World(s)
           /\ \A e \in edges' \ edges :
                 e[2] = call[s].id /\ (e[3] \notin Single \/ origin'[e[2]].kind = call[s].kind)
  <1> DEFINE id == call[s].id
  <1>1. /\ id <= count /\ id \in Nat /\ count \in Nat /\ id \notin gone
        /\ origin[id] = [by |-> s, kind |-> call[s].kind, from |-> session[s].last]
        /\ \A x \in call[s].inbound : x[1] \in 1 .. count
        /\ session[s].last # 0 => \E x \in call[s].inbound : x[1] = session[s].last
    BY DEF CallInv, TypeInv, Calls, Ids
  <1>2. id \in 1 .. count
    BY <1>1
  <1>3. ASSUME NEW x \in call[s].inbound
        PROVE  <<x[1], id, x[2]>> \in edges'
    BY DEF Into
  <1>4. session[s].last # 0 => \E f \in edges' : f[1] = session[s].last /\ f[2] = id
    <2> SUFFICES ASSUME session[s].last # 0
                 PROVE  \E f \in edges' : f[1] = session[s].last /\ f[2] = id
      OBVIOUS
    <2>1. PICK x \in call[s].inbound : x[1] = session[s].last
      BY <1>1
    <2>2. <<x[1], id, x[2]>> \in edges'
      BY <1>3
    <2> QED BY <2>1, <2>2
  <1>5. ASSUME NEW e \in edges' \ edges
        PROVE  /\ e[1] \in 1 .. count /\ e[2] = id
               /\ \/ e[3] = "violation"
                  \/ <<e[1], e[3]>> \in call[s].inbound
    <2>1. CASE e \in extra
      BY <2>1
    <2>2. CASE e \in Into(call[s].inbound, id)
      <3>1. PICK x \in call[s].inbound : e = <<x[1], id, x[2]>>
        BY <2>2 DEF Into
      <3>2. e[1] = x[1] /\ e[2] = id /\ e[3] = x[2]
        BY <3>1
      <3>3. x \in Ids \X Labels
        BY DEF TypeInv, Calls, Marks
      <3>4. <<e[1], e[3]>> = x
        BY <3>2, <3>3
      <3> QED BY <3>2, <3>4, <1>1
    <2> QED BY <2>1, <2>2
  <1>6. ASSUME NEW e \in edges' \ edges, call[s].kind = "work", e[3] \in Single
        PROVE  ~Carried(s, e[1], e[3])
    <2>1. <<e[1], e[3]>> \in call[s].inbound
      BY <1>5, <1>6 DEF Single
    <2>2. <<e[1], e[3]>> \in Waiting(s)
      BY <2>1, <1>6 DEF Waiting, Taken
    <2>3. PICK p, l : p = e[1] /\ l = e[3]
      OBVIOUS
    <2>4. <<p, l>> \in Waiting(s) /\ <<p, l>>[1] = p /\ <<p, l>>[2] = l
      BY <2>2, <2>3
    <2>5. l \in Single => ~Carried(s, p, l)
      BY <2>4 DEF PointInv
    <2> QED BY <2>3, <2>5, <1>6
  <1>7. ASSUME NEW e \in edges' \ edges
        PROVE  /\ e[1] \in 1 .. count /\ e[2] \in 1 .. count /\ e[2] = id
               /\ origin[e[2]].by = s /\ origin[e[2]].kind = call[s].kind
               /\ origin[e[2]].from # 0 =>
                     \E f \in edges' : f[1] = origin[e[2]].from /\ f[2] = e[2]
               /\ \/ e[3] \notin Single \/ origin[e[2]].kind # "work"
                  \/ e[2] = call[s].id /\ ~Carried(s, e[1], e[3])
    <2>1. origin[e[2]] = [by |-> s, kind |-> call[s].kind, from |-> session[s].last]
      BY <1>1, <1>5
    <2>2. origin[e[2]].by = s /\ origin[e[2]].kind = call[s].kind
          /\ origin[e[2]].from = session[s].last
      BY <2>1
    <2> QED BY <2>2, <1>2, <1>4, <1>5, <1>6
  <1>8. edges \subseteq edges'
    OBVIOUS
  <1>9. OriginInv' /\ ConsumedOnce' /\ World(s)
    BY <1>7, <1>8, EdgesHistory
  <1> QED BY <1>7, <1>9

\* The requests of a session's prompt go; a cancel may be recorded of it.
LEMMA UnwindHistory ==
    ASSUME TypeInv, TypeInv', OriginInv, ConsumedOnce, NEW s \in Sessions,
           UNCHANGED <<count, origin>>,
           gone' = gone \cup {r \in Requests : origin[r].by = s /\ r > mark[s].count},
           edges \subseteq edges',
           \A e \in edges' \ edges :
              e[1] \in 1 .. count /\ e[2] \in 1 .. count /\ e[3] = "cancel"
    PROVE  OriginInv' /\ ConsumedOnce' /\ World(s)
  <1>1. count \in Nat /\ mark[s].count \in Nat
    BY DEF TypeInv, Histories, Ids
  <1>2. World(s)
    BY DEF World, TypeInv, Ids
  <1>3. \A e \in edges' : e[1] \in 1 .. count /\ e[2] <= count
    BY <1>1 DEF OriginInv
  <1>4. \A e \in edges' : LET o == origin[e[2]] IN
           e[3] # "cancel" /\ o.from # 0 => \E f \in edges' : f[1] = o.from /\ f[2] = e[2]
    BY DEF OriginInv
  <1>5. ASSUME NEW r \in gone'
        PROVE  r <= count
    <2>1. CASE r \in gone
      BY <2>1 DEF OriginInv
    <2>2. CASE r \in Requests /\ origin[r].by = s
      <3>1. s # "none"
        BY EdgeConstants DEF Sessions
      <3> QED BY <2>2, <3>1, <1>1 DEF OriginInv, NoOrigin, Requests
    <2> QED BY <2>1, <2>2
  <1>6. ASSUME NEW r \in Requests, ~(r > count), origin[r].from # 0, origin[r].from \in gone'
        PROVE  r \in gone'
    <2>1. origin[r].from < r /\ origin[origin[r].from].by = origin[r].by
          /\ (origin[r].from \in gone => r \in gone)
      BY <1>6 DEF OriginInv
    <2>2. CASE origin[r].from \in gone
      BY <2>1, <2>2
    <2>3. CASE origin[origin[r].from].by = s /\ origin[r].from > mark[s].count
      <3>1. origin[r].from \in Nat /\ r \in Nat
        BY EdgeConstants DEF TypeInv, Origins, Ids, Requests
      <3>2. r > mark[s].count
        BY <3>1, <2>1, <2>3, <1>1
      <3> QED BY <3>2, <2>1, <2>3
    <2> QED BY <2>2, <2>3, <1>6
  <1>7. OriginInv'
    BY <1>3, <1>4, <1>5, <1>6 DEF OriginInv, NoOrigin
  <1>8. Surviving' \subseteq Surviving \cup {e \in edges' : e[3] = "cancel"}
    BY DEF Surviving
  <1>9. ConsumedOnce'
    BY <1>8 DEF ConsumedOnce
  <1> QED BY <1>2, <1>7, <1>9

----------------------------------------------------------------------------
\* Parts of records, and the values that stand for none.
LEMMA Fields ==
    ASSUME TypeInv, NEW s \in Sessions
    PROVE  /\ session[s] \in Points /\ saved[s] \in Points /\ session[s].last \in Ids
           /\ session[s].pending \in SUBSET Marks /\ session[s].claimed \in BOOLEAN
           /\ call[s] \in Calls /\ call[s].id \in Ids /\ call[s].inbound \in SUBSET Marks
           /\ comp[s] \in Compactions /\ comp[s].slot \in Ids /\ comp[s].source \in Ids
           /\ comp[s].captured \in SUBSET Marks /\ comp[s].retry \in BOOLEAN
           /\ refine[s] \in Refinements /\ refine[s].slot \in Ids /\ refine[s].source \in Ids
           /\ scope[s] \in Ids /\ returned[s] \in Ids /\ mail[s] \in SUBSET Ids
           /\ due[s] \in SUBSET Marks /\ mark[s].count \in Ids /\ mark[s].due \in SUBSET Marks
  BY DEF TypeInv, Points, Calls, Compactions, Refinements, Histories

LEMMA Blanks ==
    /\ 0 \in Ids
    /\ NoPoint \in Points /\ NoCall \in Calls /\ NoCompaction \in Compactions
    /\ NoRefinement \in Refinements /\ NoMark \in Histories
  <1>1. 0 \in Ids
    BY EdgeConstants DEF Ids
  <1> QED BY <1>1 DEF NoPoint, NoCall, NoCompaction, NoRefinement, NoMark, Points, Calls,
                      Kinds, Compactions, Refinements, Histories

LEMMA Next1 ==
    ASSUME TypeInv, count < MaxRequests
    PROVE  count + 1 \in Ids /\ count + 1 \in Requests /\ count + 1 # 0
  BY EdgeConstants DEF TypeInv, Ids, Requests

LEMMA OriginTyped ==
    ASSUME TypeInv, count < MaxRequests, NEW s \in Sessions, NEW kind \in Kinds,
           Originates(s, kind)
    PROVE  origin' \in [Requests -> Origins]
  <1>1. [by |-> s, kind |-> kind, from |-> session[s].last] \in Origins
    BY Fields DEF Origins
  <1> QED BY <1>1 DEF TypeInv, Originates

LEMMA DeliverTyped ==
    ASSUME TypeInv, NEW s \in Sessions, NEW new \in SUBSET Marks, Deliver(s, new)
    PROVE  session' \in [Sessions -> Points] /\ due' \in [Sessions -> SUBSET Marks]
  <1> DEFINE known == {e \in new : e[1] # 0}
  <1>1. session[s].pending \cup known \in SUBSET Marks /\ due[s] \cup known \in SUBSET Marks
    BY Fields
  <1>2. session' = [session EXCEPT ![s].pending = @ \cup known]
        /\ due' = [due EXCEPT ![s] = @ \cup known]
    BY DEF Deliver
  <1> HIDE DEF known
  <1>3. [session[s] EXCEPT !.pending = @ \cup known] \in Points
    BY <1>1, Fields DEF Points
  <1>4. session' = [session EXCEPT ![s] = [session[s] EXCEPT !.pending = @ \cup known]]
    BY <1>2
  <1> QED BY <1>1, <1>2, <1>3, <1>4 DEF TypeInv

LEMMA PutBackTyped ==
    ASSUME TypeInv, NEW s \in Sessions, PutBack(s)
    PROVE  session' \in [Sessions -> Points]
  <1>1. [session[s] EXCEPT !.pending = @ \cup call[s].inbound] \in Points
    BY Fields DEF Points
  <1>2. session' = [session EXCEPT ![s] = [session[s] EXCEPT !.pending = @ \cup call[s].inbound]]
    BY DEF PutBack
  <1> QED BY <1>1, <1>2 DEF TypeInv

LEMMA IntoTyped ==
    ASSUME TypeInv, NEW s \in Sessions, call[s].id # 0
    PROVE  Into(call[s].inbound, call[s].id) \subseteq Ids \X Requests \X Labels
  <1>1. call[s].id \in Requests
    BY Fields, EdgeConstants DEF Ids, Requests
  <1>2. call[s].inbound \subseteq Ids \X Labels
    BY Fields DEF Marks
  <1> QED BY <1>1, <1>2 DEF Into

LEMMA EndsTyped ==
    ASSUME TypeInv, NEW s \in Sessions, NEW last \in Ids, EndsAs(s, last)
    PROVE  /\ phase' \in [Sessions -> Phases] /\ saved' \in [Sessions -> Points]
           /\ mark' \in [Sessions -> Histories] /\ status' \in [Children -> Statuses]
           /\ result' \in [Children -> Ids] /\ mail' \in [Sessions -> SUBSET Ids]
           /\ UNCHANGED <<origin, gone, due, spawner>>
  <1>1. /\ phase' \in [Sessions -> Phases] /\ saved' \in [Sessions -> Points]
        /\ mark' \in [Sessions -> Histories] /\ UNCHANGED <<origin, gone, due>>
    BY Blanks DEF EndsAs, TypeInv, Phases
  <1>2. CASE s = "root"
    BY <1>1, <1>2 DEF EndsAs, TypeInv, treeVars
  <1>3. CASE s # "root"
    <2>1. /\ status' = [status EXCEPT ![s] = IF s \notin Persistent THEN "completed"
                                             ELSE IF mail[s] = {} THEN "idle" ELSE "running"]
          /\ result' = [result EXCEPT ![s] = last]
          /\ mail' = [mail EXCEPT !["root"] = @ \cup ({last} \ {0})]
          /\ UNCHANGED spawner
      BY <1>3 DEF EndsAs
    <2>2. status' \in [Children -> Statuses]
      BY <2>1 DEF TypeInv, Statuses
    <2>3. result' \in [Children -> Ids]
      BY <2>1 DEF TypeInv
    <2>4. mail' \in [Sessions -> SUBSET Ids]
      BY <2>1 DEF TypeInv
    <2> QED BY <1>1, <2>1, <2>2, <2>3, <2>4
  <1> QED BY <1>2, <1>3

LEMMA UnwindTyped ==
    ASSUME TypeInv, NEW s \in Sessions, Unwind(s)
    PROVE  /\ session' \in [Sessions -> Points] /\ call' \in [Sessions -> Calls]
           /\ comp' \in [Sessions -> Compactions] /\ refine' \in [Sessions -> Refinements]
           /\ phase' \in [Sessions -> Phases] /\ scope' \in [Sessions -> Ids]
           /\ saved' \in [Sessions -> Points] /\ gone' \subseteq Requests
           /\ due' \in [Sessions -> SUBSET Marks] /\ mark' \in [Sessions -> Histories]
  <1>1. session' \in [Sessions -> Points] /\ saved' \in [Sessions -> Points]
    BY Blanks, Fields DEF Unwind, Restored, TypeInv
  <1>2. call' \in [Sessions -> Calls] /\ comp' \in [Sessions -> Compactions]
        /\ refine' \in [Sessions -> Refinements] /\ scope' \in [Sessions -> Ids]
    BY Blanks DEF Unwind, TypeInv
  <1>3. phase' \in [Sessions -> Phases] /\ gone' \subseteq Requests
    BY DEF Unwind, TypeInv, Phases
  <1>4. due' \in [Sessions -> SUBSET Marks] /\ mark' \in [Sessions -> Histories]
    BY Blanks, Fields DEF Unwind, TypeInv
  <1> QED BY <1>1, <1>2, <1>3, <1>4

LEMMA CancelTyped ==
    ASSUME TypeInv, NEW c \in Children, NEW target \in Ids, RecordCancel(c, target)
    PROVE  edges' \subseteq Ids \X Requests \X Labels
  <1>1. target # 0 => target \in Requests
    BY EdgeConstants DEF Ids, Requests
  <1>2. scope["root"] \in Ids
    BY Fields DEF Sessions
  <1> QED BY <1>1, <1>2 DEF RecordCancel, TypeInv, Labels

----------------------------------------------------------------------------
\* The root's edges when none is added that could be a return.
LEMMA RootSame ==
    ASSUME TypeInv, OriginInv, World("root"), gone' = gone,
           \A e \in edges' \ edges : e[3] \notin Single \/ origin'[e[2]].kind # "work",
           \A x \in Waiting("root")' \cup saved'["root"].pending :
              x[2] = "return" => x \in Waiting("root") \cup saved["root"].pending
    PROVE  RootKeeps
  <1>1. \A e \in edges' \ edges :
           e[3] = "return" /\ e[3] # "cancel" => origin'[e[2]].kind # "work"
    BY DEF Single
  <1>2. \A q \in Ids : Carried("root", q, "return")' => Carried("root", q, "return")
    BY <1>1, Here DEF Sessions
  <1> QED BY <1>2 DEF RootKeeps

\* A child in a prompt that goes on.
LEMMA ChildGoes ==
    ASSUME IInv, TypeInv', NEW s \in Children, World(s), \A t \in Sessions : t # s => Still(t),
           status[s] = "running", UNCHANGED <<returned, status, result, spawner>>,
           session[s].last <= session'[s].last
    PROVE  BirthInv(s)' /\ ReturnInv(s)'
  <1>1. s \in Sessions /\ s # "root" /\ "root" \in Sessions
    BY EdgeConstants DEF Sessions
  <1>2. TypeInv /\ OriginInv /\ SessionInv("root") /\ SessionInv(s) /\ BirthInv(s) /\ ReturnInv(s)
    BY <1>1 DEF IInv
  <1>3. RootKeeps
    BY <1>1, <1>2, RootElsewhere
  <1>4. session[s].last <= count
    BY <1>2 DEF SessionInv, PointInv
  <1>5. ReturnInv(s)'
    BY <1>1, <1>2, <1>3, <1>4, ReturnStep
  <1>6. count <= count' /\ count \in Nat /\ count' \in Nat
        /\ result[s] \in Nat /\ returned[s] \in Nat
    BY <1>1, <1>2 DEF World, Ids, TypeInv
  <1>7. BirthInv(s)'
    BY <1>2, <1>6 DEF BirthInv
  <1> QED BY <1>5, <1>7

\* The sessions that a step leaves alone.
LEMMA Gather ==
    ASSUME IInv, TypeInv', OriginInv', ConsumedOnce', NeverRaises', MailInv',
           NEW s \in Sessions, World(s), \A t \in Sessions : t # s => Still(t), SessionInv(s)',
           \A c \in Children : BirthInv(c)' /\ ReturnInv(c)'
    PROVE  IInv'
  <1>1. TypeInv /\ OriginInv /\ \A t \in Sessions : SessionInv(t)
    BY DEF IInv
  <1>2. \A t \in Sessions : SessionInv(t)'
    <2> SUFFICES ASSUME NEW t \in Sessions PROVE SessionInv(t)'
      OBVIOUS
    <2>1. CASE t = s
      BY <2>1
    <2>2. CASE t # s
      BY <2>2, <1>1, Bystander
    <2> QED BY <2>1, <2>2
  <1> QED BY <1>2 DEF IInv

\* A step of a session that leaves the others alone.
LEMMA Assemble ==
    ASSUME IInv, TypeInv', OriginInv', ConsumedOnce', NeverRaises', MailInv',
           NEW s \in Sessions, World(s), \A t \in Sessions : t # s => Still(t), SessionInv(s)',
           s = "root" => RootKeeps,
           \A c \in Children :
              \/ BirthInv(c)' /\ ReturnInv(c)'
              \/ /\ c # s /\ status'[c] = status[c]
                 /\ returned'[c] = returned[c] /\ result'[c] = result[c]
    PROVE  IInv'
  <1>1. TypeInv /\ OriginInv /\ (\A t \in Sessions : SessionInv(t))
        /\ \A c \in Children : BirthInv(c) /\ ReturnInv(c)
    BY DEF IInv
  <1>3. "root" \in Sessions /\ \A c \in Children : c \in Sessions
    BY DEF Sessions
  <1>4. RootKeeps
    BY <1>1, <1>3, RootElsewhere
  <1>5. ASSUME NEW c \in Children, c # s, status'[c] = status[c],
               returned'[c] = returned[c], result'[c] = result[c]
        PROVE  BirthInv(c)' /\ ReturnInv(c)'
    <2>1. Still(c)
      BY <1>3, <1>5
    <2>2. BirthInv(c)'
      BY <2>1, <1>1, <1>5, BirthElsewhere
    <2>3. session'[c] = session[c] /\ session[c].last \in Nat
      BY <2>1, <1>1, <1>3 DEF Still, TypeInv, Points, Ids
    <2>4. session[c].last <= session'[c].last
      BY <2>3
    <2>5. session[c].last <= count
      BY <1>1, <1>3 DEF SessionInv, PointInv
    <2>6. ReturnInv(c)'
      BY <2>4, <2>5, <1>1, <1>3, <1>4, <1>5, ReturnStep
    <2> QED BY <2>2, <2>6
  <1>6. \A c \in Children : BirthInv(c)' /\ ReturnInv(c)'
    BY <1>5
  <1> QED BY <1>6, Gather

\* ... that is inside a prompt.
LEMMA Inner ==
    ASSUME IInv, TypeInv', OriginInv', ConsumedOnce', NeverRaises', MailInv',
           NEW s \in Sessions, World(s), \A t \in Sessions : t # s => Still(t), SessionInv(s)',
           s # "root" => status[s] = "running",
           UNCHANGED <<returned, status, result, spawner>>,
           session[s].last <= session'[s].last, s = "root" => RootKeeps
    PROVE  IInv'
  <1>1. s # "root" => s \in Children
    BY DEF Sessions
  <1>2. s # "root" => BirthInv(s)' /\ ReturnInv(s)'
    BY <1>1, ChildGoes
  <1>3. \A c \in Children : c = s => s # "root"
    BY EdgeConstants
  <1>4. \A c \in Children :
              \/ BirthInv(c)' /\ ReturnInv(c)'
              \/ /\ c # s /\ status'[c] = status[c]
                 /\ returned'[c] = returned[c] /\ result'[c] = result[c]
    BY <1>2, <1>3
  <1> QED BY <1>4, Assemble

\* ... that ends one.
LEMMA Ends ==
    ASSUME IInv, TypeInv', OriginInv', ConsumedOnce', NeverRaises',
           NEW s \in Sessions, World(s), \A t \in Sessions : t # s => Still(t), SessionInv(s)',
           EndsAs(s, session[s].last), UNCHANGED <<count, returned, spawner>>,
           session'[s].last = session[s].last, phase[s] # "idle", s = "root" => RootKeeps
    PROVE  IInv'
  <1>1. TypeInv /\ OriginInv /\ MailInv /\ SessionInv(s) /\ SessionInv("root")
        /\ \A c \in Children : BirthInv(c) /\ ReturnInv(c)
    BY DEF IInv, Sessions
  <1>2. count \in Nat /\ session[s].last \in Nat /\ session[s].last <= count
        /\ Owned(s, session[s].last)
    BY <1>1 DEF TypeInv, Points, Ids, SessionInv, PointInv
  <1>3. MailInv'
    <2>1. s = "root" => mail' = mail
      BY DEF EndsAs, treeVars
    <2>2. s # "root" => mail' = [mail EXCEPT !["root"] = @ \cup ({session[s].last} \ {0})]
      BY DEF EndsAs
    <2>3. mail \in [Sessions -> SUBSET Ids]
      BY <1>1 DEF TypeInv
    <2> QED BY <1>1, <1>2, <2>1, <2>2, <2>3 DEF MailInv
  <1>4. ASSUME NEW c \in Children, c # s
        PROVE  status'[c] = status[c] /\ returned'[c] = returned[c] /\ result'[c] = result[c]
    <2>1. CASE s = "root"
      BY <2>1 DEF EndsAs, treeVars
    <2>2. CASE s # "root"
      BY <2>2, <1>1, <1>4 DEF EndsAs, TypeInv
    <2> QED BY <2>1, <2>2
  <1>5. ASSUME NEW c \in Children, c = s
        PROVE  BirthInv(c)' /\ ReturnInv(c)'
    <2>1. s # "root" /\ s \in Children /\ "root" \in Sessions
      BY <1>5, EdgeConstants DEF Sessions
    <2>2. status[s] = "running" /\ returned[s] <= count /\ spawner[s] \in 1 .. count
      BY <2>1, <1>1 DEF BirthInv
    <2>3. status'[s] \in Live /\ result'[s] = session[s].last /\ phase'[s] = "idle"
      BY <2>1, <1>1 DEF EndsAs, TypeInv, Live
    <2>4. BirthInv(s)'
      BY <2>2, <2>3, <1>2 DEF BirthInv, Live
    <2>5. RootKeeps
      BY <2>1, <1>1, RootElsewhere
    <2>6. session[s].last # 0 => origin[session[s].last].by = s
      BY <1>2 DEF Owned
    <2>7. status[s] \in Live
      BY <2>2 DEF Live
    <2>8. returned'[s] = returned[s] /\ session[s].last <= session'[s].last
      BY <1>2
    <2>9. ReturnInv(s)'
      BY <2>1, <2>3, <2>5, <2>6, <2>7, <2>8, <1>1, <1>2, ReturnStep
    <2> QED BY <2>4, <2>9, <1>5
  <1>6. \A c \in Children :
              \/ BirthInv(c)' /\ ReturnInv(c)'
              \/ /\ c # s /\ status'[c] = status[c]
                 /\ returned'[c] = returned[c] /\ result'[c] = result[c]
    BY <1>4, <1>5
  <1> QED BY <1>3, <1>6, Assemble

----------------------------------------------------------------------------
LEMMA Known ==
    ASSUME IInv, NEW s \in Sessions
    PROVE  /\ TypeInv /\ OriginInv /\ ConsumedOnce /\ MailInv /\ raised = FALSE
           /\ PointInv(s) /\ SavedInv(s) /\ CallInv(s) /\ StageInv(s) /\ SideInv(s) /\ CellInv(s)
           /\ s # "root" => s \in Children /\ BirthInv(s) /\ ReturnInv(s)
           /\ s # "root" /\ phase[s] # "idle" => status[s] = "running"
           /\ count \in Nat /\ session[s].last \in Nat
  <1>1. /\ TypeInv /\ OriginInv /\ ConsumedOnce /\ MailInv /\ NeverRaises /\ SessionInv(s)
        /\ s # "root" => s \in Children /\ BirthInv(s) /\ ReturnInv(s)
    BY DEF IInv, Sessions
  <1>2. raised = FALSE
    BY <1>1 DEF NeverRaises
  <1>3. s # "root" /\ phase[s] # "idle" => status[s] = "running"
    BY <1>1 DEF BirthInv
  <1> QED BY <1>1, <1>2, <1>3 DEF TypeInv, Points, Ids, SessionInv

\* A step that starts no request and adds no edge.
LEMMA Quietly ==
    ASSUME IInv, NEW s \in Sessions, UNCHANGED <<count, origin, edges, gone>>
    PROVE  OriginInv' /\ ConsumedOnce' /\ World(s) /\ gone' = gone /\ edges' \ edges = {}
  BY Known, QuietHistory, SameHistory

\* The checkpoint that is taken when a prompt begins.
LEMMA SavedBegins ==
    ASSUME OriginInv', NEW s \in Sessions, PointInv(s)', count' \in Nat,
           phase'[s] = "ready", saved'[s] = session'[s],
           mark'[s].count = count', mark'[s].due = due'[s]
    PROVE  SavedInv(s)'
  <1>1. Waiting(s)' = session'[s].pending
    BY DEF Waiting, Taken
  <1>2. \A e \in edges' : e[2] <= count'
    BY DEF OriginInv
  <1>3. \A q, l : Kept(s, q, l)' => KeptBefore(s, q, l)'
    BY <1>2 DEF Kept, KeptBefore
  <1>4. \A q, l : CarriedBefore(s, q, l)' => Carried(s, q, l)'
    BY DEF Carried, CarriedBefore
  <1>5. /\ session'[s].last <= count' /\ Owned(s, session[s].last)'
        /\ \A x \in session'[s].pending :
              x[1] \in 1 .. count' /\ (x[2] \in Single => ~Carried(s, x[1], x[2])')
        /\ s # "root" /\ ~session'[s].claimed => \A q \in Ids : ~Carried(s, q, "call")'
        /\ \A x \in due'[s] :
              /\ x[2] = "call" => s # "root" /\ x[1] = spawner'[s]
              /\ \/ x \in session'[s].pending
                 \/ x[2] = "call" /\ ~session'[s].claimed
                 \/ Kept(s, x[1], x[2])' \/ Kept(s, x[1], "attempt")'
    BY <1>1 DEF PointInv
  <1>6. Owned(s, saved[s].last)'
    BY <1>5 DEF Owned
  <1>7. saved'[s].last <= mark'[s].count /\ mark'[s].count <= count'
    BY <1>5
  <1>8. \A x \in saved'[s].pending :
           x[1] \in 1 .. count' /\ (x[2] \in Single => ~CarriedBefore(s, x[1], x[2])')
    BY <1>4, <1>5
  <1>9. s # "root" /\ ~saved'[s].claimed => \A q \in Ids : ~CarriedBefore(s, q, "call")'
    BY <1>4, <1>5
  <1>10. \A x \in mark'[s].due :
              /\ x[2] = "call" => s # "root" /\ x[1] = spawner'[s]
              /\ \/ x \in saved'[s].pending
                 \/ x[2] = "call" /\ ~saved'[s].claimed
                 \/ KeptBefore(s, x[1], x[2])' \/ KeptBefore(s, x[1], "attempt")'
    BY <1>3, <1>5
  <1> QED BY <1>6, <1>7, <1>8, <1>9, <1>10 DEF SavedInv

LEMMA BeginPromptStep ==
    ASSUME IInv, NEW s \in Sessions, BeginPrompt(s)
    PROVE  IInv'
  <1> DEFINE new == IF s = "root" THEN {} ELSE IF result[s] # 0
                      THEN {<<q, "message">> : q \in mail[s]} ELSE {}
             known == {e \in new : e[1] # 0}
  <1>1. /\ Running(s) /\ phase[s] = "idle" /\ Deliver(s, new)
        /\ mail' = [mail EXCEPT ![s] = IF new = {} THEN @ ELSE {}]
        /\ saved' = [saved EXCEPT ![s] = session'[s]]
        /\ mark' = [mark EXCEPT ![s] = [count |-> count, due |-> due'[s]]]
        /\ phase' = [phase EXCEPT ![s] = "ready"]
        /\ UNCHANGED <<count, returned, stopped, edges, raised, call, scope, comp, refine,
                       status, spawner, result, sent, origin, gone>>
    BY DEF BeginPrompt
  <1>2. TypeInv /\ OriginInv /\ MailInv /\ raised = FALSE /\ PointInv(s) /\ StageInv(s)
        /\ CellInv(s) /\ count \in Nat /\ session[s].last \in Nat
    BY Known
  <1>3. mail[s] \in SUBSET Ids /\ \A q \in mail[s] : q <= count
    BY <1>2, Fields DEF MailInv
  <1>4. new \in SUBSET Marks /\ \A x \in new : x[2] = "message" /\ x[1] <= count /\ x[1] \in Nat
    BY <1>3 DEF Marks, Labels, Ids
  <1>5. \A x \in known : x[1] \in 1 .. count /\ x[2] = "message" /\ x \in Marks
    BY <1>2, <1>4
  <1>6. s = "root" => known = {}
    OBVIOUS
  <1>7. session' = [session EXCEPT ![s].pending = @ \cup known]
        /\ due' = [due EXCEPT ![s] = @ \cup known]
    BY <1>1 DEF Deliver
  <1> HIDE DEF new
  <1>8. session' \in [Sessions -> Points] /\ due' \in [Sessions -> SUBSET Marks]
    BY <1>1, <1>2, <1>4, DeliverTyped
  <1> HIDE DEF known
  <1>9. TypeInv'
    <2>1. [count |-> count, due |-> due'[s]] \in Histories
      BY <1>2, <1>8 DEF TypeInv, Histories
    <2>2. saved' \in [Sessions -> Points] /\ mark' \in [Sessions -> Histories]
      BY <1>1, <1>2, <1>8, <2>1 DEF TypeInv
    <2>3. mail' \in [Sessions -> SUBSET Ids] /\ phase' \in [Sessions -> Phases]
      BY <1>1, <1>2 DEF TypeInv, Phases
    <2> QED BY <1>1, <1>2, <1>8, <2>2, <2>3 DEF TypeInv
  <1>10. OriginInv' /\ ConsumedOnce' /\ World(s) /\ gone' = gone /\ edges' \ edges = {}
    BY <1>1, Quietly
  <1>11. MailInv' /\ NeverRaises'
    BY <1>1, <1>2 DEF MailInv, NeverRaises, TypeInv
  <1>12. \A t \in Sessions : t # s => Still(t)
    BY <1>1, <1>2, <1>7 DEF TypeInv, Still
  <1>13. session'[s].last = session[s].last /\ session'[s].claimed = session[s].claimed
         /\ session'[s].pending = session[s].pending \cup known /\ due'[s] = due[s] \cup known
         /\ phase'[s] = "ready" /\ saved'[s] = session'[s]
         /\ mark'[s].count = count' /\ mark'[s].due = due'[s]
    BY <1>1, <1>2, <1>7 DEF TypeInv, Points
  <1>14. Waiting(s)' = Waiting(s) \cup known
    BY <1>1, <1>13 DEF Waiting, Taken
  <1>15. PointInv(s)'
    BY <1>1, <1>2, <1>5, <1>9, <1>10, <1>13, <1>14, PointStep DEF Single
  <1>16. SavedInv(s)'
    BY <1>1, <1>2, <1>10, <1>13, <1>15, SavedBegins
  <1>17. call[s] = NoCall /\ comp[s] = NoCompaction /\ refine[s] = NoRefinement
    BY <1>1, <1>2 DEF StageInv
  <1>18. CallInv(s)' /\ SideInv(s)'
    BY <1>1, <1>17, SideClosed DEF CallInv, NoCall
  <1>19. StageInv(s)'
    BY <1>1, <1>13, <1>17 DEF StageInv, NoCall
  <1>20. CellInv(s)'
    BY <1>1, <1>2, <1>10, <1>13, CellStep
  <1>21. s # "root" => status[s] = "running"
    BY <1>1 DEF Running
  <1>22. s = "root" => RootKeeps
    BY <1>2, <1>6, <1>10, <1>13, <1>14, RootSame DEF Waiting
  <1>23. session[s].last <= session'[s].last
    BY <1>2, <1>13
  <1>24. SessionInv(s)'
    BY <1>15, <1>16, <1>18, <1>19, <1>20 DEF SessionInv
  <1> QED BY <1>1, <1>9, <1>10, <1>11, <1>12, <1>21, <1>22, <1>23, <1>24, Inner

\* What a quiet step of a prompt that goes on has to show.
LEMMA QuietInner ==
    ASSUME IInv, TypeInv', NEW s \in Sessions, UNCHANGED <<count, origin, edges, gone>>,
           raised' = FALSE, mail' = mail, \A t \in Sessions : t # s => Still(t),
           phase[s] # "idle", phase'[s] # "idle", saved'[s] = saved[s], mark'[s] = mark[s],
           UNCHANGED <<returned, status, result, spawner>>,
           session'[s].last = session[s].last, session'[s].claimed = session[s].claimed,
           Waiting(s)' = Waiting(s), due'[s] = due[s], call'[s] = NoCall,
           StageInv(s)', SideInv(s)',
           \/ scope'[s] = 0 /\ phase'[s] # "cell"
           \/ scope'[s] = scope[s] /\ (phase'[s] = "cell" => phase[s] = "cell")
    PROVE  IInv'
  <1>1. TypeInv /\ OriginInv /\ MailInv /\ PointInv(s) /\ SavedInv(s) /\ CellInv(s)
        /\ session[s].last \in Nat
    BY Known
  <1>2. OriginInv' /\ ConsumedOnce' /\ World(s) /\ gone' = gone /\ edges' \ edges = {}
    BY Quietly
  <1>3. MailInv' /\ NeverRaises'
    BY <1>1 DEF MailInv, NeverRaises
  <1>4. s # "root" => spawner'[s] = spawner[s]
    OBVIOUS
  <1>6. PointInv(s)'
    BY <1>1, <1>2, <1>4, PointStays
  <1>7. SavedInv(s)'
    BY <1>1, <1>2, <1>4, SavedStep
  <1>8. CallInv(s)'
    BY DEF CallInv, NoCall
  <1>9. CellInv(s)'
    BY <1>1, <1>2, CellStep
  <1>10. SessionInv(s)'
    BY <1>6, <1>7, <1>8, <1>9 DEF SessionInv
  <1>11. s = "root" => RootKeeps
    BY <1>1, <1>2, RootSame
  <1>12. s # "root" => status[s] = "running"
    BY Known
  <1>13. session[s].last <= session'[s].last
    BY <1>1
  <1> QED BY <1>2, <1>3, <1>10, <1>11, <1>12, <1>13, Inner

LEMMA OverflowStep ==
    ASSUME IInv, NEW s \in Sessions, Overflow(s)
    PROVE  IInv'
  <1> DEFINE new == [stage |-> "summary", source |-> session[s].last, slot |-> 0, retry |-> TRUE,
                     captured |-> session'[s].pending]
  <1>1. /\ phase[s] = "calling" /\ PutBack(s)
        /\ comp' = [comp EXCEPT ![s] = new]
        /\ call' = [call EXCEPT ![s] = NoCall] /\ phase' = [phase EXCEPT ![s] = "side"]
        /\ UNCHANGED <<count, returned, stopped, edges, raised, saved, scope, refine>>
        /\ UNCHANGED <<status, spawner, result, mail, sent, origin, gone, due, mark>>
    BY DEF Overflow, treeVars, historyVars
  <1>2. TypeInv /\ StageInv(s) /\ raised = FALSE
    BY Known
  <1>3. session' \in [Sessions -> Points]
    BY <1>1, <1>2, PutBackTyped
  <1>4. new \in Compactions
    BY <1>2, <1>3, Fields, Blanks DEF Compactions, Points
  <1>5. session'[s].last = session[s].last /\ session'[s].claimed = session[s].claimed
        /\ session'[s].pending = session[s].pending \cup call[s].inbound
        /\ \A t \in Sessions : t # s => session'[t] = session[t]
    BY <1>1, <1>2 DEF PutBack, TypeInv, Points
  <1>6. comp'[s].stage = "summary" /\ comp'[s].source = session[s].last /\ comp'[s].slot = 0
        /\ comp'[s].captured = session'[s].pending
    BY <1>1, <1>2 DEF TypeInv
  <1> HIDE DEF new
  <1>7. call'[s] = NoCall /\ phase'[s] = "side" /\ refine[s] = NoRefinement
    BY <1>1, <1>2 DEF TypeInv, StageInv
  <1>8. TypeInv'
    <2>1. comp' \in [Sessions -> Compactions] /\ call' \in [Sessions -> Calls]
          /\ phase' \in [Sessions -> Phases]
      BY <1>1, <1>2, <1>4, Blanks DEF TypeInv, Phases
    <2> QED BY <1>1, <1>2, <1>3, <2>1 DEF TypeInv
  <1>9. \A t \in Sessions : t # s => Still(t)
    BY <1>1, <1>2, <1>5 DEF TypeInv, Still
  <1>10. Waiting(s)' = Waiting(s)
    BY <1>1, <1>5, <1>7 DEF Waiting, Taken
  <1>11. StageInv(s)'
    BY <1>1, <1>6, <1>7 DEF StageInv, NoCall
  <1>12. SideInv(s)'
    BY <1>1, <1>5, <1>6, <1>7, SideBegins DEF NoRefinement
  <1> QED BY <1>1, <1>2, <1>5, <1>7, <1>8, <1>9, <1>10, <1>11, <1>12, QuietInner

LEMMA BeginCompactionStep ==
    ASSUME IInv, NEW s \in Sessions, BeginCompaction(s)
    PROVE  IInv'
  <1>0. PICK again \in BOOLEAN :
          comp' = [comp EXCEPT ![s] =
            [stage |-> "summary", source |-> session[s].last, slot |-> 0, retry |-> again,
             captured |-> session[s].pending]]
    BY DEF BeginCompaction
  <1> DEFINE new == [stage |-> "summary", source |-> session[s].last, slot |-> 0, retry |-> again,
                     captured |-> session[s].pending]
  <1>1. /\ phase[s] = "replied" /\ comp' = [comp EXCEPT ![s] = new]
        /\ phase' = [phase EXCEPT ![s] = "side"]
        /\ UNCHANGED <<count, session, returned, stopped, edges, raised>>
        /\ UNCHANGED <<saved, call, scope, refine>>
        /\ UNCHANGED <<status, spawner, result, mail, sent, origin, gone, due, mark>>
    BY <1>0 DEF BeginCompaction, trackerVars, treeVars, historyVars
  <1>2. TypeInv /\ StageInv(s) /\ raised = FALSE
    BY Known
  <1>4. new \in Compactions
    BY <1>2, Fields, Blanks DEF Compactions
  <1>6. comp'[s].stage = "summary" /\ comp'[s].source = session[s].last /\ comp'[s].slot = 0
        /\ comp'[s].captured = session[s].pending
    BY <1>1, <1>2 DEF TypeInv
  <1> HIDE DEF new
  <1>7. call[s] = NoCall /\ phase'[s] = "side" /\ refine[s] = NoRefinement
    BY <1>1, <1>2 DEF TypeInv, StageInv
  <1>8. TypeInv'
    <2>1. comp' \in [Sessions -> Compactions] /\ phase' \in [Sessions -> Phases]
      BY <1>1, <1>2, <1>4 DEF TypeInv, Phases
    <2> QED BY <1>1, <1>2, <2>1 DEF TypeInv
  <1>9. \A t \in Sessions : t # s => Still(t)
    BY <1>1, <1>2 DEF TypeInv, Still
  <1>10. Waiting(s)' = Waiting(s)
    BY <1>1, <1>7 DEF Waiting, Taken
  <1>11. StageInv(s)'
    BY <1>1, <1>6, <1>7 DEF StageInv, NoCall
  <1>12. SideInv(s)'
    BY <1>1, <1>6, <1>7, SideBegins DEF NoRefinement
  <1> QED BY <1>1, <1>2, <1>7, <1>8, <1>9, <1>10, <1>11, <1>12, QuietInner

LEMMA BeginRefinementStep ==
    ASSUME IInv, NEW s \in Sessions, BeginRefinement(s)
    PROVE  IInv'
  <1> DEFINE new == [on |-> TRUE, source |-> session[s].last, slot |-> 0]
  <1>1. /\ phase[s] \in {"ready", "replied"} /\ refine' = [refine EXCEPT ![s] = new]
        /\ phase' = [phase EXCEPT ![s] = "side"]
        /\ UNCHANGED <<count, session, returned, stopped, edges, raised>>
        /\ UNCHANGED <<saved, call, scope, comp>>
        /\ UNCHANGED <<status, spawner, result, mail, sent, origin, gone, due, mark>>
    BY DEF BeginRefinement, trackerVars, treeVars, historyVars
  <1>2. TypeInv /\ StageInv(s) /\ raised = FALSE
    BY Known
  <1>4. new \in Refinements
    BY <1>2, Fields, Blanks DEF Refinements
  <1>6. refine'[s].on /\ refine'[s].source = session[s].last /\ refine'[s].slot = 0
    BY <1>1, <1>2 DEF TypeInv
  <1> HIDE DEF new
  <1>7. call[s] = NoCall /\ phase'[s] = "side" /\ comp[s] = NoCompaction
    BY <1>1, <1>2 DEF TypeInv, StageInv
  <1>8. TypeInv'
    <2>1. refine' \in [Sessions -> Refinements] /\ phase' \in [Sessions -> Phases]
      BY <1>1, <1>2, <1>4 DEF TypeInv, Phases
    <2> QED BY <1>1, <1>2, <2>1 DEF TypeInv
  <1>9. \A t \in Sessions : t # s => Still(t)
    BY <1>1, <1>2 DEF TypeInv, Still
  <1>10. Waiting(s)' = Waiting(s)
    BY <1>1, <1>7 DEF Waiting, Taken
  <1>11. StageInv(s)'
    BY <1>1, <1>6, <1>7 DEF StageInv, NoCall
  <1>12. SideInv(s)'
    BY <1>1, <1>6, <1>7, SideBegins DEF NoCompaction
  <1> QED BY <1>1, <1>2, <1>7, <1>8, <1>9, <1>10, <1>11, <1>12, QuietInner

LEMMA CloseCellStep ==
    ASSUME IInv, NEW s \in Sessions, CloseCell(s)
    PROVE  IInv'
  <1>1. /\ phase[s] = "cell" /\ phase' = [phase EXCEPT ![s] = "replied"]
        /\ scope' = [scope EXCEPT ![s] = 0]
        /\ UNCHANGED <<count, session, returned, stopped, edges, raised>>
        /\ UNCHANGED <<saved, call, comp, refine>>
        /\ UNCHANGED <<status, spawner, result, mail, sent, origin, gone, due, mark>>
    BY DEF CloseCell, InCell, trackerVars, treeVars, historyVars
  <1>2. TypeInv /\ StageInv(s) /\ raised = FALSE
    BY Known
  <1>7. call[s] = NoCall /\ phase'[s] = "replied" /\ comp[s] = NoCompaction
        /\ refine[s] = NoRefinement /\ scope'[s] = 0
    BY <1>1, <1>2 DEF TypeInv, StageInv
  <1>8. TypeInv'
    <2>1. scope' \in [Sessions -> Ids] /\ phase' \in [Sessions -> Phases]
      BY <1>1, <1>2, Blanks DEF TypeInv, Phases
    <2> QED BY <1>1, <1>2, <2>1 DEF TypeInv
  <1>9. \A t \in Sessions : t # s => Still(t)
    BY <1>1, <1>2 DEF TypeInv, Still
  <1>10. Waiting(s)' = Waiting(s)
    BY <1>1, <1>7 DEF Waiting, Taken
  <1>11. StageInv(s)'
    BY <1>1, <1>7 DEF StageInv, NoCall
  <1>12. SideInv(s)'
    BY <1>1, <1>7, SideClosed DEF NoCall
  <1> QED BY <1>1, <1>2, <1>7, <1>8, <1>9, <1>10, <1>11, <1>12, QuietInner

\* A side operation that lets its call or its slot go, or ends.
LEMMA FailSideStep ==
    ASSUME IInv, NEW s \in Sessions, FailSide(s)
    PROVE  IInv'
  <1>1. /\ phase[s] = "side" /\ call[s] # NoCall /\ call' = [call EXCEPT ![s] = NoCall]
        /\ comp' = [comp EXCEPT ![s].slot = IF @ = call[s].id THEN 0 ELSE @]
        /\ refine' = [refine EXCEPT ![s].slot = IF @ = call[s].id THEN 0 ELSE @]
        /\ UNCHANGED <<count, session, returned, stopped, edges, raised>>
        /\ UNCHANGED <<saved, phase, scope>>
        /\ UNCHANGED <<status, spawner, result, mail, sent, origin, gone, due, mark>>
    BY DEF FailSide, Quiet, trackerVars, treeVars, historyVars
  <1>2. TypeInv /\ OriginInv /\ StageInv(s) /\ SideInv(s) /\ raised = FALSE
    BY Known
  <1>3. comp[s] \in Compactions /\ refine[s] \in Refinements
    BY <1>2, Fields
  <1>4. /\ comp'[s] = [comp[s] EXCEPT !.slot = IF @ = call[s].id THEN 0 ELSE @]
        /\ refine'[s] = [refine[s] EXCEPT !.slot = IF @ = call[s].id THEN 0 ELSE @]
        /\ \A t \in Sessions : t # s => comp'[t] = comp[t] /\ refine'[t] = refine[t]
    BY <1>1, <1>2 DEF TypeInv
  <1>5. comp'[s] \in Compactions /\ refine'[s] \in Refinements
    BY <1>3, <1>4, Blanks DEF Compactions, Refinements
  <1>6. /\ comp'[s].stage = comp[s].stage /\ comp'[s].source = comp[s].source
        /\ comp'[s].captured = comp[s].captured
        /\ comp'[s].slot = (IF comp[s].slot = call[s].id THEN 0 ELSE comp[s].slot)
        /\ refine'[s].on = refine[s].on /\ refine'[s].source = refine[s].source
        /\ refine'[s].slot = (IF refine[s].slot = call[s].id THEN 0 ELSE refine[s].slot)
    BY <1>3, <1>4 DEF Compactions, Refinements
  <1>7. call'[s] = NoCall /\ phase'[s] = "side" /\ call[s].kind # "none" /\ call[s].id # 0
    BY <1>1, <1>2 DEF TypeInv, StageInv
  <1>8. TypeInv'
    <2>1. comp' = [comp EXCEPT ![s] = comp'[s]] /\ refine' = [refine EXCEPT ![s] = refine'[s]]
      BY <1>1, <1>2, <1>4 DEF TypeInv
    <2>2. comp' \in [Sessions -> Compactions] /\ refine' \in [Sessions -> Refinements]
          /\ call' \in [Sessions -> Calls]
      BY <1>1, <1>2, <1>5, <2>1, Blanks DEF TypeInv
    <2> QED BY <1>1, <1>2, <2>2 DEF TypeInv
  <1>9. \A t \in Sessions : t # s => Still(t)
    BY <1>1, <1>2, <1>4 DEF TypeInv, Still
  <1>10. Waiting(s)' = Waiting(s)
    BY <1>1, <1>7 DEF Waiting, Taken
  <1>11. comp[s] = NoCompaction => comp'[s] = NoCompaction
    BY <1>4, <1>7 DEF NoCompaction
  <1>12. refine[s] = NoRefinement => refine'[s] = NoRefinement
    BY <1>4, <1>7 DEF NoRefinement
  <1>13. StageInv(s)'
    <2>1. \/ comp[s].stage = "summary" /\ refine[s] = NoRefinement /\ comp[s].slot = call[s].id
          \/ comp[s].stage = "rollup" /\ refine[s] = NoRefinement
             /\ comp[s].slot # 0 /\ comp[s].slot # call[s].id
          \/ refine[s].on /\ comp[s] = NoCompaction /\ refine[s].slot = call[s].id
      BY <1>1, <1>2 DEF StageInv
    <2>2. \/ comp'[s].stage = "summary" /\ refine'[s] = NoRefinement /\ comp'[s].slot = 0
          \/ comp'[s].stage = "rollup" /\ refine'[s] = NoRefinement /\ comp'[s].slot # 0
          \/ refine'[s].on /\ comp'[s] = NoCompaction /\ refine'[s].slot = 0
      BY <2>1, <1>6, <1>11, <1>12
    <2> QED BY <2>2, <1>7 DEF StageInv, NoCall
  <1>14. World(s)
    BY <1>1, <1>2, SameHistory
  <1>15. SideInv(s)'
    BY <1>1, <1>2, <1>6, <1>7, <1>8, <1>14, SideStep DEF NoCall
  <1> QED BY <1>1, <1>2, <1>7, <1>8, <1>9, <1>10, <1>13, <1>15, QuietInner

----------------------------------------------------------------------------
\* What a step that ends a prompt has to show.
LEMMA Ending ==
    ASSUME IInv, TypeInv', OriginInv', ConsumedOnce', raised' = FALSE,
           NEW s \in Sessions, World(s), gone' = gone,
           \A e \in edges' \ edges : e[3] \notin Single \/ origin'[e[2]].kind # "work",
           EndsAs(s, session[s].last), UNCHANGED <<count, returned>>, phase[s] # "idle",
           \A t \in Sessions : t # s =>
              /\ session'[t] = session[t] /\ call'[t] = call[t] /\ scope'[t] = scope[t]
              /\ comp'[t] = comp[t] /\ refine'[t] = refine[t],
           call'[s] = NoCall, comp'[s] = NoCompaction, refine'[s] = NoRefinement,
           scope'[s] = scope[s],
           session'[s].last = session[s].last, session'[s].claimed = session[s].claimed,
           Waiting(s)' = Waiting(s)
    PROVE  IInv'
  <1>1. TypeInv /\ OriginInv /\ PointInv(s) /\ CellInv(s)
    BY Known
  <1>2. /\ phase' = [phase EXCEPT ![s] = "idle"] /\ saved' = [saved EXCEPT ![s] = NoPoint]
        /\ mark' = [mark EXCEPT ![s] = NoMark] /\ UNCHANGED <<origin, gone, due>>
        /\ spawner' = spawner
    BY DEF EndsAs, treeVars
  <1>3. phase'[s] = "idle" /\ saved'[s] = NoPoint /\ mark'[s] = NoMark /\ due'[s] = due[s]
    BY <1>1, <1>2 DEF TypeInv
  <1>4. \A t \in Sessions : t # s => Still(t)
    BY <1>1, <1>2 DEF TypeInv, Still
  <1>14. s # "root" => spawner'[s] = spawner[s]
    BY <1>2
  <1>6. PointInv(s)'
    BY <1>1, <1>3, <1>14, PointStays
  <1>7. SavedInv(s)'
    BY <1>3, SavedReset
  <1>8. CallInv(s)' /\ SideInv(s)'
    BY SideClosed DEF CallInv, NoCall
  <1>9. CellInv(s)'
    BY <1>1, <1>3, CellStep
  <1>10. StageInv(s)'
    BY <1>3 DEF StageInv, NoCall
  <1>11. SessionInv(s)'
    BY <1>6, <1>7, <1>8, <1>9, <1>10 DEF SessionInv
  <1>12. s = "root" => RootKeeps
    BY <1>1, <1>3, RootSame DEF NoPoint
  <1>13. NeverRaises'
    BY DEF NeverRaises
  <1> QED BY <1>2, <1>4, <1>11, <1>12, <1>13, Ends

LEMMA EndPromptStep ==
    ASSUME IInv, NEW s \in Sessions, EndPrompt(s)
    PROVE  IInv'
  <1>1. /\ phase[s] \in {"ready", "replied"} /\ EndsAs(s, session[s].last)
        /\ UNCHANGED <<count, session, returned, stopped, edges, raised, call, scope, comp, refine>>
        /\ UNCHANGED <<origin, gone>>
    BY DEF EndPrompt, trackerVars, EndsAs
  <1>2. TypeInv /\ StageInv(s) /\ raised = FALSE
    BY Known
  <1>3. TypeInv'
    BY <1>1, <1>2, EndsTyped, Fields DEF TypeInv
  <1>4. OriginInv' /\ ConsumedOnce' /\ World(s) /\ gone' = gone /\ edges' \ edges = {}
    BY <1>1, Quietly
  <1>5. call[s] = NoCall /\ comp[s] = NoCompaction /\ refine[s] = NoRefinement
    BY <1>1, <1>2 DEF StageInv
  <1>6. phase'[s] = "idle"
    BY <1>1, <1>2 DEF EndsAs, TypeInv
  <1>7. Waiting(s)' = Waiting(s)
    BY <1>1, <1>6 DEF Waiting, Taken
  <1> QED BY <1>1, <1>2, <1>3, <1>4, <1>5, <1>7, Ending

LEMMA GiveUpSummaryStep ==
    ASSUME IInv, NEW s \in Sessions, GiveUpSummary(s)
    PROVE  IInv'
  <1>1. /\ comp[s].stage = "summary" /\ call[s] = NoCall /\ EndsAs(s, session[s].last)
        /\ comp' = [comp EXCEPT ![s] = NoCompaction]
        /\ UNCHANGED <<count, session, returned, stopped, edges, raised, call, scope, refine>>
        /\ UNCHANGED <<origin, gone>>
    BY DEF GiveUpSummary, trackerVars, EndsAs, Quiet
  <1>2. TypeInv /\ StageInv(s) /\ raised = FALSE
    BY Known
  <1>3. TypeInv'
    <2>1. comp' \in [Sessions -> Compactions]
      BY <1>1, <1>2, Blanks DEF TypeInv
    <2> QED BY <1>1, <1>2, <2>1, EndsTyped, Fields DEF TypeInv
  <1>4. OriginInv' /\ ConsumedOnce' /\ World(s) /\ gone' = gone /\ edges' \ edges = {}
    BY <1>1, Quietly
  <1>5. phase[s] = "side" /\ refine[s] = NoRefinement
    <2>1. comp[s] # NoCompaction
      BY <1>1 DEF NoCompaction
    <2>2. phase[s] = "side"
      BY <2>1, <1>2 DEF StageInv
    <2> QED BY <2>1, <2>2, <1>1, <1>2 DEF StageInv
  <1>6. /\ phase'[s] = "idle" /\ comp'[s] = NoCompaction
        /\ \A t \in Sessions : t # s => comp'[t] = comp[t]
    BY <1>1, <1>2 DEF EndsAs, TypeInv
  <1>7. Waiting(s)' = Waiting(s)
    BY <1>1, <1>5, <1>6 DEF Waiting, Taken
  <1> QED BY <1>1, <1>2, <1>3, <1>4, <1>5, <1>6, <1>7, Ending

LEMMA OverflowAgainStep ==
    ASSUME IInv, NEW s \in Sessions, OverflowAgain(s)
    PROVE  IInv'
  <1>1. /\ phase[s] = "calling" /\ PutBack(s) /\ EndsAs(s, session[s].last)
        /\ call' = [call EXCEPT ![s] = NoCall]
        /\ UNCHANGED <<count, returned, stopped, edges, raised, scope, comp, refine>>
        /\ UNCHANGED <<origin, gone>>
    BY DEF OverflowAgain, EndsAs
  <1>2. TypeInv /\ StageInv(s) /\ raised = FALSE
    BY Known
  <1>3. TypeInv'
    <2>1. call' \in [Sessions -> Calls] /\ session' \in [Sessions -> Points]
      BY <1>1, <1>2, Blanks, PutBackTyped DEF TypeInv
    <2> QED BY <1>1, <1>2, <2>1, EndsTyped, Fields DEF TypeInv
  <1>4. OriginInv' /\ ConsumedOnce' /\ World(s) /\ gone' = gone /\ edges' \ edges = {}
    BY <1>1, Quietly
  <1>5. comp[s] = NoCompaction /\ refine[s] = NoRefinement
    BY <1>1, <1>2 DEF StageInv
  <1>6. phase'[s] = "idle" /\ call'[s] = NoCall /\ \A t \in Sessions : t # s => call'[t] = call[t]
    BY <1>1, <1>2 DEF EndsAs, TypeInv
  <1>7. session'[s].last = session[s].last /\ session'[s].claimed = session[s].claimed
        /\ session'[s].pending = session[s].pending \cup call[s].inbound
        /\ \A t \in Sessions : t # s => session'[t] = session[t]
    BY <1>1, <1>2 DEF PutBack, TypeInv, Points
  <1>8. Waiting(s)' = Waiting(s)
    BY <1>1, <1>6, <1>7 DEF Waiting, Taken
  <1> QED BY <1>1, <1>2, <1>3, <1>4, <1>5, <1>6, <1>7, <1>8, Ending

\* A plan that is not applied: its reply is committed if there is one.
LEMMA SideShape ==
    ASSUME IInv, NEW s \in Sessions, phase[s] = "side", call[s] # NoCall
    PROVE  /\ call[s].id # 0 /\ call[s].kind \in {"summary", "rollup", "plan"}
           /\ call[s].kind = "summary" =>
                 comp[s].stage = "summary" /\ comp[s].slot = call[s].id /\ refine[s] = NoRefinement
           /\ call[s].kind = "rollup" => comp[s].stage = "rollup" /\ refine[s] = NoRefinement
           /\ call[s].kind = "plan" =>
                 comp[s] = NoCompaction /\ refine[s].on /\ refine[s].slot = call[s].id
  BY Known DEF StageInv

LEMMA FinishCompactionStep ==
    ASSUME IInv, NEW s \in Sessions, FinishCompaction(s)
    PROVE  IInv'
  <1> DEFINE slot == comp[s].slot
             edge == <<slot, "compaction">>
             point == [session[s] EXCEPT !.last = slot,
                         !.pending = (@ \ comp[s].captured) \cup {edge}]
  <1>1. /\ comp[s].stage = "rollup" /\ call[s] = NoCall
        /\ raised' = (raised \/ slot = 0 \/ ~(comp[s].captured \subseteq session[s].pending))
        /\ session' = [session EXCEPT ![s] = session'[s]] /\ session'[s] = point
        /\ \A t \in Sessions : t # s => session'[t] = session[t]
        /\ due' = [due EXCEPT ![s] = @ \cup {edge}]
        /\ phase' = [phase EXCEPT ![s] = IF comp[s].retry THEN "retry" ELSE "ready"]
        /\ comp' = [comp EXCEPT ![s] = NoCompaction]
        /\ UNCHANGED <<count, returned, stopped, edges, saved, call, scope, refine>>
        /\ UNCHANGED <<status, spawner, result, mail, sent, origin, gone, mark>>
    <2>1. session' = [session EXCEPT
            ![s].last = comp[s].slot,
            ![s].pending = (@ \ comp[s].captured) \cup {<<comp[s].slot, "compaction">>}]
      BY DEF FinishCompaction
    <2>2. session \in [Sessions -> Points]
      BY Known DEF TypeInv
    <2>5. /\ session'[s] = point /\ \A t \in Sessions : t # s => session'[t] = session[t]
          /\ session' = [session EXCEPT ![s] = session'[s]]
      BY <2>1, <2>2 DEF Points
    <2>3. raised' = (raised \/ slot = 0 \/ ~(comp[s].captured \subseteq session[s].pending))
      BY DEF FinishCompaction
    <2>4. due' = [due EXCEPT ![s] = @ \cup {edge}]
      BY DEF FinishCompaction
    <2> HIDE DEF point, slot, edge
    <2> QED BY <2>3, <2>4, <2>5 DEF FinishCompaction, Quiet, treeVars
  <1>2. /\ TypeInv /\ OriginInv /\ MailInv /\ raised = FALSE /\ PointInv(s) /\ SavedInv(s)
        /\ StageInv(s) /\ SideInv(s) /\ CellInv(s) /\ count \in Nat /\ session[s].last \in Nat
    BY Known
  <1>3. phase[s] = "side" /\ refine[s] = NoRefinement /\ slot # 0
    <2>1. comp[s] # NoCompaction
      BY <1>1 DEF NoCompaction
    <2>2. phase[s] = "side"
      BY <2>1, <1>2 DEF StageInv
    <2> QED BY <2>1, <2>2, <1>1, <1>2 DEF StageInv
  <1>4. /\ comp[s].captured \subseteq session[s].pending /\ slot \in 1 .. count
        /\ slot > session[s].last /\ Owned(s, slot) /\ ~Carried(s, slot, "compaction")
        /\ \A x \in comp[s].captured : Kept(s, x[1], x[2]) \/ Kept(s, x[1], "attempt")
    <2>1. slot \in Ids
      BY <1>2, Fields
    <2> QED BY <2>1, <1>1, <1>2, <1>3 DEF SideInv, Ids
  <1>5. edge \in Marks /\ edge[1] = slot /\ edge[2] = "compaction"
    BY <1>2, Fields DEF Marks, Labels
  <1>6. point \in Points /\ session' \in [Sessions -> Points]
    <2>1. session[s] \in Points /\ slot \in Ids
      BY <1>2, Fields
    <2>2. (session[s].pending \ comp[s].captured) \cup {edge} \in SUBSET Marks
      BY <1>2, <1>5, Fields
    <2>3. point \in Points
      BY <2>1, <2>2 DEF Points
    <2> QED BY <1>1, <1>2, <2>3 DEF TypeInv
  <1>7. /\ session'[s].last = slot /\ session'[s].claimed = session[s].claimed
        /\ session'[s].pending = (session[s].pending \ comp[s].captured) \cup {edge}
        /\ due'[s] = due[s] \cup {edge} /\ phase'[s] \in {"ready", "retry"}
        /\ comp'[s] = NoCompaction
    <2>1. session[s] \in Points /\ session'[s] = point
      BY <1>1, <1>2, Fields DEF TypeInv
    <2>2. session'[s].last = slot /\ session'[s].claimed = session[s].claimed
          /\ session'[s].pending = (session[s].pending \ comp[s].captured) \cup {edge}
      BY <2>1 DEF Points
    <2> QED BY <1>1, <1>2, <2>2 DEF TypeInv
  <1> HIDE DEF point
  <1>8. TypeInv'
    <2>0. due[s] \cup {edge} \in SUBSET Marks /\ due' = [due EXCEPT ![s] = due[s] \cup {edge}]
      BY <1>1, <1>2, <1>5, Fields
    <2> HIDE DEF edge
    <2>1. due' \in [Sessions -> SUBSET Marks]
      BY <2>0, <1>2 DEF TypeInv
    <2>2. phase' \in [Sessions -> Phases] /\ comp' \in [Sessions -> Compactions]
      BY <1>1, <1>2, Blanks DEF TypeInv, Phases
    <2> QED BY <1>1, <1>2, <1>6, <2>1, <2>2 DEF TypeInv
  <1>9. OriginInv' /\ ConsumedOnce' /\ World(s) /\ gone' = gone /\ edges' \ edges = {}
    BY <1>1, Quietly
  <1>10. \A t \in Sessions : t # s => Still(t)
    BY <1>1, <1>2 DEF TypeInv, Still
  <1>11. Waiting(s) = session[s].pending /\ Waiting(s)' = session'[s].pending
    BY <1>3, <1>7 DEF Waiting, Taken
  <1>12. ASSUME NEW q, NEW l
         PROVE  (Carried(s, q, l)' <=> Carried(s, q, l)) /\ (Kept(s, q, l)' <=> Kept(s, q, l))
    BY <1>1 DEF Carried, Kept
  <1>13. PointInv(s)'
    <2>1. session'[s].last <= count' /\ Owned(s, session[s].last)'
      BY <1>1, <1>4, <1>7 DEF Owned
    <2>2. ASSUME NEW x \in Waiting(s)'
          PROVE  x[1] \in 1 .. count' /\ (x[2] \in Single => ~Carried(s, x[1], x[2])')
      <3>1. CASE x \in session[s].pending
        BY <3>1, <1>1, <1>2, <1>11, <1>12 DEF PointInv
      <3>2. CASE x = edge
        <4>1. PICK q : q = slot
          OBVIOUS
        <4>2. ~Carried(s, q, "compaction")
          BY <4>1, <1>4
        <4>3. ~Carried(s, q, "compaction")'
          BY <4>2, <1>12
        <4>4. x[1] = q /\ x[2] = "compaction"
          BY <3>2, <4>1, <1>5
        <4> QED BY <4>1, <4>3, <4>4, <1>1, <1>4
      <3> QED BY <3>1, <3>2, <1>7, <1>11
    <2>3. ASSUME NEW q \in Ids, s # "root", ~session'[s].claimed
          PROVE  ~Carried(s, q, "call")'
      BY <2>3, <1>2, <1>7, <1>12 DEF PointInv
    <2>4. ASSUME NEW x \in due'[s]
          PROVE  /\ x[2] = "call" => s # "root" /\ x[1] = spawner'[s]
                 /\ \/ x \in Waiting(s)'
                    \/ x[2] = "call" /\ ~session'[s].claimed
                    \/ Kept(s, x[1], x[2])' \/ Kept(s, x[1], "attempt")'
      <3>1. CASE x = edge
        BY <3>1, <1>5, <1>7, <1>11
      <3>2. CASE x \in due[s]
        <4>1. /\ x[2] = "call" => s # "root" /\ x[1] = spawner[s]
              /\ \/ x \in Waiting(s)
                 \/ x[2] = "call" /\ ~session[s].claimed
                 \/ Kept(s, x[1], x[2]) \/ Kept(s, x[1], "attempt")
          BY <3>2, <1>2 DEF PointInv
        <4>2. x \in Waiting(s) => x \in Waiting(s)' \/ x \in comp[s].captured
          BY <1>7, <1>11
        <4>3. x \in comp[s].captured => Kept(s, x[1], x[2]) \/ Kept(s, x[1], "attempt")
          BY <1>4
        <4> QED BY <4>1, <4>2, <4>3, <1>1, <1>7, <1>12
      <3> QED BY <3>1, <3>2, <1>7
    <2> QED BY <2>1, <2>2, <2>3, <2>4 DEF PointInv
  <1>14. s # "root" => spawner'[s] = spawner[s]
    BY <1>1
  <1>15. saved'[s] = saved[s] /\ mark'[s] = mark[s] /\ phase'[s] # "idle"
    BY <1>1, <1>7
  <1>16. SavedInv(s)'
    BY <1>2, <1>8, <1>9, <1>14, <1>15, SavedStep
  <1>17. call'[s] = NoCall /\ refine'[s] = NoRefinement
    BY <1>1, <1>3
  <1>18. CallInv(s)' /\ SideInv(s)'
    BY <1>7, <1>17, SideClosed DEF CallInv, NoCall
  <1>19. StageInv(s)'
    BY <1>7, <1>17 DEF StageInv, NoCall
  <1>20. CellInv(s)'
    BY <1>1, <1>2, <1>7, <1>9, CellStep
  <1>21. SessionInv(s)'
    BY <1>13, <1>16, <1>18, <1>19, <1>20 DEF SessionInv
  <1>22. \A x \in Waiting(s)' \cup saved'[s].pending :
              x[2] = "return" => x \in Waiting(s) \cup saved[s].pending
    BY <1>5, <1>7, <1>11, <1>15
  <1>23. s = "root" => RootKeeps
    BY <1>2, <1>9, <1>22, RootSame
  <1>24. MailInv' /\ NeverRaises'
    BY <1>1, <1>2, <1>3, <1>4 DEF MailInv, NeverRaises
  <1>25. s # "root" => status[s] = "running"
    BY <1>3, Known
  <1>26. session[s].last <= session'[s].last
    BY <1>2, <1>4, <1>7
  <1> QED BY <1>1, <1>8, <1>9, <1>10, <1>21, <1>23, <1>24, <1>25, <1>26, Inner

----------------------------------------------------------------------------
\* What a step of a prompt that goes on has to show.
LEMMA Goes ==
    ASSUME IInv, TypeInv', OriginInv', ConsumedOnce', MailInv', raised' = FALSE,
           NEW s \in Sessions, World(s), gone' = gone,
           \A e \in edges' \ edges : e[3] = "cancel" \/ ~(e[2] <= mark[s].count),
           \A e \in edges' \ edges : e[3] \notin Single \/ origin'[e[2]].kind # "work",
           \A t \in Sessions : t # s => Still(t),
           phase[s] # "idle", phase'[s] # "idle", saved'[s] = saved[s], mark'[s] = mark[s],
           UNCHANGED <<returned, status, result, spawner>>,
           session'[s].last = session[s].last,
           \A x \in Waiting(s)' : x[2] = "return" => x \in Waiting(s),
           PointInv(s)', CallInv(s)', StageInv(s)', SideInv(s)',
           \/ scope'[s] = 0 /\ phase'[s] # "cell"
           \/ scope'[s] = scope[s] /\ (phase'[s] = "cell" => phase[s] = "cell")
    PROVE  IInv'
  <1>1. TypeInv /\ OriginInv /\ SavedInv(s) /\ CellInv(s) /\ session[s].last \in Nat
    BY Known
  <1>2. NeverRaises'
    BY DEF NeverRaises
  <1>3. s # "root" => spawner'[s] = spawner[s]
    OBVIOUS
  <1>4. SavedInv(s)'
    BY <1>1, <1>3, SavedStep
  <1>5. CellInv(s)'
    BY <1>1, CellStep
  <1>6. SessionInv(s)'
    BY <1>4, <1>5 DEF SessionInv
  <1>7. \A x \in Waiting(s)' \cup saved'[s].pending :
              x[2] = "return" => x \in Waiting(s) \cup saved[s].pending
    OBVIOUS
  <1>8. s = "root" => RootKeeps
    BY <1>1, <1>7, RootSame
  <1>9. s # "root" => status[s] = "running"
    BY Known
  <1>10. session[s].last <= session'[s].last
    BY <1>1
  <1> QED BY <1>2, <1>6, <1>8, <1>9, <1>10, Inner

\* The edges of a side request are committed, and those of its violation.
LEMMA SideCommit ==
    ASSUME IInv, TypeInv', NEW s \in Sessions, phase[s] = "side", call[s] # NoCall,
           UNCHANGED <<count, origin, gone>>,
           NEW extra, edges' = edges \cup Into(call[s].inbound, call[s].id) \cup extra,
           \A e \in extra : e[1] \in 1 .. count /\ e[2] = call[s].id /\ e[3] = "violation"
    PROVE  /\ OriginInv' /\ ConsumedOnce' /\ World(s)
           /\ \A e \in edges' \ edges : e[3] = "cancel" \/ ~(e[2] <= mark[s].count)
           /\ \A e \in edges' \ edges : e[3] \notin Single \/ origin'[e[2]].kind # "work"
           /\ call[s].id # 0
  <1>1. TypeInv /\ OriginInv /\ ConsumedOnce /\ CallInv(s) /\ PointInv(s)
    BY Known
  <1>2. call[s].id # 0 /\ call[s].kind # "work"
    BY SideShape
  <1>3. /\ OriginInv' /\ ConsumedOnce' /\ World(s)
        /\ \A e \in edges' \ edges :
              e[2] = call[s].id /\ (e[3] \notin Single \/ origin'[e[2]].kind = call[s].kind)
    BY <1>1, <1>2, CommitHistory
  <1>4. call[s].id > mark[s].count /\ call[s].id \in Nat /\ mark[s].count \in Nat
    BY <1>1, <1>2, Fields DEF CallInv, Ids
  <1>5. ~(call[s].id <= mark[s].count)
    BY <1>4
  <1> QED BY <1>2, <1>3, <1>5

\* An answer to a side request of a prompt that goes on as it was.
LEMMA AnsweredInner ==
    ASSUME IInv, TypeInv', NEW s \in Sessions, phase[s] = "side", call[s] # NoCall,
           edges' = edges \cup Into(call[s].inbound, call[s].id),
           UNCHANGED <<count, session, returned, saved, scope>>,
           UNCHANGED <<status, spawner, result, mail, origin, gone, due, mark>>,
           raised' = FALSE, \A t \in Sessions : t # s => Still(t),
           call'[s] = NoCall, phase'[s] \in {"side", "ready"}, StageInv(s)',
           World(s) /\ gone' = gone /\ (\A e \in edges' \ edges :
              e[3] \notin Single \/ origin'[e[2]].kind # "work") => SideInv(s)'
    PROVE  IInv'
  <1>1. TypeInv /\ OriginInv /\ MailInv /\ PointInv(s)
    BY Known
  <1>2. PICK extra : extra = {}
    OBVIOUS
  <1>3. /\ edges' = edges \cup Into(call[s].inbound, call[s].id) \cup extra
        /\ \A e \in extra : e[1] \in 1 .. count /\ e[2] = call[s].id /\ e[3] = "violation"
    BY <1>2
  <1>4. /\ OriginInv' /\ ConsumedOnce' /\ World(s)
        /\ \A e \in edges' \ edges : e[3] = "cancel" \/ ~(e[2] <= mark[s].count)
        /\ \A e \in edges' \ edges : e[3] \notin Single \/ origin'[e[2]].kind # "work"
    BY <1>3, SideCommit
  <1>5. Waiting(s)' = Waiting(s)
    BY DEF Waiting, Taken
  <1>6. /\ s # "root" => spawner'[s] = spawner[s]
        /\ session'[s].last = session[s].last /\ session'[s].claimed = session[s].claimed
        /\ due'[s] = due[s] /\ gone' = gone
    OBVIOUS
  <1>7. PointInv(s)'
    BY <1>1, <1>4, <1>5, <1>6, PointStays
  <1>8. CallInv(s)'
    BY DEF CallInv, NoCall
  <1>9. SideInv(s)'
    BY <1>4
  <1>10. MailInv'
    BY <1>1 DEF MailInv
  <1>11. /\ phase'[s] # "idle" /\ phase'[s] # "cell" /\ saved'[s] = saved[s] /\ mark'[s] = mark[s]
         /\ scope'[s] = scope[s] /\ UNCHANGED <<returned, status, result, spawner>>
         /\ \A x \in Waiting(s)' : x[2] = "return" => x \in Waiting(s)
    BY <1>5
  <1> QED BY <1>4, <1>6, <1>7, <1>8, <1>9, <1>10, <1>11, Goes

LEMMA AnsweredTyped ==
    ASSUME IInv, NEW s \in Sessions, phase[s] = "side", call[s] # NoCall, Answered(s)
    PROVE  /\ call' = [call EXCEPT ![s] = NoCall] /\ call' \in [Sessions -> Calls]
           /\ edges' \subseteq Ids \X Requests \X Labels /\ call'[s] = NoCall
           /\ edges' = edges \cup Into(call[s].inbound, call[s].id)
           /\ UNCHANGED <<count, session, returned, stopped, saved, scope>>
           /\ UNCHANGED <<status, spawner, result, mail, sent, origin, gone, due, mark>>
  <1>1. TypeInv /\ call[s].id # 0
    BY Known, SideShape
  <1>2. Into(call[s].inbound, call[s].id) \subseteq Ids \X Requests \X Labels
    BY <1>1, IntoTyped
  <1> QED BY <1>1, <1>2, Blanks DEF Answered, TypeInv, treeVars, historyVars

\* A request of a certain kind is a request of a side operation.
LEMMA KindShape ==
    ASSUME IInv, NEW s \in Sessions, call[s].kind \in {"summary", "rollup", "plan"}
    PROVE  phase[s] = "side" /\ call[s] # NoCall
  <1>1. call[s] # NoCall
    BY DEF NoCall
  <1>2. StageInv(s) /\ phase[s] \in Phases
    BY Known DEF TypeInv
  <1>3. phase[s] \in {"calling", "side"}
    BY <1>1, <1>2 DEF StageInv
  <1>4. phase[s] # "calling"
    BY <1>2 DEF StageInv
  <1> QED BY <1>1, <1>3, <1>4

LEMMA RollupAnsweredStep ==
    ASSUME IInv, NEW s \in Sessions, RollupAnswered(s)
    PROVE  IInv'
  <1>1. call[s].kind = "rollup" /\ Answered(s) /\ UNCHANGED <<raised, phase, comp, refine>>
    BY DEF RollupAnswered
  <1>2. phase[s] = "side" /\ call[s] # NoCall
    BY <1>1, KindShape
  <1>3. TypeInv /\ OriginInv /\ StageInv(s) /\ SideInv(s) /\ raised = FALSE
    BY Known
  <1>4. /\ call' = [call EXCEPT ![s] = NoCall] /\ call' \in [Sessions -> Calls]
        /\ edges' \subseteq Ids \X Requests \X Labels /\ call'[s] = NoCall
        /\ edges' = edges \cup Into(call[s].inbound, call[s].id)
        /\ UNCHANGED <<count, session, returned, stopped, saved, scope>>
        /\ UNCHANGED <<status, spawner, result, mail, sent, origin, gone, due, mark>>
    BY <1>1, <1>2, AnsweredTyped
  <1>5. TypeInv'
    BY <1>1, <1>3, <1>4 DEF TypeInv
  <1>6. \A t \in Sessions : t # s => Still(t)
    BY <1>1, <1>3, <1>4 DEF TypeInv, Still
  <1>7. comp[s].stage = "rollup" /\ comp[s].slot # 0 /\ refine[s] = NoRefinement
    BY <1>1, <1>2, <1>3 DEF StageInv
  <1>8. StageInv(s)'
    BY <1>1, <1>2, <1>4, <1>7 DEF StageInv, NoCall
  <1>9. ASSUME World(s), gone' = gone, \A e \in edges' \ edges :
              e[3] \notin Single \/ origin'[e[2]].kind # "work"
        PROVE  SideInv(s)'
    <2>1. /\ session'[s] = session[s] /\ comp'[s] = comp[s] /\ refine'[s] = refine[s]
          /\ call'[s].kind # "summary"
      BY <1>1, <1>4 DEF NoCall
    <2> QED BY <2>1, <1>3, <1>5, <1>9, SideStep
  <1>10. raised' = FALSE /\ phase'[s] \in {"side", "ready"}
    BY <1>1, <1>2, <1>3
  <1> QED BY <1>2, <1>4, <1>5, <1>6, <1>8, <1>9, <1>10, AnsweredInner

LEMMA SummaryReleasedStep ==
    ASSUME IInv, NEW s \in Sessions, SummaryReleased(s)
    PROVE  IInv'
  <1>1. /\ call[s].kind = "summary" /\ Answered(s) /\ UNCHANGED <<phase, refine>>
        /\ raised' = (raised \/ comp[s].slot = 0) /\ comp' = [comp EXCEPT ![s].slot = 0]
    BY DEF SummaryReleased
  <1>2. phase[s] = "side" /\ call[s] # NoCall
    BY <1>1, KindShape
  <1>3. TypeInv /\ OriginInv /\ StageInv(s) /\ SideInv(s) /\ raised = FALSE
    BY Known
  <1>4. /\ call' = [call EXCEPT ![s] = NoCall] /\ call' \in [Sessions -> Calls]
        /\ edges' \subseteq Ids \X Requests \X Labels /\ call'[s] = NoCall
        /\ edges' = edges \cup Into(call[s].inbound, call[s].id)
        /\ UNCHANGED <<count, session, returned, stopped, saved, scope>>
        /\ UNCHANGED <<status, spawner, result, mail, sent, origin, gone, due, mark>>
    BY <1>1, <1>2, AnsweredTyped
  <1>5. comp[s].stage = "summary" /\ comp[s].slot # 0 /\ refine[s] = NoRefinement
    BY <1>1, <1>2, SideShape
  <1>6. comp[s] \in Compactions /\ 0 \in Ids
    BY <1>3, Fields, Blanks
  <1>7. /\ comp'[s] = [comp[s] EXCEPT !.slot = 0] /\ comp' = [comp EXCEPT ![s] = comp'[s]]
        /\ \A t \in Sessions : t # s => comp'[t] = comp[t]
    BY <1>1, <1>3 DEF TypeInv
  <1>8. /\ comp'[s] \in Compactions /\ comp'[s].stage = "summary" /\ comp'[s].slot = 0
        /\ comp'[s].source = comp[s].source /\ comp'[s].captured = comp[s].captured
    BY <1>5, <1>6, <1>7 DEF Compactions
  <1>9. TypeInv'
    <2>1. comp' \in [Sessions -> Compactions]
      BY <1>3, <1>7, <1>8 DEF TypeInv
    <2> QED BY <2>1, <1>1, <1>3, <1>4 DEF TypeInv
  <1>10. \A t \in Sessions : t # s => Still(t)
    BY <1>1, <1>3, <1>4, <1>7 DEF TypeInv, Still
  <1>11. StageInv(s)'
    BY <1>1, <1>2, <1>4, <1>5, <1>8 DEF StageInv, NoCall
  <1>12. ASSUME World(s), gone' = gone, \A e \in edges' \ edges :
              e[3] \notin Single \/ origin'[e[2]].kind # "work"
        PROVE  SideInv(s)'
    <2>1. /\ session'[s] = session[s] /\ refine'[s] = refine[s] /\ call'[s].kind # "summary"
          /\ comp'[s].stage = comp[s].stage
      BY <1>1, <1>4, <1>5, <1>8 DEF NoCall
    <2> QED BY <2>1, <1>3, <1>8, <1>9, <1>12, SideStep
  <1>13. raised' = FALSE /\ phase'[s] \in {"side", "ready"}
    BY <1>1, <1>2, <1>3, <1>5
  <1> QED BY <1>2, <1>4, <1>9, <1>10, <1>11, <1>12, <1>13, AnsweredInner

LEMMA PlanReleasedStep ==
    ASSUME IInv, NEW s \in Sessions, PlanReleased(s)
    PROVE  IInv'
  <1>1. /\ call[s].kind = "plan" /\ Answered(s) /\ UNCHANGED <<phase, comp>>
        /\ raised' = (raised \/ refine[s].slot = 0) /\ refine' = [refine EXCEPT ![s].slot = 0]
    BY DEF PlanReleased
  <1>2. phase[s] = "side" /\ call[s] # NoCall
    BY <1>1, KindShape
  <1>3. TypeInv /\ OriginInv /\ StageInv(s) /\ SideInv(s) /\ raised = FALSE
    BY Known
  <1>4. /\ call' = [call EXCEPT ![s] = NoCall] /\ call' \in [Sessions -> Calls]
        /\ edges' \subseteq Ids \X Requests \X Labels /\ call'[s] = NoCall
        /\ edges' = edges \cup Into(call[s].inbound, call[s].id)
        /\ UNCHANGED <<count, session, returned, stopped, saved, scope>>
        /\ UNCHANGED <<status, spawner, result, mail, sent, origin, gone, due, mark>>
    BY <1>1, <1>2, AnsweredTyped
  <1>5. comp[s] = NoCompaction /\ refine[s].slot # 0 /\ refine[s].on
    BY <1>1, <1>2, SideShape
  <1>6. refine[s] \in Refinements /\ 0 \in Ids
    BY <1>3, Fields, Blanks
  <1>7. /\ refine'[s] = [refine[s] EXCEPT !.slot = 0] /\ refine' = [refine EXCEPT ![s] = refine'[s]]
        /\ \A t \in Sessions : t # s => refine'[t] = refine[t]
    BY <1>1, <1>3 DEF TypeInv
  <1>8. /\ refine'[s] \in Refinements /\ refine'[s].on /\ refine'[s].slot = 0
        /\ refine'[s].source = refine[s].source
    BY <1>5, <1>6, <1>7 DEF Refinements
  <1>9. TypeInv'
    <2>1. refine' \in [Sessions -> Refinements]
      BY <1>3, <1>7, <1>8 DEF TypeInv
    <2> QED BY <2>1, <1>1, <1>3, <1>4 DEF TypeInv
  <1>10. \A t \in Sessions : t # s => Still(t)
    BY <1>1, <1>3, <1>4, <1>7 DEF TypeInv, Still
  <1>11. StageInv(s)'
    BY <1>1, <1>2, <1>4, <1>5, <1>8 DEF StageInv, NoCall
  <1>12. ASSUME World(s), gone' = gone, \A e \in edges' \ edges :
              e[3] \notin Single \/ origin'[e[2]].kind # "work"
        PROVE  SideInv(s)'
    <2>1. /\ session'[s] = session[s] /\ comp'[s] = comp[s] /\ call'[s].kind # "summary"
      BY <1>1, <1>4 DEF NoCall
    <2> QED BY <2>1, <1>3, <1>5, <1>8, <1>9, <1>12, SideStep
  <1>13. raised' = FALSE /\ phase'[s] \in {"side", "ready"}
    BY <1>1, <1>2, <1>3, <1>5
  <1> QED BY <1>2, <1>4, <1>9, <1>10, <1>11, <1>12, <1>13, AnsweredInner

LEMMA PlanDroppedStep ==
    ASSUME IInv, NEW s \in Sessions, PlanDropped(s)
    PROVE  IInv'
  <1>1. /\ refine[s].on /\ refine' = [refine EXCEPT ![s] = NoRefinement]
        /\ phase' = [phase EXCEPT ![s] = "ready"]
        /\ UNCHANGED <<count, session, returned, stopped, raised, saved, scope, comp>>
        /\ UNCHANGED <<status, spawner, result, mail, sent, origin, gone, due, mark>>
        /\ IF call[s] = NoCall THEN UNCHANGED <<call, edges>>
             ELSE /\ edges' = edges \cup Into(call[s].inbound, call[s].id)
                  /\ call' = [call EXCEPT ![s] = NoCall]
    BY DEF PlanDropped, Quiet, treeVars, historyVars
  <1>2. TypeInv /\ OriginInv /\ StageInv(s) /\ SideInv(s) /\ raised = FALSE
    BY Known
  <1>3. phase[s] = "side" /\ comp[s] = NoCompaction
    <2>1. refine[s] # NoRefinement
      BY <1>1 DEF NoRefinement
    <2>2. phase[s] = "side"
      BY <2>1, <1>2 DEF StageInv
    <2> QED BY <2>1, <2>2, <1>2 DEF StageInv
  <1>4. /\ phase'[s] = "ready" /\ refine'[s] = NoRefinement /\ call'[s] = NoCall
        /\ \A t \in Sessions : t # s => call'[t] = call[t]
        /\ call' \in [Sessions -> Calls]
    BY <1>1, <1>2, Blanks DEF TypeInv
  <1>5. TypeInv'
    <2>1. refine' \in [Sessions -> Refinements] /\ phase' \in [Sessions -> Phases]
      BY <1>1, <1>2, Blanks DEF TypeInv, Phases
    <2>2. edges' \subseteq Ids \X Requests \X Labels
      <3>1. CASE call[s] = NoCall
        BY <3>1, <1>1, <1>2 DEF TypeInv
      <3>2. CASE call[s] # NoCall
        <4>1. Into(call[s].inbound, call[s].id) \subseteq Ids \X Requests \X Labels
          BY <3>2, <1>2, <1>3, SideShape, IntoTyped
        <4> QED BY <4>1, <3>2, <1>1, <1>2 DEF TypeInv
      <3> QED BY <3>1, <3>2
    <2> QED BY <2>1, <2>2, <1>1, <1>2, <1>4 DEF TypeInv
  <1>6. \A t \in Sessions : t # s => Still(t)
    BY <1>1, <1>2, <1>4 DEF TypeInv, Still
  <1>7. StageInv(s)'
    BY <1>1, <1>3, <1>4 DEF StageInv, NoCall
  <1>8. SideInv(s)'
    BY <1>1, <1>3, <1>4, SideClosed DEF NoCall
  <1>9. Waiting(s)' = Waiting(s)
    BY <1>1, <1>3, <1>4 DEF Waiting, Taken
  <1>10. CASE call[s] = NoCall
    BY <1>10, <1>1, <1>2, <1>3, <1>4, <1>5, <1>6, <1>7, <1>8, <1>9, QuietInner
  <1>11. CASE call[s] # NoCall
    BY <1>11, <1>1, <1>2, <1>3, <1>4, <1>5, <1>6, <1>7, <1>8, AnsweredInner
  <1> QED BY <1>10, <1>11

LEMMA PlanAppliedStep ==
    ASSUME IInv, NEW s \in Sessions, PlanApplied(s)
    PROVE  IInv'
  <1> DEFINE known == {e \in {<<refine[s].slot, "refinement">>} : e[1] # 0}
  <1>1. /\ call[s].kind = "plan" /\ edges' = edges \cup Into(call[s].inbound, call[s].id)
        /\ raised' = (raised \/ refine[s].slot = 0)
        /\ Deliver(s, {<<refine[s].slot, "refinement">>})
        /\ session' = [session EXCEPT ![s].pending = @ \cup known]
        /\ due' = [due EXCEPT ![s] = @ \cup known]
        /\ call' = [call EXCEPT ![s] = NoCall] /\ refine' = [refine EXCEPT ![s] = NoRefinement]
        /\ phase' = [phase EXCEPT ![s] = "ready"]
        /\ UNCHANGED <<count, returned, stopped, saved, scope, comp>>
        /\ UNCHANGED <<status, spawner, result, mail, sent, origin, gone, mark>>
    BY DEF PlanApplied, Deliver, treeVars
  <1>2. phase[s] = "side" /\ call[s] # NoCall
    BY <1>1, KindShape
  <1>3. /\ TypeInv /\ OriginInv /\ MailInv /\ PointInv(s) /\ StageInv(s) /\ SideInv(s)
        /\ raised = FALSE /\ count \in Nat
    BY Known
  <1>4. comp[s] = NoCompaction /\ refine[s].slot = call[s].id /\ refine[s].slot # 0
    BY <1>1, <1>2, SideShape
  <1>5. PICK slot \in Ids : slot = refine[s].slot
    BY <1>3, Fields
  <1>6. known = {<<slot, "refinement">>} /\ {<<slot, "refinement">>} \in SUBSET Marks
    BY <1>4, <1>5 DEF Marks, Labels
  <1>7. slot \in 1 .. count /\ ~Carried(s, slot, "refinement")
    BY <1>3, <1>4, <1>5 DEF SideInv, Carried, Ids
  <1>8. session' \in [Sessions -> Points] /\ due' \in [Sessions -> SUBSET Marks]
    BY <1>1, <1>3, <1>5, <1>6, DeliverTyped
  <1> HIDE DEF known
  <1>9. TypeInv'
    <2>1. Into(call[s].inbound, call[s].id) \subseteq Ids \X Requests \X Labels
      BY <1>3, <1>4, IntoTyped
    <2>2. call' \in [Sessions -> Calls] /\ refine' \in [Sessions -> Refinements]
          /\ phase' \in [Sessions -> Phases]
      BY <1>1, <1>3, Blanks DEF TypeInv, Phases
    <2> QED BY <2>1, <2>2, <1>1, <1>3, <1>8 DEF TypeInv
  <1>10. \A t \in Sessions : t # s => Still(t)
    BY <1>1, <1>3 DEF TypeInv, Still
  <1>11. session'[s].last = session[s].last /\ session'[s].claimed = session[s].claimed
         /\ session'[s].pending = session[s].pending \cup known /\ due'[s] = due[s] \cup known
         /\ phase'[s] = "ready" /\ call'[s] = NoCall /\ refine'[s] = NoRefinement
    BY <1>1, <1>3 DEF TypeInv, Points
  <1>12. Waiting(s)' = Waiting(s) \cup known
    BY <1>2, <1>11 DEF Waiting, Taken
  <1>13. \A x \in known : /\ x[1] \in 1 .. count /\ x[2] = "refinement"
                          /\ x[2] \in Single => ~Carried(s, x[1], x[2])
    <2> SUFFICES ASSUME NEW x \in known
                 PROVE  x[1] \in 1 .. count /\ x[2] = "refinement" /\ ~Carried(s, x[1], x[2])
      OBVIOUS
    <2>1. x[1] = slot /\ x[2] = "refinement"
      BY <1>6
    <2> QED BY <2>1, <1>7
  <1>14. PICK extra : extra = {}
    OBVIOUS
  <1>15. /\ edges' = edges \cup Into(call[s].inbound, call[s].id) \cup extra
         /\ \A e \in extra : e[1] \in 1 .. count /\ e[2] = call[s].id /\ e[3] = "violation"
    BY <1>1, <1>14
  <1>16. /\ OriginInv' /\ ConsumedOnce' /\ World(s)
         /\ \A e \in edges' \ edges : e[3] = "cancel" \/ ~(e[2] <= mark[s].count)
         /\ \A e \in edges' \ edges : e[3] \notin Single \/ origin'[e[2]].kind # "work"
    BY <1>1, <1>2, <1>9, <1>15, SideCommit
  <1>17. s # "root" => spawner'[s] = spawner[s]
    BY <1>1
  <1>18. PointInv(s)'
    <2>1. \A x \in known : /\ x[1] \in 1 .. count /\ x[2] # "call"
                           /\ x[2] \in Single => ~Carried(s, x[1], x[2])
      BY <1>13
    <2>2. gone' = gone
      BY <1>1
    <2> QED BY <2>1, <2>2, <1>3, <1>9, <1>11, <1>12, <1>16, <1>17, PointStep
  <1>19. CallInv(s)' /\ SideInv(s)'
    BY <1>1, <1>4, <1>11, SideClosed DEF CallInv, NoCall
  <1>20. StageInv(s)'
    BY <1>1, <1>4, <1>11 DEF StageInv, NoCall
  <1>21. \A x \in Waiting(s)' : x[2] = "return" => x \in Waiting(s)
    BY <1>12, <1>13
  <1>22. MailInv' /\ raised' = FALSE
    BY <1>1, <1>3, <1>4 DEF MailInv
  <1>23. /\ phase[s] # "idle" /\ phase'[s] # "idle" /\ phase'[s] # "cell" /\ gone' = gone
         /\ saved'[s] = saved[s] /\ mark'[s] = mark[s] /\ scope'[s] = scope[s]
         /\ UNCHANGED <<returned, status, result, spawner>>
    BY <1>1, <1>2, <1>11
  <1> QED BY <1>9, <1>10, <1>11, <1>16, <1>18, <1>19, <1>20, <1>21, <1>22, <1>23, Goes

\* A usable summary carries all that was captured, the last request's edges by the
\* attempt from it.
LEMMA SummaryUsedStep ==
    ASSUME IInv, NEW s \in Sessions, SummaryUsed(s)
    PROVE  IInv'
  <1>1. /\ call[s].kind = "summary" /\ Answered(s) /\ UNCHANGED <<raised, phase, refine>>
        /\ comp' = [comp EXCEPT ![s].stage = "rollup"]
    BY DEF SummaryUsed
  <1>2. phase[s] = "side" /\ call[s] # NoCall
    BY <1>1, KindShape
  <1>3. /\ TypeInv /\ OriginInv /\ PointInv(s) /\ CallInv(s) /\ StageInv(s) /\ SideInv(s)
        /\ raised = FALSE
    BY Known
  <1>4. /\ call' = [call EXCEPT ![s] = NoCall] /\ call' \in [Sessions -> Calls]
        /\ edges' \subseteq Ids \X Requests \X Labels /\ call'[s] = NoCall
        /\ edges' = edges \cup Into(call[s].inbound, call[s].id)
        /\ UNCHANGED <<count, session, returned, stopped, saved, scope>>
        /\ UNCHANGED <<status, spawner, result, mail, sent, origin, gone, due, mark>>
    BY <1>1, <1>2, AnsweredTyped
  <1>5. /\ comp[s].stage = "summary" /\ comp[s].slot # 0 /\ refine[s] = NoRefinement
        /\ call[s].id # 0
    BY <1>1, <1>2, SideShape
  <1>6. comp[s] \in Compactions
    BY <1>3, Fields
  <1>7. /\ comp'[s] = [comp[s] EXCEPT !.stage = "rollup"] /\ comp' = [comp EXCEPT ![s] = comp'[s]]
        /\ \A t \in Sessions : t # s => comp'[t] = comp[t]
    BY <1>1, <1>3 DEF TypeInv
  <1>8. /\ comp'[s] \in Compactions /\ comp'[s].stage = "rollup" /\ comp'[s].slot = comp[s].slot
        /\ comp'[s].source = comp[s].source /\ comp'[s].captured = comp[s].captured
    BY <1>5, <1>6, <1>7 DEF Compactions
  <1>9. TypeInv'
    <2>1. comp' \in [Sessions -> Compactions]
      BY <1>3, <1>7, <1>8 DEF TypeInv
    <2> QED BY <2>1, <1>1, <1>3, <1>4 DEF TypeInv
  <1>10. \A t \in Sessions : t # s => Still(t)
    BY <1>1, <1>3, <1>4, <1>7 DEF TypeInv, Still
  <1>11. StageInv(s)'
    BY <1>1, <1>2, <1>4, <1>5, <1>8 DEF StageInv, NoCall
  <1>12. \A x \in call[s].inbound : Kept(s, x[1], x[2])'
    <2> SUFFICES ASSUME NEW x \in call[s].inbound PROVE Kept(s, x[1], x[2])'
      OBVIOUS
    <2>1. <<x[1], call[s].id, x[2]>> \in edges'
      BY <1>4 DEF Into
    <2>2. call[s].id \notin gone' /\ origin'[call[s].id].by = s
      BY <1>3, <1>4, <1>5 DEF CallInv
    <2> QED BY <2>1, <2>2 DEF Kept
  <1>13. ASSUME NEW x \in comp[s].captured
         PROVE  Kept(s, x[1], x[2])' \/ Kept(s, x[1], "attempt")'
    <2>1. call[s].inbound = Attempt(s) /\ comp[s].captured \subseteq session[s].pending
      BY <1>1, <1>3, <1>5 DEF SideInv
    <2>2. CASE x[1] # comp[s].source
      <3>1. x \in call[s].inbound
        BY <2>1, <2>2 DEF Attempt
      <3> QED BY <3>1, <1>12
    <2>3. CASE x[1] = comp[s].source
      <3>1. PICK p : p = x[1]
        OBVIOUS
      <3>2. x[1] \in 1 .. count
        BY <2>1, <1>3 DEF PointInv, Waiting
      <3>3. comp[s].source # 0
        BY <3>2, <2>3
      <3>4. <<p, "attempt">> \in call[s].inbound
        BY <2>1, <2>3, <3>1, <3>3 DEF Attempt
      <3>5. <<p, "attempt">>[1] = p /\ <<p, "attempt">>[2] = "attempt"
        OBVIOUS
      <3>6. Kept(s, p, "attempt")'
        BY <3>4, <3>5, <1>12
      <3> QED BY <3>1, <3>6
    <2> QED BY <2>2, <2>3
  <1>14. ASSUME World(s), gone' = gone, \A e \in edges' \ edges :
              e[3] \notin Single \/ origin'[e[2]].kind # "work"
         PROVE  SideInv(s)'
    <2>1. PICK q \in Ids : q = comp[s].slot
      BY <1>3, Fields
    <2>2. q <= count /\ q > session[s].last /\ Owned(s, q) /\ ~Carried(s, q, "compaction")
      BY <2>1, <1>3, <1>5 DEF SideInv
    <2>3. \A e \in edges' \ edges :
             e[3] = "compaction" /\ e[3] # "cancel" => origin'[e[2]].kind # "work"
      BY <1>14 DEF Single
    <2>4. ~Carried(s, q, "compaction")'
      BY <2>2, <2>3, <1>3, <1>14, Here
    <2>5. /\ comp'[s].slot <= count' /\ comp'[s].slot > session'[s].last
          /\ Owned(s, comp[s].slot)' /\ ~Carried(s, comp[s].slot, "compaction")'
      BY <2>1, <2>2, <2>4, <1>4, <1>8 DEF Owned, Carried
    <2>6. /\ comp'[s].source = session'[s].last /\ comp'[s].captured \subseteq session'[s].pending
      BY <1>3, <1>4, <1>5, <1>8 DEF SideInv
    <2>7. refine'[s] = NoRefinement /\ call'[s].kind # "summary"
      BY <1>1, <1>4, <1>5 DEF NoCall
    <2>8. \A x \in comp'[s].captured : Kept(s, x[1], x[2])' \/ Kept(s, x[1], "attempt")'
      BY <1>8, <1>13
    <2> QED BY <2>5, <2>6, <2>7, <2>8 DEF SideInv, NoRefinement
  <1>15. raised' = FALSE /\ phase'[s] \in {"side", "ready"}
    BY <1>1, <1>2, <1>3
  <1> QED BY <1>2, <1>4, <1>9, <1>10, <1>11, <1>14, <1>15, AnsweredInner

LEMMA SummaryViolatesStep ==
    ASSUME IInv, NEW s \in Sessions, SummaryViolates(s)
    PROVE  IInv'
  <1> DEFINE extra == IF comp[s].source = 0 THEN {}
                        ELSE {<<comp[s].source, comp[s].slot, "violation">>}
  <1>1. /\ call[s].kind = "summary"
        /\ edges' = edges \cup Into(call[s].inbound, call[s].id) \cup extra
        /\ raised' = (raised \/ comp[s].slot = 0)
        /\ call' = [call EXCEPT ![s] = NoCall] /\ comp' = [comp EXCEPT ![s] = NoCompaction]
        /\ EndsAs(s, session[s].last)
        /\ UNCHANGED <<count, session, returned, stopped, scope, refine>>
        /\ UNCHANGED <<origin, gone>>
    BY DEF SummaryViolates, EndsAs
  <1>2. phase[s] = "side" /\ call[s] # NoCall
    BY <1>1, KindShape
  <1>3. /\ TypeInv /\ PointInv(s) /\ StageInv(s) /\ SideInv(s) /\ raised = FALSE /\ count \in Nat
    BY Known
  <1>4. comp[s].stage = "summary" /\ comp[s].slot = call[s].id /\ refine[s] = NoRefinement
        /\ call[s].id # 0
    BY <1>1, <1>2, SideShape
  <1>5. comp[s].source # 0 => comp[s].source \in 1 .. count
    BY <1>3, <1>4, Fields DEF SideInv, PointInv, Ids
  <1>6. \A e \in extra : e[1] \in 1 .. count /\ e[2] = call[s].id /\ e[3] = "violation"
    BY <1>4, <1>5
  <1>7. extra \subseteq Ids \X Requests \X Labels
    <2>1. call[s].id \in Requests /\ comp[s].source \in Ids
      BY <1>3, <1>4, Fields, EdgeConstants DEF Ids, Requests
    <2> QED BY <2>1, <1>4 DEF Labels
  <1> HIDE DEF extra
  <1>8. TypeInv'
    <2>1. Into(call[s].inbound, call[s].id) \subseteq Ids \X Requests \X Labels
      BY <1>3, <1>4, IntoTyped
    <2>2. call' \in [Sessions -> Calls] /\ comp' \in [Sessions -> Compactions]
      BY <1>1, <1>3, Blanks DEF TypeInv
    <2> QED BY <1>1, <1>3, <1>7, <2>1, <2>2, EndsTyped, Fields DEF TypeInv
  <1>9. PICK added : added = extra
    OBVIOUS
  <1>10. /\ edges' = edges \cup Into(call[s].inbound, call[s].id) \cup added
         /\ \A e \in added : e[1] \in 1 .. count /\ e[2] = call[s].id /\ e[3] = "violation"
    BY <1>1, <1>6, <1>9
  <1>11. /\ OriginInv' /\ ConsumedOnce' /\ World(s)
         /\ \A e \in edges' \ edges : e[3] \notin Single \/ origin'[e[2]].kind # "work"
    BY <1>1, <1>2, <1>8, <1>10, SideCommit
  <1>12. phase'[s] = "idle" /\ comp'[s] = NoCompaction /\ call'[s] = NoCall
         /\ \A t \in Sessions : t # s => comp'[t] = comp[t] /\ call'[t] = call[t]
    BY <1>1, <1>3 DEF EndsAs, TypeInv
  <1>13. Waiting(s)' = Waiting(s)
    BY <1>1, <1>2, <1>12 DEF Waiting, Taken
  <1>14. raised' = FALSE /\ gone' = gone /\ phase[s] # "idle"
    BY <1>1, <1>2, <1>3, <1>4
  <1> QED BY <1>1, <1>4, <1>8, <1>11, <1>12, <1>13, <1>14, Ending

----------------------------------------------------------------------------
\* A side request starts.
LEMMA SideStarted ==
    ASSUME IInv, TypeInv', NEW s \in Sessions, NEW kind, NEW inbound,
           StartSide(s, kind, inbound), raised' = FALSE,
           \A x \in inbound : x[1] \in 1 .. count,
           session[s].last # 0 => \E x \in inbound : x[1] = session[s].last,
           \A t \in Sessions : t # s => comp'[t] = comp[t] /\ refine'[t] = refine[t],
           StageInv(s)',
           World(s) /\ gone' = gone /\ edges' = edges
             /\ origin'[count + 1] = [by |-> s, kind |-> kind, from |-> session[s].last]
             => SideInv(s)'
    PROVE  IInv'
  <1>1. /\ phase[s] = "side" /\ count < MaxRequests /\ count' = count + 1 /\ Originates(s, kind)
        /\ call' = [call EXCEPT ![s] =
              [id |-> count + 1, kind |-> kind, inbound |-> inbound, retry |-> FALSE]]
        /\ UNCHANGED <<session, returned, stopped, edges, saved, phase, scope>>
        /\ UNCHANGED <<status, spawner, result, mail, sent, gone, due, mark>>
    BY DEF StartSide, treeVars
  <1>2. /\ TypeInv /\ OriginInv /\ ConsumedOnce /\ MailInv /\ PointInv(s) /\ SavedInv(s)
        /\ count \in Nat
    BY Known
  <1>3. session[s].last <= count /\ Owned(s, session[s].last)
    BY <1>2 DEF PointInv
  <1>4. OriginInv' /\ ConsumedOnce'
    BY <1>1, <1>2, <1>3, StartHistory
  <1>5. /\ World(s) /\ origin'[count + 1] = [by |-> s, kind |-> kind, from |-> session[s].last]
    BY <1>1, <1>2, Starts
  <1>6. call'[s] = [id |-> count + 1, kind |-> kind, inbound |-> inbound, retry |-> FALSE]
    BY <1>1, <1>2 DEF TypeInv
  <1>7. mark[s].count <= count
    BY <1>2 DEF SavedInv
  <1>8. /\ mark'[s] = mark[s] /\ session'[s].last = session[s].last /\ gone' = gone
        /\ session'[s].claimed = session[s].claimed /\ due'[s] = due[s]
        /\ s # "root" => spawner'[s] = spawner[s]
    BY <1>1
  <1>9. CallInv(s)'
    BY <1>1, <1>2, <1>5, <1>6, <1>7, <1>8, CallOpens
  <1>10. Waiting(s)' = Waiting(s) /\ edges' \ edges = {}
    BY <1>1 DEF Waiting, Taken
  <1>11. PointInv(s)'
    BY <1>2, <1>5, <1>8, <1>10, PointStays
  <1>12. \A t \in Sessions : t # s => Still(t)
    BY <1>1, <1>2 DEF TypeInv, Still
  <1>13. MailInv'
    <2>1. \A t \in Sessions : \A q \in mail[t] : q \in Nat
      BY <1>2 DEF TypeInv, Ids
    <2> QED BY <2>1, <1>1, <1>2 DEF MailInv
  <1>14. SideInv(s)'
    BY <1>1, <1>5
  <1>15. /\ phase[s] # "idle" /\ phase'[s] # "idle" /\ phase'[s] # "cell" /\ scope'[s] = scope[s]
         /\ saved'[s] = saved[s] /\ UNCHANGED <<returned, status, result, spawner>>
         /\ \A x \in Waiting(s)' : x[2] = "return" => x \in Waiting(s)
    BY <1>1, <1>10
  <1> QED BY <1>4, <1>5, <1>8, <1>9, <1>10, <1>11, <1>12, <1>13, <1>14, <1>15, Goes

LEMMA SideTyped ==
    ASSUME TypeInv, NEW s \in Sessions, NEW kind \in Kinds, NEW inbound \in SUBSET Marks,
           StartSide(s, kind, inbound), comp' \in [Sessions -> Compactions],
           refine' \in [Sessions -> Refinements]
    PROVE  TypeInv'
  <1>1. /\ count < MaxRequests /\ count' = count + 1 /\ Originates(s, kind)
        /\ call' = [call EXCEPT ![s] =
              [id |-> count + 1, kind |-> kind, inbound |-> inbound, retry |-> FALSE]]
        /\ UNCHANGED <<session, returned, stopped, edges, saved, phase, scope>>
        /\ UNCHANGED <<status, spawner, result, mail, sent, gone, due, mark>>
    BY DEF StartSide, treeVars
  <1>2. count + 1 \in Ids
    BY <1>1, Next1
  <1>3. [id |-> count + 1, kind |-> kind, inbound |-> inbound, retry |-> FALSE] \in Calls
    BY <1>2 DEF Calls
  <1>4. call' \in [Sessions -> Calls]
    BY <1>1, <1>3 DEF TypeInv
  <1>5. origin' \in [Requests -> Origins]
    BY <1>1, OriginTyped
  <1> QED BY <1>1, <1>2, <1>4, <1>5 DEF TypeInv

\* The attempt of a compaction carries what was captured, from requests there are.
LEMMA AttemptFacts ==
    ASSUME IInv, NEW s \in Sessions, comp[s].stage # "none"
    PROVE  /\ Attempt(s) \in SUBSET Marks /\ \A x \in Attempt(s) : x[1] \in 1 .. count
           /\ session[s].last # 0 => \E x \in Attempt(s) : x[1] = session[s].last
  <1>1. /\ TypeInv /\ PointInv(s) /\ SideInv(s) /\ count \in Nat /\ session[s].last \in Nat
    BY Known
  <1>2. comp[s].source = session[s].last /\ comp[s].captured \subseteq session[s].pending
        /\ session[s].last <= count
    BY <1>1 DEF SideInv, PointInv
  <1>3. \A x \in comp[s].captured : x[1] \in 1 .. count /\ x \in Marks
    BY <1>1, <1>2, Fields DEF PointInv, Waiting
  <1> DEFINE edge == <<comp[s].source, "attempt">>
  <1>4. comp[s].source # 0 => edge \in Attempt(s)
    BY DEF Attempt
  <1>5. edge[1] = comp[s].source /\ edge \in Marks
    BY <1>1, Fields DEF Marks, Labels
  <1>6. \A x \in Attempt(s) : x \in comp[s].captured \/ (comp[s].source # 0 /\ x = edge)
    BY DEF Attempt
  <1>7. comp[s].source # 0 => comp[s].source \in 1 .. count
    BY <1>1, <1>2
  <1> HIDE DEF edge
  <1>8. \A x \in Attempt(s) : x[1] \in 1 .. count /\ x \in Marks
    BY <1>3, <1>5, <1>6, <1>7
  <1>9. session[s].last # 0 => \E x \in Attempt(s) : x[1] = session[s].last
    BY <1>2, <1>4, <1>5
  <1> QED BY <1>8, <1>9

LEMMA StartRollupStep ==
    ASSUME IInv, NEW s \in Sessions, StartRollup(s)
    PROVE  IInv'
  <1>1. /\ comp[s].stage = "rollup" /\ StartSide(s, "rollup", Attempt(s))
        /\ UNCHANGED <<raised, comp, refine>>
    BY DEF StartRollup
  <1>2. /\ TypeInv /\ OriginInv /\ StageInv(s) /\ SideInv(s) /\ raised = FALSE /\ count \in Nat
    BY Known
  <1>3. /\ phase[s] = "side" /\ call[s] = NoCall /\ phase' = phase /\ session' = session
        /\ count < MaxRequests /\ count' = count + 1
        /\ call' = [call EXCEPT ![s] =
              [id |-> count + 1, kind |-> "rollup", inbound |-> Attempt(s), retry |-> FALSE]]
    BY <1>1 DEF StartSide, Quiet
  <1>4. /\ Attempt(s) \in SUBSET Marks /\ \A x \in Attempt(s) : x[1] \in 1 .. count
        /\ session[s].last # 0 => \E x \in Attempt(s) : x[1] = session[s].last
    BY <1>1, AttemptFacts
  <1>5. TypeInv'
    <2>1. comp' \in [Sessions -> Compactions] /\ refine' \in [Sessions -> Refinements]
      BY <1>1, <1>2 DEF TypeInv
    <2>2. "rollup" \in Kinds
      BY DEF Kinds
    <2> QED BY <2>1, <2>2, <1>1, <1>2, <1>4, SideTyped
  <1>6. call'[s].id = count + 1 /\ call'[s].kind = "rollup"
    BY <1>2, <1>3 DEF TypeInv
  <1>7. comp[s].slot # 0 /\ refine[s] = NoRefinement /\ comp[s].slot <= count
        /\ comp[s].slot \in Nat
    <2>1. comp[s] # NoCompaction
      BY <1>1 DEF NoCompaction
    <2>2. comp[s].slot # 0 /\ refine[s] = NoRefinement
      BY <2>1, <1>1, <1>2, <1>3 DEF StageInv
    <2> QED BY <2>2, <1>2, Fields DEF SideInv, Ids
  <1>8. StageInv(s)'
    <2>1. comp'[s].slot # call'[s].id /\ call'[s].id # 0
      BY <1>1, <1>2, <1>6, <1>7
    <2> QED BY <2>1, <1>1, <1>3, <1>6, <1>7 DEF StageInv
  <1>9. ASSUME World(s), gone' = gone, edges' = edges
        PROVE  SideInv(s)'
    <2>1. /\ session'[s] = session[s] /\ comp'[s] = comp[s] /\ refine'[s] = refine[s]
          /\ edges' \ edges = {} /\ call'[s].kind # "summary"
      BY <1>1, <1>3, <1>6, <1>9
    <2> QED BY <2>1, <1>2, <1>5, <1>9, SideStep
  <1>10. raised' = FALSE
         /\ \A t \in Sessions : t # s => comp'[t] = comp[t] /\ refine'[t] = refine[t]
    BY <1>1, <1>2
  <1> QED BY <1>1, <1>4, <1>5, <1>8, <1>9, <1>10, SideStarted

LEMMA StartSummaryStep ==
    ASSUME IInv, NEW s \in Sessions, StartSummary(s)
    PROVE  IInv'
  <1>1. /\ comp[s].stage = "summary" /\ StartSide(s, "summary", Attempt(s))
        /\ raised' = (raised \/ comp[s].slot # 0)
        /\ comp' = [comp EXCEPT ![s].slot = count + 1] /\ refine' = refine
    BY DEF StartSummary
  <1>2. /\ TypeInv /\ OriginInv /\ PointInv(s) /\ StageInv(s) /\ SideInv(s) /\ raised = FALSE
        /\ count \in Nat /\ session[s].last \in Nat
    BY Known
  <1>3. /\ phase[s] = "side" /\ call[s] = NoCall /\ phase' = phase /\ session' = session
        /\ count < MaxRequests /\ count' = count + 1
        /\ call' = [call EXCEPT ![s] =
              [id |-> count + 1, kind |-> "summary", inbound |-> Attempt(s), retry |-> FALSE]]
    BY <1>1 DEF StartSide, Quiet
  <1>4. /\ Attempt(s) \in SUBSET Marks /\ \A x \in Attempt(s) : x[1] \in 1 .. count
        /\ session[s].last # 0 => \E x \in Attempt(s) : x[1] = session[s].last
    BY <1>1, AttemptFacts
  <1>5. comp[s] \in Compactions /\ count + 1 \in Ids
    BY <1>2, <1>3, Fields, Next1
  <1>6. /\ comp'[s] = [comp[s] EXCEPT !.slot = count + 1] /\ comp' = [comp EXCEPT ![s] = comp'[s]]
        /\ \A t \in Sessions : t # s => comp'[t] = comp[t]
    BY <1>1, <1>2 DEF TypeInv
  <1>7. /\ comp'[s] \in Compactions /\ comp'[s].stage = "summary" /\ comp'[s].slot = count + 1
        /\ comp'[s].source = comp[s].source /\ comp'[s].captured = comp[s].captured
    BY <1>1, <1>5, <1>6 DEF Compactions
  <1>8. TypeInv'
    <2>1. comp' \in [Sessions -> Compactions] /\ refine' \in [Sessions -> Refinements]
      BY <1>1, <1>2, <1>6, <1>7 DEF TypeInv
    <2>2. "summary" \in Kinds
      BY DEF Kinds
    <2> QED BY <2>1, <2>2, <1>1, <1>2, <1>4, SideTyped
  <1>9. call'[s].id = count + 1 /\ call'[s].kind = "summary" /\ call'[s].inbound = Attempt(s)
    BY <1>2, <1>3 DEF TypeInv
  <1>10. comp[s].slot = 0 /\ refine[s] = NoRefinement
    <2>1. comp[s] # NoCompaction
      BY <1>1 DEF NoCompaction
    <2> QED BY <2>1, <1>1, <1>2, <1>3 DEF StageInv, NoCall
  <1>11. StageInv(s)'
    <2>1. call'[s].id # 0
      BY <1>2, <1>9
    <2> QED BY <2>1, <1>1, <1>3, <1>7, <1>9, <1>10 DEF StageInv
  <1>12. ASSUME World(s), gone' = gone, edges' = edges,
                origin'[count + 1] = [by |-> s, kind |-> "summary", from |-> session[s].last]
         PROVE  SideInv(s)'
    <2>1. PICK q : q = count + 1
      OBVIOUS
    <2>2. q \notin gone /\ \A e \in edges : e[1] # q
      BY <2>1, <1>2 DEF OriginInv
    <2>3. Owned(s, q)' /\ ~Carried(s, q, "compaction")'
      BY <2>1, <2>2, <1>12 DEF Owned, Carried
    <2>4. q <= count' /\ q > session[s].last /\ comp'[s].slot = q
      BY <2>1, <1>2, <1>3, <1>7 DEF PointInv
    <2>5. Attempt(s)' = Attempt(s)
      BY <1>7 DEF Attempt
    <2>6. Owned(s, comp[s].slot)' /\ ~Carried(s, comp[s].slot, "compaction")'
      BY <2>3, <2>4 DEF Owned, Carried
    <2>7. comp'[s].slot <= count' /\ comp'[s].slot > session'[s].last
      BY <2>4, <1>3
    <2>8. comp'[s].source = session'[s].last /\ comp'[s].captured \subseteq session'[s].pending
      BY <1>1, <1>2, <1>3, <1>7 DEF SideInv
    <2>9. refine'[s] = NoRefinement /\ comp'[s].stage # "rollup"
      BY <1>1, <1>7, <1>10
    <2> QED BY <2>5, <2>6, <2>7, <2>8, <2>9, <1>9 DEF SideInv, NoRefinement
  <1>13. raised' = FALSE
         /\ \A t \in Sessions : t # s => comp'[t] = comp[t] /\ refine'[t] = refine[t]
    BY <1>1, <1>2, <1>6, <1>10
  <1> QED BY <1>1, <1>4, <1>8, <1>11, <1>12, <1>13, SideStarted

LEMMA StartPlanStep ==
    ASSUME IInv, NEW s \in Sessions, StartPlan(s)
    PROVE  IInv'
  <1> DEFINE edge == <<refine[s].source, "refinement_attempt">>
             inbound == IF refine[s].source = 0 THEN {} ELSE {edge}
  <1>1. /\ refine[s].on /\ StartSide(s, "plan", inbound)
        /\ raised' = (raised \/ refine[s].slot # 0)
        /\ refine' = [refine EXCEPT ![s].slot = count + 1] /\ comp' = comp
    BY DEF StartPlan
  <1>2. /\ TypeInv /\ OriginInv /\ PointInv(s) /\ StageInv(s) /\ SideInv(s) /\ raised = FALSE
        /\ count \in Nat /\ session[s].last \in Nat
    BY Known
  <1>3. /\ phase[s] = "side" /\ call[s] = NoCall /\ phase' = phase /\ session' = session
        /\ count < MaxRequests /\ count' = count + 1
        /\ call' = [call EXCEPT ![s] =
              [id |-> count + 1, kind |-> "plan", inbound |-> inbound, retry |-> FALSE]]
    BY <1>1 DEF StartSide, Quiet
  <1>4. /\ inbound \in SUBSET Marks /\ \A x \in inbound : x[1] \in 1 .. count
        /\ session[s].last # 0 => \E x \in inbound : x[1] = session[s].last
    <2>1. refine[s].source = session[s].last /\ session[s].last <= count
      BY <1>1, <1>2 DEF SideInv, PointInv
    <2>2. edge \in Marks /\ edge[1] = session[s].last
      BY <2>1, <1>2, Fields DEF Marks, Labels
    <2>3. session[s].last # 0 => session[s].last \in 1 .. count
      BY <2>1, <1>2
    <2>4. inbound = IF session[s].last = 0 THEN {} ELSE {edge}
      BY <2>1
    <2> HIDE DEF edge, inbound
    <2> QED BY <2>2, <2>3, <2>4
  <1> HIDE DEF inbound
  <1>5. refine[s] \in Refinements /\ count + 1 \in Ids
    BY <1>2, <1>3, Fields, Next1
  <1>6. /\ refine'[s] = [refine[s] EXCEPT !.slot = count + 1]
        /\ refine' = [refine EXCEPT ![s] = refine'[s]]
        /\ \A t \in Sessions : t # s => refine'[t] = refine[t]
    BY <1>1, <1>2 DEF TypeInv
  <1>7. /\ refine'[s] \in Refinements /\ refine'[s].on /\ refine'[s].slot = count + 1
        /\ refine'[s].source = refine[s].source
    BY <1>1, <1>5, <1>6 DEF Refinements
  <1>8. TypeInv'
    <2>1. comp' \in [Sessions -> Compactions] /\ refine' \in [Sessions -> Refinements]
      BY <1>1, <1>2, <1>6, <1>7 DEF TypeInv
    <2>2. "plan" \in Kinds
      BY DEF Kinds
    <2> QED BY <2>1, <2>2, <1>1, <1>2, <1>4, SideTyped
  <1>9. call'[s].id = count + 1 /\ call'[s].kind = "plan"
    BY <1>2, <1>3 DEF TypeInv
  <1>10. refine[s].slot = 0 /\ comp[s] = NoCompaction
    <2>1. refine[s] # NoRefinement
      BY <1>1 DEF NoRefinement
    <2> QED BY <2>1, <1>1, <1>2, <1>3 DEF StageInv, NoCall
  <1>11. StageInv(s)'
    <2>1. call'[s].id # 0
      BY <1>2, <1>9
    <2> QED BY <2>1, <1>1, <1>3, <1>7, <1>9, <1>10 DEF StageInv
  <1>12. ASSUME edges' = edges
         PROVE  SideInv(s)'
    <2>1. PICK q : q = count + 1
      OBVIOUS
    <2>2. \A e \in edges : e[1] # q
      BY <2>1, <1>2 DEF OriginInv
    <2>3. ~Carried(s, q, "refinement")'
      BY <2>1, <2>2, <1>12 DEF Carried
    <2>4. q <= count' /\ refine'[s].slot = q
      BY <2>1, <1>2, <1>3, <1>7
    <2>5. refine'[s].slot <= count' /\ ~Carried(s, refine[s].slot, "refinement")'
      BY <2>3, <2>4 DEF Carried
    <2>6. refine'[s].source = session'[s].last
      BY <1>1, <1>2, <1>3, <1>7 DEF SideInv
    <2>7. comp'[s] = NoCompaction
      BY <1>1, <1>10
    <2> QED BY <2>5, <2>6, <2>7, <1>9 DEF SideInv, NoCompaction
  <1>13. raised' = FALSE
         /\ \A t \in Sessions : t # s => comp'[t] = comp[t] /\ refine'[t] = refine[t]
    BY <1>1, <1>2, <1>6, <1>10
  <1> QED BY <1>1, <1>4, <1>8, <1>11, <1>12, <1>13, SideStarted

----------------------------------------------------------------------------
\* A work request starts: it takes all that waits, and the spawn if it is the first.
LEMMA StartWorkStep ==
    ASSUME IInv, NEW s \in Sessions, StartWork(s)
    PROVE  IInv'
  <1> DEFINE spawn == IF s # "root" /\ ~session[s].claimed THEN {<<spawner[s], "call">>} ELSE {}
             p == session[s].pending \cup spawn
             q == session[s].last
             more == IF q = 0 \/ \E e \in p : e[1] = q THEN {} ELSE {<<q, "continuation">>}
             inbound == p \cup more
             new == [id |-> count + 1, kind |-> "work", retry |-> phase[s] = "retry",
                     inbound |-> inbound]
  <1>1. /\ phase[s] \in {"ready", "replied", "retry"} /\ count < MaxRequests
        /\ call' = [call EXCEPT ![s] = new]
        /\ session' = [session EXCEPT ![s] = [@ EXCEPT !.pending = {}, !.claimed = s # "root"]]
        /\ count' = count + 1 /\ Originates(s, "work") /\ phase' = [phase EXCEPT ![s] = "calling"]
        /\ UNCHANGED <<returned, stopped, edges, raised, saved, scope, comp, refine>>
        /\ UNCHANGED <<status, spawner, result, mail, sent, gone, due, mark>>
    BY DEF StartWork, treeVars
  <1>2. /\ TypeInv /\ OriginInv /\ ConsumedOnce /\ MailInv /\ PointInv(s) /\ SavedInv(s)
        /\ StageInv(s) /\ raised = FALSE /\ count \in Nat /\ q \in Nat
        /\ s # "root" => s \in Children /\ BirthInv(s) /\ status[s] = "running"
    BY <1>1, Known
  <1>3. Waiting(s) = session[s].pending
    BY <1>1 DEF Waiting, Taken
  <1>4. s # "root" => spawner[s] \in 1 .. count /\ spawner[s] \in Ids
    BY <1>2 DEF BirthInv, TypeInv
  <1>5. /\ \A x \in spawn : /\ s # "root" /\ ~session[s].claimed
                            /\ x[1] = spawner[s] /\ x[2] = "call"
                            /\ x \in Marks /\ x[1] \in 1 .. count
        /\ s # "root" /\ ~session[s].claimed => <<spawner[s], "call">> \in spawn
    BY <1>4 DEF Marks, Labels
  <1>6. q <= count /\ q \in Ids /\ (q # 0 => q \in 1 .. count)
    BY <1>2, Fields DEF PointInv
  <1>7. \A x \in more : x[1] = q /\ x[2] = "continuation" /\ x \in Marks /\ q # 0
    BY <1>6 DEF Marks, Labels
  <1>8. q # 0 => (\E e \in p : e[1] = q) \/ <<q, "continuation">> \in more
    OBVIOUS
  <1> HIDE DEF spawn, more
  <1>9. inbound \in SUBSET Marks /\ \A x \in inbound : x[1] \in 1 .. count
    <2>1. \A x \in session[s].pending : x \in Marks /\ x[1] \in 1 .. count
      BY <1>2, <1>3, Fields DEF PointInv
    <2> QED BY <2>1, <1>5, <1>6, <1>7
  <1>10. q # 0 => \E x \in inbound : x[1] = q
    <2> SUFFICES ASSUME q # 0 PROVE \E x \in inbound : x[1] = q
      OBVIOUS
    <2>1. <<q, "continuation">>[1] = q
      OBVIOUS
    <2> QED BY <2>1, <1>8
  <1>11. session[s].pending \subseteq inbound /\ spawn \subseteq inbound
         /\ inbound \subseteq session[s].pending \cup spawn \cup more
    OBVIOUS
  <1> HIDE DEF inbound
  <1>12. count + 1 \in Ids /\ new \in Calls
    <2>1. count + 1 \in Ids
      BY <1>1, <1>2, Next1
    <2>2. "work" \in Kinds /\ (phase[s] = "retry") \in BOOLEAN
      BY DEF Kinds
    <2> QED BY <2>1, <2>2, <1>9 DEF Calls
  <1>13. /\ session'[s].last = q /\ session'[s].pending = {} /\ session'[s].claimed = (s # "root")
         /\ session'[s] \in Points /\ session' = [session EXCEPT ![s] = session'[s]]
         /\ \A t \in Sessions : t # s => session'[t] = session[t]
    <2>1. session \in [Sessions -> Points] /\ session[s] \in Points
      BY <1>2, Fields DEF TypeInv
    <2>2. /\ session'[s] = [session[s] EXCEPT !.pending = {}, !.claimed = s # "root"]
          /\ \A t \in Sessions : t # s => session'[t] = session[t]
          /\ session' = [session EXCEPT ![s] = session'[s]]
      BY <1>1, <2>1
    <2>3. /\ session'[s].last = q /\ session'[s].pending = {}
          /\ session'[s].claimed = (s # "root")
      BY <2>1, <2>2 DEF Points
    <2>4. [session[s] EXCEPT !.pending = {}, !.claimed = s # "root"] \in Points
      BY <2>1 DEF Points
    <2> QED BY <2>2, <2>3, <2>4
  <1>14. /\ call'[s] = new /\ phase'[s] = "calling"
         /\ call'[s].id = count + 1 /\ call'[s].kind = "work" /\ call'[s].inbound = inbound
    BY <1>1, <1>2 DEF TypeInv
  <1>15. TypeInv'
    <2>1. call' \in [Sessions -> Calls] /\ phase' \in [Sessions -> Phases]
      BY <1>1, <1>2, <1>12 DEF TypeInv, Phases
    <2>2. session' \in [Sessions -> Points]
      BY <1>2, <1>13 DEF TypeInv
    <2>3. "work" \in Kinds
      BY DEF Kinds
    <2>4. origin' \in [Requests -> Origins]
      BY <1>1, <1>2, <2>3, OriginTyped
    <2> QED BY <1>1, <1>2, <1>12, <2>1, <2>2, <2>4 DEF TypeInv
  <1>16. Owned(s, session[s].last)
    BY <1>2 DEF PointInv
  <1>17. OriginInv' /\ ConsumedOnce'
    BY <1>1, <1>2, <1>6, <1>16, StartHistory
  <1>18. /\ World(s) /\ origin'[count + 1] = [by |-> s, kind |-> "work", from |-> session[s].last]
    BY <1>1, <1>2, Starts
  <1>19. mark[s].count <= count /\ mark'[s] = mark[s] /\ gone' = gone /\ edges' \ edges = {}
    BY <1>1, <1>2 DEF SavedInv
  <1>20. CallInv(s)'
    <2>1. PICK again : again = (phase[s] = "retry")
      OBVIOUS
    <2>2. PICK taken : taken = inbound
      OBVIOUS
    <2>3. call'[s] = [id |-> count + 1, kind |-> "work", inbound |-> taken, retry |-> again]
      BY <1>14, <2>1, <2>2
    <2>4. \A x \in taken : x[1] \in 1 .. count
      BY <1>9, <2>2
    <2>5. session[s].last # 0 => \E x \in taken : x[1] = session[s].last
      BY <1>10, <2>2
    <2>6. session'[s].last = session[s].last
      BY <1>13
    <2> QED BY <2>3, <2>4, <2>5, <2>6, <1>1, <1>2, <1>15, <1>18, <1>19, CallOpens
  <1>21. Waiting(s)' = inbound
    BY <1>13, <1>14 DEF Waiting, Taken
  <1>22. ASSUME NEW r, NEW l \in Single
         PROVE  Carried(s, r, l)' => Carried(s, r, l)
    <2>1. l # "cancel" /\ \A e \in edges' \ edges :
             e[3] = l /\ e[3] # "cancel" => origin'[e[2]].kind # "work"
      BY <1>19 DEF Single
    <2> QED BY <2>1, <1>2, <1>18, <1>19, Here
  <1>23. PointInv(s)'
    <2>1. session'[s].last <= count'
      BY <1>1, <1>2, <1>6, <1>13
    <2>2. Owned(s, session[s].last)'
      <3>1. PICK r \in Ids : r = session[s].last
        BY <1>6
      <3>2. Owned(s, r)'
        BY <3>1, <1>2, <1>6, <1>16, <1>18, <1>19, OwnedHere
      <3> QED BY <3>1, <3>2, <1>13 DEF Owned
    <2>3. ASSUME NEW x \in inbound
          PROVE  x[1] \in 1 .. count' /\ (x[2] \in Single => ~Carried(s, x[1], x[2])')
      <3>1. x[1] \in 1 .. count'
        BY <1>1, <1>2, <1>9
      <3>2. ASSUME x[2] \in Single
            PROVE  ~Carried(s, x[1], x[2])
        <4>1. CASE x \in session[s].pending
          BY <3>2, <4>1, <1>2, <1>3 DEF PointInv
        <4>2. CASE x \in spawn
          <5>1. s # "root" /\ ~session[s].claimed /\ x[2] = "call" /\ x[1] \in 1 .. count
            BY <4>2, <1>5
          <5>2. x[1] \in Ids
            BY <4>2, <1>4, <1>5
          <5>3. ~Carried(s, x[1], "call")
            BY <5>1, <5>2, <1>2 DEF PointInv
          <5> QED BY <5>1, <5>3
        <4>3. CASE x \in more
          BY <3>2, <4>3, <1>7 DEF Single
        <4> QED BY <4>1, <4>2, <4>3, <1>11
      <3> QED BY <3>1, <3>2, <1>22
    <2>4. ~(s # "root" /\ ~session'[s].claimed)
      BY <1>13
    <2>5. ASSUME NEW x \in due[s]
          PROVE  /\ x[2] = "call" => s # "root" /\ x[1] = spawner[s]
                 /\ x \in inbound \/ Kept(s, x[1], x[2])' \/ Kept(s, x[1], "attempt")'
      <3>1. /\ x[2] = "call" => s # "root" /\ x[1] = spawner[s]
            /\ \/ x \in Waiting(s)
               \/ x[2] = "call" /\ ~session[s].claimed
               \/ Kept(s, x[1], x[2]) \/ Kept(s, x[1], "attempt")
        BY <1>2 DEF PointInv
      <3>2. Kept(s, x[1], x[2]) => Kept(s, x[1], x[2])'
        BY <1>2, <1>18, <1>19, Here
      <3>3. Kept(s, x[1], "attempt") => Kept(s, x[1], "attempt")'
        BY <1>2, <1>18, <1>19, Here
      <3>4. ASSUME x[2] = "call", ~session[s].claimed
            PROVE  x \in inbound
        <4>1. x \in Ids \X Labels
          BY <1>2, Fields DEF Marks
        <4>2. x = <<spawner[s], "call">>
          BY <4>1, <3>1, <3>4
        <4> QED BY <4>2, <3>1, <3>4, <1>5, <1>11
      <3> QED BY <3>1, <3>2, <3>3, <3>4, <1>3, <1>11
    <2>6. due' = due /\ spawner' = spawner
      BY <1>1
    <2>7. \A x \in Waiting(s)' :
             x[1] \in 1 .. count' /\ (x[2] \in Single => ~Carried(s, x[1], x[2])')
      BY <2>3, <1>21
    <2>8. \A x \in due'[s] :
             /\ x[2] = "call" => s # "root" /\ x[1] = spawner'[s]
             /\ x \in Waiting(s)' \/ Kept(s, x[1], x[2])' \/ Kept(s, x[1], "attempt")'
      BY <2>5, <2>6, <1>21
    <2> QED BY <2>1, <2>2, <2>4, <2>7, <2>8 DEF PointInv
  <1>24. comp[s] = NoCompaction /\ refine[s] = NoRefinement
    BY <1>1, <1>2 DEF StageInv
  <1>25. StageInv(s)'
    <2>1. call'[s].id # 0
      BY <1>2, <1>14
    <2> QED BY <2>1, <1>1, <1>13, <1>14, <1>24 DEF StageInv
  <1>26. SideInv(s)'
    BY <1>1, <1>14, <1>24, SideClosed
  <1>27. \A t \in Sessions : t # s => Still(t)
    BY <1>1, <1>2, <1>13 DEF TypeInv, Still
  <1>28. MailInv'
    <2>1. \A t \in Sessions : \A r \in mail[t] : r \in Nat
      BY <1>2 DEF TypeInv, Ids
    <2> QED BY <2>1, <1>1, <1>2 DEF MailInv
  <1>29. \A x \in Waiting(s)' : x[2] = "return" => x \in Waiting(s)
    BY <1>3, <1>5, <1>7, <1>11, <1>21
  <1>30. /\ phase[s] # "idle" /\ phase'[s] # "idle" /\ phase'[s] # "cell" /\ scope'[s] = scope[s]
         /\ saved'[s] = saved[s] /\ UNCHANGED <<returned, status, result, spawner>>
         /\ session'[s].last = session[s].last /\ raised' = FALSE
    BY <1>1, <1>2, <1>13, <1>14
  <1> QED BY <1>15, <1>17, <1>18, <1>19, <1>20, <1>23, <1>25, <1>26, <1>27,
            <1>28, <1>29, <1>30, Goes

\* A work request ends: what it took is carried, and the session continues from it.
LEMMA FinishWorkStep ==
    ASSUME IInv, NEW s \in Sessions, NEW next \in {"replied", "cell"}, FinishWork(s, next)
    PROVE  IInv'
  <1> DEFINE id == call[s].id
  <1>1. /\ phase[s] = "calling" /\ edges' = edges \cup Into(call[s].inbound, id)
        /\ session' = [session EXCEPT ![s].last = id]
        /\ scope' = [scope EXCEPT ![s] = IF next = "cell" THEN id ELSE 0]
        /\ call' = [call EXCEPT ![s] = NoCall] /\ phase' = [phase EXCEPT ![s] = next]
        /\ UNCHANGED <<count, returned, stopped, raised, saved, comp, refine>>
        /\ UNCHANGED <<status, spawner, result, mail, sent, origin, gone, due, mark>>
    BY DEF FinishWork, treeVars, historyVars
  <1>2. /\ TypeInv /\ OriginInv /\ ConsumedOnce /\ MailInv /\ PointInv(s) /\ SavedInv(s)
        /\ CallInv(s) /\ StageInv(s) /\ raised = FALSE /\ count \in Nat /\ session[s].last \in Nat
        /\ s # "root" => status[s] = "running"
    BY <1>1, Known
  <1>3. /\ call[s].kind = "work" /\ id # 0 /\ comp[s] = NoCompaction /\ refine[s] = NoRefinement
        /\ session[s].pending = {} /\ session[s].claimed = (s # "root")
    BY <1>1, <1>2 DEF StageInv
  <1>4. /\ id <= count /\ id > mark[s].count /\ id \notin gone /\ id \in Ids /\ id \in Nat
        /\ origin[id] = [by |-> s, kind |-> "work", from |-> session[s].last]
    BY <1>2, <1>3, Fields DEF CallInv, Ids
  <1>5. session[s].last < id
    <2>1. id \in Requests /\ ~(id > count)
      BY <1>2, <1>3, <1>4, EdgeConstants DEF Ids, Requests
    <2>2. origin[id].from < id
      BY <2>1, <1>2 DEF OriginInv
    <2>3. origin[id].from = session[s].last
      BY <1>4
    <2> QED BY <2>2, <2>3
  <1> HIDE DEF id
  <1>6. /\ session'[s].last = id /\ session'[s].pending = {} /\ session'[s].claimed = (s # "root")
        /\ session'[s] \in Points /\ session' = [session EXCEPT ![s] = session'[s]]
        /\ \A t \in Sessions : t # s => session'[t] = session[t]
    <2>1. session \in [Sessions -> Points] /\ session[s] \in Points
      BY <1>2, Fields DEF TypeInv
    <2>2. /\ session'[s] = [session[s] EXCEPT !.last = id]
          /\ \A t \in Sessions : t # s => session'[t] = session[t]
          /\ session' = [session EXCEPT ![s] = session'[s]]
      BY <1>1, <2>1
    <2>3. [session[s] EXCEPT !.last = id] \in Points
      BY <2>1, <1>4 DEF Points
    <2>4. session'[s].last = id /\ session'[s].pending = session[s].pending
          /\ session'[s].claimed = session[s].claimed
      BY <2>1, <2>2 DEF Points
    <2> QED BY <2>2, <2>3, <2>4, <1>3
  <1>7. phase'[s] = next /\ call'[s] = NoCall /\ scope'[s] = (IF next = "cell" THEN id ELSE 0)
    BY <1>1, <1>2 DEF TypeInv
  <1>8. TypeInv'
    <2>1. call' \in [Sessions -> Calls] /\ phase' \in [Sessions -> Phases]
          /\ scope' \in [Sessions -> Ids]
      BY <1>1, <1>2, <1>4, Blanks DEF TypeInv, Phases
    <2>2. session' \in [Sessions -> Points]
      BY <1>2, <1>6 DEF TypeInv
    <2>3. Into(call[s].inbound, id) \subseteq Ids \X Requests \X Labels
      BY <1>2, <1>3, IntoTyped DEF id
    <2> QED BY <1>1, <1>2, <2>1, <2>2, <2>3 DEF TypeInv
  <1>9. PICK extra : extra = {}
    OBVIOUS
  <1>10. /\ edges' = edges \cup Into(call[s].inbound, call[s].id) \cup extra
         /\ \A e \in extra : e[1] \in 1 .. count /\ e[2] = call[s].id /\ e[3] = "violation"
    BY <1>1, <1>9 DEF id
  <1>11. call[s].id # 0
    BY <1>3 DEF id
  <1>12. /\ OriginInv' /\ ConsumedOnce' /\ World(s)
         /\ \A e \in edges' \ edges : e[2] = call[s].id
    BY <1>1, <1>2, <1>8, <1>10, <1>11, CommitHistory
  <1>13. /\ gone' = gone /\ saved'[s] = saved[s] /\ mark'[s] = mark[s] /\ phase'[s] # "idle"
         /\ s # "root" => spawner'[s] = spawner[s]
    BY <1>1, <1>7
  <1>14. \A e \in edges' \ edges : e[3] = "cancel" \/ ~(e[2] <= mark[s].count)
    <2>1. mark[s].count \in Nat /\ ~(id <= mark[s].count)
      BY <1>2, <1>4, Fields DEF Ids
    <2> QED BY <2>1, <1>12 DEF id
  <1>15. SavedInv(s)'
    BY <1>2, <1>8, <1>12, <1>13, <1>14, SavedStep
  <1>16. Waiting(s) = call[s].inbound /\ Waiting(s)' = {}
    BY <1>1, <1>3, <1>6, <1>7 DEF Waiting, Taken
  <1>17. ASSUME NEW x \in call[s].inbound
         PROVE  Kept(s, x[1], x[2])'
    <2>1. <<x[1], id, x[2]>> \in edges'
      BY <1>1 DEF Into
    <2>2. id \notin gone' /\ origin'[id].by = s
      BY <1>1, <1>4
    <2> QED BY <2>1, <2>2 DEF Kept
  <1>18. PointInv(s)'
    <2>1. session'[s].last <= count' /\ Owned(s, session[s].last)'
      BY <1>1, <1>4, <1>6 DEF Owned
    <2>2. ~(s # "root" /\ ~session'[s].claimed)
      BY <1>6
    <2>3. ASSUME NEW x \in due[s]
          PROVE  /\ x[2] = "call" => s # "root" /\ x[1] = spawner[s]
                 /\ Kept(s, x[1], x[2])' \/ Kept(s, x[1], "attempt")'
      <3>1. /\ x[2] = "call" => s # "root" /\ x[1] = spawner[s]
            /\ \/ x \in Waiting(s)
               \/ x[2] = "call" /\ ~session[s].claimed
               \/ Kept(s, x[1], x[2]) \/ Kept(s, x[1], "attempt")
        BY <1>2 DEF PointInv
      <3>2. Kept(s, x[1], x[2]) => Kept(s, x[1], x[2])'
        BY <1>2, <1>12, <1>13, Here
      <3>3. Kept(s, x[1], "attempt") => Kept(s, x[1], "attempt")'
        BY <1>2, <1>12, <1>13, Here
      <3> QED BY <3>1, <3>2, <3>3, <1>3, <1>16, <1>17
    <2>4. due' = due /\ spawner' = spawner
      BY <1>1
    <2>5. \A x \in due'[s] :
             /\ x[2] = "call" => s # "root" /\ x[1] = spawner'[s]
             /\ Kept(s, x[1], x[2])' \/ Kept(s, x[1], "attempt")'
      BY <2>3, <2>4
    <2> QED BY <2>1, <2>2, <2>5, <1>16 DEF PointInv
  <1>19. CallInv(s)' /\ SideInv(s)'
    BY <1>1, <1>3, <1>7, SideClosed DEF CallInv, NoCall
  <1>20. StageInv(s)'
    BY <1>1, <1>3, <1>7 DEF StageInv, NoCall
  <1>21. CellInv(s)'
    BY <1>1, <1>2, <1>3, <1>4, <1>7 DEF CellInv
  <1>22. SessionInv(s)'
    BY <1>15, <1>18, <1>19, <1>20, <1>21 DEF SessionInv
  <1>23. \A t \in Sessions : t # s => Still(t)
    BY <1>1, <1>2, <1>6 DEF TypeInv, Still
  <1>24. s = "root" => RootKeeps
    <2> SUFFICES ASSUME s = "root" PROVE RootKeeps
      OBVIOUS
    <2>1. \A x \in Waiting("root")' \cup saved'["root"].pending :
             x[2] = "return" => x \in Waiting("root") \cup saved["root"].pending
      BY <1>13, <1>16
    <2>2. ASSUME NEW q \in Ids, Carried("root", q, "return")'
          PROVE  Carried("root", q, "return") \/ <<q, "return">> \in Waiting("root")
      <3>1. PICK e \in edges' : /\ e[1] = q /\ e[3] = "return" /\ e[2] \notin gone'
                                /\ origin'[e[2]].by = "root" /\ origin'[e[2]].kind = "work"
        BY <2>2 DEF Carried
      <3>2. CASE e \in edges
        BY <3>1, <3>2, <1>1 DEF Carried
      <3>3. CASE e \in Into(call[s].inbound, id)
        <4>1. PICK x \in call[s].inbound : e = <<x[1], id, x[2]>>
          BY <3>3 DEF Into
        <4>2. x \in Ids \X Labels
          BY <1>2, Fields DEF Marks
        <4>3. x = <<q, "return">>
          BY <3>1, <4>1, <4>2
        <4> QED BY <4>3, <1>16
      <3> QED BY <3>2, <3>3, <1>1
    <2> QED BY <2>1, <2>2 DEF RootKeeps
  <1>25. MailInv' /\ NeverRaises'
    BY <1>1, <1>2 DEF MailInv, NeverRaises
  <1>26. session[s].last <= session'[s].last
    BY <1>2, <1>4, <1>5, <1>6
  <1> QED BY <1>1, <1>2, <1>8, <1>12, <1>22, <1>23, <1>24, <1>25, <1>26, Inner

----------------------------------------------------------------------------
\* A step that moves nothing but mail.
LEMMA Unmoved ==
    ASSUME IInv, TypeInv', MailInv',
           UNCHANGED <<count, session, returned, edges, raised>>,
           UNCHANGED <<saved, phase, call, scope, comp, refine>>,
           UNCHANGED <<spawner, result, origin, gone, due, mark>>,
           \A c \in Children : \/ status'[c] = status[c]
                               \/ status[c] \in {"running", "idle"} /\ status'[c] = "running"
    PROVE  IInv'
  <1>1. /\ TypeInv /\ OriginInv /\ ConsumedOnce /\ NeverRaises
        /\ \A s \in Sessions : SessionInv(s)
        /\ \A c \in Children : BirthInv(c) /\ ReturnInv(c)
    BY DEF IInv
  <1>2. OriginInv' /\ ConsumedOnce' /\ NeverRaises'
    BY <1>1, QuietHistory DEF NeverRaises
  <1>4. ASSUME NEW s \in Sessions
        PROVE  SessionInv(s)'
    <2>1. PointInv(s)'
      BY <1>1 DEF SessionInv, PointInv, Waiting, Taken, Owned, Kept, Carried
    <2>2. SavedInv(s)'
      BY <1>1 DEF SessionInv, SavedInv, Owned, KeptBefore, CarriedBefore
    <2>3. CallInv(s)' /\ StageInv(s)' /\ CellInv(s)'
      BY <1>1 DEF SessionInv, CallInv, StageInv, CellInv
    <2>4. SideInv(s)'
      BY <1>1 DEF SessionInv, SideInv, Attempt, Owned, Kept, Carried
    <2> QED BY <2>1, <2>2, <2>3, <2>4 DEF SessionInv
  <1>5. ASSUME NEW c \in Children
        PROVE  BirthInv(c)' /\ ReturnInv(c)'
    <2>1. BirthInv(c)'
      BY <1>1 DEF BirthInv
    <2>2. status'[c] \in Live => status[c] \in Live
      BY DEF Live
    <2>3. ReturnInv(c)'
      BY <2>2, <1>1 DEF ReturnInv, Waiting, Taken, Carried
    <2> QED BY <2>1, <2>3
  <1> QED BY <1>2, <1>4, <1>5 DEF IInv

\* The calls of a cell.
LEMMA ReportStep ==
    ASSUME IInv, NEW c \in Children, Report(c)
    PROVE  IInv'
  <1>1. /\ phase[c] = "cell" /\ mail' = [mail EXCEPT !["root"] = @ \cup {scope[c]}]
        /\ UNCHANGED <<count, session, returned, stopped, edges, raised>>
        /\ UNCHANGED <<saved, phase, call, scope, comp, refine>>
        /\ UNCHANGED <<status, spawner, result, origin, gone, due, mark>>
    BY DEF Report, InCell, trackerVars, promptVars, historyVars
  <1>2. c \in Sessions
    BY DEF Sessions
  <1>3. TypeInv /\ OriginInv /\ MailInv /\ CellInv(c) /\ SessionInv(c) /\ raised = FALSE
    BY <1>2, Known DEF SessionInv
  <1>4. scope[c] \in Ids
    BY <1>2, <1>3, Fields
  <1>5. TypeInv'
    <2>1. mail' \in [Sessions -> SUBSET Ids]
      BY <1>1, <1>3, <1>4 DEF TypeInv
    <2> QED BY <1>1, <1>3, <2>1 DEF TypeInv
  <1>6. MailInv'
    BY <1>1, <1>3, <1>4 DEF MailInv, CellInv, TypeInv
  <1> QED BY <1>1, <1>2, <1>3, <1>5, <1>6, Unmoved

LEMMA SendStep ==
    ASSUME IInv, NEW c \in Children, Send(c)
    PROVE  IInv'
  <1>1. /\ phase["root"] = "cell" /\ status[c] \in {"running", "idle"}
        /\ status' = [status EXCEPT ![c] = "running"]
        /\ mail' = [mail EXCEPT ![c] = @ \cup {scope["root"]}]
        /\ UNCHANGED <<count, session, returned, stopped, edges, raised>>
        /\ UNCHANGED <<saved, phase, call, scope, comp, refine>>
        /\ UNCHANGED <<spawner, result, origin, gone, due, mark>>
    BY DEF Send, InCell, trackerVars, promptVars, historyVars
  <1>2. "root" \in Sessions /\ c \in Sessions
    BY DEF Sessions
  <1>3. TypeInv /\ MailInv /\ CellInv("root")
    BY <1>2, Known
  <1>4. scope["root"] \in Ids
    BY <1>2, <1>3, Fields
  <1>5. TypeInv'
    <2>1. mail' \in [Sessions -> SUBSET Ids]
      BY <1>1, <1>2, <1>3, <1>4 DEF TypeInv
    <2>2. status' \in [Children -> Statuses]
      BY <1>1, <1>3 DEF TypeInv, Statuses
    <2> QED BY <1>1, <1>3, <2>1, <2>2 DEF TypeInv
  <1>6. MailInv'
    BY <1>1, <1>2, <1>3, <1>4 DEF MailInv, CellInv, TypeInv
  <1>7. \A d \in Children : \/ status'[d] = status[d]
                            \/ status[d] \in {"running", "idle"} /\ status'[d] = "running"
    BY <1>1, <1>3 DEF TypeInv
  <1> QED BY <1>1, <1>5, <1>6, <1>7, Unmoved

\* What is delivered to a session between its requests waits.
LEMMA Delivered ==
    ASSUME IInv, TypeInv', NEW s \in Sessions, phase[s] \in {"ready", "replied", "cell"},
           NEW new, Deliver(s, new), \A x \in new : x[1] \in Ids /\ x[1] <= count /\ x[2] # "call",
           \A x \in new : x[2] \in Single => ~Carried(s, x[1], x[2]),
           UNCHANGED <<count, edges, raised, saved, phase, call, scope, comp, refine>>,
           UNCHANGED <<spawner, origin, gone, mark>>
    PROVE  /\ OriginInv' /\ ConsumedOnce' /\ NeverRaises' /\ World(s) /\ SessionInv(s)'
           /\ \A t \in Sessions : t # s => Still(t)
           /\ session'[s].last = session[s].last
           /\ Waiting(s)' = Waiting(s) \cup {e \in new : e[1] # 0}
  <1> DEFINE known == {e \in new : e[1] # 0}
  <1>1. /\ session' = [session EXCEPT ![s].pending = @ \cup known]
        /\ due' = [due EXCEPT ![s] = @ \cup known]
    BY DEF Deliver
  <1>2. /\ TypeInv /\ OriginInv /\ PointInv(s) /\ SavedInv(s) /\ CallInv(s) /\ StageInv(s)
        /\ CellInv(s) /\ raised = FALSE /\ count \in Nat
    BY Known
  <1>3. \A x \in known : /\ x[1] \in 1 .. count /\ x[2] # "call"
                         /\ x[2] \in Single => ~Carried(s, x[1], x[2])
    BY <1>2 DEF Ids
  <1> HIDE DEF known
  <1>4. /\ session'[s].last = session[s].last /\ session'[s].claimed = session[s].claimed
        /\ session'[s].pending = session[s].pending \cup known /\ due'[s] = due[s] \cup known
        /\ \A t \in Sessions : t # s => session'[t] = session[t] /\ due'[t] = due[t]
    BY <1>1, <1>2 DEF TypeInv, Points
  <1>5. Waiting(s)' = Waiting(s) \cup known
    BY <1>4 DEF Waiting, Taken
  <1>6. OriginInv' /\ ConsumedOnce' /\ World(s) /\ gone' = gone /\ edges' \ edges = {}
    BY Quietly
  <1>7. s # "root" => spawner'[s] = spawner[s]
    OBVIOUS
  <1>8. PointInv(s)'
    BY <1>2, <1>3, <1>4, <1>5, <1>6, <1>7, PointStep
  <1>9. saved'[s] = saved[s] /\ mark'[s] = mark[s] /\ (phase'[s] = "idle" => phase[s] = "idle")
    OBVIOUS
  <1>10. SavedInv(s)'
    BY <1>2, <1>6, <1>7, <1>9, SavedStep
  <1>11. call[s] = NoCall /\ comp[s] = NoCompaction /\ refine[s] = NoRefinement
    BY <1>2 DEF StageInv
  <1>12. CallInv(s)' /\ SideInv(s)'
    BY <1>11, SideClosed DEF CallInv, NoCall
  <1>13. StageInv(s)' /\ CellInv(s)'
    BY <1>2, <1>11 DEF StageInv, CellInv, NoCall
  <1>14. \A t \in Sessions : t # s => Still(t)
    BY <1>4 DEF Still
  <1>15. NeverRaises'
    BY <1>2 DEF NeverRaises
  <1>16. SessionInv(s)'
    BY <1>8, <1>10, <1>12, <1>13 DEF SessionInv
  <1> QED BY <1>4, <1>5, <1>6, <1>14, <1>15, <1>16 DEF known

\* Messages that are read or taken wait for the next request.
LEMMA MessagesIn ==
    ASSUME IInv, NEW s \in Sessions, phase[s] \in {"ready", "replied", "cell"},
           NEW from \in SUBSET mail[s], Deliver(s, {<<q, "message">> : q \in from}),
           mail' = [mail EXCEPT ![s] = @ \ from],
           UNCHANGED <<count, returned, edges, raised, saved, phase, call, scope, comp, refine>>,
           UNCHANGED <<status, spawner, result, origin, gone, mark>>
    PROVE  IInv'
  <1>1. PICK new : new = {<<q, "message">> : q \in from}
    OBVIOUS
  <1>2. /\ TypeInv /\ OriginInv /\ MailInv /\ session[s].last \in Nat
        /\ s # "root" => status[s] = "running"
    BY Known
  <1>3. /\ mail[s] \in SUBSET Ids /\ \A q \in mail[s] : q <= count
    BY <1>2, Fields DEF MailInv
  <1>4. /\ new \in SUBSET Marks
        /\ \A x \in new : x[1] \in Ids /\ x[1] <= count /\ x[2] = "message"
    BY <1>1, <1>3 DEF Marks, Labels
  <1>5. Deliver(s, new)
    BY <1>1
  <1>6. TypeInv'
    <2>1. session' \in [Sessions -> Points] /\ due' \in [Sessions -> SUBSET Marks]
      BY <1>2, <1>4, <1>5, DeliverTyped
    <2>2. mail' \in [Sessions -> SUBSET Ids]
      BY <1>2 DEF TypeInv
    <2> QED BY <1>2, <2>1, <2>2 DEF TypeInv
  <1>7. /\ \A x \in new : x[1] \in Ids /\ x[1] <= count /\ x[2] # "call"
        /\ \A x \in new : x[2] \in Single => ~Carried(s, x[1], x[2])
    BY <1>4 DEF Single
  <1>8. /\ OriginInv' /\ ConsumedOnce' /\ NeverRaises' /\ World(s) /\ SessionInv(s)'
        /\ \A t \in Sessions : t # s => Still(t)
        /\ session'[s].last = session[s].last
        /\ Waiting(s)' = Waiting(s) \cup {e \in new : e[1] # 0}
    BY <1>5, <1>6, <1>7, Delivered
  <1>9. MailInv'
    BY <1>2 DEF MailInv, TypeInv
  <1>10. \A x \in Waiting(s)' \cup saved'[s].pending :
              x[2] = "return" => x \in Waiting(s) \cup saved[s].pending
    BY <1>4, <1>8
  <1>11. gone' = gone /\ edges' \ edges = {}
    OBVIOUS
  <1>12. s = "root" => RootKeeps
    BY <1>2, <1>8, <1>10, <1>11, RootSame
  <1>13. session[s].last <= session'[s].last
    BY <1>2, <1>8
  <1> QED BY <1>2, <1>6, <1>8, <1>9, <1>12, <1>13, Inner

LEMMA TakeMailStep ==
    ASSUME IInv, NEW c \in Children, TakeMail(c)
    PROVE  IInv'
  <1>1. c \in Sessions /\ TypeInv
    BY Known DEF Sessions
  <1>2. PICK from : from = mail[c]
    OBVIOUS
  <1>3. Deliver(c, {<<q, "message">> : q \in from}) /\ from \in SUBSET mail[c]
    BY <1>2 DEF TakeMail
  <1>4. mail' = [mail EXCEPT ![c] = @ \ from]
    BY <1>2 DEF TakeMail
  <1> QED BY <1>1, <1>3, <1>4, MessagesIn DEF TakeMail, promptVars

LEMMA ReadStep ==
    ASSUME IInv, NEW q \in Requests, Read(q)
    PROVE  IInv'
  <1>1. "root" \in Sessions
    BY DEF Sessions
  <1>2. PICK from : from = {q}
    OBVIOUS
  <1>3. {<<q, "message">>} = {<<r, "message">> : r \in from}
    BY <1>2
  <1>4. Deliver("root", {<<r, "message">> : r \in from})
    BY <1>3 DEF Read
  <1>5. from \in SUBSET mail["root"] /\ mail' = [mail EXCEPT !["root"] = @ \ from]
    BY <1>2 DEF Read
  <1> QED BY <1>1, <1>4, <1>5, MessagesIn DEF Read, promptVars, InCell

\* The root is handed what a child ended with, once.
LEMMA Handed ==
    ASSUME IInv, NEW c \in Children, NEW q \in Ids, NEW l \in {"return", "failed"},
           phase["root"] = "cell", q <= session[c].last,
           l = "return" => q = result[c] /\ status[c] \in Live,
           l = "failed" => status[c] = "failed",
           HandBack(c, q, l), UNCHANGED <<count, stopped, edges, raised>>,
           UNCHANGED <<saved, phase, call, scope, comp, refine>>,
           UNCHANGED <<status, spawner, result, mail, sent, origin, gone, mark>>
    PROVE  IInv'
  <1>0. /\ "root" \in Sessions /\ c \in Sessions /\ c # "root"
        /\ \A d \in Children : d \in Sessions /\ d # "root"
    BY EdgeConstants DEF Sessions
  <1>1. /\ TypeInv /\ OriginInv /\ MailInv /\ SessionInv("root") /\ PointInv(c)
        /\ \A d \in Children : BirthInv(d) /\ ReturnInv(d) /\ PointInv(d)
    BY <1>0, Known DEF IInv, SessionInv
  <1>2. CASE q = 0 \/ returned[c] = q
    <2>1. UNCHANGED <<session, due, returned>>
      BY <1>2 DEF HandBack
    <2>2. TypeInv' /\ MailInv'
      BY <2>1, <1>1 DEF TypeInv, MailInv
    <2> QED BY <2>1, <2>2, Unmoved
  <1>3. CASE q # 0 /\ returned[c] # q
    <2>1. PICK new : new = {<<q, l>>}
      OBVIOUS
    <2>2. Deliver("root", new) /\ returned' = [returned EXCEPT ![c] = q]
      BY <1>3, <2>1 DEF HandBack
    <2>3. /\ session[c].last \in Nat /\ session[c].last <= count /\ count \in Nat
          /\ q \in 1 .. count
      BY <1>0, <1>1, <1>3 DEF TypeInv, Points, Ids, PointInv
    <2>4. /\ new \in SUBSET Marks
          /\ \A x \in new : x = <<q, l>> /\ x[1] = q /\ x[2] = l /\ x[1] \in Ids /\ x[1] <= count
      BY <2>1, <2>3 DEF Marks, Labels
    <2>5. ASSUME l = "return"
          PROVE  /\ returned[c] <= q /\ returned[c] \in Nat /\ origin[q].by = c
                 /\ ~Carried("root", q, "return")
      <3>1. ReturnInv(c) /\ status[c] \in Live /\ q = result[c]
        BY <1>1, <2>5
      <3>2. returned[c] <= q /\ returned[c] \in Nat /\ origin[q].by = c
        BY <3>1, <1>0, <1>1, <1>3 DEF ReturnInv, TypeInv, Ids
      <3>3. Carried("root", q, "return") => q <= returned[c]
        BY <3>1, <3>2, <2>3 DEF ReturnInv
      <3> QED BY <3>2, <3>3, <1>3, <2>3
    <2>6. \A x \in new : x[2] # "call" /\ (x[2] \in Single => ~Carried("root", x[1], x[2]))
      BY <2>4, <2>5 DEF Single
    <2>7. TypeInv'
      <3>1. session' \in [Sessions -> Points] /\ due' \in [Sessions -> SUBSET Marks]
        BY <1>0, <1>1, <2>2, <2>4, DeliverTyped
      <3>2. returned' \in [Sessions -> Ids]
        BY <1>1, <2>2 DEF TypeInv
      <3> QED BY <1>1, <3>1, <3>2 DEF TypeInv
    <2>8. /\ OriginInv' /\ ConsumedOnce' /\ NeverRaises' /\ World("root") /\ SessionInv("root")'
          /\ \A t \in Sessions : t # "root" => Still(t)
          /\ Waiting("root")' = Waiting("root") \cup {e \in new : e[1] # 0}
      BY <1>0, <2>2, <2>4, <2>6, <2>7, Delivered
    <2>9. MailInv'
      BY <1>1 DEF MailInv
    <2>10. \A x \in Waiting("root")' \cup saved'["root"].pending :
              x \in Waiting("root") \cup saved["root"].pending \/ x = <<q, l>>
      BY <2>4, <2>8
    <2>11. returned'[c] = q /\ \A d \in Children : d # c => returned'[d] = returned[d]
      BY <1>0, <1>1, <2>2 DEF TypeInv
    <2>12. \A r : Carried("root", r, "return")' <=> Carried("root", r, "return")
      BY DEF Carried
    <2>13. ASSUME NEW d \in Children
           PROVE  BirthInv(d)' /\ ReturnInv(d)'
      <3>1. session'[d] = session[d] /\ phase'[d] = phase[d]
        BY <1>0, <2>8 DEF Still
      <3>2. status[c] # "unborn"
        BY DEF Live
      <3>3. BirthInv(d)'
        BY <3>1, <3>2, <1>1, <2>3, <2>11 DEF BirthInv
      <3>4. ASSUME d # c
            PROVE  ReturnInv(d)'
        <4>1. \A x \in Waiting("root")' \cup saved'["root"].pending :
                 x[2] = "return" /\ origin[x[1]].by = d =>
                    x \in Waiting("root") \cup saved["root"].pending
          <5>1. l = "return" => origin[q].by # d
            BY <2>5, <3>4
          <5> QED BY <5>1, <2>10
        <4>2. ReturnInv(d)
          BY <1>1
        <4> QED BY <3>1, <3>4, <4>1, <4>2, <2>11, <2>12 DEF ReturnInv
      <3>5. ASSUME d = c
            PROVE  ReturnInv(d)'
        <4> SUFFICES ASSUME status[c] \in Live PROVE ReturnInv(c)'
          BY <3>5 DEF ReturnInv
        <4>1. l = "return"
          BY DEF Live
        <4>2. returned[c] <= q /\ returned[c] \in Nat /\ origin[q].by = c /\ q = result[c]
          BY <4>1, <2>5
        <4>3. ReturnInv(c) /\ TypeInv
          BY <1>1
        <4>4. \A x \in Waiting("root") \cup saved["root"].pending : x[1] \in 1 .. count
          BY <1>1 DEF SessionInv, PointInv, SavedInv
        <4>5. \A x \in Waiting("root")' \cup saved'["root"].pending :
                 x[2] = "return" /\ origin[x[1]].by = c => x[1] <= q
          <5>1. \A x \in Waiting("root") \cup saved["root"].pending :
                   x[2] = "return" /\ origin[x[1]].by = c => x[1] <= returned[c]
            BY <4>3 DEF ReturnInv
          <5>2. \A x \in Waiting("root") \cup saved["root"].pending :
                   x[1] <= returned[c] => x[1] <= q
            BY <4>2, <4>4, <2>3
          <5>3. <<q, l>>[1] = q /\ q <= q
            BY <2>3
          <5> QED BY <5>1, <5>2, <5>3, <2>10
        <4>6. \A r \in 1 .. count : Carried("root", r, "return") /\ origin[r].by = c => r <= q
          BY <4>2, <4>3, <2>3 DEF ReturnInv
        <4>7. q <= result[c] /\ result[c] <= session[c].last /\ origin[result[c]].by = c
          BY <4>2, <2>3
        <4> QED BY <3>1, <3>5, <4>5, <4>6, <4>7, <2>11, <2>12 DEF ReturnInv
      <3> QED BY <3>3, <3>4, <3>5
    <2> QED BY <1>0, <2>7, <2>8, <2>9, <2>13, Gather
  <1> QED BY <1>2, <1>3

LEMMA ResultStep ==
    ASSUME IInv, NEW c \in Children, Result(c)
    PROVE  IInv'
  <1>1. c \in Sessions /\ c # "root"
    BY EdgeConstants DEF Sessions
  <1>2. TypeInv /\ ReturnInv(c) /\ status[c] \in Live /\ phase["root"] = "cell"
    BY <1>1, Known DEF Result, InCell, Live
  <1>3. PICK q \in Ids : q = result[c]
    BY <1>2 DEF TypeInv
  <1>4. HandBack(c, q, "return") /\ q <= session[c].last
    BY <1>2, <1>3 DEF Result, ReturnInv
  <1> QED BY <1>2, <1>3, <1>4, Handed DEF Result, promptVars, treeVars

LEMMA ResultFailedStep ==
    ASSUME IInv, NEW c \in Children, ResultFailed(c)
    PROVE  IInv'
  <1>1. c \in Sessions /\ c # "root"
    BY EdgeConstants DEF Sessions
  <1>2. TypeInv /\ status[c] = "failed" /\ phase["root"] = "cell"
    BY <1>1, Known DEF ResultFailed, InCell
  <1>3. PICK q \in Ids : q = session[c].last
    BY <1>1, <1>2, Fields
  <1>4. HandBack(c, q, "failed") /\ q <= session[c].last
    BY <1>3 DEF ResultFailed, Ids
  <1> QED BY <1>2, <1>3, <1>4, Handed DEF ResultFailed, promptVars, treeVars

\* A child begins its life with the edge of its spawn due.
LEMMA SpawnStep ==
    ASSUME IInv, NEW c \in Children, Spawn(c)
    PROVE  IInv'
  <1> DEFINE q == scope["root"]
  <1>1. /\ phase["root"] = "cell" /\ status[c] = "unborn"
        /\ status' = [status EXCEPT ![c] = "running"] /\ spawner' = [spawner EXCEPT ![c] = q]
        /\ due' = [due EXCEPT ![c] = {<<q, "call">>}]
        /\ UNCHANGED <<count, session, returned, stopped, edges, raised>>
        /\ UNCHANGED <<saved, phase, call, scope, comp, refine>>
        /\ UNCHANGED <<result, mail, sent, origin, gone, mark>>
    BY DEF Spawn, InCell, trackerVars, promptVars
  <1>2. c \in Sessions /\ c # "root" /\ "root" \in Sessions
    BY EdgeConstants DEF Sessions
  <1>3. /\ TypeInv /\ OriginInv /\ MailInv /\ PointInv(c) /\ SavedInv(c) /\ CallInv(c)
        /\ StageInv(c) /\ SideInv(c) /\ CellInv(c) /\ BirthInv(c) /\ CellInv("root")
        /\ SessionInv("root") /\ raised = FALSE /\ count \in Nat
    BY <1>2, Known DEF IInv
  <1>4. q \in 1 .. count /\ q \in Ids
    <2>1. q \in Ids
      BY <1>2, <1>3, Fields
    <2> QED BY <2>1, <1>1, <1>3 DEF CellInv, Ids
  <1>5. /\ phase[c] = "idle" /\ session[c] = NoPoint /\ returned[c] = 0 /\ result[c] = 0
        /\ \A r \in Requests : origin[r].by # c
    BY <1>1, <1>3 DEF BirthInv
  <1> HIDE DEF q
  <1>6. status'[c] = "running" /\ spawner'[c] = q /\ due'[c] = {<<q, "call">>}
    BY <1>1, <1>2, <1>3 DEF TypeInv
  <1>7. TypeInv'
    <2>1. due' \in [Sessions -> SUBSET Marks]
      <3>1. <<q, "call">> \in Marks
        BY <1>4 DEF Marks, Labels
      <3> QED BY <3>1, <1>1, <1>3 DEF TypeInv
    <2>2. status' \in [Children -> Statuses] /\ spawner' \in [Children -> Ids]
      BY <1>1, <1>3, <1>4 DEF TypeInv, Statuses
    <2> QED BY <1>1, <1>3, <2>1, <2>2 DEF TypeInv
  <1>8. OriginInv' /\ ConsumedOnce' /\ World(c)
    BY <1>1, <1>2, Quietly
  <1>9. NeverRaises' /\ MailInv'
    BY <1>1, <1>3 DEF NeverRaises, MailInv
  <1>10. \A t \in Sessions : t # c => Still(t)
    <2> SUFFICES ASSUME NEW t \in Sessions, t # c PROVE Still(t)
      OBVIOUS
    <2>1. due'[t] = due[t]
      BY <1>1, <1>3 DEF TypeInv
    <2>2. t # "root" => spawner'[t] = spawner[t]
      BY <1>1, <1>3 DEF TypeInv, Sessions
    <2> QED BY <1>1, <2>1, <2>2 DEF Still
  <1>11. PointInv(c)'
    <2>1. session'[c].last = 0 /\ session'[c].pending = {} /\ session'[c].claimed = FALSE
      BY <1>1, <1>5 DEF NoPoint
    <2>2. Waiting(c)' = {}
      BY <1>1, <1>5, <2>1 DEF Waiting, Taken
    <2>3. Owned(c, session[c].last)'
      BY <2>1 DEF Owned
    <2>4. \A r \in Ids : ~Carried(c, r, "call")'
      BY <2>1, <1>1, <1>2, <1>3 DEF PointInv, Carried
    <2>5. \A x \in due'[c] : x[2] = "call" /\ x[1] = spawner'[c]
      BY <1>6
    <2> QED BY <1>1, <1>2, <1>3, <2>1, <2>2, <2>3, <2>4, <2>5 DEF PointInv
  <1>12. SavedInv(c)'
    BY <1>1, <1>2, <1>3, <1>5, <1>7, <1>8, SavedReset DEF SavedInv
  <1>13. CallInv(c)' /\ StageInv(c)' /\ SideInv(c)' /\ CellInv(c)'
    <2>1. call[c] = NoCall /\ comp[c] = NoCompaction /\ refine[c] = NoRefinement
      BY <1>3, <1>5 DEF StageInv
    <2>2. CallInv(c)' /\ SideInv(c)'
      BY <2>1, <1>1, <1>2, SideClosed DEF CallInv, NoCall
    <2> QED BY <2>2, <1>1, <1>3 DEF StageInv, CellInv
  <1>14. SessionInv(c)'
    BY <1>11, <1>12, <1>13 DEF SessionInv
  <1>15. BirthInv(c)'
    BY <1>1, <1>3, <1>4, <1>5, <1>6 DEF BirthInv
  <1>16. ReturnInv(c)'
    <2>1. \A x \in Waiting("root") \cup saved["root"].pending : x[1] \in 1 .. count
      BY <1>3 DEF SessionInv, PointInv, SavedInv
    <2>2. \A r \in 1 .. count : r \in Requests
      BY <1>3, EdgeConstants DEF TypeInv, Ids, Requests
    <2>3. \A x \in Waiting("root") \cup saved["root"].pending : origin[x[1]].by # c
      BY <2>1, <2>2, <1>5
    <2>4. \A r \in 1 .. count : origin[r].by # c
      BY <2>2, <1>5
    <2>5. Waiting("root")' = Waiting("root")
      BY <1>1 DEF Waiting, Taken
    <2>6. session'[c].last = 0 /\ returned'[c] = 0 /\ result'[c] = 0
      BY <1>1, <1>5 DEF NoPoint
    <2> QED BY <1>1, <2>3, <2>4, <2>5, <2>6 DEF ReturnInv
  <1>17. \A d \in Children : d # c => /\ status'[d] = status[d]
                                      /\ returned'[d] = returned[d] /\ result'[d] = result[d]
    BY <1>1, <1>3 DEF TypeInv
  <1> QED BY <1>2, <1>7, <1>8, <1>9, <1>10, <1>14, <1>15, <1>16, <1>17, Assemble

----------------------------------------------------------------------------
\* A rollback takes out the requests of the prompt, the last ones of its session, and
\* leaves the continuation point that there was when it began.
LEMMA UnwindStep ==
    ASSUME IInv, TypeInv', NEW s \in Sessions, phase[s] # "idle", Unwind(s),
           UNCHANGED <<count, origin, spawner>>, edges \subseteq edges',
           \A e \in edges' \ edges :
              e[1] \in 1 .. count /\ e[2] \in 1 .. count /\ e[3] = "cancel"
    PROVE  /\ OriginInv' /\ ConsumedOnce' /\ World(s) /\ SessionInv(s)'
           /\ \A t \in Sessions : t # s => Still(t)
           /\ session'[s].last <= count /\ phase'[s] = "idle"
           /\ s = "root" => RootKeeps
  <1>1. /\ TypeInv /\ OriginInv /\ ConsumedOnce /\ SavedInv(s) /\ count \in Nat
    BY Known
  <1>2. /\ session' = [session EXCEPT ![s] = saved[s]]
        /\ call' = [call EXCEPT ![s] = NoCall]
        /\ comp' = [comp EXCEPT ![s] = NoCompaction]
        /\ refine' = [refine EXCEPT ![s] = NoRefinement]
        /\ phase' = [phase EXCEPT ![s] = "idle"]
        /\ scope' = [scope EXCEPT ![s] = 0]
        /\ saved' = [saved EXCEPT ![s] = NoPoint]
        /\ gone' = gone \cup {r \in Requests : origin[r].by = s /\ r > mark[s].count}
        /\ due' = [due EXCEPT ![s] = mark[s].due]
        /\ mark' = [mark EXCEPT ![s] = NoMark]
    BY DEF Unwind, Restored
  <1>3. /\ session'[s] = saved[s] /\ call'[s] = NoCall /\ comp'[s] = NoCompaction
        /\ refine'[s] = NoRefinement /\ phase'[s] = "idle" /\ scope'[s] = 0
        /\ saved'[s] = NoPoint /\ due'[s] = mark[s].due /\ mark'[s] = NoMark
    BY <1>1, <1>2 DEF TypeInv
  <1>4. OriginInv' /\ ConsumedOnce' /\ World(s)
    BY <1>1, <1>2, UnwindHistory
  <1>5. \A t \in Sessions : t # s => Still(t)
    BY <1>1, <1>2 DEF TypeInv, Still
  <1>6. mark[s].count \in Nat /\ saved[s].last \in Ids /\ saved[s].last \in Nat
        /\ saved[s].pending \in SUBSET Marks
    BY <1>1, Fields DEF Ids, Points
  <1>7. \A r \in Requests : /\ r \notin gone /\ r <= mark[s].count => r \notin gone'
                            /\ r \notin gone' => r \notin gone
                            /\ r \notin gone' /\ origin[r].by = s => r <= mark[s].count
    BY <1>2, <1>6, EdgeConstants DEF Requests
  <1>8. \A e \in edges' : e[2] \in Requests
    BY DEF TypeInv
  <1>9. ASSUME NEW q, NEW l
        PROVE  KeptBefore(s, q, l) => Kept(s, q, l)'
    <2>1. \A e \in edges : e \in edges' /\ e[2] \in Requests
      BY <1>8
    <2> QED BY <2>1, <1>7 DEF Kept, KeptBefore
  <1>10. ASSUME NEW q, NEW l, l # "cancel"
         PROVE  Carried(s, q, l)' => CarriedBefore(s, q, l)
    <2>1. \A e \in edges' : e[3] # "cancel" => e \in edges
      OBVIOUS
    <2> QED BY <2>1, <1>7, <1>8, <1>10 DEF Carried, CarriedBefore
  <1>11. Waiting(s)' = saved[s].pending
    BY <1>3 DEF Waiting, Taken
  <1>12. /\ saved[s].last <= mark[s].count /\ mark[s].count <= count /\ Owned(s, saved[s].last)
         /\ \A x \in saved[s].pending :
               x[1] \in 1 .. count /\ (x[2] \in Single => ~CarriedBefore(s, x[1], x[2]))
         /\ s # "root" /\ ~saved[s].claimed => \A q \in Ids : ~CarriedBefore(s, q, "call")
         /\ \A x \in mark[s].due :
               /\ x[2] = "call" => s # "root" /\ x[1] = spawner[s]
               /\ \/ x \in saved[s].pending
                  \/ x[2] = "call" /\ ~saved[s].claimed
                  \/ KeptBefore(s, x[1], x[2]) \/ KeptBefore(s, x[1], "attempt")
    BY <1>1 DEF SavedInv
  <1>13. saved[s].last <= count
    BY <1>1, <1>6, <1>12
  <1>14. PointInv(s)'
    <2>1. Owned(s, session[s].last)'
      <3>1. saved[s].last # 0 => saved[s].last \in Requests
        BY <1>6, EdgeConstants DEF Ids, Requests
      <3> QED BY <3>1, <1>3, <1>7, <1>12 DEF Owned
    <2>2. session'[s].last <= count'
      BY <1>3, <1>13
    <2>3. \A x \in saved[s].pending :
             x[1] \in 1 .. count' /\ (x[2] \in Single => ~Carried(s, x[1], x[2])')
      <3>1. \A l \in Single : l # "cancel"
        BY DEF Single
      <3> QED BY <3>1, <1>10, <1>12
    <2>4. s # "root" /\ ~saved[s].claimed => \A q \in Ids : ~Carried(s, q, "call")'
      BY <1>10, <1>12
    <2>5. \A x \in mark[s].due :
             /\ x[2] = "call" => s # "root" /\ x[1] = spawner'[s]
             /\ \/ x \in saved[s].pending
                \/ x[2] = "call" /\ ~saved[s].claimed
                \/ Kept(s, x[1], x[2])' \/ Kept(s, x[1], "attempt")'
      BY <1>9, <1>12
    <2> QED BY <2>1, <2>2, <2>3, <2>4, <2>5, <1>3, <1>11 DEF PointInv
  <1>15. SavedInv(s)'
    BY <1>3, <1>4, SavedReset
  <1>16. CallInv(s)' /\ SideInv(s)'
    BY <1>3, SideClosed DEF CallInv, NoCall
  <1>17. StageInv(s)' /\ CellInv(s)'
    BY <1>1, <1>3 DEF StageInv, CellInv, NoCall
  <1>18. s = "root" => RootKeeps
    <2>1. ASSUME NEW q, Carried(s, q, "return")'
          PROVE  Carried(s, q, "return")
      BY <2>1, <1>10 DEF Carried, CarriedBefore
    <2>2. saved'[s].pending = {}
      BY <1>3 DEF NoPoint
    <2> QED BY <2>1, <2>2, <1>11 DEF RootKeeps
  <1> QED BY <1>3, <1>4, <1>5, <1>13, <1>14, <1>15, <1>16, <1>17, <1>18 DEF SessionInv

\* A child whose prompt is rolled back has ended.
LEMMA ChildEnds ==
    ASSUME IInv, NEW c \in Children, World(c), status[c] \in {"running", "idle"},
           status' = [status EXCEPT ![c] = status'[c]], status'[c] \in {"failed", "cancelled"},
           phase'[c] = "idle", UNCHANGED <<returned, result, spawner>>
    PROVE  \A d \in Children :
              \/ BirthInv(d)' /\ ReturnInv(d)'
              \/ /\ d # c /\ status'[d] = status[d]
                 /\ returned'[d] = returned[d] /\ result'[d] = result[d]
  <1>1. TypeInv /\ BirthInv(c)
    BY DEF IInv
  <1>2. count <= count' /\ count \in Nat /\ count' \in Nat /\ result[c] \in Nat
        /\ returned[c] \in Nat
    BY <1>1 DEF World, Ids, TypeInv, Sessions
  <1>3. BirthInv(c)'
    BY <1>1, <1>2 DEF BirthInv
  <1>4. ReturnInv(c)'
    BY DEF ReturnInv, Live
  <1>5. \A d \in Children : d # c => status'[d] = status[d]
    BY <1>1 DEF TypeInv
  <1> QED BY <1>3, <1>4, <1>5

LEMMA RollbackStep ==
    ASSUME IInv, Rollback
    PROVE  IInv'
  <1>1. /\ phase["root"] # "idle" /\ Unwind("root")
        /\ UNCHANGED <<count, returned, stopped, edges, raised>>
        /\ UNCHANGED <<status, spawner, result, mail, sent, origin>>
    BY DEF Rollback, treeVars
  <1>2. "root" \in Sessions /\ \A c \in Children : c # "root"
    BY EdgeConstants DEF Sessions
  <1>3. TypeInv /\ MailInv /\ raised = FALSE
    BY <1>2, Known
  <1>4. TypeInv'
    BY <1>1, <1>2, <1>3, UnwindTyped DEF TypeInv
  <1>5. edges \subseteq edges' /\ edges' \ edges = {}
    BY <1>1
  <1>6. /\ OriginInv' /\ ConsumedOnce' /\ World("root") /\ SessionInv("root")'
        /\ \A t \in Sessions : t # "root" => Still(t)
        /\ RootKeeps
    BY <1>1, <1>2, <1>4, <1>5, UnwindStep
  <1>7. NeverRaises' /\ MailInv'
    BY <1>1, <1>3 DEF NeverRaises, MailInv
  <1> QED BY <1>1, <1>2, <1>4, <1>6, <1>7, Assemble

LEMMA ChildFailsStep ==
    ASSUME IInv, NEW c \in Children, ChildFails(c)
    PROVE  IInv'
  <1>1. /\ phase[c] # "idle" /\ Unwind(c) /\ status' = [status EXCEPT ![c] = "failed"]
        /\ mail' = [mail EXCEPT !["root"] = @ \cup ({session'[c].last} \ {0})]
        /\ UNCHANGED <<count, returned, stopped, edges, raised, spawner, result, sent, origin>>
    BY DEF ChildFails
  <1>2. c \in Sessions /\ c # "root" /\ "root" \in Sessions
    BY EdgeConstants DEF Sessions
  <1>3. TypeInv /\ MailInv /\ raised = FALSE /\ status[c] = "running"
    BY <1>1, <1>2, Known
  <1>4. TypeInv'
    <2>1. session' \in [Sessions -> Points]
      BY <1>1, <1>2, <1>3, UnwindTyped
    <2>2. session'[c].last \in Ids
      BY <2>1, <1>2 DEF Points
    <2>3. mail' \in [Sessions -> SUBSET Ids]
      BY <2>2, <1>1, <1>3 DEF TypeInv
    <2>4. status' \in [Children -> Statuses]
      BY <1>1, <1>3 DEF TypeInv, Statuses
    <2> QED BY <2>3, <2>4, <1>1, <1>2, <1>3, UnwindTyped DEF TypeInv
  <1>5. edges \subseteq edges' /\ edges' \ edges = {}
    BY <1>1
  <1>6. /\ OriginInv' /\ ConsumedOnce' /\ World(c) /\ SessionInv(c)'
        /\ \A t \in Sessions : t # c => Still(t)
        /\ session'[c].last <= count /\ phase'[c] = "idle"
    BY <1>1, <1>2, <1>4, <1>5, UnwindStep
  <1>7. NeverRaises' /\ MailInv'
    BY <1>1, <1>2, <1>3, <1>6 DEF NeverRaises, MailInv, TypeInv
  <1>8. status'[c] = "failed" /\ status' = [status EXCEPT ![c] = status'[c]]
    BY <1>1, <1>3 DEF TypeInv
  <1>9. \A d \in Children :
              \/ BirthInv(d)' /\ ReturnInv(d)'
              \/ /\ d # c /\ status'[d] = status[d]
                 /\ returned'[d] = returned[d] /\ result'[d] = result[d]
    BY <1>1, <1>3, <1>6, <1>8, ChildEnds
  <1> QED BY <1>2, <1>4, <1>6, <1>7, <1>9, Assemble

\* A cancel is an edge between requests that there are.
LEMMA CancelEdges ==
    ASSUME IInv, NEW c \in Children, phase["root"] = "cell", NEW target \in Ids, target <= count,
           RecordCancel(c, target)
    PROVE  /\ edges \subseteq edges'
           /\ \A e \in edges' \ edges :
                 e[1] \in 1 .. count /\ e[2] \in 1 .. count /\ e[3] = "cancel"
           /\ edges' \subseteq Ids \X Requests \X Labels
  <1>1. "root" \in Sessions
    BY DEF Sessions
  <1>2. TypeInv /\ CellInv("root") /\ count \in Nat
    BY <1>1, Known
  <1>3. scope["root"] \in 1 .. count
    <2>1. scope["root"] \in Nat
      BY <1>1, <1>2, Fields DEF Ids
    <2> QED BY <2>1, <1>2 DEF CellInv
  <1>4. target # 0 => target \in 1 .. count
    BY <1>2 DEF Ids
  <1>5. \A e \in edges' \ edges : e = <<scope["root"], target, "cancel">> /\ target # 0
    BY DEF RecordCancel
  <1>6. edges \subseteq edges'
    BY DEF RecordCancel
  <1> QED BY <1>2, <1>3, <1>4, <1>5, <1>6, CancelTyped

\* A step that adds cancels and moves nothing else.
LEMMA Recorded ==
    ASSUME IInv, TypeInv', NEW c \in Children, edges \subseteq edges',
           \A e \in edges' \ edges :
              e[1] \in 1 .. count /\ e[2] \in 1 .. count /\ e[3] = "cancel",
           UNCHANGED <<count, session, returned, raised, saved, phase, call, scope, comp, refine>>,
           UNCHANGED <<spawner, result, mail, origin, gone, due, mark>>,
           \/ status' = status
           \/ /\ status' = [status EXCEPT ![c] = "cancelled"]
              /\ status[c] \in {"running", "idle"} /\ phase[c] = "idle"
    PROVE  IInv'
  <1>1. /\ "root" \in Sessions /\ c \in Sessions
        /\ \A d \in Children : d \in Sessions /\ d # "root"
    BY EdgeConstants DEF Sessions
  <1>2. /\ TypeInv /\ OriginInv /\ ConsumedOnce /\ NeverRaises /\ MailInv
        /\ \A s \in Sessions : SessionInv(s)
        /\ \A d \in Children : BirthInv(d) /\ ReturnInv(d)
    BY DEF IInv
  <1>3. OriginInv' /\ ConsumedOnce' /\ World("root")
    BY <1>1, <1>2, EdgesHistory
  <1>4. World(c)
    BY <1>1, <1>2, EdgesHistory
  <1>5. \A t \in Sessions : Still(t)
    BY DEF Still
  <1>6. SessionInv("root")'
    BY <1>1, <1>2, <1>4, <1>5, Bystander
  <1>7. NeverRaises' /\ MailInv'
    BY <1>2 DEF NeverRaises, MailInv
  <1>8. RootKeeps
    BY <1>1, <1>2, <1>4, <1>5, RootElsewhere
  <1>9. ASSUME NEW d \in Children
        PROVE  \/ BirthInv(d)' /\ ReturnInv(d)'
               \/ /\ d # "root" /\ status'[d] = status[d]
                  /\ returned'[d] = returned[d] /\ result'[d] = result[d]
    <2>1. CASE status' = status
      BY <2>1, <1>1
    <2>2. CASE /\ status' = [status EXCEPT ![c] = "cancelled"]
               /\ status[c] \in {"running", "idle"} /\ phase[c] = "idle"
      <3>1. status'[c] = "cancelled" /\ status' = [status EXCEPT ![c] = status'[c]]
        BY <2>2, <1>2 DEF TypeInv
      <3>2. \/ BirthInv(d)' /\ ReturnInv(d)'
            \/ /\ d # c /\ status'[d] = status[d]
               /\ returned'[d] = returned[d] /\ result'[d] = result[d]
        BY <2>2, <3>1, <1>4, ChildEnds
      <3> QED BY <3>2, <1>1
    <2> QED BY <2>1, <2>2
  <1> QED BY <1>1, <1>3, <1>5, <1>6, <1>7, <1>8, <1>9, Assemble

LEMMA CancelChildStep ==
    ASSUME IInv, NEW c \in Children, CancelChild(c)
    PROVE  IInv'
  <1>1. /\ phase["root"] = "cell" /\ status[c] \in {"running", "idle"}
        /\ status' = [status EXCEPT ![c] = "cancelled"] /\ RecordCancel(c, session'[c].last)
        /\ UNCHANGED <<count, returned, raised, spawner, result, mail, sent, origin>>
    BY DEF CancelChild, InCell
  <1>2. c \in Sessions /\ c # "root" /\ "root" \in Sessions
    BY EdgeConstants DEF Sessions
  <1>3. TypeInv /\ MailInv /\ raised = FALSE /\ SavedInv(c) /\ PointInv(c) /\ count \in Nat
    BY <1>2, Known
  <1>4. status' \in [Children -> Statuses] /\ status'[c] = "cancelled"
    BY <1>1, <1>3 DEF TypeInv, Statuses
  <1>5. CASE phase[c] = "idle"
    <2>1. /\ UNCHANGED <<session, gone, due, mark>>
          /\ UNCHANGED <<saved, phase, call, scope, comp, refine>>
      BY <1>5 DEF CancelChild, promptVars
    <2>2. PICK target \in Ids : target = session[c].last
      BY <1>2, <1>3, Fields
    <2>3. RecordCancel(c, target) /\ target <= count
      BY <1>1, <1>3, <2>1, <2>2 DEF PointInv
    <2>4. /\ edges \subseteq edges'
          /\ \A e \in edges' \ edges :
                e[1] \in 1 .. count /\ e[2] \in 1 .. count /\ e[3] = "cancel"
          /\ edges' \subseteq Ids \X Requests \X Labels
      BY <1>1, <2>3, CancelEdges
    <2>5. TypeInv'
      BY <1>1, <1>3, <1>4, <2>1, <2>4 DEF TypeInv
    <2> QED BY <1>1, <1>5, <2>1, <2>4, <2>5, Recorded
  <1>6. CASE phase[c] # "idle"
    <2>1. Unwind(c)
      BY <1>6 DEF CancelChild
    <2>2. session' \in [Sessions -> Points] /\ session'[c] = saved[c]
      BY <2>1, <1>2, <1>3, UnwindTyped DEF Unwind, Restored, TypeInv
    <2>3. PICK target \in Ids : target = saved[c].last
      BY <1>2, <1>3 DEF TypeInv, Points
    <2>4. RecordCancel(c, target)
      BY <1>1, <2>2, <2>3
    <2>5. target <= count
      <3>1. mark[c].count \in Nat /\ target \in Nat
        BY <1>2, <1>3, Fields DEF Ids
      <3> QED BY <3>1, <2>3, <1>3 DEF SavedInv
    <2>6. /\ edges \subseteq edges'
          /\ \A e \in edges' \ edges :
                e[1] \in 1 .. count /\ e[2] \in 1 .. count /\ e[3] = "cancel"
          /\ edges' \subseteq Ids \X Requests \X Labels
      BY <1>1, <2>4, <2>5, CancelEdges
    <2>7. TypeInv'
      BY <1>1, <1>2, <1>3, <1>4, <2>1, <2>6, UnwindTyped DEF TypeInv
    <2>8. /\ OriginInv' /\ ConsumedOnce' /\ World(c) /\ SessionInv(c)'
          /\ \A t \in Sessions : t # c => Still(t)
          /\ phase'[c] = "idle"
      BY <1>1, <1>2, <1>6, <2>1, <2>6, <2>7, UnwindStep
    <2>9. NeverRaises' /\ MailInv'
      BY <1>1, <1>3 DEF NeverRaises, MailInv
    <2>10. status' = [status EXCEPT ![c] = status'[c]]
      BY <1>1, <1>4
    <2>11. \A d \in Children :
              \/ BirthInv(d)' /\ ReturnInv(d)'
              \/ /\ d # c /\ status'[d] = status[d]
                 /\ returned'[d] = returned[d] /\ result'[d] = result[d]
      BY <1>1, <1>4, <2>8, <2>10, ChildEnds
    <2> QED BY <1>2, <2>7, <2>8, <2>9, <2>11, Assemble
  <1> QED BY <1>5, <1>6

LEMMA ResultCancelledStep ==
    ASSUME IInv, NEW c \in Children, ResultCancelled(c)
    PROVE  IInv'
  <1>1. /\ phase["root"] = "cell" /\ RecordCancel(c, session[c].last)
        /\ UNCHANGED <<count, session, returned, raised, saved, phase, call, scope, comp, refine>>
        /\ UNCHANGED <<status, spawner, result, mail, sent, origin, gone, due, mark>>
    BY DEF ResultCancelled, InCell, promptVars, treeVars
  <1>2. c \in Sessions
    BY DEF Sessions
  <1>3. TypeInv /\ PointInv(c)
    BY <1>2, Known
  <1>4. PICK target \in Ids : target = session[c].last
    BY <1>2, <1>3, Fields
  <1>5. RecordCancel(c, target) /\ target <= count
    BY <1>1, <1>3, <1>4 DEF PointInv
  <1>6. /\ edges \subseteq edges'
        /\ \A e \in edges' \ edges :
              e[1] \in 1 .. count /\ e[2] \in 1 .. count /\ e[3] = "cancel"
        /\ edges' \subseteq Ids \X Requests \X Labels
    BY <1>1, <1>5, CancelEdges
  <1>7. TypeInv'
    BY <1>1, <1>3, <1>6 DEF TypeInv
  <1> QED BY <1>1, <1>6, <1>7, Recorded

----------------------------------------------------------------------------
LEMMA InitIInv ==
    ASSUME Init
    PROVE  IInv
  <1>1. 0 \in Ids /\ MaxRequests \in Nat
    BY EdgeConstants DEF Ids
  <1>2. TypeInv
    <2>1. NoOrigin \in Origins
      BY <1>1 DEF NoOrigin, Origins, Kinds
    <2>2. "idle" \in Phases /\ "unborn" \in Statuses
      BY DEF Phases, Statuses
    <2> QED BY <1>1, <2>1, <2>2, Blanks DEF Init, TypeInv
  <1>3. NeverRaises /\ MailInv
    BY DEF Init, NeverRaises, MailInv
  <1>4. OriginInv
    BY <1>1 DEF Init, OriginInv, Requests
  <1>5. ConsumedOnce
    BY DEF Init, ConsumedOnce, Surviving
  <1>6. ASSUME NEW s \in Sessions
        PROVE  SessionInv(s)
    <2>1. /\ session[s] = NoPoint /\ saved[s] = NoPoint /\ phase[s] = "idle" /\ call[s] = NoCall
          /\ scope[s] = 0 /\ comp[s] = NoCompaction /\ refine[s] = NoRefinement
          /\ due[s] = {} /\ mark[s] = NoMark /\ count = 0 /\ edges = {}
      BY DEF Init
    <2>2. Waiting(s) = {}
      BY <2>1 DEF Waiting, Taken, NoPoint
    <2>3. PointInv(s)
      BY <2>1, <2>2 DEF PointInv, Owned, Carried, NoPoint
    <2>4. SavedInv(s)
      BY <2>1 DEF SavedInv, Owned, CarriedBefore, NoPoint, NoMark
    <2>5. CallInv(s) /\ StageInv(s) /\ CellInv(s)
      BY <2>1 DEF CallInv, StageInv, CellInv, NoCall
    <2>6. SideInv(s)
      BY <2>1 DEF SideInv, NoCall, NoCompaction, NoRefinement
    <2> QED BY <2>3, <2>4, <2>5, <2>6 DEF SessionInv
  <1>7. ASSUME NEW c \in Children
        PROVE  BirthInv(c) /\ ReturnInv(c)
    <2>1. c \in Sessions /\ c # "none"
      BY EdgeConstants DEF Sessions
    <2>2. BirthInv(c)
      BY <2>1 DEF Init, BirthInv, NoOrigin
    <2>3. ReturnInv(c)
      BY DEF Init, ReturnInv, Live
    <2> QED BY <2>2, <2>3
  <1> QED BY <1>2, <1>3, <1>4, <1>5, <1>6, <1>7 DEF IInv

LEMMA StepIInv ==
    ASSUME IInv, [Next]_vars
    PROVE  IInv'
  <1>1. CASE UNCHANGED vars
    <2>1. /\ UNCHANGED <<count, session, returned, edges, raised>>
          /\ UNCHANGED <<saved, phase, call, scope, comp, refine>>
          /\ UNCHANGED <<status, spawner, result, mail, origin, gone, due, mark>>
      BY <1>1 DEF vars, trackerVars, promptVars, treeVars, historyVars
    <2>2. TypeInv' /\ MailInv'
      BY <2>1 DEF IInv, TypeInv, MailInv
    <2> QED BY <2>1, <2>2, Unmoved
  <1>2. ASSUME NEW s \in Sessions,
               \/ BeginPrompt(s) \/ StartWork(s) \/ Overflow(s) \/ OverflowAgain(s)
               \/ \E next \in {"replied", "cell"} : FinishWork(s, next)
               \/ EndPrompt(s) \/ CloseCell(s)
        PROVE  IInv'
    BY <1>2, BeginPromptStep, StartWorkStep, OverflowStep, OverflowAgainStep, FinishWorkStep,
       EndPromptStep, CloseCellStep
  <1>3. ASSUME NEW s \in Sessions,
               \/ BeginCompaction(s) \/ StartSummary(s) \/ SummaryUsed(s) \/ SummaryReleased(s)
               \/ SummaryViolates(s) \/ GiveUpSummary(s) \/ StartRollup(s) \/ RollupAnswered(s)
               \/ FinishCompaction(s) \/ FailSide(s)
        PROVE  IInv'
    BY <1>3, BeginCompactionStep, StartSummaryStep, SummaryUsedStep, SummaryReleasedStep,
       SummaryViolatesStep, GiveUpSummaryStep, StartRollupStep, RollupAnsweredStep,
       FinishCompactionStep, FailSideStep
  <1>4. ASSUME NEW s \in Sessions,
               \/ BeginRefinement(s) \/ StartPlan(s) \/ PlanReleased(s) \/ PlanApplied(s)
               \/ PlanDropped(s)
        PROVE  IInv'
    BY <1>4, BeginRefinementStep, StartPlanStep, PlanReleasedStep, PlanAppliedStep,
       PlanDroppedStep
  <1>5. ASSUME NEW c \in Children,
               \/ Spawn(c) \/ Report(c) \/ Send(c) \/ TakeMail(c) \/ Result(c) \/ ResultFailed(c)
               \/ ChildFails(c) \/ CancelChild(c) \/ ResultCancelled(c)
        PROVE  IInv'
    BY <1>5, SpawnStep, ReportStep, SendStep, TakeMailStep, ResultStep, ResultFailedStep,
       ChildFailsStep, CancelChildStep, ResultCancelledStep
  <1>6. CASE Rollback
    BY <1>6, RollbackStep
  <1>7. ASSUME NEW q \in Requests, Read(q)
        PROVE  IInv'
    BY <1>7, ReadStep
  <1>8. CASE Next
    BY <1>2, <1>3, <1>4, <1>5, <1>6, <1>7, <1>8 DEF Next
  <1> QED BY <1>1, <1>8

\* In every reachable state a session's requests continue one another, a checkpoint says
\* of the prompt's beginning what the continuation point says of now, and what waits to
\* be carried has not been (SemanticEdgeTracker, its callers in engine.py and supervisor.py).
THEOREM EdgesInvariant == Spec => []IInv
  <1>1. Init => IInv
    BY InitIInv
  <1>2. IInv /\ [Next]_vars => IInv'
    BY StepIInv
  <1> QED BY <1>1, <1>2, PTL DEF Spec

\* No call of the tracker meets one of its ValueErrors: start_request finds the slot of
\* its side operation free, release_* and finish_* find it taken, and finish_compaction
\* finds the pending edges it captured.
THEOREM TrackerNeverRaises == Spec => []NeverRaises
  <1>1. IInv => NeverRaises
    BY DEF IInv
  <1> QED BY <1>1, EdgesInvariant, PTL

\* A request that survives the rollbacks continues a request that survives them, and an
\* edge says so (start_request's continuation, attempt and compaction edges).
THEOREM RequestsContinueSurvivors == Spec => []ContinuesSurvivor
  <1>1. IInv => ContinuesSurvivor
    <2> SUFFICES ASSUME IInv PROVE ContinuesSurvivor
      OBVIOUS
    <2>1. TypeInv /\ OriginInv
      BY DEF IInv
    <2>2. ASSUME NEW e \in edges, e[2] \notin gone, e[3] # "cancel", origin[e[2]].from # 0
          PROVE  /\ origin[e[2]].from \notin gone
                 /\ \E f \in edges : f[1] = origin[e[2]].from /\ f[2] = e[2]
      <3>1. e[2] \in Requests /\ e[2] <= count
        BY <2>1 DEF TypeInv, OriginInv
      <3>2. ~(e[2] > count)
        BY <3>1, <2>1, EdgeConstants DEF TypeInv, Ids, Requests
      <3>3. origin[e[2]].from \in gone => e[2] \in gone
        BY <3>1, <3>2, <2>1, <2>2 DEF OriginInv
      <3> QED BY <3>3, <2>1, <2>2 DEF OriginInv
    <2> QED BY <2>2 DEF ContinuesSurvivor, Surviving
  <1> QED BY <1>1, EdgesInvariant, PTL

\* An edge that is due to a session is pending, taken by its open request or carried by a
\* surviving one, and the edges that lead to one work request lead to one only
\* (start_request, finish_request, fail_request, deliver_message, finish_subagent, restore).
THEOREM EveryEdgeOnce == Spec => []CarriedOnce
  <1>1. IInv => CarriedOnce
    <2> SUFFICES ASSUME IInv PROVE CarriedOnce
      OBVIOUS
    <2>1. TypeInv /\ ConsumedOnce /\ \A s \in Sessions : PointInv(s)
      BY DEF IInv, SessionInv
    <2>2. ASSUME NEW s \in Sessions, NEW x \in due[s]
          PROVE  \/ x \in session[s].pending \cup call[s].inbound \cup Committed(s)
                 \/ x[2] = "call" /\ ~session[s].claimed
                 \/ <<x[1], "attempt">> \in Committed(s)
      <3>1. \/ x \in Waiting(s)
            \/ x[2] = "call" /\ ~session[s].claimed
            \/ Kept(s, x[1], x[2]) \/ Kept(s, x[1], "attempt")
        BY <2>1 DEF PointInv
      <3>2. Waiting(s) \subseteq session[s].pending \cup call[s].inbound
        BY DEF Waiting, Taken
      <3>3. ASSUME NEW q, NEW l, Kept(s, q, l)
            PROVE  <<q, l>> \in Committed(s)
        BY <3>3 DEF Kept, Committed, Surviving
      <3>4. x = <<x[1], x[2]>>
        BY <2>1, Fields DEF Marks
      <3> QED BY <3>1, <3>2, <3>3, <3>4
    <2>3. NothingLost
      BY <2>2 DEF NothingLost
    <2> QED BY <2>1, <2>3 DEF CarriedOnce
  <1> QED BY <1>1, EdgesInvariant, PTL

=============================================================================
