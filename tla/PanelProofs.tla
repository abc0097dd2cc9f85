------------------------------ MODULE PanelProofs ------------------------------
(***************************************************************************)
(* What is proved about Panel for all handlers, tables and processes: its  *)
(* types, and the lemmas that the proofs about overlapping requests need.  *)
(***************************************************************************)
EXTENDS Panel, TLAPS

AStep == [op : STRING, on : STRING, val : Values, or : Nat]
Tabled == [TablesOf[kind] -> [Names[kind] -> Values]]

\* A jump ends in the handler, or behind its last step.
LEMMA Landing ==
  ASSUME NEW k \in Kinds, NEW n \in DOMAIN Scripts[k],
         NEW i \in 1 .. Len(Scripts[k][n]) + 1, NEW at \in Lands[k][n][i]
  PROVE  at \in 1 .. Len(Scripts[k][n]) + 1
BY DEF Lands, LandsIn

LEMMA ValueFacts ==
  /\ Answers \subseteq Values
  /\ {None, "there", "twice", "one", "full"} \subseteq Values
BY DEF Values

\* What PanelAssumption says of one step.
LEMMA StepsAreSteps ==
  ASSUME NEW k \in Kinds, NEW n \in DOMAIN Scripts[k], NEW i \in DOMAIN Scripts[k][n]
  PROVE  /\ i \in 1 .. Len(Scripts[k][n]) /\ i + 1 \in 1 .. Len(Scripts[k][n]) + 1
         /\ Scripts[k][n][i] \in AStep
         /\ i + Scripts[k][n][i].or \in 1 .. Len(Scripts[k][n]) + 1
         /\ Scripts[k][n][i].op \notin Untabled => Scripts[k][n][i].on \in TablesOf[k]
         /\ Scripts[k][n][i].op \in {"copy", "move", "mirror"} => Scripts[k][n][i].val \in TablesOf[k]
         /\ Scripts[k][n][i].op = "spawn" => Scripts[k][n][i].val \in Tasks[k]
         /\ Scripts[k][n][i].op = "add" => Scripts[k][n][i].on \notin DOMAIN Columns[k]
<1>1. Scripts[k][n] \in Seq(AStep) /\ StepOK(k, n, i)
  BY PanelAssumption DEF AStep
<1>2. i \in 1 .. Len(Scripts[k][n]) /\ Scripts[k][n][i] \in AStep /\ Len(Scripts[k][n]) \in Nat
  BY <1>1
<1>3. Scripts[k][n][i].on # "" => Scripts[k][n][i].on \in TablesOf[k]
  <2> DEFINE On(m) == {Scripts[k][m][j].on : j \in DOMAIN Scripts[k][m]}
  <2>1. Scripts[k][n][i].on \in On(n)
    OBVIOUS
  <2>2. On(n) \in {On(m) : m \in DOMAIN Scripts[k]}
    OBVIOUS
  <2>3. TablesOf[k] = {t \in UNION {On(m) : m \in DOMAIN Scripts[k]} : t # ""}
    BY DEF TablesOf
  <2> HIDE DEF On
  <2>4. QED
    BY <2>1, <2>2, <2>3
<1>4. Scripts[k][n][i].op \notin Untabled => Scripts[k][n][i].on \in TablesOf[k]
  BY <1>1, <1>3 DEF StepOK
<1>5. i + Scripts[k][n][i].or \in 1 .. Len(Scripts[k][n]) + 1
  BY <1>1 DEF StepOK
<1>6. /\ Scripts[k][n][i].op \in {"copy", "move", "mirror"} => Scripts[k][n][i].val \in TablesOf[k]
      /\ Scripts[k][n][i].op = "spawn" => Scripts[k][n][i].val \in Tasks[k]
      /\ Scripts[k][n][i].op = "add" => Scripts[k][n][i].on \notin DOMAIN Columns[k]
  BY <1>1 DEF StepOK
<1>7. i + 1 \in 1 .. Len(Scripts[k][n]) + 1
  BY <1>2
<1>8. QED
  BY <1>2, <1>4, <1>5, <1>6, <1>7

\* What TypeOK says of a process that has a step to take.
LEMMA StepFacts ==
  ASSUME TypeOK, NEW p \in Procs, Busy(p), tx[p].at \in DOMAIN Steps(p)
  PROVE  /\ tx[p] \in Sessions
         /\ tx[p].name \in DOMAIN Scripts[kind]
         /\ Here(p) \in AStep
         /\ tx[p].at + 1 \in 1 .. Len(Steps(p)) + 1
         /\ tx[p].at + Here(p).or \in 1 .. Len(Steps(p)) + 1
         /\ Here(p).op \notin Untabled => Here(p).on \in TablesOf[kind]
         /\ Here(p).op \in {"copy", "move", "mirror"} => Here(p).val \in TablesOf[kind]
         /\ Here(p).op = "spawn" => Here(p).val \in Tasks[kind]
         /\ Here(p).op = "add" => Here(p).on \notin DOMAIN Columns[kind]
<1>1. kind \in Kinds /\ tx[p] \in Sessions
  BY DEF TypeOK, Busy
<1>2. tx[p].name \in DOMAIN Scripts[kind]
  BY <1>1 DEF Sessions
<1>3. QED
  BY <1>1, <1>2, StepsAreSteps DEF Steps, Here
-----------------------------------------------------------------------------
(* Types of what a process reads. *)

LEMMA KeyFacts ==
  ASSUME TypeOK, NEW p \in Procs, Busy(p), NEW t
  PROVE  Key(p, t) \in Names[kind]
<1>1. kind \in Kinds /\ tx[p] \in Sessions
  BY DEF TypeOK, Busy
<1>2. Names[kind] # {} /\ tx[p].key \in Names[kind]
  BY <1>1, PanelAssumption DEF Sessions
<1>3. (CHOOSE k \in Names[kind] : TRUE) \in Names[kind]
  BY <1>2
<1>4. QED
  BY <1>2, <1>3 DEF Key

LEMMA ReadFacts ==
  ASSUME TypeOK, NEW p \in Procs, Busy(p), NEW t \in TablesOf[kind], NEW k \in Names[kind]
  PROVE  /\ Tables = TablesOf[kind]
         /\ Visible(p, t, k) \in Values
         /\ Own(p, t) \in Values /\ View(p, t) \in Values /\ Thing(p, t) \in Values
<1>1. tx[p] \in Sessions /\ Tables = TablesOf[kind]
  BY DEF TypeOK, Busy, Tables
<1>2. tx[p].seen[t] \in Values \cup {Unread} /\ tx[p].mine[t] \in Values \cup {Same}
  BY <1>1 DEF Sessions
<1>3. \A j \in Names[kind] : Visible(p, t, j) \in Values
  BY <1>1, <1>2, ValueFacts DEF Visible, TypeOK
<1>4. Key(p, t) \in Names[kind]
  BY KeyFacts
<1>5. Own(p, t) \in Values
  BY <1>3, <1>4 DEF Own
<1>6. View(p, t) \in Values
  BY <1>2, <1>5 DEF View
<1>7. Thing(p, t) \in Values
  BY <1>4 DEF Thing, TypeOK
<1>8. QED
  BY <1>1, <1>3, <1>5, <1>6, <1>7

LEMMA ValueFact ==
  ASSUME TypeOK, NEW p \in Procs, Busy(p), tx[p].at \in DOMAIN Steps(p), Here(p).op \notin Untabled
  PROVE  Value(p) \in Values /\ Shown(Value(p)) \in Values
<1>1. tx[p] \in Sessions /\ Here(p) \in AStep /\ Here(p).on \in TablesOf[kind]
  BY StepFacts
<1>2. tx[p].asked \in Values
  BY <1>1, ValueFacts DEF Sessions
<1>3. \A k \in Names[kind] : View(p, Here(p).on) \in Values /\ Thing(p, Here(p).on) \in Values
  BY <1>1, ReadFacts
<1>4. Here(p).val \in Values /\ Key(p, Here(p).on) \in Names[kind]
  BY <1>1, KeyFacts DEF AStep
<1>5. Value(p) \in Values
  BY <1>2, <1>3, <1>4 DEF Value
<1>6. QED
  BY <1>5, ValueFacts DEF Shown
-----------------------------------------------------------------------------
(* How a step that goes on, or leaves the handler, keeps the types. *)

TxOK == /\ tx \in [Procs -> Sessions \cup {Idle}]
        /\ \A p \in Procs : Busy(p) => tx[p].at \in 1 .. Len(Steps(p)) + 1
RowsOK == rows \in [TablesOf[kind] -> [Names[kind] -> Values]]

LEMMA SameSessions ==
  ASSUME TypeOK, kind' = kind, RowsOK'
  PROVE  Sessions' = Sessions /\ TablesOf[kind]' = TablesOf[kind] /\ Tables' = Tables
<1>1. Tables' = Tables /\ TablesOf[kind'] = TablesOf[kind]
  BY DEF TypeOK, RowsOK, Tables
<1>2. QED
  BY <1>1 DEF Sessions

\* One session changes, to one that is in order.
LEMMA OneSession ==
  ASSUME TypeOK, kind' = kind, RowsOK', NEW p \in Procs, NEW s \in Sessions \cup {Idle},
         s # Idle => s.at \in 1 .. Len(Scripts[kind][s.name]) + 1,
         tx' = [tx EXCEPT ![p] = s]
  PROVE  TxOK'
<1>1. Sessions' = Sessions
  BY SameSessions
<1>2. tx' \in [Procs -> Sessions' \cup {Idle}]
  BY <1>1 DEF TypeOK
<1>3. ASSUME NEW q \in Procs, tx'[q] # Idle
      PROVE  tx'[q].at \in 1 .. Len(Scripts[kind'][tx'[q].name]) + 1
  <2>1. CASE q = p
    BY <1>3, <2>1 DEF TypeOK
  <2>2. CASE q # p
    BY <1>3, <2>2 DEF TypeOK, Busy, Steps
  <2>3. QED
    BY <2>1, <2>2
<1>4. QED
  BY <1>2, <1>3 DEF TxOK, Busy, Steps

LEMMA GoesOn ==
  ASSUME TypeOK, kind' = kind, RowsOK', NEW p \in Procs, Busy(p),
         NEW s \in Sessions, s.name = tx[p].name,
         NEW i \in 1 .. Len(Steps(p)) + 1, GoOn(p, s, i)
  PROVE  TxOK'
<1>1. PICK at \in Lands[kind][tx[p].name][i] : tx' = [tx EXCEPT ![p] = [s EXCEPT !.at = at]]
  BY DEF GoOn
<1>2. kind \in Kinds /\ tx[p].name \in DOMAIN Scripts[kind]
  BY DEF TypeOK, Busy, Sessions
<1>3. at \in 1 .. Len(Scripts[kind][tx[p].name]) + 1
  BY <1>1, <1>2, Landing DEF Steps
<1>4. Scripts[kind][tx[p].name] \in Seq(AStep)
  BY <1>2, PanelAssumption DEF AStep
<1>5. at \in Nat
  BY <1>3, <1>4
<1>6. [s EXCEPT !.at = at] \in Sessions
  BY <1>5 DEF Sessions
<1>7. [s EXCEPT !.at = at].at = at /\ [s EXCEPT !.at = at].name = tx[p].name
  BY DEF Sessions
<1>8. QED
  BY <1>1, <1>3, <1>6, <1>7, OneSession

LEMMA Advances ==
  ASSUME TypeOK, kind' = kind, RowsOK', NEW p \in Procs, Busy(p), tx[p].at \in DOMAIN Steps(p),
         NEW s \in Sessions, s.name = tx[p].name, Advance(p, s)
  PROVE  TxOK'
BY StepFacts, GoesOn DEF Advance

LEMMA Leaves ==
  ASSUME TypeOK, kind' = kind, RowsOK', NEW p \in Procs, Abort(p)
  PROVE  TxOK' /\ jobs' \subseteq jobs
<1>1. TxOK'
  BY OneSession DEF Abort
<1>2. QED
  BY <1>1 DEF Abort, Done

LEMMA Refuses ==
  ASSUME TypeOK, kind' = kind, RowsOK', NEW p \in Procs, Busy(p), tx[p].at \in DOMAIN Steps(p),
         Refuse(p)
  PROVE  TxOK' /\ jobs' \subseteq jobs
<1>1. CASE Here(p).or = 0
  BY <1>1, Leaves DEF Refuse
<1>2. CASE Here(p).or # 0
  <2>1. tx[p] \in Sessions /\ tx[p].at + Here(p).or \in 1 .. Len(Steps(p)) + 1
    BY StepFacts
  <2>2. GoOn(p, tx[p], tx[p].at + Here(p).or) /\ jobs' = jobs
    BY <1>2 DEF Refuse
  <2>3. QED
    BY <2>1, <2>2, GoesOn
<1>3. QED
  BY <1>1, <1>2

\* TypeOK of the next state, from its parts.
LEMMA Typed ==
  ASSUME TypeOK, kind' = kind, RowsOK', TxOK', things' \in Tabled,
         jobs' \subseteq [name : Tasks[kind], key : Names[kind]],
         mishaps' \in [{"overlap", "call", "crash"} -> Nat]
  PROVE  TypeOK'
<1>1. TablesOf[kind]' = TablesOf[kind]
  BY SameSessions
<1>2. QED
  BY <1>1 DEF TypeOK, RowsOK, TxOK, Tabled
-----------------------------------------------------------------------------
(* One lemma for each action. *)

LEMMA QueryTyped ==
  ASSUME TypeOK, NEW p \in Procs, Query(p)
  PROVE  TypeOK'
<1>1. Busy(p) /\ tx[p].at \in DOMAIN Steps(p) /\ Here(p).op \notin Untabled
  BY DEF Query, AtStep, Here, Untabled
<1>2. RowsOK' /\ kind' = kind /\ things' \in Tabled /\ mishaps' \in [{"overlap", "call", "crash"} -> Nat]
  BY DEF Query, TypeOK, RowsOK, Tabled
<1>3. tx[p] \in Sessions /\ Tables = TablesOf[kind]
  BY <1>1, StepFacts DEF TypeOK, Tables
<1>4. \A t \in TablesOf[kind] : rows[t][Key(p, t)] \in Values
  BY <1>1, KeyFacts DEF TypeOK
<1>5. Loaded(p) \in Sessions /\ Loaded(p).name = tx[p].name
  BY <1>3, <1>4 DEF Loaded, Sessions
<1>6. TxOK' /\ jobs' \subseteq jobs
  <2>1. CASE Holds(p)
    BY <1>1, <1>2, <1>3, <1>5, <2>1, Advances DEF Query
  <2>2. CASE ~Holds(p)
    BY <1>1, <1>2, <2>2, Refuses DEF Query
  <2>3. QED
    BY <2>1, <2>2
<1>7. QED
  BY <1>2, <1>6, Typed DEF TypeOK

LEMMA NewKeyTyped ==
  ASSUME TypeOK, NEW p \in Procs, NewKey(p)
  PROVE  TypeOK'
<1>1. Busy(p) /\ tx[p].at \in DOMAIN Steps(p)
  BY DEF NewKey, AtStep
<1>2. RowsOK' /\ kind' = kind /\ things' \in Tabled /\ mishaps' \in [{"overlap", "call", "crash"} -> Nat]
  BY DEF NewKey, TypeOK, RowsOK, Tabled
<1>3. tx[p] \in Sessions
  BY <1>1, StepFacts
<1>4. TxOK' /\ jobs' \subseteq jobs
  <2>1. CASE Unused(p) = {}
    BY <1>1, <1>2, <2>1, Refuses DEF NewKey
  <2>2. CASE Unused(p) # {}
    <3>1. PICK k \in Unused(p) : Advance(p, [tx[p] EXCEPT !.key = k])
      BY <2>2 DEF NewKey
    <3>2. k \in Names[kind]
      BY <1>3 DEF Unused, Sessions
    <3>3. [tx[p] EXCEPT !.key = k] \in Sessions /\ [tx[p] EXCEPT !.key = k].name = tx[p].name
      BY <1>3, <3>2 DEF Sessions
    <3>4. QED
      BY <1>1, <1>2, <2>2, <3>1, <3>3, Advances DEF NewKey
  <2>3. QED
    BY <2>1, <2>2
<1>5. QED
  BY <1>2, <1>4, Typed DEF TypeOK

LEMMA FlushTyped ==
  ASSUME TypeOK, NEW p \in Procs, Flush(p)
  PROVE  TypeOK'
<1>1. Busy(p) /\ tx[p].at \in DOMAIN Steps(p) /\ Here(p).op \notin Untabled
  BY DEF Flush, AtStep, Here, Untabled
<1>2. RowsOK' /\ kind' = kind /\ things' \in Tabled /\ mishaps' \in [{"overlap", "call", "crash"} -> Nat]
  BY DEF Flush, TypeOK, RowsOK, Tabled
<1>3. tx[p] \in Sessions /\ Here(p).on \in Tables /\ Tables = TablesOf[kind]
  BY <1>1, StepFacts DEF TypeOK, Tables
<1>4. Value(p) \in Values /\ {"there", "twice", None} \subseteq Values
  BY <1>1, ValueFact, ValueFacts
<1>5. Flushed(p) \in Sessions /\ Flushed(p).name = tx[p].name
  BY <1>3, <1>4 DEF Flushed, Sessions
<1>6. TxOK' /\ jobs' \subseteq jobs
  <2>1. CASE Advance(p, tx[p]) /\ jobs' = jobs
    BY <1>1, <1>2, <1>3, <2>1, Advances
  <2>2. CASE Abort(p)
    BY <1>2, <2>2, Leaves
  <2>3. CASE Advance(p, Flushed(p)) /\ jobs' = jobs
    BY <1>1, <1>2, <1>5, <2>3, Advances
  <2>4. QED
    BY <2>1, <2>2, <2>3 DEF Flush
<1>7. QED
  BY <1>2, <1>6, Typed DEF TypeOK

\* What a commit leaves of the rows, and of the other sessions.
LEMMA CommitFacts ==
  ASSUME TypeOK, NEW p \in Procs, Busy(p)
  PROVE  /\ Committed(p) \in Tabled
         /\ Others(p) \in [Procs -> Sessions \cup {Idle}]
         /\ \A q \in Procs : /\ Others(p)[q] = Idle <=> tx[q] = Idle
                             /\ tx[q] # Idle => /\ Others(p)[q].at = tx[q].at
                                                /\ Others(p)[q].name = tx[q].name
<1>1. Tables = TablesOf[kind] /\ tx \in [Procs -> Sessions \cup {Idle}]
  BY DEF TypeOK, Tables
<1>2. Committed(p) \in Tabled
  BY <1>1, ReadFacts DEF Committed, Tabled
<1>3. ASSUME NEW q \in Procs, q # p, Busy(q)
      PROVE  /\ Others(p)[q] \in Sessions /\ Others(p)[q] # Idle
             /\ Others(p)[q].at = tx[q].at /\ Others(p)[q].name = tx[q].name
  <2>1. tx[q] \in Sessions
    BY <1>1, <1>3 DEF Busy
  <2>2. Deleted(p) \subseteq Tables
    BY DEF Deleted
  <2>3. Others(p)[q] = [tx[q] EXCEPT !.gone = @ \cup
             {t \in Deleted(p) : Key(q, t) = Key(p, t) /\ tx[q].seen[t] # Unread}]
    BY <1>3 DEF Others
  <2>4. Others(p)[q].at = tx[q].at /\ Others(p)[q].name = tx[q].name /\ Others(p)[q] \in Sessions
    BY <2>1, <2>2, <2>3 DEF Sessions
  <2>5. tx[q].name # ""
    BY <2>1, PanelAssumption DEF Sessions, TypeOK
  <2>6. Idle.name = ""
    BY DEF Idle
  <2>7. QED
    BY <2>4, <2>5, <2>6
<1>4. ASSUME NEW q \in Procs, ~(q # p /\ Busy(q))
      PROVE  Others(p)[q] = tx[q]
  BY <1>4 DEF Others
<1>5. Others(p) = [q \in Procs |-> Others(p)[q]]
  BY DEF Others
<1>6. Others(p) \in [Procs -> Sessions \cup {Idle}]
  BY <1>1, <1>3, <1>4, <1>5
<1>7. QED
  BY <1>2, <1>3, <1>4, <1>6 DEF Busy

LEMMA CommitNowTyped ==
  ASSUME TypeOK, NEW p \in Procs, CommitNow(p)
  PROVE  TypeOK'
<1>1. Busy(p) /\ tx[p].at \in DOMAIN Steps(p)
  BY DEF CommitNow, AtStep
<1>2. PICK at \in Lands[kind][tx[p].name][tx[p].at + 1] :
        tx' = [Others(p) EXCEPT ![p] =
              [tx[p] EXCEPT !.at = at, !.seen = [t \in Tables |-> 
                               IF tx[p].mine[t] = Same THEN tx[p].seen[t] ELSE tx[p].mine[t]],
                            !.mine = [t \in Tables |-> Same], !.added = {}]]
  BY DEF CommitNow
<1> DEFINE s == [tx[p] EXCEPT !.at = at, !.seen = [t \in Tables |->
                               IF tx[p].mine[t] = Same THEN tx[p].seen[t] ELSE tx[p].mine[t]],
                            !.mine = [t \in Tables |-> Same], !.added = {}]
<1>3. RowsOK' /\ kind' = kind /\ things' \in Tabled /\ jobs' = jobs
      /\ mishaps' \in [{"overlap", "call", "crash"} -> Nat]
  BY <1>1, CommitFacts DEF CommitNow, TypeOK, RowsOK, Tabled
<1>4. Sessions' = Sessions /\ tx[p] \in Sessions /\ kind \in Kinds /\ tx[p].name \in DOMAIN Scripts[kind]
  BY <1>1, <1>3, SameSessions, StepFacts DEF TypeOK
<1>5. at \in 1 .. Len(Scripts[kind][tx[p].name]) + 1 /\ at \in Nat
  <2>1. Scripts[kind][tx[p].name] \in Seq(AStep)
    BY <1>4, PanelAssumption DEF AStep
  <2>2. tx[p].at + 1 \in 1 .. Len(Scripts[kind][tx[p].name]) + 1
    BY <1>1, StepFacts DEF Steps
  <2>3. QED
    BY <1>2, <1>4, <2>1, <2>2, Landing
<1>6. s \in Sessions /\ s.at = at /\ s.name = tx[p].name
  BY <1>4, <1>5 DEF Sessions
<1>7. tx' = [Others(p) EXCEPT ![p] = s]
  BY <1>2
<1> HIDE DEF s
<1>8. tx' \in [Procs -> Sessions' \cup {Idle}]
  BY <1>1, <1>4, <1>6, <1>7, CommitFacts
<1>9. ASSUME NEW q \in Procs, tx'[q] # Idle
      PROVE  tx'[q].at \in 1 .. Len(Scripts[kind'][tx'[q].name]) + 1
  <2>1. CASE q = p
    BY <1>1, <1>3, <1>5, <1>6, <1>7, <2>1, CommitFacts
  <2>2. CASE q # p
    <3>1. tx'[q] = Others(p)[q]
      BY <1>1, <1>7, <2>2, CommitFacts
    <3>2. tx[q] # Idle /\ tx'[q].at = tx[q].at /\ tx'[q].name = tx[q].name
      BY <1>1, <1>9, <3>1, CommitFacts
    <3>3. QED
      BY <1>3, <3>2 DEF TypeOK, Busy, Steps
  <2>3. QED
    BY <2>1, <2>2
<1>10. TxOK'
  BY <1>8, <1>9 DEF TxOK, Busy, Steps
<1>11. QED
  BY <1>3, <1>10, Typed DEF TypeOK

LEMMA ReturnTyped ==
  ASSUME TypeOK, NEW p \in Procs, Return(p)
  PROVE  TypeOK'
<1>1. Busy(p) /\ tx' = [Others(p) EXCEPT ![p] = Idle]
  BY DEF Return
<1>2. RowsOK' /\ kind' = kind /\ things' \in Tabled /\ jobs' \subseteq jobs
      /\ mishaps' \in [{"overlap", "call", "crash"} -> Nat]
  BY <1>1, CommitFacts DEF Return, Done, TypeOK, RowsOK, Tabled
<1>3. Sessions' = Sessions
  BY <1>2, SameSessions
<1>4. tx' \in [Procs -> Sessions' \cup {Idle}]
  BY <1>1, <1>3, CommitFacts
<1>5. ASSUME NEW q \in Procs, tx'[q] # Idle
      PROVE  tx'[q].at \in 1 .. Len(Scripts[kind'][tx'[q].name]) + 1
  <2>1. q # p /\ tx'[q] = Others(p)[q]
    BY <1>1, <1>5, CommitFacts
  <2>2. tx[q] # Idle /\ tx'[q].at = tx[q].at /\ tx'[q].name = tx[q].name
    BY <1>1, <1>5, <2>1, CommitFacts
  <2>3. QED
    BY <1>2, <2>2 DEF TypeOK, Busy, Steps
<1>6. TxOK'
  BY <1>4, <1>5 DEF TxOK, Busy, Steps
<1>7. QED
  BY <1>2, <1>6, Typed DEF TypeOK

\* What a call leaves of the things.
LEMMA AfterTyped ==
  ASSUME TypeOK, NEW p \in Procs, AtStep(p, Changes)
  PROVE  After(p) \in Tabled
<1>1. Busy(p) /\ tx[p].at \in DOMAIN Steps(p) /\ Here(p).op \in Changes /\ Here(p).op \notin Untabled
  BY DEF AtStep, Here, Changes, Untabled
<1> DEFINE t == Here(p).on
           v == Here(p).val
           set(x) == [things EXCEPT ![t][Key(p, t)] = Shown(x)]
<1>2. t \in TablesOf[kind] /\ tx[p] \in Sessions /\ Tables = TablesOf[kind]
      /\ (Here(p).op \in {"copy", "move", "mirror"} => v \in TablesOf[kind])
  BY <1>1, StepFacts DEF TypeOK, Tables
<1>3. things \in Tabled /\ Key(p, t) \in Names[kind] /\ Key(p, v) \in Names[kind]
  BY <1>1, KeyFacts DEF TypeOK, Tabled
<1>4. \A x \in Values : set(x) \in Tabled
  BY <1>2, <1>3, ValueFacts DEF Tabled, Shown
<1>5. \A u \in TablesOf[kind] : tx[p].file[u] \in [Names[kind] -> Values]
  BY <1>2 DEF Sessions
<1>6. Value(p) \in Values /\ Shown(Value(p)) \in Values /\ Thing(p, t) \in Values
      /\ {None, "one", "full"} \subseteq Values
  BY <1>1, <1>2, ValueFact, ValueFacts, ReadFacts, <1>3
<1> HIDE DEF set
<1>7. CASE Here(p).op \in {"make", "new", "put", "change", "drop", "count"}
  <2>1. \E x \in Values : After(p) = set(x)
    <3>1. CASE Here(p).op = "make"
      BY <1>6, <3>1 DEF After, set
    <3>2. CASE Here(p).op \in {"new", "put", "change"}
      BY <1>6, <3>2 DEF After, set
    <3>3. CASE Here(p).op = "drop"
      BY <1>6, <3>3 DEF After, set
    <3>4. CASE Here(p).op = "count"
      BY <1>6, <3>4 DEF After, set
    <3>5. QED
      BY <1>7, <3>1, <3>2, <3>3, <3>4
  <2>2. QED
    BY <1>4, <2>1
<1>8. CASE Here(p).op = "wipe"
  BY <1>2, <1>3, <1>6, <1>8 DEF After, Tabled
<1>9. CASE Here(p).op \in {"copy", "move"}
  <2>1. v \in TablesOf[kind] /\ Thing(p, v) \in Values
    BY <1>2, <1>3, <1>9 DEF Thing, Tabled
  <2>2. set(Thing(p, v)) \in Tabled
    BY <1>4, <2>1
  <2>3. CASE Here(p).op = "copy"
    BY <2>2, <2>3 DEF After, set
  <2>4. CASE Here(p).op = "move"
    <3>1. After(p) = [set(Thing(p, v)) EXCEPT ![v][Key(p, v)] = None]
      BY <2>4 DEF After, set
    <3>2. QED
      BY <1>3, <1>6, <2>1, <2>2, <3>1 DEF Tabled
  <2>5. QED
    BY <1>9, <2>3, <2>4
<1>10. CASE Here(p).op = "save"
  <2>1. After(p) = [[u \in Tables |-> IF FileOf(u) = FileOf(t) THEN tx[p].file[u] ELSE things[u]]
                      EXCEPT ![t][Key(p, t)] = Shown(Value(p))]
    BY <1>10 DEF After
  <2> DEFINE lines == [u \in Tables |-> IF FileOf(u) = FileOf(t) THEN tx[p].file[u] ELSE things[u]]
  <2>2. lines \in Tabled
    BY <1>2, <1>3, <1>5 DEF Tabled
  <2>3. After(p) = [lines EXCEPT ![t][Key(p, t)] = Shown(Value(p))]
    BY <2>1
  <2> HIDE DEF lines
  <2>4. QED
    BY <1>2, <1>3, <1>6, <2>2, <2>3 DEF Tabled
<1>11. CASE Here(p).op = "mirror"
  BY <1>2, <1>3, <1>5, <1>11 DEF After, Tabled
<1>12. QED
  BY <1>1, <1>7, <1>8, <1>9, <1>10, <1>11 DEF Changes

LEMMA CallTyped ==
  ASSUME TypeOK, NEW p \in Procs, Call(p) \/ CallFails(p)
  PROVE  TypeOK'
<1>1. Busy(p) /\ tx[p].at \in DOMAIN Steps(p) /\ Here(p).op \notin Untabled /\ AtStep(p, Changes)
  BY DEF Call, CallFails, AtStep, Here, Changes, Untabled
<1>2. RowsOK' /\ kind' = kind /\ things' \in Tabled /\ mishaps' \in [{"overlap", "call", "crash"} -> Nat]
  BY <1>1, AfterTyped DEF Call, CallFails, Mishap, TypeOK, RowsOK, Tabled
<1>3. tx[p] \in Sessions /\ Here(p).on \in Tables
  BY <1>1, StepFacts DEF TypeOK, Tables
<1>4. Key(p, Here(p).on) \in Names[kind] /\ Shown(Value(p)) \in Values
  BY <1>1, KeyFacts, ValueFact
<1>5. Written(p) \in Sessions /\ Written(p).name = tx[p].name
  BY <1>3, <1>4 DEF Written, Sessions
<1>6. TxOK' /\ jobs' \subseteq jobs
  <2>1. CASE Refuse(p)
    BY <1>1, <1>2, <2>1, Refuses
  <2>2. CASE Advance(p, Written(p)) /\ jobs' = jobs
    BY <1>1, <1>2, <1>5, <2>2, Advances
  <2>3. QED
    BY <2>1, <2>2 DEF Call, CallFails
<1>7. QED
  BY <1>2, <1>6, Typed DEF TypeOK

LEMMA ReadFileTyped ==
  ASSUME TypeOK, NEW p \in Procs, ReadFile(p)
  PROVE  TypeOK'
<1>1. Busy(p) /\ tx[p].at \in DOMAIN Steps(p)
  BY DEF ReadFile, AtStep
<1>2. RowsOK' /\ kind' = kind /\ things' \in Tabled /\ jobs' = jobs
      /\ mishaps' \in [{"overlap", "call", "crash"} -> Nat]
  BY DEF ReadFile, TypeOK, RowsOK, Tabled
<1>3. tx[p] \in Sessions /\ Tables = TablesOf[kind]
  BY <1>1, StepFacts DEF TypeOK, Tables
<1>4. \A t \in TablesOf[kind], k \in Names[kind] :
        things[t][k] \in Values /\ Shown(Visible(p, t, k)) \in Values
  BY <1>1, ReadFacts, ValueFacts DEF Shown, TypeOK
<1> DEFINE f == [t \in Tables |->
        IF FileOf(t) # FileOf(Here(p).on) THEN tx[p].file[t]
        ELSE [k \in Names[kind] |->
                IF Here(p).op = "read" THEN things[t][k] ELSE Shown(Visible(p, t, k))]]
<1>5. f \in [Tables -> [Names[kind] -> Values]]
  BY <1>3, <1>4 DEF Sessions
<1>6. Advance(p, [tx[p] EXCEPT !.file = f])
  BY <1>3 DEF ReadFile, Sessions
<1> HIDE DEF f
<1>7. [tx[p] EXCEPT !.file = f] \in Sessions /\ [tx[p] EXCEPT !.file = f].name = tx[p].name
  BY <1>3, <1>5 DEF Sessions
<1>8. TxOK'
  BY <1>1, <1>2, <1>6, <1>7, Advances
<1>9. QED
  BY <1>2, <1>8, Typed DEF TypeOK

LEMMA AskFailsTyped ==
  ASSUME TypeOK, NEW p \in Procs, AskFails(p)
  PROVE  TypeOK'
<1>1. Busy(p) /\ tx[p].at \in DOMAIN Steps(p)
  BY DEF AskFails, AtStep
<1>2. RowsOK' /\ kind' = kind /\ things' \in Tabled /\ mishaps' \in [{"overlap", "call", "crash"} -> Nat]
  BY DEF AskFails, Mishap, TypeOK, RowsOK, Tabled
<1>3. TxOK' /\ jobs' \subseteq jobs
  BY <1>1, <1>2, Refuses DEF AskFails
<1>4. QED
  BY <1>2, <1>3, Typed DEF TypeOK

LEMMA ControlTyped ==
  ASSUME TypeOK, NEW p \in Procs, Control(p)
  PROVE  TypeOK'
<1>1. Busy(p) /\ tx[p].at \in DOMAIN Steps(p) /\ Here(p).op \in {"jump", "spawn"}
  BY DEF Control, AtStep, Here
<1>2. RowsOK' /\ kind' = kind /\ things' \in Tabled /\ mishaps' \in [{"overlap", "call", "crash"} -> Nat]
  BY DEF Control, TypeOK, RowsOK, Tabled
<1>3. CASE Here(p).op = "jump"
  <2>1. TxOK' /\ jobs' \subseteq jobs
    BY <1>1, <1>2, <1>3, Refuses DEF Control
  <2>2. QED
    BY <1>2, <2>1, Typed DEF TypeOK
<1>4. CASE Here(p).op = "spawn"
  <2> DEFINE again == Here(p).val = tx[p].name
             key == IF again THEN tx[p].job ELSE tx[p].key
  <2>1. Advance(p, [tx[p] EXCEPT !.again = again]) /\ jobs' = jobs \cup {[name |-> Here(p).val, key |-> key]}
    BY <1>4 DEF Control
  <2>2. tx[p] \in Sessions /\ Here(p).val \in Tasks[kind]
    BY <1>1, <1>4, StepFacts
  <2>3. key \in Names[kind] /\ again \in BOOLEAN
    BY <2>2 DEF Sessions
  <2> HIDE DEF again, key
  <2>4. [tx[p] EXCEPT !.again = again] \in Sessions /\ [tx[p] EXCEPT !.again = again].name = tx[p].name
    BY <2>2, <2>3 DEF Sessions
  <2>5. TxOK'
    BY <1>1, <1>2, <2>1, <2>4, Advances
  <2>6. jobs' \subseteq [name : Tasks[kind], key : Names[kind]]
    BY <2>1, <2>2, <2>3 DEF TypeOK
  <2>7. QED
    BY <1>2, <2>5, <2>6, Typed
<1>5. QED
  BY <1>1, <1>3, <1>4

LEMMA StartTyped ==
  ASSUME TypeOK, kind' = kind, RowsOK', NEW p \in Procs,
         NEW n \in DOMAIN Scripts[kind], NEW k \in Names[kind], NEW a \in Asks(n), Start(p, n, k, a)
  PROVE  TxOK'
<1>1. PICK at \in Lands[kind][n][1] : tx' = [tx EXCEPT ![p] = [Session(n, k, a) EXCEPT !.at = at]]
  BY DEF Start
<1>2. Scripts[kind][n] \in Seq(AStep) /\ kind \in Kinds
  BY PanelAssumption DEF AStep, TypeOK
<1>3. at \in 1 .. Len(Scripts[kind][n]) + 1 /\ at \in Nat
  BY <1>1, <1>2, Landing
<1>4. a \in Answers \cup {None}
  BY DEF Asks
<1>5. [Session(n, k, a) EXCEPT !.at = at] \in Sessions
  BY <1>3, <1>4, ValueFacts DEF Session, Sessions
<1>6. [Session(n, k, a) EXCEPT !.at = at].at = at /\ [Session(n, k, a) EXCEPT !.at = at].name = n
  BY DEF Session
<1>7. QED
  BY <1>1, <1>3, <1>5, <1>6, OneSession

LEMMA ArrivalTyped ==
  ASSUME TypeOK, NEW p \in Procs, Begin(p) \/ \E j \in jobs : Take(p, j)
  PROVE  TypeOK'
<1>1. RowsOK' /\ kind' = kind /\ things' \in Tabled /\ jobs' = jobs
  BY DEF Begin, Take, TypeOK, RowsOK, Tabled
<1>2. mishaps' \in [{"overlap", "call", "crash"} -> Nat]
  BY DEF Begin, Take, Overlaps, Mishap, TypeOK
<1>3. TxOK'
  <2>1. CASE Begin(p)
    BY <1>1, <2>1, StartTyped DEF Begin
  <2>2. ASSUME NEW j \in jobs, Take(p, j)
        PROVE  TxOK'
    <3>1. kind \in Kinds /\ j.name \in Tasks[kind] /\ j.key \in Names[kind]
      BY DEF TypeOK
    <3>2. j.name \in DOMAIN Scripts[kind]
      BY <3>1, PanelAssumption
    <3>3. QED
      BY <1>1, <2>2, <3>1, <3>2, StartTyped DEF Take
  <2>3. QED
    BY <2>1, <2>2
<1>4. QED
  BY <1>1, <1>2, <1>3, Typed DEF TypeOK

LEMMA BeatTyped ==
  ASSUME TypeOK, Beat
  PROVE  TypeOK'
<1>1. Periodic[kind] \subseteq Tasks[kind]
  BY PanelAssumption DEF TypeOK
<1>2. jobs' \subseteq [name : Tasks[kind], key : Names[kind]]
  BY <1>1 DEF Beat, TypeOK
<1>3. RowsOK' /\ kind' = kind /\ things' \in Tabled /\ mishaps' \in [{"overlap", "call", "crash"} -> Nat]
  BY DEF Beat, TypeOK, RowsOK, Tabled
<1>4. TxOK'
  <2>1. Sessions' = Sessions
    BY <1>3, SameSessions
  <2>2. QED
    BY <2>1 DEF Beat, TypeOK, TxOK, Busy, Steps
<1>5. QED
  BY <1>2, <1>3, <1>4, Typed

LEMMA CrashTyped ==
  ASSUME TypeOK, NEW p \in Procs, Crash(p)
  PROVE  TypeOK'
<1>1. RowsOK' /\ kind' = kind /\ things' \in Tabled /\ jobs' = jobs
      /\ mishaps' \in [{"overlap", "call", "crash"} -> Nat]
  BY DEF Crash, Mishap, TypeOK, RowsOK, Tabled
<1>2. TxOK'
  BY <1>1, OneSession DEF Crash
<1>3. QED
  BY <1>1, <1>2, Typed DEF TypeOK
-----------------------------------------------------------------------------
\* Every variable has its type: whatever handlers there are, as long as
\* their steps are of the shape that PanelAssumption asks for.
THEOREM TypeCorrect == Spec => []TypeOK
<1>1. Init => TypeOK
  <2> SUFFICES ASSUME Init PROVE TypeOK
    OBVIOUS
  <2>1. rows \in Tabled /\ things \in Tabled
    BY ValueFacts DEF Init, Tabled
  <2>2. tx \in [Procs -> Sessions \cup {Idle}] /\ \A p \in Procs : ~Busy(p)
    BY DEF Init, Busy
  <2>3. QED
    BY <2>1, <2>2 DEF Init, TypeOK, Tabled
<1>2. TypeOK /\ [Next]_vars => TypeOK'
  <2> SUFFICES ASSUME TypeOK, [Next]_vars PROVE TypeOK'
    OBVIOUS
  <2>1. CASE Beat
    BY <2>1, BeatTyped
  <2>2. ASSUME NEW p \in Procs, Begin(p) \/ \E j \in jobs : Take(p, j)
        PROVE  TypeOK'
    BY <2>2, ArrivalTyped
  <2>3. ASSUME NEW p \in Procs, Runs(p)
        PROVE  TypeOK'
    BY <2>3, QueryTyped, NewKeyTyped, FlushTyped, CommitNowTyped, ReturnTyped, CallTyped,
       ReadFileTyped, ControlTyped DEF Runs
  <2>4. ASSUME NEW p \in Procs, CallFails(p) \/ AskFails(p) \/ Crash(p)
        PROVE  TypeOK'
    BY <2>4, CallTyped, AskFailsTyped, CrashTyped
  <2>5. CASE UNCHANGED vars
    <3>1. Sessions' = Sessions /\ TablesOf[kind]' = TablesOf[kind]
      BY <2>5 DEF vars, Sessions, Tables, TablesOf
    <3>2. QED
      BY <2>5, <3>1 DEF vars, TypeOK, Busy, Steps
  <2>6. QED
    BY <2>1, <2>2, <2>3, <2>4, <2>5 DEF Next
<1>3. QED
  BY <1>1, <1>2, PTL DEF Spec
-----------------------------------------------------------------------------
(* What a step means for the sessions of all processes. *)

\* q goes on with the same task, and has changed nothing.
SameWork(q) ==
  /\ Busy(q)' <=> Busy(q)
  /\ Busy(q) => /\ tx'[q].name = tx[q].name /\ tx'[q].job = tx[q].job
                /\ tx'[q].key = tx[q].key /\ tx'[q].mine = tx[q].mine
                /\ tx'[q].added = tx[q].added

Sent == \E m \in jobs' : jobs' = jobs \cup {m}

LEMMA SameWorkFacts ==
  ASSUME TypeOK, kind' = kind, RowsOK', NEW q \in Procs, SameWork(q)
  PROVE  Held(q)' = Held(q)
<1>1. Tables' = Tables
  BY SameSessions
<1>2. \A t : RowOf(t)' = RowOf(t)
  BY DEF RowOf
<1>3. Busy(q) => \A t : Key(q, t)' = Key(q, t)
  BY DEF Key, SameWork
<1>4. QED
  BY <1>1, <1>2, <1>3 DEF Held, SameWork

LEMMA Unchanged ==
  ASSUME NEW q \in Procs, tx'[q] = tx[q]
  PROVE  SameWork(q)
BY DEF SameWork, Busy

LEMMA GoOnFacts ==
  ASSUME TypeOK, NEW p \in Procs, Busy(p), NEW s, DOMAIN s = DOMAIN tx[p],
         s.name = tx[p].name, NEW i, GoOn(p, s, i)
  PROVE  /\ Busy(p)' /\ \A q \in Procs \ {p} : SameWork(q)
         /\ tx'[p].name = s.name /\ tx'[p].job = s.job /\ tx'[p].key = s.key
         /\ tx'[p].mine = s.mine /\ tx'[p].added = s.added
<1>1. PICK at \in Lands[kind][tx[p].name][i] : tx' = [tx EXCEPT ![p] = [s EXCEPT !.at = at]]
  BY DEF GoOn
<1>2. tx'[p] = [s EXCEPT !.at = at] /\ \A q \in Procs \ {p} : tx'[q] = tx[q]
  BY <1>1 DEF TypeOK
<1>3. tx[p] \in Sessions /\ tx[p].name # ""
  BY PanelAssumption DEF TypeOK, Busy, Sessions
<1>4. {"name", "job", "key", "mine", "added"} \subseteq DOMAIN s
  BY <1>3 DEF Sessions
<1>5. /\ tx'[p].name = s.name /\ tx'[p].job = s.job /\ tx'[p].key = s.key
      /\ tx'[p].mine = s.mine /\ tx'[p].added = s.added
  BY <1>2, <1>4
<1>6. Idle.name = ""
  BY DEF Idle
<1>7. Busy(p)'
  BY <1>3, <1>5, <1>6 DEF Busy
<1>8. QED
  BY <1>2, <1>5, <1>7, Unchanged

\* A step that only goes on.
LEMMA GoesOnWorking ==
  ASSUME TypeOK, NEW p \in Procs, Busy(p), NEW s, DOMAIN s = DOMAIN tx[p], NEW i, GoOn(p, s, i),
         s.name = tx[p].name, s.job = tx[p].job, s.key = tx[p].key, s.mine = tx[p].mine,
         s.added = tx[p].added
  PROVE  \A q \in Procs : SameWork(q)
<1>1. SameWork(p)
  BY GoOnFacts DEF SameWork
<1>2. QED
  BY <1>1, GoOnFacts

LEMMA RefusesOrWorks ==
  ASSUME TypeOK, NEW p \in Procs, Busy(p), Refuse(p)
  PROVE  Abort(p) \/ (jobs' = jobs /\ \A q \in Procs : SameWork(q))
BY GoesOnWorking DEF Refuse

LEMMA AbortFacts ==
  ASSUME TypeOK, NEW p \in Procs, Abort(p)
  PROVE  ~Busy(p)' /\ Done(p) /\ \A q \in Procs \ {p} : SameWork(q)
<1>1. tx' = [tx EXCEPT ![p] = Idle] /\ Done(p)
  BY DEF Abort
<1>2. tx'[p] = Idle /\ \A q \in Procs \ {p} : tx'[q] = tx[q]
  BY <1>1 DEF TypeOK
<1>3. QED
  BY <1>1, <1>2, Unchanged DEF Busy

\* Steps that change no row.
Quiet(p) ==
  Query(p) \/ Call(p) \/ CallFails(p) \/ AskFails(p) \/ ReadFile(p) \/ Control(p)

LEMMA QuietFacts ==
  ASSUME TypeOK, NEW p \in Procs, Quiet(p)
  PROVE  /\ rows' = rows /\ kind' = kind
         /\ \/ Abort(p)
            \/ (jobs' = jobs \/ Sent) /\ \A q \in Procs : SameWork(q)
<1>1. Busy(p) /\ rows' = rows /\ kind' = kind /\ tx[p] \in Sessions
  BY DEF Quiet, Query, Call, CallFails, AskFails, ReadFile, Control, AtStep, TypeOK, Busy
<1>2. CASE Refuse(p)
  BY <1>1, <1>2, RefusesOrWorks
<1>3. ASSUME NEW s, Advance(p, s), DOMAIN s = DOMAIN tx[p],
             s.name = tx[p].name, s.job = tx[p].job, s.key = tx[p].key, s.mine = tx[p].mine,
             s.added = tx[p].added
      PROVE  \A q \in Procs : SameWork(q)
  BY <1>1, <1>3, GoesOnWorking DEF Advance
<1>5. CASE Query(p)
  <2>1. \A q \in Procs : Advance(p, Loaded(p)) => SameWork(q)
    BY <1>1, <1>3 DEF Loaded, Sessions
  <2>2. QED
    BY <1>1, <1>2, <1>3, <1>5, <2>1 DEF Query
<1>6. CASE Call(p) \/ CallFails(p)
  <2>1. \A q \in Procs : Advance(p, Written(p)) => SameWork(q)
    BY <1>1, <1>3 DEF Written, Sessions
  <2>2. QED
    BY <1>1, <1>2, <1>6, <2>1 DEF Call, CallFails
<1>7. CASE ReadFile(p)
  <2>1. \A f : Advance(p, [tx[p] EXCEPT !.file = f]) => \A q \in Procs : SameWork(q)
    BY <1>1, <1>3 DEF Sessions
  <2>2. QED
    BY <1>1, <1>7, <2>1 DEF ReadFile, Sessions
<1>8. CASE Control(p)
  <2>1. \A a : Advance(p, [tx[p] EXCEPT !.again = a]) => \A q \in Procs : SameWork(q)
    BY <1>1, <1>3 DEF Sessions
  <2>2. CASE Here(p).op = "jump"
    BY <1>2, <1>8, <2>2 DEF Control
  <2>3. CASE Here(p).op # "jump"
    BY <1>8, <2>1, <2>3 DEF Control, Sent
  <2>4. QED
    BY <2>2, <2>3
<1>9. CASE AskFails(p)
  BY <1>2, <1>9 DEF AskFails
<1>10. QED
  BY <1>5, <1>6, <1>7, <1>8, <1>9 DEF Quiet

LEMMA OthersWork ==
  ASSUME TypeOK, NEW p \in Procs, Busy(p), NEW q \in Procs \ {p}, tx'[q] = Others(p)[q]
  PROVE  SameWork(q)
<1>1. CASE ~Busy(q)
  BY <1>1, Unchanged DEF Others
<1>2. CASE Busy(q)
  <2>1. tx[q] \in Sessions
    BY <1>2 DEF TypeOK, Busy
  <2>2. \E g : tx'[q] = [tx[q] EXCEPT !.gone = g]
    BY <1>2, <2>1 DEF Others, Sessions
  <2>3. /\ tx'[q].name = tx[q].name /\ tx'[q].job = tx[q].job /\ tx'[q].key = tx[q].key
        /\ tx'[q].mine = tx[q].mine /\ tx'[q].added = tx[q].added
    BY <2>1, <2>2 DEF Sessions
  <2>4. Busy(q)'
    BY <1>2, CommitFacts DEF Busy
  <2>5. QED
    BY <1>2, <2>3, <2>4 DEF SameWork
<1>3. QED
  BY <1>1, <1>2

LEMMA NewKeyFacts ==
  ASSUME TypeOK, NEW p \in Procs, NewKey(p)
  PROVE  /\ rows' = rows /\ kind' = kind /\ Busy(p)
         /\ \/ Abort(p)
            \/ jobs' = jobs /\ \A q \in Procs : SameWork(q)
            \/ /\ jobs' = jobs /\ \A q \in Procs \ {p} : SameWork(q)
               /\ Busy(p)' /\ tx'[p].name = tx[p].name /\ tx'[p].job = tx[p].job
               /\ tx'[p].mine = tx[p].mine /\ tx'[p].added = tx[p].added
               /\ \A q \in Procs \ {p} : Busy(q) => tx[q].key # tx'[p].key
<1>1. Busy(p) /\ rows' = rows /\ kind' = kind /\ tx[p] \in Sessions
  BY DEF NewKey, AtStep, TypeOK, Busy
<1>2. CASE Refuse(p)
  BY <1>1, <1>2, RefusesOrWorks
<1>3. CASE ~Refuse(p)
  <2>1. PICK k \in Unused(p) : Advance(p, [tx[p] EXCEPT !.key = k])
    BY <1>3 DEF NewKey
  <2>2. jobs' = jobs
    BY <1>3 DEF NewKey
  <2> DEFINE s == [tx[p] EXCEPT !.key = k]
  <2>3. /\ DOMAIN s = DOMAIN tx[p] /\ s.name = tx[p].name /\ s.job = tx[p].job /\ s.key = k
        /\ s.mine = tx[p].mine /\ s.added = tx[p].added /\ Advance(p, s)
    BY <1>1, <2>1 DEF Sessions
  <2> HIDE DEF s
  <2>4. /\ Busy(p)' /\ \A q \in Procs \ {p} : SameWork(q)
        /\ tx'[p].name = tx[p].name /\ tx'[p].job = tx[p].job /\ tx'[p].key = k
        /\ tx'[p].mine = tx[p].mine /\ tx'[p].added = tx[p].added
    BY <1>1, <2>3, GoOnFacts DEF Advance
  <2>5. \A q \in Procs \ {p} : Busy(q) => tx[q].key # k
    BY DEF Unused
  <2>6. QED
    BY <1>1, <2>2, <2>4, <2>5
<1>4. QED
  BY <1>2, <1>3

LEMMA FlushFacts ==
  ASSUME TypeOK, NEW p \in Procs, Flush(p)
  PROVE  /\ rows' = rows /\ kind' = kind /\ Busy(p) /\ tx[p].at \in DOMAIN Steps(p)
         /\ Here(p).op \in {"insert", "add", "update", "rekey", "delete", "clear"}
         /\ \/ Abort(p)
            \/ jobs' = jobs /\ \A q \in Procs : SameWork(q)
            \/ /\ jobs' = jobs /\ \A q \in Procs \ {p} : SameWork(q)
               /\ Busy(p)' /\ tx'[p].name = tx[p].name /\ tx'[p].job = tx[p].job
               /\ tx'[p].key = tx[p].key
               /\ tx'[p].mine = Flushed(p).mine /\ tx'[p].added = Flushed(p).added
               /\ Here(p).op # "add" => ~Waits(p)
<1>1. /\ Busy(p) /\ rows' = rows /\ kind' = kind /\ tx[p] \in Sessions
      /\ tx[p].at \in DOMAIN Steps(p)
      /\ Here(p).op \in {"insert", "add", "update", "rekey", "delete", "clear"}
  BY DEF Flush, AtStep, TypeOK, Busy, Here
<1>2. CASE NoChange(p)
  BY <1>1, <1>2, GoesOnWorking DEF Flush, Advance
<1>3. CASE ~NoChange(p) /\ Broken(p)
  BY <1>1, <1>3 DEF Flush
<1>4. CASE ~NoChange(p) /\ ~Broken(p)
  <2>1. Advance(p, Flushed(p)) /\ jobs' = jobs /\ (Here(p).op # "add" => ~Waits(p))
    BY <1>4 DEF Flush
  <2>2. /\ DOMAIN Flushed(p) = DOMAIN tx[p] /\ Flushed(p).name = tx[p].name
        /\ Flushed(p).job = tx[p].job /\ Flushed(p).key = tx[p].key
    BY <1>1 DEF Flushed, Sessions
  <2>3. QED
    BY <1>1, <2>1, <2>2, GoOnFacts DEF Advance
<1>5. QED
  BY <1>2, <1>3, <1>4

LEMMA CommitNowFacts ==
  ASSUME TypeOK, NEW p \in Procs, CommitNow(p)
  PROVE  /\ rows' = Committed(p) /\ kind' = kind /\ jobs' = jobs /\ Busy(p)
         /\ \A q \in Procs \ {p} : SameWork(q)
         /\ Busy(p)' /\ tx'[p].name = tx[p].name /\ tx'[p].job = tx[p].job
         /\ tx'[p].mine = [t \in Tables |-> Same]
<1>1. Busy(p) /\ rows' = Committed(p) /\ kind' = kind /\ jobs' = jobs /\ tx[p] \in Sessions
  BY DEF CommitNow, AtStep, TypeOK, Busy
<1>2. PICK at : tx' = [Others(p) EXCEPT ![p] =
              [tx[p] EXCEPT !.at = at, !.seen = [t \in Tables |-> 
                               IF tx[p].mine[t] = Same THEN tx[p].seen[t] ELSE tx[p].mine[t]],
                            !.mine = [t \in Tables |-> Same], !.added = {}]]
  BY DEF CommitNow
<1> DEFINE s == [tx[p] EXCEPT !.at = at, !.seen = [t \in Tables |->
                               IF tx[p].mine[t] = Same THEN tx[p].seen[t] ELSE tx[p].mine[t]],
                            !.mine = [t \in Tables |-> Same], !.added = {}]
<1>3. s.name = tx[p].name /\ s.job = tx[p].job /\ s.mine = [t \in Tables |-> Same]
  BY <1>1 DEF Sessions
<1>4. tx' = [Others(p) EXCEPT ![p] = s]
  BY <1>2
<1> HIDE DEF s
<1>5. tx'[p] = s /\ \A q \in Procs \ {p} : tx'[q] = Others(p)[q]
  BY <1>1, <1>4, CommitFacts
<1>6. tx[p].name # "" /\ Idle.name = ""
  BY <1>1, PanelAssumption DEF TypeOK, Sessions, Idle
<1>7. Busy(p)'
  BY <1>3, <1>5, <1>6 DEF Busy
<1>8. ASSUME NEW q \in Procs \ {p}
      PROVE  SameWork(q)
  BY <1>1, <1>5, OthersWork
<1>9. QED
  BY <1>1, <1>3, <1>5, <1>7, <1>8

LEMMA ReturnFacts ==
  ASSUME TypeOK, NEW p \in Procs, Return(p)
  PROVE  /\ rows' = Committed(p) /\ kind' = kind /\ Done(p) /\ Busy(p) /\ ~Busy(p)'
         /\ \A q \in Procs \ {p} : SameWork(q)
<1>1. /\ Busy(p) /\ rows' = Committed(p) /\ kind' = kind /\ Done(p)
      /\ tx' = [Others(p) EXCEPT ![p] = Idle]
  BY DEF Return
<1>2. tx'[p] = Idle /\ \A q \in Procs \ {p} : tx'[q] = Others(p)[q]
  BY <1>1, CommitFacts
<1>3. QED
  BY <1>1, <1>2, OthersWork DEF Busy

\* A process that takes up something has changed nothing yet.
LEMMA StartFacts ==
  ASSUME TypeOK, NEW p \in Procs, NEW n \in DOMAIN Scripts[kind], NEW k, NEW a, Start(p, n, k, a)
  PROVE  /\ \A q \in Procs \ {p} : SameWork(q)
         /\ Busy(p)' /\ tx'[p].name = n /\ tx'[p].job = k
         /\ tx'[p].mine = [t \in Tables |-> Same]
<1>1. PICK at : tx' = [tx EXCEPT ![p] = [Session(n, k, a) EXCEPT !.at = at]]
  BY DEF Start
<1>2. tx'[p] = [Session(n, k, a) EXCEPT !.at = at] /\ \A q \in Procs \ {p} : tx'[q] = tx[q]
  BY <1>1 DEF TypeOK
<1>3. tx'[p].name = n /\ tx'[p].job = k /\ tx'[p].mine = [t \in Tables |-> Same]
  BY <1>2 DEF Session
<1>4. n # "" /\ Idle.name = ""
  BY PanelAssumption DEF TypeOK, Idle
<1>5. QED
  BY <1>2, <1>3, <1>4, Unchanged DEF Busy
-----------------------------------------------------------------------------
(* Rows are not locked twice. *)

LocksExclude == \A p, q \in Procs : p # q => Held(p) \cap Held(q) = {}

\* A table of columns is a table of rows.
LEMMA RowOfRow ==
  ASSUME TypeOK, NEW t
  PROVE  RowOf(RowOf(t)) = RowOf(t)
<1>1. \A u \in DOMAIN Columns[kind] : Columns[kind][u] \notin DOMAIN Columns[kind]
  BY PanelAssumption DEF TypeOK
<1>2. QED
  BY <1>1 DEF RowOf

\* A change locks the row it is about, for which the process has waited; a
\* row that is new is nobody else's.
LEMMA FlushHeld ==
  ASSUME TypeOK, NEW p \in Procs, Flush(p), Busy(p)', tx'[p].key = tx[p].key,
         tx'[p].mine = Flushed(p).mine, tx'[p].added = Flushed(p).added
  PROVE  LET row == RowOf(Here(p).on) IN
         Held(p)' \subseteq Held(p) \cup (IF Here(p).op = "add" THEN {} ELSE {<<row, Key(p, row)>>})
<1> DEFINE on == Here(p).on
           row == RowOf(on)
<1>1. /\ Busy(p) /\ rows' = rows /\ kind' = kind /\ tx[p] \in Sessions /\ on \in Tables
      /\ (Here(p).op = "add" => on \notin DOMAIN Columns[kind]) /\ Tables' = Tables
  <2>1. Busy(p) /\ tx[p].at \in DOMAIN Steps(p) /\ Here(p).op \notin Untabled /\ rows' = rows /\ kind' = kind
    BY FlushFacts DEF Untabled
  <2>2. QED
    BY <2>1, StepFacts DEF Tables, TypeOK
<1>2. \A t : RowOf(t)' = RowOf(t) /\ Key(p, t)' = Key(p, t)
  BY <1>1 DEF RowOf, Key
<1>3. ASSUME NEW u \in Tables, tx'[p].mine[u] # Same, RowOf(u) \notin tx'[p].added
      PROVE  <<RowOf(u), Key(p, RowOf(u))>> \in Held(p) \/ (Here(p).op # "add" /\ RowOf(u) = row)
  <2>1. CASE RowOf(u) = row
    <3>1. ASSUME Here(p).op = "add" PROVE FALSE
      <4>1. row = on
        BY <1>1, <3>1 DEF RowOf
      <4>2. on \in tx'[p].added
        BY <1>1, <3>1 DEF Flushed, Sessions
      <4>3. QED
        BY <1>3, <2>1, <4>1, <4>2
    <3>2. QED
      BY <2>1, <3>1
  <2>2. CASE RowOf(u) # row
    <3>1. u # on /\ RowOf(u) # on
      BY <2>2, RowOfRow
    <3>2. tx'[p].mine[u] = tx[p].mine[u]
      BY <1>1, <3>1 DEF Flushed, Sessions
    <3>3. RowOf(u) \notin tx[p].added
      BY <1>1, <1>3, <3>1 DEF Flushed, Sessions
    <3>4. QED
      BY <1>1, <1>3, <3>2, <3>3 DEF Held
  <2>3. QED
    BY <2>1, <2>2
<1>4. ASSUME NEW x \in Held(p)'
      PROVE  \E u \in Tables : /\ tx'[p].mine[u] # Same /\ RowOf(u) \notin tx'[p].added
                               /\ x = <<RowOf(u), Key(p, RowOf(u))>>
  BY <1>1, <1>2 DEF Held
<1>5. QED
  BY <1>3, <1>4

\* One transaction holds less than before, or more that no other holds.
LEMMA StaysExclusive ==
  ASSUME TypeOK, LocksExclude, kind' = kind, RowsOK', NEW p \in Procs,
         \A q \in Procs \ {p} : SameWork(q),
         \A q \in Procs \ {p} : Held(p)' \cap Held(q) = {}
  PROVE  LocksExclude'
<1>1. \A q \in Procs \ {p} : Held(q)' = Held(q)
  BY SameWorkFacts
<1>2. QED
  BY <1>1 DEF LocksExclude

LEMMA FreesLocks ==
  ASSUME TypeOK, LocksExclude, kind' = kind, RowsOK', NEW p \in Procs,
         \A q \in Procs \ {p} : SameWork(q), Held(p)' = {}
  PROVE  LocksExclude'
BY StaysExclusive

LEMMA KeepsLocks ==
  ASSUME TypeOK, LocksExclude, kind' = kind, RowsOK', \A q \in Procs : SameWork(q)
  PROVE  LocksExclude'
<1>1. \A q \in Procs : Held(q)' = Held(q)
  BY SameWorkFacts
<1>2. QED
  BY <1>1 DEF LocksExclude

LEMMA IdleHoldsNothing ==
  ASSUME NEW p \in Procs, ~Busy(p)'
  PROVE  Held(p)' = {}
BY DEF Held

LEMMA UnchangedHoldsNothing ==
  ASSUME NEW p \in Procs, kind' = kind, Tables' = Tables, tx'[p].mine = [t \in Tables |-> Same]
  PROVE  Held(p)' = {}
BY DEF Held

\* A new primary key is one that no other session has.
LEMMA NewKeyHeld ==
  ASSUME TypeOK, LocksExclude, kind' = kind, rows' = rows, NEW p \in Procs, Busy(p), Busy(p)',
         tx'[p].mine = tx[p].mine, tx'[p].added = tx[p].added,
         \A q \in Procs \ {p} : Busy(q) => tx[q].key # tx'[p].key
  PROVE  \A q \in Procs \ {p} : Held(p)' \cap Held(q) = {}
<1>1. SUFFICES ASSUME NEW q \in Procs \ {p}, NEW x \in Held(p)', x \in Held(q) PROVE FALSE
  OBVIOUS
<1>2. Tables' = Tables /\ \A t : RowOf(t)' = RowOf(t)
  BY DEF Tables, RowOf
<1>3. PICK u \in Tables : /\ tx[p].mine[u] # Same /\ RowOf(u) \notin tx[p].added
                          /\ x = <<RowOf(u), Key(p, RowOf(u))'>>
  BY <1>1, <1>2 DEF Held
<1>4. Busy(q) /\ x = <<RowOf(u), Key(q, RowOf(u))>>
  BY <1>1, <1>3 DEF Held
<1>5. CASE RowOf(u) \in Singles[kind]
  <2>1. Key(p, RowOf(u))' = Key(p, RowOf(u))
    BY <1>5, <1>2 DEF Key
  <2>2. x \in Held(p)
    BY <1>3, <2>1 DEF Held
  <2>3. QED
    BY <1>1, <2>2 DEF LocksExclude
<1>6. CASE RowOf(u) \notin Singles[kind]
  BY <1>2, <1>3, <1>4, <1>6 DEF Key
<1>7. QED
  BY <1>5, <1>6

\* No two handlers ever hold the same row: one that comes second waits, also
\* when it gets there by a column or by a row that all names share.
LEMMA RowsAreLockedOnce == Spec => []LocksExclude
<1>1. Init => LocksExclude
  BY DEF Init, LocksExclude, Held, Busy
<1>2. TypeOK /\ TypeOK' /\ LocksExclude /\ [Next]_vars => LocksExclude'
  <2> SUFFICES ASSUME TypeOK, TypeOK', LocksExclude, [Next]_vars PROVE LocksExclude'
    OBVIOUS
  <2>1. RowsOK'
    BY DEF TypeOK, RowsOK
  <2>2. CASE Beat \/ UNCHANGED vars
    BY <2>2 DEF Beat, vars, LocksExclude, Held, Busy, RowOf, Key, Tables
  <2>3. ASSUME NEW p \in Procs, Begin(p) \/ \E j \in jobs : Take(p, j)
        PROVE  LocksExclude'
    <3>1. kind' = kind /\ rows' = rows /\ Tables' = Tables
      BY <2>3 DEF Begin, Take, Tables
    <3>2. \E n \in DOMAIN Scripts[kind] : \E k, a : Start(p, n, k, a)
      <4>1. \A j \in jobs : j.name \in DOMAIN Scripts[kind]
        BY PanelAssumption DEF TypeOK
      <4>2. QED
        BY <2>3, <4>1 DEF Begin, Take
    <3>3. (\A q \in Procs \ {p} : SameWork(q)) /\ tx'[p].mine = [t \in Tables |-> Same]
      BY <3>2, StartFacts
    <3>4. QED
      BY <2>1, <3>1, <3>3, UnchangedHoldsNothing, FreesLocks
  <2>4. ASSUME NEW p \in Procs, kind' = kind, Abort(p)
        PROVE  LocksExclude'
    BY <2>1, <2>4, AbortFacts, IdleHoldsNothing, FreesLocks
  <2>5. ASSUME NEW p \in Procs, Quiet(p)
        PROVE  LocksExclude'
    BY <2>1, <2>4, <2>5, QuietFacts, KeepsLocks
  <2>6. ASSUME NEW p \in Procs, NewKey(p)
        PROVE  LocksExclude'
    BY <2>1, <2>4, <2>6, NewKeyFacts, KeepsLocks, NewKeyHeld, StaysExclusive
  <2>7. ASSUME NEW p \in Procs, Flush(p)
        PROVE  LocksExclude'
    <3>1. CASE Abort(p)
      BY <2>4, <2>7, <3>1, FlushFacts
    <3>2. CASE \A q \in Procs : SameWork(q)
      BY <2>1, <2>7, <3>2, FlushFacts, KeepsLocks
    <3>3. CASE /\ \A q \in Procs \ {p} : SameWork(q)
               /\ Busy(p)' /\ tx'[p].key = tx[p].key
               /\ tx'[p].mine = Flushed(p).mine /\ tx'[p].added = Flushed(p).added
               /\ Here(p).op # "add" => ~Waits(p)
      <4>1. \A q \in Procs \ {p} : Held(p)' \cap Held(q) = {}
        BY <2>7, <3>3, FlushHeld DEF Waits, LocksExclude
      <4>2. QED
        BY <2>1, <2>7, <3>3, <4>1, FlushFacts, StaysExclusive
    <3>4. QED
      BY <2>7, <3>1, <3>2, <3>3, FlushFacts
  <2>8. ASSUME NEW p \in Procs, CommitNow(p)
        PROVE  LocksExclude'
    <3>1. Tables' = Tables
      BY <2>8, CommitNowFacts DEF TypeOK, Tables
    <3>2. QED
      BY <2>1, <2>8, <3>1, CommitNowFacts, UnchangedHoldsNothing, FreesLocks
  <2>9. ASSUME NEW p \in Procs, Return(p)
        PROVE  LocksExclude'
    BY <2>1, <2>9, ReturnFacts, IdleHoldsNothing, FreesLocks
  <2>10. ASSUME NEW p \in Procs, Crash(p)
         PROVE  LocksExclude'
    <3>1. kind' = kind /\ ~Busy(p)' /\ \A q \in Procs \ {p} : SameWork(q)
      BY <2>10, Unchanged DEF Crash, Busy, TypeOK
    <3>2. QED
      BY <2>1, <3>1, IdleHoldsNothing, FreesLocks
  <2>11. QED
    BY <2>2, <2>3, <2>5, <2>6, <2>7, <2>8, <2>9, <2>10 DEF Next, Runs, Quiet
<1>3. QED
  BY <1>1, <1>2, TypeCorrect, PTL DEF Spec
=============================================================================
