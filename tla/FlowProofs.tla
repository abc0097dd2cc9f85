------------------------------ MODULE FlowProofs ------------------------------
(***************************************************************************)
(* Promises proved for all names, values and processes from what Flows     *)
(* computes of each handler alone, where no request begins while another   *)
(* is at work.  (Two at once do break them: README.md says how.)           *)
(***************************************************************************)
EXTENDS Flows, PanelProofs

\* One request or task at a time, which are answered in any order.
OneAtATime == Most["overlap"] = 0
Single == \A p, q \in Procs : Busy(p) /\ Busy(q) => p = q

\* p goes on to where step i leads, as session s.
Goes(p, s, i) ==
  /\ Busy(p)' /\ \A q \in Procs \ {p} : tx'[q] = tx[q]
  /\ tx'[p].at \in Lands[kind][tx[p].name][i]
  /\ tx'[p].name = tx[p].name /\ tx'[p].key = s.key /\ tx'[p].asked = s.asked
  /\ tx'[p].added = s.added /\ tx'[p].gone = s.gone /\ tx'[p].seen = s.seen
  /\ tx'[p].mine = s.mine /\ tx'[p].file = s.file
Stops(p) == ~Busy(p)' /\ \A q \in Procs \ {p} : tx'[q] = tx[q]

LEMMA Onward ==
  ASSUME TypeOK, NEW p \in Procs, Busy(p), NEW s, DOMAIN s = DOMAIN tx[p], s.name = tx[p].name,
         NEW i, GoOn(p, s, i)
  PROVE  Goes(p, s, i)
<1>1. PICK at \in Lands[kind][tx[p].name][i] : tx' = [tx EXCEPT ![p] = [s EXCEPT !.at = at]]
  BY DEF GoOn
<1>2. tx'[p] = [s EXCEPT !.at = at] /\ \A q \in Procs \ {p} : tx'[q] = tx[q]
  BY <1>1 DEF TypeOK
<1>3. DOMAIN s = DOMAIN tx[p] /\ tx[p] \in Sessions
  BY DEF TypeOK, Busy
<1>4. {"at", "name", "key", "asked", "added", "gone", "seen", "mine", "file"} \subseteq DOMAIN s
  BY <1>3 DEF Sessions
<1>5. /\ tx'[p].at = at
      /\ tx'[p].name = s.name /\ tx'[p].key = s.key /\ tx'[p].asked = s.asked
      /\ tx'[p].added = s.added /\ tx'[p].gone = s.gone /\ tx'[p].seen = s.seen
      /\ tx'[p].mine = s.mine /\ tx'[p].file = s.file
  BY <1>2, <1>4
<1>6. Busy(p)'
  BY <1>3, GoOnFacts
<1>7. QED
  BY <1>1, <1>2, <1>5, <1>6 DEF Goes

LEMMA Ends ==
  ASSUME TypeOK, NEW p \in Procs, tx' = [tx EXCEPT ![p] = Idle]
  PROVE  Stops(p)
BY DEF Stops, Busy, TypeOK

LEMMA RefuseFlow ==
  ASSUME TypeOK, NEW p \in Procs, Busy(p), Refuse(p)
  PROVE  \/ Here(p).or = 0 /\ Stops(p)
         \/ Here(p).or # 0 /\ Goes(p, tx[p], tx[p].at + Here(p).or)
BY Ends, Onward DEF Refuse, Abort

\* With one busy process, a commit means nothing for the other sessions.
LEMMA CommitFlow ==
  ASSUME TypeOK, Single, NEW p \in Procs, Busy(p)
  PROVE  Others(p) = tx
<1>1. \A q \in Procs : Others(p)[q] = tx[q]
  BY DEF Others, Single
<1>2. Others(p) \in [Procs -> Sessions \cup {Idle}]
  BY CommitFacts
<1>3. QED
  BY <1>1, <1>2 DEF TypeOK

LEMMA ReturnFlow ==
  ASSUME TypeOK, Single, NEW p \in Procs, Return(p)
  PROVE  Stops(p)
BY CommitFlow, Ends DEF Return

LEMMA CommitNowFlow ==
  ASSUME TypeOK, Single, NEW p \in Procs, CommitNow(p)
  PROVE  \E s : /\ Goes(p, s, tx[p].at + 1)
                /\ s.key = tx[p].key /\ s.asked = tx[p].asked /\ s.added = {}
                /\ s.gone = tx[p].gone /\ s.file = tx[p].file /\ s.mine = [t \in Tables |-> Same]
                /\ s.seen = [t \in Tables |->
                      IF tx[p].mine[t] = Same THEN tx[p].seen[t] ELSE tx[p].mine[t]]
<1> DEFINE s == [tx[p] EXCEPT !.seen = [t \in Tables |->
                               IF tx[p].mine[t] = Same THEN tx[p].seen[t] ELSE tx[p].mine[t]],
                            !.mine = [t \in Tables |-> Same], !.added = {}]
<1>1. Busy(p) /\ tx[p] \in Sessions
  BY DEF CommitNow, AtStep, TypeOK, Busy
<1>2. PICK at \in Lands[kind][tx[p].name][tx[p].at + 1] :
        tx' = [tx EXCEPT ![p] =
              [tx[p] EXCEPT !.at = at, !.seen = [t \in Tables |-> 
                               IF tx[p].mine[t] = Same THEN tx[p].seen[t] ELSE tx[p].mine[t]],
                            !.mine = [t \in Tables |-> Same], !.added = {}]]
  BY <1>1, CommitFlow DEF CommitNow
<1>3. /\ DOMAIN s = DOMAIN tx[p] /\ s.name = tx[p].name
      /\ s.key = tx[p].key /\ s.asked = tx[p].asked /\ s.added = {}
      /\ s.gone = tx[p].gone /\ s.file = tx[p].file /\ s.mine = [t \in Tables |-> Same]
      /\ s.seen = [t \in Tables |-> IF tx[p].mine[t] = Same THEN tx[p].seen[t] ELSE tx[p].mine[t]]
  BY <1>1 DEF Sessions
<1>4. tx' = [tx EXCEPT ![p] = [s EXCEPT !.at = at]]
  <2>1. [tx[p] EXCEPT !.at = at, !.seen = [t \in Tables |-> 
                               IF tx[p].mine[t] = Same THEN tx[p].seen[t] ELSE tx[p].mine[t]],
                            !.mine = [t \in Tables |-> Same], !.added = {}] = [s EXCEPT !.at = at]
    BY <1>1 DEF Sessions
  <2>2. QED
    BY <1>2, <2>1
<1>5. GoOn(p, s, tx[p].at + 1)
  BY <1>4 DEF GoOn
<1> HIDE DEF s
<1>6. Goes(p, s, tx[p].at + 1)
  BY <1>1, <1>3, <1>5, Onward
<1>7. QED
  BY <1>3, <1>6
-----------------------------------------------------------------------------
(* What keeps a session and the rows together while nobody else is busy.   *)

LEMMA NoValue == Same \notin Values /\ Unread \notin Values
<1>1. {Same, Unread} \cap (Answers \cup {None, "there", "twice", "one", "full"}) = {}
  BY WordsAssumption DEF Same, Unread, None
<1>2. \A k \in Kinds : \A n \in DOMAIN Scripts[k] : \A i \in DOMAIN Scripts[k][n] :
        Scripts[k][n][i].val \notin {Same, Unread}
  BY WordsAssumption, KindsAssumption
<1>3. QED
  BY <1>1, <1>2 DEF Values

LEMMA LandsFacts ==
  ASSUME TypeOK, NEW n \in DOMAIN Scripts[kind]
  PROVE  Lands[kind][n] = LandsIn(Scripts[kind][n])
BY DEF Lands, TypeOK

\* A task that takes another name has read no row of the first, if it takes
\* that name at once.
Blank(p) ==
  AtStep(p, {"mint"}) /\ tx[p].name \in Tasks[kind] /\ ~Moves(kind, tx[p].name) =>
    \A t \in TablesOf[kind] : tx[p].seen[t] = Unread
Leads(p, i) ==
  tx[p].at \in DOMAIN Steps(p) /\ (i = tx[p].at + 1 \/ (Here(p).or # 0 /\ i = tx[p].at + Here(p).or))

LEMMA StaysBlank ==
  ASSUME TypeOK, kind' = kind, NEW p \in Procs, Busy(p), NEW i, Leads(p, i),
         tx'[p].name = tx[p].name, tx'[p].at \in Lands[kind][tx[p].name][i]
  PROVE  Blank(p)'
<1> DEFINE s == Scripts[kind][tx[p].name]
<1>1. tx[p].name \in DOMAIN Scripts[kind]
  BY DEF TypeOK, Busy, Sessions
<1>2. tx'[p].at \in Onto(s, tx[p].at)
  BY <1>1, LandsFacts DEF Leads, Onto, Steps, Here
<1>3. SUFFICES ASSUME AtStep(p, {"mint"})', tx[p].name \in Tasks[kind]
               PROVE  Moves(kind, tx[p].name)
  BY DEF Blank
<1>4. tx'[p].at \in DOMAIN s /\ s[tx'[p].at].op = "mint" /\ tx[p].at \in DOMAIN s
  BY <1>3 DEF AtStep, Steps, Leads
<1>5. QED
  BY <1>2, <1>3, <1>4 DEF Moves

\* What p has loaded and not changed is the row, if there is one of it.
Current(p, t) ==
  tx[p].mine[t] = Same /\ tx[p].seen[t] # Unread =>
    rows[t][Key(p, t)] \in {tx[p].seen[t], "twice"}
Plain(p) ==
  /\ tx[p].gone = {} /\ tx[p].added \cap DOMAIN Columns[kind] = {}
  /\ tx[p].asked \in Asks(tx[p].name)
  /\ \A t \in TablesOf[kind] : \A k \in Names[kind] : tx[p].file[t][k] # "off"
  /\ ~Moves(kind, tx[p].name) => \A t \in TablesOf[kind] : Current(p, t)
  /\ Blank(p)
NoneOff == \A t \in TablesOf[kind] : \A k \in Names[kind] : things[t][k] # "off"
Orderly == Single /\ NoneOff /\ \A p \in Procs : Busy(p) => Plain(p)

LEMMA GoesSingle ==
  ASSUME Single, NEW p \in Procs, Busy(p), NEW s, NEW i, Goes(p, s, i) \/ Stops(p)
  PROVE  Single' /\ \A q \in Procs : Busy(q)' => q = p
BY DEF Single, Goes, Stops, Busy

\* Nothing of p's session changes that Plain is about.
LEMMA GoesPlain ==
  ASSUME TypeOK, kind' = kind, rows' = rows, NEW p \in Procs, Busy(p), Plain(p),
         NEW s, NEW i, Goes(p, s, i), Leads(p, i), s.asked = tx[p].asked, s.gone = {},
         s.added \cap DOMAIN Columns[kind] = {},
         \A t \in TablesOf[kind] : \A k \in Names[kind] : s.file[t][k] # "off",
         ~Moves(kind, tx[p].name) =>
           /\ s.key = tx[p].key \/ \A t \in TablesOf[kind] : s.seen[t] = Unread
           /\ \A t \in TablesOf[kind] : s.mine[t] = Same /\ s.seen[t] # Unread =>
                rows[t][Key(p, t)] \in {s.seen[t], "twice"}
  PROVE  Plain(p)'
<1>1. Asks(tx[p].name)' = Asks(tx'[p].name) /\ Asks(tx'[p].name) = Asks(tx[p].name)
  BY DEF Goes, Asks
<1>2. ASSUME ~Moves(kind, tx[p].name), NEW t \in TablesOf[kind]
      PROVE  Current(p, t)'
  <2>1. s.key = tx[p].key => Key(p, t)' = Key(p, t)
    BY <1>2 DEF Goes, Key
  <2>2. QED
    BY <1>2, <2>1 DEF Current, Goes
<1>3. Blank(p)'
  BY StaysBlank DEF Goes
<1>4. QED
  BY <1>1, <1>2, <1>3 DEF Plain, Goes

\* p goes on with what it had, but for what it has read from files.
LEMMA FilePlain ==
  ASSUME TypeOK, kind' = kind, rows' = rows, NEW p \in Procs, Busy(p), Plain(p),
         NEW s, NEW i, Goes(p, s, i), Leads(p, i),
         s.key = tx[p].key, s.asked = tx[p].asked, s.added = tx[p].added, s.gone = tx[p].gone,
         s.mine = tx[p].mine, s.seen = tx[p].seen,
         \A t \in TablesOf[kind] : \A k \in Names[kind] : s.file[t][k] # "off"
  PROVE  Plain(p)'
<1>1. s.gone = {} /\ s.added \cap DOMAIN Columns[kind] = {}
  BY DEF Plain
<1>2. ~Moves(kind, tx[p].name) =>
        \A t \in TablesOf[kind] : s.mine[t] = Same /\ s.seen[t] # Unread =>
          rows[t][Key(p, t)] \in {s.seen[t], "twice"}
  BY DEF Plain, Current
<1>3. QED
  BY <1>1, <1>2, GoesPlain

\* p goes on as it was.
LEMMA SamePlain ==
  ASSUME TypeOK, kind' = kind, rows' = rows, NEW p \in Procs, Busy(p), Plain(p), NEW i,
         Goes(p, tx[p], i), Leads(p, i)
  PROVE  Plain(p)'
<1>1. \A t \in TablesOf[kind] : \A k \in Names[kind] : tx[p].file[t][k] # "off"
  BY DEF Plain
<1>2. QED
  BY <1>1, FilePlain

LEMMA RefusePlain ==
  ASSUME TypeOK, kind' = kind, rows' = rows, NEW p \in Procs, Busy(p), Plain(p), Single, Refuse(p),
         tx[p].at \in DOMAIN Steps(p)
  PROVE  Single' /\ \A q \in Procs : Busy(q)' => Plain(q)'
<1>1. Single' /\ \A q \in Procs : Busy(q)' => q = p
  BY RefuseFlow, GoesSingle
<1>2. Busy(p)' => Plain(p)'
  BY RefuseFlow, SamePlain DEF Stops, Leads
<1>3. QED
  BY <1>1, <1>2

LEMMA NoneOffStays ==
  ASSUME NoneOff, kind' = kind, things' = things
  PROVE  NoneOff'
BY DEF NoneOff

LEMMA ShownIsNotOff == \A v : Shown(v) # "off"
BY DEF Shown, None

LEMMA QueryPlain ==
  ASSUME TypeOK, Orderly, NEW p \in Procs, Query(p)
  PROVE  Orderly'
<1>1. /\ Busy(p) /\ Plain(p) /\ kind' = kind /\ rows' = rows /\ things' = things /\ tx[p] \in Sessions
      /\ Tables = TablesOf[kind] /\ tx[p].at \in DOMAIN Steps(p)
  BY DEF Query, AtStep, Orderly, TypeOK, Busy, Tables
<1>2. Single' /\ \A q \in Procs : Busy(q)' => Plain(q)'
  <2>1. CASE ~Holds(p)
    BY <1>1, <2>1, RefusePlain DEF Query, Orderly
  <2>2. CASE Holds(p) /\ Here(p).op # "need"
    BY <1>1, <2>2, Onward, GoesSingle, SamePlain DEF Query, Advance, Orderly, Leads
  <2>3. CASE Holds(p) /\ Here(p).op = "need"
    <3>1. /\ DOMAIN Loaded(p) = DOMAIN tx[p] /\ Loaded(p).name = tx[p].name
          /\ Loaded(p).key = tx[p].key /\ Loaded(p).asked = tx[p].asked
          /\ Loaded(p).added = tx[p].added /\ Loaded(p).gone = tx[p].gone
          /\ Loaded(p).mine = tx[p].mine /\ Loaded(p).file = tx[p].file
          /\ \A t \in TablesOf[kind] : Loaded(p).seen[t] \in {tx[p].seen[t], rows[t][Key(p, t)]}
      BY <1>1 DEF Loaded, Sessions
    <3>2. Goes(p, Loaded(p), tx[p].at + 1)
      BY <1>1, <2>3, <3>1, Onward DEF Query, Advance
    <3>3. Plain(p)'
      <4>1. ASSUME NEW t \in TablesOf[kind], ~Moves(kind, tx[p].name),
                   Loaded(p).mine[t] = Same, Loaded(p).seen[t] # Unread
            PROVE  rows[t][Key(p, t)] \in {Loaded(p).seen[t], "twice"}
        <5>1. Current(p, t)
          BY <1>1, <4>1 DEF Plain
        <5>2. CASE Loaded(p).seen[t] = rows[t][Key(p, t)]
          BY <5>2
        <5>3. CASE Loaded(p).seen[t] = tx[p].seen[t]
          BY <3>1, <4>1, <5>1, <5>3 DEF Current
        <5>4. QED
          BY <3>1, <4>1, <5>2, <5>3
      <4>2. Leads(p, tx[p].at + 1)
        BY <1>1 DEF Leads
      <4>3. /\ Loaded(p).gone = {} /\ Loaded(p).added \cap DOMAIN Columns[kind] = {}
            /\ \A t \in TablesOf[kind] : \A j \in Names[kind] : Loaded(p).file[t][j] # "off"
        BY <1>1, <3>1 DEF Plain
      <4>4. QED
        BY <1>1, <3>1, <3>2, <4>1, <4>2, <4>3, GoesPlain
    <3>4. QED
      BY <1>1, <3>2, <3>3, GoesSingle DEF Orderly
  <2>4. QED
    BY <2>1, <2>2, <2>3
<1>3. QED
  BY <1>1, <1>2, NoneOffStays DEF Orderly

LEMMA NewKeyPlain ==
  ASSUME TypeOK, Orderly, NEW p \in Procs, NewKey(p)
  PROVE  Orderly'
<1>1. /\ Busy(p) /\ Plain(p) /\ kind' = kind /\ rows' = rows /\ things' = things /\ tx[p] \in Sessions
      /\ AtStep(p, {"mint"})
  BY DEF NewKey, AtStep, Orderly, TypeOK, Busy
<1>2. Single' /\ \A q \in Procs : Busy(q)' => Plain(q)'
  <2>1. CASE Unused(p) = {}
    BY <1>1, <2>1, RefusePlain DEF NewKey, Orderly, AtStep
  <2>2. CASE Unused(p) # {}
    <3>1. PICK k \in Unused(p) : Advance(p, [tx[p] EXCEPT !.key = k])
      BY <2>2 DEF NewKey
    <3> DEFINE s == [tx[p] EXCEPT !.key = k]
    <3>2. /\ DOMAIN s = DOMAIN tx[p] /\ s.name = tx[p].name /\ s.key = k
          /\ s.asked = tx[p].asked /\ s.added = tx[p].added /\ s.gone = tx[p].gone
          /\ s.mine = tx[p].mine /\ s.file = tx[p].file /\ s.seen = tx[p].seen
      BY <1>1 DEF Sessions
    <3> HIDE DEF s
    <3>3. Goes(p, s, tx[p].at + 1)
      BY <1>1, <3>1, <3>2, Onward DEF Advance, s
    <3>4. ~Moves(kind, tx[p].name) => k = tx[p].key \/ \A t \in TablesOf[kind] : tx[p].seen[t] = Unread
      BY <1>1 DEF Unused, Plain, Blank
    <3>5. ASSUME NEW t \in TablesOf[kind], ~Moves(kind, tx[p].name), s.mine[t] = Same, s.seen[t] # Unread
          PROVE  rows[t][Key(p, t)] \in {s.seen[t], "twice"}
      BY <1>1, <3>2, <3>5 DEF Plain, Current
    <3>6. Plain(p)'
      <4>1. Leads(p, tx[p].at + 1)
        BY <1>1 DEF Leads, AtStep
      <4>2. /\ s.gone = {} /\ s.added \cap DOMAIN Columns[kind] = {}
            /\ \A t \in TablesOf[kind] : \A j \in Names[kind] : s.file[t][j] # "off"
        BY <1>1, <3>2 DEF Plain
      <4>3. QED
        BY <1>1, <3>2, <3>3, <3>4, <3>5, <4>1, <4>2, GoesPlain
    <3>7. QED
      BY <1>1, <3>3, <3>6, GoesSingle DEF Orderly
  <2>3. QED
    BY <2>1, <2>2
<1>3. QED
  BY <1>1, <1>2, NoneOffStays DEF Orderly

LEMMA FlushPlain ==
  ASSUME TypeOK, Orderly, NEW p \in Procs, Flush(p)
  PROVE  Orderly'
<1>1. /\ Busy(p) /\ Plain(p) /\ kind' = kind /\ rows' = rows /\ things' = things /\ tx[p] \in Sessions
      /\ tx[p].at \in DOMAIN Steps(p) /\ Tables = TablesOf[kind]
      /\ Here(p).op = "add" => Here(p).on \notin DOMAIN Columns[kind]
  BY StepFacts DEF Flush, AtStep, Orderly, TypeOK, Busy, Tables
<1>2. Single' /\ \A q \in Procs : Busy(q)' => Plain(q)'
  <2>1. CASE Abort(p)
    BY <1>1, <2>1, Ends, GoesSingle DEF Abort, Orderly, Stops
  <2>2. CASE Advance(p, tx[p])
    BY <1>1, <2>2, Onward, GoesSingle, SamePlain DEF Advance, Orderly, Leads
  <2>3. CASE Advance(p, Flushed(p))
    <3>1. /\ DOMAIN Flushed(p) = DOMAIN tx[p] /\ Flushed(p).name = tx[p].name
          /\ Flushed(p).key = tx[p].key /\ Flushed(p).asked = tx[p].asked
          /\ Flushed(p).gone = tx[p].gone
          /\ Flushed(p).seen = tx[p].seen /\ Flushed(p).file = tx[p].file
          /\ Flushed(p).added \subseteq tx[p].added \cup (IF Here(p).op = "add" THEN {Here(p).on} ELSE {})
      BY <1>1 DEF Flushed, Sessions
    <3>2. Goes(p, Flushed(p), tx[p].at + 1)
      BY <1>1, <2>3, <3>1, Onward DEF Advance
    <3>3. ASSUME NEW t \in TablesOf[kind], ~Moves(kind, tx[p].name),
                 Flushed(p).mine[t] = Same, Flushed(p).seen[t] # Unread
          PROVE  rows[t][Key(p, t)] \in {Flushed(p).seen[t], "twice"}
      <4>1. Current(p, t)
        BY <1>1, <3>3 DEF Plain
      <4>2. Value(p) # Same
        BY <1>1, ValueFact, NoValue DEF Untabled, Flush, AtStep, Here
      <4>3. tx[p].mine[t] = Same
        BY <1>1, <3>3, <4>2 DEF Flushed, Sessions, Same, None
      <4>4. QED
        BY <3>1, <3>3, <4>1, <4>3 DEF Current
    <3>4. Plain(p)'
      <4>1. Leads(p, tx[p].at + 1)
        BY <1>1 DEF Leads
      <4>2. /\ Flushed(p).gone = {} /\ Flushed(p).added \cap DOMAIN Columns[kind] = {}
            /\ \A t \in TablesOf[kind] : \A j \in Names[kind] : Flushed(p).file[t][j] # "off"
        BY <1>1, <3>1 DEF Plain
      <4>3. QED
        BY <1>1, <3>1, <3>2, <3>3, <4>1, <4>2, GoesPlain
    <3>5. QED
      BY <1>1, <3>2, <3>4, GoesSingle DEF Orderly
  <2>4. QED
    BY <2>1, <2>2, <2>3 DEF Flush
<1>3. QED
  BY <1>1, <1>2, NoneOffStays DEF Orderly

LEMMA CommitNowPlain ==
  ASSUME TypeOK, Orderly, NEW p \in Procs, CommitNow(p)
  PROVE  Orderly'
<1>1. /\ Busy(p) /\ Plain(p) /\ kind' = kind /\ rows' = Committed(p) /\ things' = things
      /\ tx[p] \in Sessions /\ Tables = TablesOf[kind] /\ Single
      /\ tx[p].at \in DOMAIN Steps(p)
  BY DEF CommitNow, AtStep, Orderly, TypeOK, Busy, Tables
<1>2. PICK s : /\ Goes(p, s, tx[p].at + 1)
               /\ s.key = tx[p].key /\ s.asked = tx[p].asked /\ s.added = {}
               /\ s.gone = tx[p].gone /\ s.file = tx[p].file /\ s.mine = [t \in Tables |-> Same]
               /\ s.seen = [t \in Tables |->
                      IF tx[p].mine[t] = Same THEN tx[p].seen[t] ELSE tx[p].mine[t]]
  BY <1>1, CommitNowFlow
<1>3. ASSUME NEW t \in TablesOf[kind], ~Moves(kind, tx[p].name), s.seen[t] # Unread
      PROVE  rows'[t][Key(p, t)] \in {s.seen[t], "twice"}
  <2>1. Current(p, t) /\ Key(p, t) \in Names[kind]
    BY <1>1, <1>3, KeyFacts DEF Plain
  <2>2. rows'[t][Key(p, t)] = Visible(p, t, Key(p, t))
    BY <1>1, <2>1 DEF Committed
  <2>3. s.seen[t] = IF tx[p].mine[t] = Same THEN tx[p].seen[t] ELSE tx[p].mine[t]
    BY <1>1, <1>2
  <2>4. CASE tx[p].mine[t] = Same
    BY <1>3, <2>1, <2>2, <2>3, <2>4 DEF Visible, Current
  <2>5. CASE tx[p].mine[t] # Same
    BY <2>2, <2>3, <2>5 DEF Visible
  <2>6. QED
    BY <2>4, <2>5
<1>4. \A t : Key(p, t)' = Key(p, t)
  BY <1>1, <1>2 DEF Goes, Key
<1>5. Asks(tx[p].name)' = Asks(tx'[p].name) /\ Asks(tx'[p].name) = Asks(tx[p].name)
  BY <1>1, <1>2 DEF Goes, Asks
<1>6. Plain(p)'
  <2>1. /\ tx'[p].gone = {} /\ tx'[p].added = {} /\ tx'[p].asked \in Asks(tx[p].name)
        /\ tx'[p].name = tx[p].name /\ tx'[p].file = tx[p].file /\ tx'[p].seen = s.seen
    BY <1>1, <1>2 DEF Plain, Goes
  <2>2. ASSUME NEW t \in TablesOf[kind], ~Moves(kind, tx[p].name)
        PROVE  Current(p, t)'
    BY <1>3, <1>4, <2>1, <2>2 DEF Current
  <2>3. \A t \in TablesOf[kind] : \A k \in Names[kind] : tx'[p].file[t][k] # "off"
    BY <1>1, <2>1 DEF Plain
  <2>4. Blank(p)'
    BY <1>1, <1>2, StaysBlank DEF Goes, Leads
  <2>5. QED
    BY <1>1, <1>5, <2>1, <2>2, <2>3, <2>4 DEF Plain
<1>7. QED
  BY <1>1, <1>2, <1>6, GoesSingle, NoneOffStays DEF Orderly

LEMMA ReturnPlain ==
  ASSUME TypeOK, Orderly, NEW p \in Procs, Return(p)
  PROVE  Orderly'
<1>1. Busy(p) /\ kind' = kind /\ things' = things /\ Single /\ Stops(p)
  BY ReturnFlow DEF Return, Orderly
<1>2. QED
  BY <1>1, GoesSingle, NoneOffStays DEF Orderly, Stops

\* What a call leaves is never "off".
LEMMA AfterNotOff ==
  ASSUME TypeOK, Orderly, NEW p \in Procs, AtStep(p, Changes),
         NEW t \in TablesOf[kind], NEW k \in Names[kind]
  PROVE  After(p)[t][k] # "off"
<1>1. Busy(p) /\ Plain(p) /\ tx[p].at \in DOMAIN Steps(p) /\ Here(p).op \in Changes /\ Here(p).op \notin Untabled
  BY DEF AtStep, Here, Changes, Untabled, Orderly
<1> DEFINE e == Here(p)
           set(x) == [things EXCEPT ![e.on][Key(p, e.on)] = Shown(x)]
<1>2. /\ e.on \in TablesOf[kind] /\ tx[p] \in Sessions /\ Tables = TablesOf[kind]
      /\ (e.op \in {"copy", "move", "mirror"} => e.val \in TablesOf[kind])
  BY <1>1, StepFacts DEF TypeOK, Tables
<1>3. things \in Tabled /\ Key(p, e.on) \in Names[kind] /\ Key(p, e.val) \in Names[kind]
  BY <1>1, KeyFacts DEF TypeOK, Tabled
<1>4. things[t][k] # "off" /\ tx[p].file[t][k] # "off" /\ None # "off"
      /\ (e.op = "mirror" => tx[p].file[e.val][k] # "off")
  BY <1>1, <1>2 DEF Orderly, NoneOff, Plain, None
<1>5. \A x : set(x)[t][k] # "off"
  BY <1>2, <1>3, <1>4, ShownIsNotOff DEF Tabled
<1> HIDE DEF set
<1>6. CASE e.op \in {"make", "new", "put", "change", "drop", "count", "copy"}
  <2>1. \E x : After(p) = set(x)
    <3>1. CASE e.op = "make"
      BY <3>1 DEF After, set
    <3>2. CASE e.op \in {"new", "put", "change"}
      BY <3>2 DEF After, set
    <3>3. CASE e.op = "drop"
      BY <3>3 DEF After, set
    <3>4. CASE e.op = "count"
      BY <3>4 DEF After, set
    <3>5. CASE e.op = "copy"
      BY <3>5 DEF After, set
    <3>6. QED
      BY <1>6, <3>1, <3>2, <3>3, <3>4, <3>5
  <2>2. QED
    BY <1>5, <2>1
<1>7. CASE e.op = "wipe"
  BY <1>2, <1>3, <1>4, <1>7 DEF After, Tabled
<1>8. CASE e.op = "move"
  <2>1. After(p) = [set(Thing(p, e.val)) EXCEPT ![e.val][Key(p, e.val)] = None]
    BY <1>8 DEF After, set
  <2>2. set(Thing(p, e.val)) \in [TablesOf[kind] -> [Names[kind] -> Values \cup {Shown(Thing(p, e.val))}]]
    <3> DEFINE new == Shown(Thing(p, e.val))
    <3> HIDE DEF new
    <3>1. things \in [TablesOf[kind] -> [Names[kind] -> Values \cup {new}]]
      BY <1>3 DEF Tabled
    <3>2. [things EXCEPT ![e.on][Key(p, e.on)] = new] \in [TablesOf[kind] -> [Names[kind] -> Values \cup {new}]]
      BY <3>1
    <3>3. QED
      BY <3>2 DEF set, new
  <2>3. QED
    BY <1>2, <1>3, <1>4, <1>5, <1>8, <2>1, <2>2
<1>9. CASE e.op = "save"
  <2> DEFINE lines == [u \in Tables |-> IF FileOf(u) = FileOf(e.on) THEN tx[p].file[u] ELSE things[u]]
  <2>1. After(p) = [lines EXCEPT ![e.on][Key(p, e.on)] = Shown(Value(p))]
    BY <1>9 DEF After
  <2>2. lines \in Tabled /\ lines[t][k] # "off"
    BY <1>2, <1>3, <1>4 DEF Tabled, Sessions
  <2> HIDE DEF lines
  <2>3. QED
    BY <1>2, <1>3, <2>1, <2>2, ShownIsNotOff DEF Tabled
<1>10. CASE e.op = "mirror"
  BY <1>2, <1>3, <1>4, <1>10 DEF After, Tabled
<1>11. QED
  BY <1>1, <1>6, <1>7, <1>8, <1>9, <1>10 DEF Changes

LEMMA CallPlain ==
  ASSUME TypeOK, Orderly, NEW p \in Procs, Call(p) \/ CallFails(p)
  PROVE  Orderly'
<1>1. /\ Busy(p) /\ Plain(p) /\ kind' = kind /\ rows' = rows /\ AtStep(p, Changes) /\ Single
      /\ tx[p] \in Sessions /\ things' \in {things, After(p)}
  BY DEF Call, CallFails, AtStep, Orderly, TypeOK, Busy
<1>2. NoneOff'
  BY <1>1, AfterNotOff DEF NoneOff, Orderly
<1>3. Single' /\ \A q \in Procs : Busy(q)' => Plain(q)'
  <2>1. CASE Refuse(p)
    BY <1>1, <2>1, RefusePlain DEF AtStep
  <2>2. CASE Advance(p, Written(p))
    <3>1. /\ Key(p, Here(p).on) \in Names[kind] /\ Here(p).on \in TablesOf[kind] /\ Tables = TablesOf[kind]
      BY <1>1, StepFacts, KeyFacts DEF AtStep, Here, Changes, Untabled, TypeOK, Tables
    <3>2. /\ DOMAIN Written(p) = DOMAIN tx[p] /\ Written(p).name = tx[p].name
          /\ Written(p).key = tx[p].key /\ Written(p).asked = tx[p].asked
          /\ Written(p).added = tx[p].added /\ Written(p).gone = tx[p].gone
          /\ Written(p).mine = tx[p].mine /\ Written(p).seen = tx[p].seen
          /\ Written(p).file \in {tx[p].file, [tx[p].file EXCEPT ![Here(p).on][Key(p, Here(p).on)] = Shown(Value(p))]}
      BY <1>1 DEF Written, Sessions
    <3>3. \A t \in TablesOf[kind] : \A k \in Names[kind] : Written(p).file[t][k] # "off"
      <4>1. tx[p].file \in [TablesOf[kind] -> [Names[kind] -> Values]]
        BY <1>1, <3>1 DEF Sessions
      <4> DEFINE g == [tx[p].file EXCEPT ![Here(p).on][Key(p, Here(p).on)] = Shown(Value(p))]
      <4>2. \A t \in TablesOf[kind] : \A k \in Names[kind] : tx[p].file[t][k] # "off"
        BY <1>1 DEF Plain
      <4>3. ASSUME NEW t \in TablesOf[kind], NEW k \in Names[kind]
            PROVE  g[t][k] \in {tx[p].file[t][k], Shown(Value(p))}
        BY <3>1, <4>1
      <4>4. Written(p).file = tx[p].file \/ Written(p).file = g
        BY <3>2
      <4> HIDE DEF g
      <4>5. \A t \in TablesOf[kind] : \A k \in Names[kind] : g[t][k] # "off"
        BY <4>2, <4>3, ShownIsNotOff
      <4>6. QED
        BY <4>2, <4>4, <4>5
    <3>4. Goes(p, Written(p), tx[p].at + 1)
      BY <1>1, <2>2, <3>2, Onward DEF Advance
    <3>5. Plain(p)'
      <4>1. Leads(p, tx[p].at + 1)
        BY <1>1 DEF AtStep, Leads
      <4>2. QED
        BY <1>1, <3>2, <3>3, <3>4, <4>1, FilePlain
    <3>6. QED
      BY <1>1, <3>4, <3>5, GoesSingle
  <2>3. QED
    BY <2>1, <2>2 DEF Call, CallFails
<1>4. QED
  BY <1>2, <1>3 DEF Orderly

LEMMA AskFailsPlain ==
  ASSUME TypeOK, Orderly, NEW p \in Procs, AskFails(p)
  PROVE  Orderly'
<1>1. /\ Busy(p) /\ Plain(p) /\ kind' = kind /\ rows' = rows /\ things' = things /\ Single
      /\ tx[p].at \in DOMAIN Steps(p) /\ Refuse(p)
  BY DEF AskFails, AtStep, Orderly
<1>2. Single' /\ \A q \in Procs : Busy(q)' => Plain(q)'
  BY <1>1, RefusePlain
<1>3. QED
  BY <1>1, <1>2, NoneOffStays DEF Orderly

LEMMA ReadFilePlain ==
  ASSUME TypeOK, Orderly, NEW p \in Procs, ReadFile(p)
  PROVE  Orderly'
<1>1. /\ Busy(p) /\ Plain(p) /\ kind' = kind /\ rows' = rows /\ things' = things /\ Single
      /\ tx[p] \in Sessions /\ Tables = TablesOf[kind] /\ NoneOff
      /\ tx[p].at \in DOMAIN Steps(p)
  BY DEF ReadFile, AtStep, Orderly, TypeOK, Busy, Tables
<1> DEFINE f == [t \in Tables |->
        IF FileOf(t) # FileOf(Here(p).on) THEN tx[p].file[t]
        ELSE [k \in Names[kind] |->
                IF Here(p).op = "read" THEN things[t][k] ELSE Shown(Visible(p, t, k))]]
<1>2. \A t \in TablesOf[kind] : \A k \in Names[kind] : f[t][k] # "off"
  BY <1>1, ShownIsNotOff DEF Plain, NoneOff
<1>3. Advance(p, [tx[p] EXCEPT !.file = f])
  BY <1>1 DEF ReadFile, Sessions
<1> HIDE DEF f
<1> DEFINE s == [tx[p] EXCEPT !.file = f]
<1>4. /\ DOMAIN s = DOMAIN tx[p] /\ s.name = tx[p].name /\ s.key = tx[p].key
      /\ s.asked = tx[p].asked /\ s.added = tx[p].added /\ s.gone = tx[p].gone
      /\ s.mine = tx[p].mine /\ s.file = f /\ s.seen = tx[p].seen
  BY <1>1 DEF Sessions
<1> HIDE DEF s
<1>5. Goes(p, s, tx[p].at + 1)
  BY <1>1, <1>3, <1>4, Onward DEF Advance, s
<1>6. Plain(p)'
  <2>1. Leads(p, tx[p].at + 1)
    BY <1>1 DEF Leads
  <2>2. QED
    BY <1>1, <1>2, <1>4, <1>5, <2>1, FilePlain
<1>7. QED
  BY <1>1, <1>5, <1>6, GoesSingle, NoneOffStays DEF Orderly

LEMMA ControlPlain ==
  ASSUME TypeOK, Orderly, NEW p \in Procs, Control(p)
  PROVE  Orderly'
<1>1. /\ Busy(p) /\ Plain(p) /\ kind' = kind /\ rows' = rows /\ things' = things /\ Single
      /\ tx[p] \in Sessions /\ tx[p].at \in DOMAIN Steps(p)
  BY DEF Control, AtStep, Orderly, TypeOK, Busy
<1>2. Single' /\ \A q \in Procs : Busy(q)' => Plain(q)'
  <2>1. CASE Refuse(p)
    BY <1>1, <2>1, RefusePlain
  <2>2. ASSUME NEW again, Advance(p, [tx[p] EXCEPT !.again = again])
        PROVE  Single' /\ \A q \in Procs : Busy(q)' => Plain(q)'
    <3> DEFINE s == [tx[p] EXCEPT !.again = again]
    <3>1. /\ DOMAIN s = DOMAIN tx[p] /\ s.name = tx[p].name /\ s.key = tx[p].key
          /\ s.asked = tx[p].asked /\ s.added = tx[p].added /\ s.gone = tx[p].gone
          /\ s.mine = tx[p].mine /\ s.file = tx[p].file /\ s.seen = tx[p].seen
      BY <1>1 DEF Sessions
    <3> HIDE DEF s
    <3>2. Goes(p, s, tx[p].at + 1)
      BY <1>1, <2>2, <3>1, Onward DEF Advance, s
    <3>3. Plain(p)'
      <4>1. Leads(p, tx[p].at + 1)
        BY <1>1 DEF Leads
      <4>2. \A t \in TablesOf[kind] : \A k \in Names[kind] : s.file[t][k] # "off"
        BY <1>1, <3>1 DEF Plain
      <4>3. QED
        BY <1>1, <3>1, <3>2, <4>1, <4>2, FilePlain
    <3>4. QED
      BY <1>1, <3>2, <3>3, GoesSingle
  <2>3. QED
    BY <2>1, <2>2 DEF Control
<1>3. QED
  BY <1>1, <1>2, NoneOffStays DEF Orderly

LEMMA StopPlain ==
  ASSUME TypeOK, Orderly, NEW p \in Procs, Crash(p)
  PROVE  Orderly'
<1>1. Busy(p) /\ kind' = kind /\ things' = things /\ Single /\ Stops(p)
  BY Ends DEF Crash, Orderly
<1>2. QED
  BY <1>1, GoesSingle, NoneOffStays DEF Orderly, Stops

\* Where a handler starts.
LEMMA StartFlow ==
  ASSUME TypeOK, NEW p \in Procs, NEW n \in DOMAIN Scripts[kind], NEW k \in Names[kind],
         NEW a \in Asks(n), Start(p, n, k, a)
  PROVE  /\ Busy(p)' /\ \A q \in Procs \ {p} : tx'[q] = tx[q]
         /\ tx'[p].at \in Lands[kind][n][1] /\ tx'[p].name = n /\ tx'[p].key = k
         /\ tx'[p].asked = a /\ tx'[p].added = {} /\ tx'[p].gone = {}
         /\ tx'[p].seen = [t \in Tables |-> Unread] /\ tx'[p].mine = [t \in Tables |-> Same]
         /\ tx'[p].file = [t \in Tables |-> [j \in Names[kind] |-> None]]
<1>1. PICK at \in Lands[kind][n][1] : tx' = [tx EXCEPT ![p] = [Session(n, k, a) EXCEPT !.at = at]]
  BY DEF Start
<1>2. tx'[p] = [Session(n, k, a) EXCEPT !.at = at] /\ \A q \in Procs \ {p} : tx'[q] = tx[q]
  BY <1>1 DEF TypeOK
<1>3. Busy(p)'
  BY StartFacts
<1>4. QED
  BY <1>1, <1>2, <1>3 DEF Session

\* What arrives, and that it does when nobody is busy.
LEMMA ArrivalFlow ==
  ASSUME OneAtATime, TypeOK, NEW p \in Procs, Begin(p) \/ \E j \in jobs : Take(p, j)
  PROVE  /\ kind' = kind /\ rows' = rows /\ things' = things /\ mishaps' = mishaps
         /\ \A q \in Procs : ~Busy(q)
         /\ \E n \in DOMAIN Scripts[kind], k \in Names[kind] :
              \E a \in Asks(n) : Start(p, n, k, a)
<1>1. \A j \in jobs : j.name \in DOMAIN Scripts[kind] /\ j.key \in Names[kind]
  BY PanelAssumption DEF TypeOK
<1>2. ~Mishap("overlap")
  BY DEF Mishap, OneAtATime, TypeOK
<1>3. ~Busy(p) /\ Overlaps(p) /\ kind' = kind /\ rows' = rows /\ things' = things
  BY DEF Begin, Take
<1>4. mishaps' = mishaps /\ \A q \in Procs : ~Busy(q)
  BY <1>2, <1>3 DEF Overlaps
<1>5. QED
  BY <1>1, <1>3, <1>4 DEF Begin, Take

LEMMA ArrivalPlain ==
  ASSUME OneAtATime, TypeOK, Orderly, NEW p \in Procs, Begin(p) \/ \E j \in jobs : Take(p, j)
  PROVE  Orderly'
<1>1. /\ kind' = kind /\ rows' = rows /\ things' = things
      /\ \A q \in Procs : ~Busy(q)
  BY ArrivalFlow
<1>2. PICK n \in DOMAIN Scripts[kind], k \in Names[kind] : \E a \in Asks(n) : Start(p, n, k, a)
  BY ArrivalFlow
<1>3. /\ Busy(p)' /\ \A q \in Procs \ {p} : tx'[q] = tx[q]
      /\ tx'[p].name = n /\ tx'[p].asked \in Asks(n) /\ tx'[p].added = {} /\ tx'[p].gone = {}
      /\ tx'[p].seen = [t \in Tables |-> Unread]
      /\ tx'[p].file = [t \in Tables |-> [j \in Names[kind] |-> None]]
  BY <1>2, StartFlow
<1>4. Single' /\ \A q \in Procs : Busy(q)' => q = p
  BY <1>1, <1>3 DEF Single, Busy
<1>5. Tables = TablesOf[kind]
  BY DEF TypeOK, Tables
<1>6. Asks(n)' = Asks(n)
  BY <1>1 DEF Asks
<1>7. Plain(p)'
  BY <1>1, <1>3, <1>5, <1>6 DEF Plain, Current, None, Asks, Blank
<1>8. QED
  BY <1>1, <1>4, <1>7, NoneOffStays DEF Orderly

\* With one request at a time, what a session has read of a row is the row,
\* no session loses a row that it has loaded, and nothing is "off".
LEMMA SessionsAreOrderly ==
  ASSUME OneAtATime
  PROVE  Spec => []Orderly
<1>1. Init => Orderly
  BY DEF Init, Orderly, Single, NoneOff, Busy, None
<1>2. TypeOK /\ Orderly /\ [Next]_vars => Orderly'
  <2> SUFFICES ASSUME TypeOK, Orderly, [Next]_vars PROVE Orderly'
    OBVIOUS
  <2>1. CASE Beat \/ UNCHANGED vars
    <3>1. kind' = kind /\ rows' = rows /\ things' = things /\ tx' = tx
      BY <2>1 DEF Beat, vars
    <3>2. \A p \in Procs : \A t : Current(p, t)' = Current(p, t)
      BY <3>1 DEF Current, Key
    <3>3. \A p \in Procs : (Plain(p)' <=> Plain(p)) /\ (Busy(p)' <=> Busy(p))
      BY <3>1, <3>2 DEF Plain, Busy, Asks, Blank, AtStep, Steps
    <3>4. QED
      BY <3>1, <3>3, NoneOffStays DEF Orderly, Single
  <2>2. ASSUME NEW p \in Procs, Begin(p) \/ \E j \in jobs : Take(p, j)
        PROVE  Orderly'
    BY <2>2, ArrivalPlain
  <2>3. ASSUME NEW p \in Procs, Runs(p)
        PROVE  Orderly'
    BY <2>3, QueryPlain, NewKeyPlain, FlushPlain, CommitNowPlain, ReturnPlain, CallPlain,
       ReadFilePlain, ControlPlain DEF Runs
  <2>4. ASSUME NEW p \in Procs, CallFails(p) \/ AskFails(p) \/ Crash(p)
        PROVE  Orderly'
    BY <2>4, CallPlain, AskFailsPlain, StopPlain
  <2>5. QED
    BY <2>1, <2>2, <2>3, <2>4 DEF Next
<1>3. QED
  BY <1>1, <1>2, TypeCorrect, PTL DEF Spec
-----------------------------------------------------------------------------
(* What the things and rows of a name are, in the terms of Flows: for a    *)
(* concern and, if it watches, for any value that it may watch.            *)

ClassIn(c, w, v) == Class(c.words, w, v)
Watched(c, w) == c.watch \/ w = None

ThingIn(c, w, k) == [t \in c.on |-> ClassIn(c, w, things[t][k])]
RowsIn(c, w, k) == [t \in c.rows |-> ClassIn(c, w, rows[t][k])]
RestOf(c, w, k) == [thing |-> ThingIn(c, w, k), row |-> RowsIn(c, w, k)]
MineIn(p, c, w) == [t \in c.rows |-> IF tx[p].mine[t] = Same THEN Same ELSE ClassIn(c, w, Own(p, t))]
AskedBy(p, c, w) == ClassIn(c, w, tx[p].asked)
\* The tables whose lines of other names p has as they are, and p's own lines.
FreshOf(p, c, w) ==
  {t \in c.on : \A k \in Names[kind] \ {tx[p].key} :
                  ClassIn(c, w, tx[p].file[t][k]) = ClassIn(c, w, things[t][k])}
LineIn(p, c, w, fresh) ==
  [t \in c.on |-> IF t \in fresh THEN ClassIn(c, w, tx[p].file[t][tx[p].key]) ELSE Unread]
KnownOf(p, c, w, fresh) ==
  Known(ThingIn(c, w, tx[p].key), RowsIn(c, w, tx[p].key), MineIn(p, c, w), AskedBy(p, c, w),
        LineIn(p, c, w, fresh))
Among(p, c) == KnownAt(kind, tx[p].name, c)
Foreseen(p, c, w) ==
  \E fresh \in SUBSET FreshOf(p, c, w) : KnownOf(p, c, w, fresh) \in Among(p, c)[tx[p].at]

Bears(c) ==
  /\ \A m \in {"call", "crash"} \ c.bears : mishaps[m] = 0
  /\ c.alone => \A j, k \in Names[kind] : j = k
Ready(c, w) ==
  Bears(c) => /\ \A k \in Names[kind] : AtRest(k) => RestOf(c, w, k) \in c.rest
              /\ \A p \in Procs : Busy(p) => Foreseen(p, c, w)
AllReady == \A c \in Concerns(kind) : \A w : Watched(c, w) => Ready(c, w)

LEMMA SameTables ==
  ASSUME NEW k \in Kinds
  PROVE  TablesIn(k) = TablesOf[k]
BY DEF TablesIn, TablesOf

\* What concerns c is of this name, and of this kind.
LEMMA ConcernFacts ==
  ASSUME TypeOK, NEW c \in Concerns(kind)
  PROVE  /\ kind \in Kinds /\ c.on \cup c.rows \subseteq TablesOf[kind] \ Singles[kind]
         /\ c.follows \subseteq c.on \cap c.rows
         /\ c.words \cap (Answers \cup {"this", "other"}) = {}
         /\ c.watch => WordsIn(kind, c.on \cup c.rows) \subseteq c.words
         /\ AtFirst(kind, c) \in c.rest
         /\ \A r \in c.rest : \A t \in c.follows : r.thing[t] = Shown(r.row[t])
         /\ \A n \in DOMAIN Scripts[kind] : Keeps(kind, n, c)
         /\ \A p, t : t \in c.on \cup c.rows => Key(p, t) = tx[p].key
<1>1. kind \in Kinds /\ kind \in DOMAIN Scripts \cap DOMAIN Handlers
  BY KindsAssumption DEF TypeOK
<1>2. /\ c.on \cup c.rows \subseteq TablesIn(kind) \ Singles[kind] /\ c.follows \subseteq c.on \cap c.rows
      /\ c.words \cap (Answers \cup {"this", "other"}) = {}
      /\ c.watch => WordsIn(kind, c.on \cup c.rows) \subseteq c.words
      /\ AtFirst(kind, c) \in c.rest
      /\ \A r \in c.rest : \A t \in c.follows : r.thing[t] = Shown(r.row[t])
      /\ \A n \in DOMAIN Scripts[kind] : Keeps(kind, n, c)
  BY <1>1, HandlersKeepConcerns
<1>3. TablesIn(kind) = TablesOf[kind]
  BY <1>1, SameTables
<1>4. QED
  BY <1>1, <1>2, <1>3 DEF Key

\* What HandlersKeepConcerns says of the step that p is at.
LEMMA StepKept ==
  ASSUME TypeOK, NEW c \in Concerns(kind), NEW p \in Procs, Busy(p), tx[p].at \in DOMAIN Steps(p),
         NEW x \in Among(p, c)[tx[p].at]
  PROVE  /\ Fits(kind, tx[p].name, c, Here(p), x)
         /\ \A j \in Lands[kind][tx[p].name][tx[p].at + 1] :
              Did(kind, tx[p].name, c, Here(p), x) \subseteq Among(p, c)[j]
         /\ \A y \in Failed(kind, tx[p].name, c, Here(p), x) :
              IF Here(p).or = 0 \/ Here(p).op \in RowOps THEN BackIn(y) \in c.rest
              ELSE \A j \in Lands[kind][tx[p].name][tx[p].at + Here(p).or] : y \in Among(p, c)[j]
<1>1. tx[p].name \in DOMAIN Scripts[kind] /\ tx[p].at \in 1 .. Len(Steps(p))
  BY StepFacts, StepsAreSteps DEF Steps, TypeOK
<1>2. Keeps(kind, tx[p].name, c) /\ Lands[kind][tx[p].name] = LandsIn(Scripts[kind][tx[p].name])
  BY <1>1, ConcernFacts, LandsFacts
<1>3. QED
  BY <1>1, <1>2 DEF Keeps, Steps, Here, Among

LEMMA StateKept ==
  ASSUME TypeOK, NEW c \in Concerns(kind), NEW p \in Procs, Busy(p), NEW x \in Among(p, c)[tx[p].at]
  PROVE  /\ x.thing \in c.always
         /\ "crash" \in c.bears => BackIn(x) \in c.rest
         /\ tx[p].at = Len(Steps(p)) + 1 => OverIn(c, x) \in c.rest
<1>1. tx[p].name \in DOMAIN Scripts[kind] /\ tx[p].at \in 1 .. Len(Steps(p)) + 1
  BY DEF TypeOK, Busy, Sessions
<1>2. Keeps(kind, tx[p].name, c)
  BY <1>1, ConcernFacts
<1>3. QED
  BY <1>1, <1>2 DEF Keeps, Steps, Among

\* What is not of p's name is left as it shall be.
OthersKept(p, c, w) ==
  \A k \in Names[kind] \ {tx[p].key} : RestOf(c, w, k) \in c.rest => RestOf(c, w, k)' \in c.rest

LEMMA OthersSame ==
  ASSUME NEW p, NEW c, NEW w,
         \A k \in Names[kind] \ {tx[p].key} :
           /\ \A t \in c.on : things'[t][k] = things[t][k]
           /\ \A t \in c.rows : rows'[t][k] = rows[t][k]
  PROVE  OthersKept(p, c, w)
<1> SUFFICES ASSUME NEW k \in Names[kind] \ {tx[p].key}
             PROVE  RestOf(c, w, k)' = RestOf(c, w, k)
  BY DEF OthersKept
<1>1. ThingIn(c, w, k)' = ThingIn(c, w, k)
  BY DEF ThingIn
<1>2. RowsIn(c, w, k)' = RowsIn(c, w, k)
  BY DEF RowsIn
<1>3. QED
  BY <1>1, <1>2 DEF RestOf

LEMMA NothingTouched ==
  ASSUME rows' = rows, things' = things, NEW p, NEW c, NEW w
  PROVE  OthersKept(p, c, w)
BY OthersSame

LEMMA GoesReady ==
  ASSUME TypeOK, Single, kind' = kind, NEW c \in Concerns(kind), NEW w, Ready(c, w),
         NEW p \in Procs, Busy(p), NEW s, NEW i, Goes(p, s, i), s.key = tx[p].key,
         OthersKept(p, c, w), Bears(c)' => Bears(c), Bears(c)' => Foreseen(p, c, w)'
  PROVE  Ready(c, w)'
<1> SUFFICES ASSUME Bears(c)'
             PROVE  /\ \A k \in Names[kind] : AtRest(k)' => (RestOf(c, w, k)' \in c.rest)
                    /\ \A q \in Procs : Busy(q)' => Foreseen(q, c, w)'
  BY DEF Ready
<1>1. ASSUME NEW k \in Names[kind], AtRest(k)'
      PROVE  RestOf(c, w, k)' \in c.rest
  <2>1. k # tx[p].key
    BY <1>1 DEF AtRest, Goes
  <2>2. AtRest(k)
    BY <2>1 DEF AtRest, Single
  <2>3. QED
    BY <2>1, <2>2 DEF Ready, OthersKept
<1>2. \A q \in Procs : Busy(q)' => q = p
  BY GoesSingle
<1>3. QED
  BY <1>1, <1>2

LEMMA StopsReady ==
  ASSUME TypeOK, Single, kind' = kind, NEW c \in Concerns(kind), NEW w, Ready(c, w),
         NEW p \in Procs, Busy(p), Stops(p), OthersKept(p, c, w), Bears(c)' => Bears(c),
         NEW name, name = tx[p].key, Bears(c)' => RestOf(c, w, name)' \in c.rest
  PROVE  Ready(c, w)'
<1> SUFFICES ASSUME Bears(c)'
             PROVE  /\ \A k \in Names[kind] : AtRest(k)' => (RestOf(c, w, k)' \in c.rest)
                    /\ \A q \in Procs : Busy(q)' => Foreseen(q, c, w)'
  BY DEF Ready
<1>1. ASSUME NEW k \in Names[kind]
      PROVE  RestOf(c, w, k)' \in c.rest
  <2>1. CASE k = tx[p].key
    BY <2>1
  <2>2. CASE k # tx[p].key
    <3>1. AtRest(k)
      BY <2>2 DEF AtRest, Single
    <3>2. QED
      BY <2>2, <3>1 DEF Ready, OthersKept
  <2>3. QED
    BY <2>1, <2>2
<1>2. \A q \in Procs : ~Busy(q)'
  BY DEF Single, Stops, Busy
<1>3. QED
  BY <1>1, <1>2

LEMMA SameMine ==
  ASSUME kind' = kind, rows' = rows, NEW c, NEW w, NEW p \in Procs,
         tx'[p].key = tx[p].key, tx'[p].mine = tx[p].mine, tx'[p].added = tx[p].added
  PROVE  MineIn(p, c, w)' = MineIn(p, c, w)
<1>1. \A t : Own(p, t)' = Own(p, t)
  BY DEF Own, Visible, Key
<1>2. QED
  BY <1>1 DEF MineIn

LEMMA SameRows ==
  ASSUME rows' = rows, NEW c, NEW w, NEW k
  PROVE  RowsIn(c, w, k)' = RowsIn(c, w, k)
BY DEF RowsIn

LEMMA SameThings ==
  ASSUME things' = things, NEW c, NEW w, NEW k
  PROVE  ThingIn(c, w, k)' = ThingIn(c, w, k)
BY DEF ThingIn

\* A step that is done leaves what Did says.
DoneAs(p, c, w) ==
  \A f \in SUBSET FreshOf(p, c, w) :
    Bears(c) /\ Fits(kind, tx[p].name, c, Here(p), KnownOf(p, c, w, f)) =>
      \E g \in SUBSET FreshOf(p, c, w)' :
        KnownOf(p, c, w, g)' \in Did(kind, tx[p].name, c, Here(p), KnownOf(p, c, w, f))

LEMMA DoneReady ==
  ASSUME TypeOK, Single, kind' = kind, NEW c \in Concerns(kind), NEW w, Ready(c, w),
         NEW p \in Procs, Busy(p),
         tx[p].at \in DOMAIN Steps(p), NEW s, Goes(p, s, tx[p].at + 1), s.key = tx[p].key,
         OthersKept(p, c, w), mishaps' = mishaps, DoneAs(p, c, w)
  PROVE  Ready(c, w)'
<1>1. Bears(c)' => Bears(c)
  BY DEF Bears
<1>2. ASSUME Bears(c)'
      PROVE  Foreseen(p, c, w)'
  <2>1. Foreseen(p, c, w)
    BY <1>1, <1>2 DEF Ready
  <2>2. PICK f \in SUBSET FreshOf(p, c, w) : KnownOf(p, c, w, f) \in Among(p, c)[tx[p].at]
    BY <2>1 DEF Foreseen
  <2>3. PICK g \in SUBSET FreshOf(p, c, w)' :
             KnownOf(p, c, w, g)' \in Did(kind, tx[p].name, c, Here(p), KnownOf(p, c, w, f))
    BY <1>1, <1>2, <2>2, StepKept DEF DoneAs
  <2>4. KnownOf(p, c, w, g)' \in Among(p, c)[tx'[p].at]
    BY <2>2, <2>3, StepKept DEF Goes
  <2>5. Among(p, c)' = Among(p, c)
    BY DEF Among, Goes
  <2>6. QED
    BY <2>3, <2>4, <2>5 DEF Foreseen
<1>3. QED
  BY <1>1, <1>2, GoesReady

\* One that has failed, what Failed says.
ThingLeft(p, c, w) == [t \in c.on |-> ClassIn(c, w, things'[t][tx[p].key])]
FreshLeft(p, c, w) ==
  {t \in c.on : \A k \in Names[kind] \ {tx[p].key} :
                  ClassIn(c, w, tx[p].file[t][k]) = ClassIn(c, w, things'[t][k])}
Left(p, c, w, fresh) ==
  Known(ThingLeft(p, c, w), RowsIn(c, w, tx[p].key), MineIn(p, c, w), AskedBy(p, c, w),
        LineIn(p, c, w, fresh))
RefusedAs(p, c, w) ==
  \A f \in SUBSET FreshOf(p, c, w) :
    Bears(c)' /\ Fits(kind, tx[p].name, c, Here(p), KnownOf(p, c, w, f)) =>
      \E g \in SUBSET FreshLeft(p, c, w) :
        Left(p, c, w, g) \in Failed(kind, tx[p].name, c, Here(p), KnownOf(p, c, w, f))

LEMMA RefusedReady ==
  ASSUME TypeOK, Single, kind' = kind, rows' = rows, NEW c \in Concerns(kind), NEW w, Ready(c, w),
         NEW p \in Procs, Busy(p),
         tx[p].at \in DOMAIN Steps(p), Here(p).op \notin RowOps, Refuse(p),
         OthersKept(p, c, w), Bears(c)' => Bears(c), RefusedAs(p, c, w)
  PROVE  Ready(c, w)'
<1>1. CASE ~Bears(c)'
  BY <1>1 DEF Ready
<1>2. CASE Bears(c)'
  <2>1. PICK f \in SUBSET FreshOf(p, c, w) : KnownOf(p, c, w, f) \in Among(p, c)[tx[p].at]
    BY <1>2 DEF Ready, Foreseen
  <2>2. PICK g \in SUBSET FreshLeft(p, c, w) :
               Left(p, c, w, g) \in Failed(kind, tx[p].name, c, Here(p), KnownOf(p, c, w, f))
    BY <1>2, <2>1, StepKept DEF RefusedAs
  <2>3. PICK name : name = tx[p].key
    OBVIOUS
  <2>4. ThingLeft(p, c, w) = ThingIn(c, w, name)' /\ RowsIn(c, w, name)' = RowsIn(c, w, tx[p].key)
    BY <2>3, SameRows DEF ThingIn, ThingLeft
  <2> DEFINE y == Left(p, c, w, g)
  <2>5. CASE Here(p).or = 0
    <3>1. Stops(p)
      BY <2>5, RefuseFlow
    <3>2. BackIn(y) \in c.rest
      BY <2>1, <2>2, <2>5, StepKept
    <3>3. BackIn(y) = [thing |-> ThingLeft(p, c, w), row |-> RowsIn(c, w, tx[p].key)]
      BY DEF BackIn, Known, Left
    <3>4. RestOf(c, w, name)' = BackIn(y)
      BY <2>4, <3>3 DEF RestOf
    <3> HIDE DEF y
    <3>5. QED
      BY <2>3, <3>1, <3>2, <3>4, StopsReady
  <2>6. CASE Here(p).or # 0
    <3>1. Goes(p, tx[p], tx[p].at + Here(p).or)
      BY <2>6, RefuseFlow
    <3>2. y \in Among(p, c)[tx'[p].at]
      BY <2>1, <2>2, <2>6, <3>1, StepKept DEF Goes
    <3>3. Among(p, c)' = Among(p, c)
      BY <3>1 DEF Among, Goes
    <3>4. FreshOf(p, c, w)' = FreshLeft(p, c, w)
      BY <3>1 DEF FreshOf, FreshLeft, Goes
    <3>5. MineIn(p, c, w)' = MineIn(p, c, w) /\ tx'[p].key = name
      BY <2>3, <3>1, SameMine DEF Goes
    <3>6. AskedBy(p, c, w)' = AskedBy(p, c, w) /\ LineIn(p, c, w, g)' = LineIn(p, c, w, g)
      BY <3>1 DEF AskedBy, LineIn, Goes
    <3>7. KnownOf(p, c, w, g)' = y
      BY <2>4, <3>5, <3>6 DEF KnownOf, Known, Left
    <3> HIDE DEF y
    <3>8. Foreseen(p, c, w)'
      BY <2>2, <3>2, <3>3, <3>4, <3>7 DEF Foreseen
    <3>9. QED
      BY <3>1, <3>8, GoesReady
  <2>7. QED
    BY <2>5, <2>6
<1>3. QED
  BY <1>1, <1>2
-----------------------------------------------------------------------------
(* Classes. *)

LEMMA ClassFacts ==
  ASSUME NEW c, c.words \cap {"this", "other"} = {}, NEW w, NEW v
  PROVE  /\ ClassIn(c, w, v) \in {v, "this", "other"}
         /\ ClassIn(c, w, v) = None <=> v = None
         /\ ClassIn(c, w, v) = "off" <=> v = "off"
         /\ ClassIn(c, w, v) = "broken" <=> v = "broken"
         /\ ClassIn(c, w, v) = "twice" <=> v = "twice"
         /\ ClassIn(c, w, Shown(v)) = Shown(ClassIn(c, w, v))
         /\ Watched(c, w) => ClassIn(c, w, v) \in RowsOf(c)
<1>1. /\ ClassIn(c, w, v) \in {v, "this", "other"}
      /\ ClassIn(c, w, v) = None <=> v = None
      /\ ClassIn(c, w, v) = "off" <=> v = "off"
      /\ ClassIn(c, w, v) = "broken" <=> v = "broken"
      /\ ClassIn(c, w, v) = "twice" <=> v = "twice"
      /\ ClassIn(c, w, None) = None
  BY DEF ClassIn, Class, None
<1>2. ClassIn(c, w, Shown(v)) = Shown(ClassIn(c, w, v))
  BY <1>1 DEF Shown
<1>3. Watched(c, w) => ClassIn(c, w, v) \in RowsOf(c)
  BY DEF ClassIn, Class, Watched, RowsOf, PlainRows, None
<1>4. QED
  BY <1>1, <1>2, <1>3

\* One value is in the class of what is watched, if that is known of it.
LEMMA SameClass ==
  ASSUME NEW c, c.words \cap {"this", "other"} = {}, NEW w, NEW v, ClassIn(c, w, v) = ClassIn(c, w, w)
  PROVE  v = w
BY DEF ClassIn, Class, None

\* A word of the steps is told apart wherever a value is watched.
LEMMA WordFacts ==
  ASSUME NEW c, NEW w, Watched(c, w), NEW v, c.watch => v \in c.words
  PROVE  ClassIn(c, w, v) = WordIn(c, v)
BY DEF ClassIn, Class, WordIn, Watched

LEMMA WordsInHas ==
  ASSUME NEW m, NEW on, NEW n \in DOMAIN Scripts[m], NEW i \in DOMAIN Scripts[m][n],
         Scripts[m][n][i].on \in on
  PROVE  {Scripts[m][n][i].val, "there", "one", "full"} \subseteq WordsIn(m, on)
<1> DEFINE ours(k)  == {j \in DOMAIN Scripts[m][k] : Scripts[m][k][j].on \in on}
           words(k) == {Scripts[m][k][j].val : j \in ours(k)}
<1>1. Scripts[m][n][i].val \in words(n)
  OBVIOUS
<1>2. WordsIn(m, on) = {"there", "one", "full"} \cup UNION {words(k) : k \in DOMAIN Scripts[m]}
  BY DEF WordsIn
<1> HIDE DEF words
<1>3. Scripts[m][n][i].val \in UNION {words(k) : k \in DOMAIN Scripts[m]}
  BY <1>1
<1>4. QED
  BY <1>2, <1>3

LEMMA WordsOfStep ==
  ASSUME TypeOK, NEW c \in Concerns(kind), NEW p \in Procs, Busy(p), tx[p].at \in DOMAIN Steps(p),
         Here(p).on \in c.on \cup c.rows, c.watch
  PROVE  {Here(p).val, "there", "one", "full"} \subseteq c.words
<1>1. tx[p].name \in DOMAIN Scripts[kind]
  BY StepFacts DEF TypeOK, Busy, Sessions
<1>2. tx[p].at \in DOMAIN Scripts[kind][tx[p].name] /\ Here(p) = Scripts[kind][tx[p].name][tx[p].at]
  BY DEF Here, Steps
<1>3. {Here(p).val, "there", "one", "full"} \subseteq WordsIn(kind, c.on \cup c.rows)
  BY <1>1, <1>2, WordsInHas
<1>4. WordsIn(kind, c.on \cup c.rows) \subseteq c.words
  BY ConcernFacts
<1>5. QED
  BY <1>3, <1>4

LEMMA OwnIsValue ==
  ASSUME TypeOK, NEW p \in Procs, Busy(p), NEW t \in TablesOf[kind], Key(p, t) \in Names[kind]
  PROVE  Own(p, t) \in Values
<1>1. tx[p] \in Sessions /\ Tables = TablesOf[kind]
  BY DEF TypeOK, Busy, Tables
<1>2. rows[t][Key(p, t)] \in Values /\ tx[p].mine[t] \in Values \cup {Same}
  BY <1>1 DEF TypeOK, Sessions
<1>3. "twice" \in Values
  BY DEF Values
<1>4. QED
  BY <1>2, <1>3 DEF Own, Visible

\* What is known of the thing, the row and the line is what they are.
Describes(x, p, c, w, f) ==
  /\ x.thing = ThingIn(c, w, tx[p].key) /\ x.com = RowsIn(c, w, tx[p].key)
  /\ x.mine = MineIn(p, c, w) /\ x.asked = AskedBy(p, c, w) /\ x.line = LineIn(p, c, w, f)
  /\ \A t \in c.on : /\ t \in TablesOf[kind] /\ Key(p, t) = tx[p].key
                     /\ x.thing[t] = ClassIn(c, w, Thing(p, t)) /\ Thing(p, t) # "off"
                     /\ tx[p].file[t][tx[p].key] # "off"
                     /\ x.line[t] = IF t \in f THEN ClassIn(c, w, tx[p].file[t][tx[p].key]) ELSE Unread
                     /\ x.line[t] = Unread <=> t \notin f
  /\ \A t \in c.rows : /\ t \in TablesOf[kind] /\ Key(p, t) = tx[p].key
                       /\ x.com[t] = ClassIn(c, w, rows[t][tx[p].key])
                       /\ x.mine[t] = IF tx[p].mine[t] = Same THEN Same ELSE ClassIn(c, w, Own(p, t))
                       /\ x.mine[t] = Same <=> tx[p].mine[t] = Same
                       /\ OwnIn(x, t) = ClassIn(c, w, Own(p, t))

LEMMA KnownFacts ==
  ASSUME TypeOK, Orderly, NEW c \in Concerns(kind), NEW w, NEW p \in Procs, Busy(p), NEW f
  PROVE  Describes(KnownOf(p, c, w, f), p, c, w, f)
<1> DEFINE x == KnownOf(p, c, w, f)
<1>1. /\ x.thing = ThingIn(c, w, tx[p].key) /\ x.com = RowsIn(c, w, tx[p].key)
      /\ x.mine = MineIn(p, c, w) /\ x.asked = AskedBy(p, c, w) /\ x.line = LineIn(p, c, w, f)
  BY DEF KnownOf, Known
<1> HIDE DEF x
<1>2. /\ c.on \cup c.rows \subseteq TablesOf[kind] /\ \A t \in c.on \cup c.rows : Key(p, t) = tx[p].key
      /\ c.words \cap {"this", "other"} = {}
  BY ConcernFacts
<1>3. tx[p].key \in Names[kind] /\ tx[p] \in Sessions /\ Tables = TablesOf[kind] /\ Plain(p)
  BY DEF TypeOK, Busy, Sessions, Tables, Orderly
<1>4. ASSUME NEW t \in c.on
      PROVE  /\ x.thing[t] = ClassIn(c, w, Thing(p, t)) /\ Thing(p, t) # "off"
             /\ tx[p].file[t][tx[p].key] # "off"
             /\ x.line[t] = IF t \in f THEN ClassIn(c, w, tx[p].file[t][tx[p].key]) ELSE Unread
             /\ x.line[t] = Unread <=> t \notin f
  <2>1. x.thing[t] = ClassIn(c, w, Thing(p, t)) /\ Thing(p, t) # "off"
    BY <1>1, <1>2, <1>3 DEF ThingIn, Thing, Orderly, NoneOff
  <2>2. x.line[t] = IF t \in f THEN ClassIn(c, w, tx[p].file[t][tx[p].key]) ELSE Unread
    BY <1>1 DEF LineIn
  <2>3. tx[p].file[t][tx[p].key] \in Values
    BY <1>2, <1>3 DEF Sessions
  <2>4. ClassIn(c, w, tx[p].file[t][tx[p].key]) # Unread
    BY <1>2, <2>3, NoValue, ClassFacts DEF Unread
  <2>5. tx[p].file[t][tx[p].key] # "off"
    BY <1>2, <1>3 DEF Plain
  <2>6. QED
    BY <2>1, <2>2, <2>4, <2>5
<1>5. ASSUME NEW t \in c.rows
      PROVE  /\ x.com[t] = ClassIn(c, w, rows[t][tx[p].key])
             /\ x.mine[t] = IF tx[p].mine[t] = Same THEN Same ELSE ClassIn(c, w, Own(p, t))
             /\ x.mine[t] = Same <=> tx[p].mine[t] = Same
             /\ OwnIn(x, t) = ClassIn(c, w, Own(p, t))
  <2>1. x.com[t] = ClassIn(c, w, rows[t][tx[p].key])
    BY <1>1 DEF RowsIn
  <2>2. x.mine[t] = IF tx[p].mine[t] = Same THEN Same ELSE ClassIn(c, w, Own(p, t))
    BY <1>1 DEF MineIn
  <2>3. tx[p].mine[t] = Same => Own(p, t) = rows[t][tx[p].key]
    BY <1>2 DEF Own, Visible
  <2>4. ClassIn(c, w, Own(p, t)) # Same
    <3>1. Own(p, t) # Same
      BY <1>2, <1>3, OwnIsValue, NoValue
    <3>2. QED
      BY <1>2, <3>1, ClassFacts DEF Same
  <2>5. OwnIn(x, t) = ClassIn(c, w, Own(p, t))
    BY <2>1, <2>2, <2>3, <2>4 DEF OwnIn
  <2>6. QED
    BY <2>1, <2>2, <2>4, <2>5
<1>6. Describes(x, p, c, w, f)
  BY <1>1, <1>2, <1>4, <1>5 DEF Describes
<1>7. QED
  BY <1>6 DEF x

\* What p sees of its row when it looks at what it has loaded.
LEMMA ViewFacts ==
  ASSUME NEW p \in Procs, NEW t \in TablesOf[kind], Plain(p), ~Moves(kind, tx[p].name)
  PROVE  Own(p, t) \in {View(p, t), "twice"}
<1>1. Current(p, t)
  BY DEF Plain
<1>2. CASE tx[p].mine[t] = Same /\ tx[p].seen[t] # Unread
  BY <1>1, <1>2 DEF Current, View, Own, Visible
<1>3. CASE ~(tx[p].mine[t] = Same /\ tx[p].seen[t] # Unread)
  BY <1>3 DEF View
<1>4. QED
  BY <1>2, <1>3

LEMMA AnsweredAsKnown ==
  ASSUME TypeOK, Orderly, NEW c \in Concerns(kind), NEW w, Watched(c, w), NEW p \in Procs, Busy(p),
         tx[p].at \in DOMAIN Steps(p), Here(p).op \in Queries, NEW f \in SUBSET FreshOf(p, c, w)
  PROVE  /\ Holds(p) => Answered(kind, tx[p].name, c, Here(p), KnownOf(p, c, w, f), TRUE)
         /\ ~Holds(p) => Answered(kind, tx[p].name, c, Here(p), KnownOf(p, c, w, f), FALSE)
<1> DEFINE x == KnownOf(p, c, w, f)
           e == Here(p)
           h == Holds(p)
           n == tx[p].name
<1>1. c.words \cap {"this", "other"} = {}
  BY ConcernFacts
<1>2. Describes(x, p, c, w, f)
  BY KnownFacts
<1> HIDE DEF x
<1>3. /\ \A t \in c.on : /\ t \in TablesOf[kind] /\ Key(p, t) = tx[p].key
                         /\ x.thing[t] = ClassIn(c, w, Thing(p, t))
                         /\ x.line[t] # Unread => x.line[t] = ClassIn(c, w, tx[p].file[t][tx[p].key])
      /\ \A t \in c.rows : t \in TablesOf[kind] /\ OwnIn(x, t) = ClassIn(c, w, Own(p, t))
  BY <1>2 DEF Describes
<1>4. \A t \in c.on : x.line[t] # Unread =>
        (x.line[t] = None <=> tx[p].file[t][Key(p, t)] = None)
  BY <1>1, <1>3, ClassFacts
<1>5. \A t \in c.on : /\ (x.thing[t] = None <=> Thing(p, t) = None)
                      /\ (x.thing[t] = "broken" <=> Thing(p, t) = "broken")
  BY <1>1, <1>3, ClassFacts
<1>6. \A t \in c.rows : OwnIn(x, t) = None <=> Own(p, t) = None
  BY <1>1, <1>3, ClassFacts
<1>7. ASSUME e.op = "is", e.on \in c.rows, ~Moves(kind, n), OwnIn(x, e.on) # "twice"
      PROVE  IF h THEN OwnIn(x, e.on) = WordIn(c, e.val)
             ELSE WordIn(c, e.val) # "other" => OwnIn(x, e.on) # WordIn(c, e.val)
  <2>1. OwnIn(x, e.on) = ClassIn(c, w, Own(p, e.on)) /\ e.on \in TablesOf[kind]
    BY <1>7, <1>3
  <2>2. Own(p, e.on) # "twice"
    BY <1>1, <1>7, <2>1, ClassFacts
  <2>3. Own(p, e.on) = View(p, e.on)
    BY <1>7, <2>1, <2>2, ViewFacts DEF Orderly
  <2>4. h <=> Own(p, e.on) = e.val
    BY <1>7, <2>3 DEF Holds
  <2>5. ClassIn(c, w, e.val) = WordIn(c, e.val)
    BY <1>7, WordsOfStep, WordFacts
  <2>6. ASSUME ClassIn(c, w, Own(p, e.on)) = ClassIn(c, w, e.val), ClassIn(c, w, e.val) # "other"
        PROVE  Own(p, e.on) = e.val
    BY <1>1, <2>6 DEF ClassIn, Class, None
  <2>7. QED
    BY <2>1, <2>4, <2>5, <2>6
<1>8. e.val = "broken" => Value(p) = "broken"
  BY DEF Value, Asked, Kept, Found
<1>9. /\ e.op = "need" => (h <=> Own(p, e.on) # None)
      /\ e.op = "fresh" => (h <=> Own(p, e.on) = None)
      /\ e.op = "has" => (h <=> Thing(p, e.on) # None)
      /\ e.op = "lacks" => (h <=> Thing(p, e.on) = None)
      /\ e.op = "shows" => (h <=> Thing(p, e.on) = Value(p))
      /\ e.op = "listed" => (h <=> tx[p].file[e.on][Key(p, e.on)] # None)
  BY DEF Holds
<1> HIDE DEF x, e, h, n
<1>10. Answered(kind, n, c, e, x, h)
  BY <1>4, <1>5, <1>6, <1>7, <1>8, <1>9 DEF Answered
<1>11. ASSUME Answered(kind, n, c, e, x, h)
       PROVE  (h => Answered(kind, n, c, e, x, TRUE)) /\ (~h => Answered(kind, n, c, e, x, FALSE))
  BY <1>11 DEF Answered
<1>12. QED
  BY <1>10, <1>11 DEF x, e, h, n

\* The cases of Did and Failed.
LEMMA DidFacts ==
  ASSUME NEW m, NEW n, NEW c, NEW e, NEW x
  PROVE  LET d == Did(m, n, c, e, x) IN
         /\ e.op \in Queries /\ Answered(m, n, c, e, x, TRUE) => x \in d
         /\ e.op \in Changes /\ CalledFor(c, e, x, TRUE) => Called(c, e, x) \subseteq d
         /\ e.op \in RowOps => d = FlushedIn(m, n, c, e, x)
         /\ e.op = "commit" => AtRestIn(c, OverIn(c, x), x.asked, x.line) \in d
         /\ e.op \in {"read", "collect"} => Known(x.thing, x.com, x.mine, x.asked, Lines(c, e, x)) \in d
         /\ e.op = "mint" /\ n \in Tasks[m] => \A r \in Unnamed(c, e) : AtRestIn(c, r, x.asked, NoLine(c)) \in d
         /\ e.op = "mint" /\ n \notin Tasks[m] => x \in d
         /\ e.op = "spawn" => x \in d
BY DEF Did, Queries, Changes, RowOps

LEMMA FailedFacts ==
  ASSUME NEW m, NEW n, NEW c, NEW e, NEW x
  PROVE  LET d == Failed(m, n, c, e, x) IN
         /\ e.op \in Queries /\ Answered(m, n, c, e, x, FALSE) => x \in d
         /\ e.op \in Changes /\ CalledFor(c, e, x, FALSE) => x \in d
         /\ e.op \in Changes /\ CalledFor(c, e, x, TRUE) /\ "call" \in c.bears =>
              {x} \cup {[z EXCEPT !.line = NoLine(c)] : z \in Called(c, e, x)} \subseteq d
         /\ e.op = "insert" /\ (e.on \in c.rows => OwnIn(x, e.on) # None) => x \in d
         /\ e.op \in {"jump", "mint"} => x \in d
         /\ e.op \in {"read", "spawn"} /\ "call" \in c.bears => x \in d
BY DEF Failed, Queries, Changes

\* p goes on, and all is as it was.
LEMMA SameKnown ==
  ASSUME kind' = kind, rows' = rows, things' = things, NEW c, NEW w, NEW p \in Procs, NEW s, NEW i,
         Goes(p, s, i), s.key = tx[p].key, s.mine = tx[p].mine, s.added = tx[p].added,
         s.asked = tx[p].asked, s.file = tx[p].file
  PROVE  FreshOf(p, c, w)' = FreshOf(p, c, w) /\ \A f : KnownOf(p, c, w, f)' = KnownOf(p, c, w, f)
<1>1. /\ tx'[p].key = tx[p].key /\ tx'[p].mine = tx[p].mine /\ tx'[p].added = tx[p].added
      /\ tx'[p].asked = tx[p].asked /\ tx'[p].file = tx[p].file
  BY DEF Goes
<1>2. MineIn(p, c, w)' = MineIn(p, c, w)
  BY <1>1, SameMine
<1>3. ThingIn(c, w, tx[p].key)' = ThingIn(c, w, tx[p].key) /\ RowsIn(c, w, tx[p].key)' = RowsIn(c, w, tx[p].key)
  BY <1>1 DEF ThingIn, RowsIn
<1>4. AskedBy(p, c, w)' = AskedBy(p, c, w) /\ \A f : LineIn(p, c, w, f)' = LineIn(p, c, w, f)
  BY <1>1 DEF AskedBy, LineIn
<1>5. FreshOf(p, c, w)' = FreshOf(p, c, w)
  BY <1>1 DEF FreshOf
<1>6. QED
  BY <1>2, <1>3, <1>4, <1>5 DEF KnownOf, Known

\* A step that says nothing of things, rows and files.
LEMMA IdleStepReady ==
  ASSUME TypeOK, Orderly, kind' = kind, rows' = rows, things' = things, mishaps' = mishaps,
         NEW c \in Concerns(kind), NEW w, Ready(c, w), NEW p \in Procs, Busy(p), tx[p].at \in DOMAIN Steps(p),
         NEW s, Advance(p, s), DOMAIN s = DOMAIN tx[p], s.name = tx[p].name, s.key = tx[p].key,
         s.mine = tx[p].mine, s.added = tx[p].added, s.asked = tx[p].asked, s.file = tx[p].file,
         \A f \in SUBSET FreshOf(p, c, w) :
           KnownOf(p, c, w, f) \in Did(kind, tx[p].name, c, Here(p), KnownOf(p, c, w, f))
  PROVE  Ready(c, w)'
<1>1. Goes(p, s, tx[p].at + 1)
  BY Onward DEF Advance
<1>2. FreshOf(p, c, w)' = FreshOf(p, c, w) /\ \A f : KnownOf(p, c, w, f)' = KnownOf(p, c, w, f)
  BY <1>1, SameKnown
<1>3. DoneAs(p, c, w)
  BY <1>2 DEF DoneAs
<1>4. QED
  BY <1>1, <1>3, NothingTouched, DoneReady DEF Orderly

LEMMA IdleRefusalReady ==
  ASSUME TypeOK, Orderly, kind' = kind, rows' = rows, things' = things, mishaps' = mishaps,
         NEW c \in Concerns(kind), NEW w, Ready(c, w), NEW p \in Procs, Busy(p), tx[p].at \in DOMAIN Steps(p),
         Refuse(p), Here(p).op \notin RowOps,
         \A f \in SUBSET FreshOf(p, c, w) :
           KnownOf(p, c, w, f) \in Failed(kind, tx[p].name, c, Here(p), KnownOf(p, c, w, f))
  PROVE  Ready(c, w)'
<1>1. FreshLeft(p, c, w) = FreshOf(p, c, w) /\ \A f : KnownOf(p, c, w, f) = Left(p, c, w, f)
  BY DEF FreshLeft, FreshOf, KnownOf, Left, ThingLeft, ThingIn
<1>2. RefusedAs(p, c, w)
  BY <1>1 DEF RefusedAs
<1>3. Bears(c)' = Bears(c) /\ OthersKept(p, c, w) /\ Single
  BY NothingTouched DEF Bears, Orderly
<1>4. QED
  BY <1>2, <1>3, RefusedReady

LEMMA QueryReady ==
  ASSUME TypeOK, Orderly, NEW c \in Concerns(kind), NEW w, Watched(c, w), Ready(c, w),
         NEW p \in Procs, Query(p)
  PROVE  Ready(c, w)'
<1>1. /\ Busy(p) /\ kind' = kind /\ rows' = rows /\ things' = things /\ mishaps' = mishaps
      /\ tx[p].at \in DOMAIN Steps(p) /\ tx[p] \in Sessions /\ Here(p).op \in Queries
  BY DEF Query, AtStep, TypeOK, Busy, Queries, Here
<1>2. Queries \cap (Changes \cup RowOps \cup {"commit", "read", "collect", "mint", "insert", "jump"}) = {}
  BY DEF Queries, Changes, RowOps
<1>3. CASE ~Holds(p)
  <2>1. ASSUME NEW f \in SUBSET FreshOf(p, c, w)
        PROVE  KnownOf(p, c, w, f) \in Failed(kind, tx[p].name, c, Here(p), KnownOf(p, c, w, f))
    <3>1. Answered(kind, tx[p].name, c, Here(p), KnownOf(p, c, w, f), FALSE)
      BY <1>1, <1>3, AnsweredAsKnown
    <3>2. QED
      BY <1>1, <3>1, FailedFacts
  <2>2. Refuse(p) /\ Here(p).op \notin RowOps
    BY <1>1, <1>2, <1>3 DEF Query
  <2>3. QED
    BY <1>1, <2>1, <2>2, IdleRefusalReady
<1>4. CASE Holds(p)
  <2>1. ASSUME NEW f \in SUBSET FreshOf(p, c, w)
        PROVE  KnownOf(p, c, w, f) \in Did(kind, tx[p].name, c, Here(p), KnownOf(p, c, w, f))
    <3>1. Answered(kind, tx[p].name, c, Here(p), KnownOf(p, c, w, f), TRUE)
      BY <1>1, <1>4, AnsweredAsKnown
    <3>2. QED
      BY <1>1, <3>1, DidFacts
  <2>2. /\ DOMAIN Loaded(p) = DOMAIN tx[p] /\ Loaded(p).name = tx[p].name
        /\ Loaded(p).key = tx[p].key /\ Loaded(p).added = tx[p].added /\ Loaded(p).asked = tx[p].asked
        /\ Loaded(p).mine = tx[p].mine /\ Loaded(p).file = tx[p].file
    BY <1>1 DEF Loaded, Sessions
  <2>3. PICK s \in {Loaded(p), tx[p]} : Advance(p, s)
    BY <1>4 DEF Query
  <2>4. /\ DOMAIN s = DOMAIN tx[p] /\ s.name = tx[p].name
        /\ s.key = tx[p].key /\ s.added = tx[p].added /\ s.asked = tx[p].asked
        /\ s.mine = tx[p].mine /\ s.file = tx[p].file
    BY <2>2, <2>3
  <2>5. QED
    BY <1>1, <2>1, <2>3, <2>4, IdleStepReady
<1>5. QED
  BY <1>3, <1>4

LEMMA ControlReady ==
  ASSUME TypeOK, Orderly, NEW c \in Concerns(kind), NEW w, Ready(c, w), NEW p \in Procs, Control(p)
  PROVE  Ready(c, w)'
<1>1. /\ Busy(p) /\ kind' = kind /\ rows' = rows /\ things' = things /\ mishaps' = mishaps
      /\ tx[p].at \in DOMAIN Steps(p) /\ tx[p] \in Sessions /\ Here(p).op \in {"jump", "spawn"}
  BY DEF Control, AtStep, TypeOK, Busy, Here
<1>2. CASE Here(p).op = "jump"
  <2>1. Refuse(p) /\ Here(p).op \notin RowOps
    BY <1>2 DEF Control, RowOps
  <2>2. \A f \in SUBSET FreshOf(p, c, w) :
          KnownOf(p, c, w, f) \in Failed(kind, tx[p].name, c, Here(p), KnownOf(p, c, w, f))
    BY <1>2, FailedFacts
  <2>3. QED
    BY <1>1, <2>1, <2>2, IdleRefusalReady
<1>3. CASE Here(p).op = "spawn"
  <2>1. PICK again : Advance(p, [tx[p] EXCEPT !.again = again])
    BY <1>3 DEF Control
  <2> DEFINE s == [tx[p] EXCEPT !.again = again]
  <2>2. /\ Advance(p, s) /\ DOMAIN s = DOMAIN tx[p] /\ s.name = tx[p].name /\ s.key = tx[p].key
        /\ s.mine = tx[p].mine /\ s.added = tx[p].added /\ s.asked = tx[p].asked /\ s.file = tx[p].file
    BY <1>1, <2>1 DEF Sessions
  <2> HIDE DEF s
  <2>3. \A f \in SUBSET FreshOf(p, c, w) :
           KnownOf(p, c, w, f) \in Did(kind, tx[p].name, c, Here(p), KnownOf(p, c, w, f))
    BY <1>3, DidFacts
  <2>4. QED
    BY <1>1, <2>2, <2>3, IdleStepReady
<1>4. QED
  BY <1>1, <1>2, <1>3

\* What a file is read from, or what is collected from the rows, is known of
\* this name and is as it shall be for the others.
LEMMA ReadFileReady ==
  ASSUME TypeOK, Orderly, NEW c \in Concerns(kind), NEW w, Watched(c, w), Ready(c, w),
         NEW p \in Procs, ReadFile(p)
  PROVE  Ready(c, w)'
<1>1. /\ Busy(p) /\ kind' = kind /\ rows' = rows /\ things' = things /\ mishaps' = mishaps
      /\ tx[p].at \in DOMAIN Steps(p) /\ tx[p] \in Sessions /\ Here(p).op \in {"read", "collect"}
      /\ Tables = TablesOf[kind] /\ Single
  BY DEF ReadFile, AtStep, TypeOK, Busy, Here, Tables, Orderly
<1> DEFINE g == [t \in Tables |->
        IF FileOf(t) # FileOf(Here(p).on) THEN tx[p].file[t]
        ELSE [k \in Names[kind] |->
                IF Here(p).op = "read" THEN things[t][k] ELSE Shown(Visible(p, t, k))]]
           s == [tx[p] EXCEPT !.file = g]
<1>2. Advance(p, s)
  BY <1>1 DEF ReadFile, Sessions
<1>3. \A t \in TablesOf[kind] :
        /\ FileOf(t) # FileOf(Here(p).on) => g[t] = tx[p].file[t]
        /\ FileOf(t) = FileOf(Here(p).on) => \A k \in Names[kind] :
             g[t][k] = IF Here(p).op = "read" THEN things[t][k] ELSE Shown(Visible(p, t, k))
  BY <1>1
<1> HIDE DEF g
<1>4. /\ DOMAIN s = DOMAIN tx[p] /\ s.name = tx[p].name /\ s.key = tx[p].key
      /\ s.mine = tx[p].mine /\ s.added = tx[p].added /\ s.asked = tx[p].asked /\ s.file = g
  BY <1>1 DEF Sessions
<1> HIDE DEF s
<1>5. Goes(p, s, tx[p].at + 1)
  BY <1>1, <1>2, <1>4, Onward DEF Advance
<1>6. /\ tx'[p].key = tx[p].key /\ tx'[p].mine = tx[p].mine /\ tx'[p].added = tx[p].added
      /\ tx'[p].asked = tx[p].asked /\ tx'[p].file = g
  BY <1>4, <1>5 DEF Goes
<1>7. c.on \cup c.rows \subseteq TablesOf[kind] /\ c.words \cap {"this", "other"} = {}
  BY ConcernFacts
<1>8. /\ ThingIn(c, w, tx[p].key)' = ThingIn(c, w, tx[p].key)
      /\ RowsIn(c, w, tx[p].key)' = RowsIn(c, w, tx[p].key)
      /\ MineIn(p, c, w)' = MineIn(p, c, w) /\ AskedBy(p, c, w)' = AskedBy(p, c, w)
  BY <1>1, <1>6, SameMine DEF ThingIn, RowsIn, AskedBy
<1>9. ASSUME Bears(c), NEW t \in c.follows, NEW k \in Names[kind], k # tx[p].key
      PROVE  ClassIn(c, w, Shown(Visible(p, t, k))) = ClassIn(c, w, things[t][k])
  <2>1. t \in c.on /\ t \in c.rows /\ Key(p, t) = tx[p].key
    BY ConcernFacts
  <2>2. AtRest(k)
    BY <1>1, <1>9 DEF AtRest, Single
  <2>3. RestOf(c, w, k).thing[t] = Shown(RestOf(c, w, k).row[t])
    BY <1>9, <2>2, ConcernFacts DEF Ready
  <2>4. ClassIn(c, w, things[t][k]) = Shown(ClassIn(c, w, rows[t][k]))
    BY <2>1, <2>3 DEF RestOf, ThingIn, RowsIn
  <2>5. Visible(p, t, k) = rows[t][k]
    BY <1>9, <2>1 DEF Visible
  <2>6. QED
    BY <1>7, <2>4, <2>5, ClassFacts
<1>10. ASSUME NEW f \in SUBSET FreshOf(p, c, w), Bears(c)
       PROVE  \E h \in SUBSET FreshOf(p, c, w)' :
                KnownOf(p, c, w, h)' \in Did(kind, tx[p].name, c, Here(p), KnownOf(p, c, w, f))
  <2>1. PICK h : h = {t \in c.on : IF FileOf(t) # FileOf(Here(p).on) THEN t \in f
                                ELSE Here(p).op = "read" \/ t \in c.follows}
    OBVIOUS
  <2> DEFINE x == KnownOf(p, c, w, f)
  <2>2. Describes(x, p, c, w, f)
    BY <1>1, KnownFacts
  <2> HIDE DEF x
  <2>3. ASSUME NEW t \in h, NEW k \in Names[kind], k # tx[p].key
        PROVE  ClassIn(c, w, g[t][k]) = ClassIn(c, w, things[t][k])
    <3>1. CASE FileOf(t) # FileOf(Here(p).on)
      BY <1>3, <1>7, <2>1, <2>3, <3>1 DEF FreshOf
    <3>2. CASE FileOf(t) = FileOf(Here(p).on)
      BY <1>3, <1>7, <1>9, <1>10, <2>1, <2>3, <3>2
    <3>3. QED
      BY <3>1, <3>2
  <2>4. h \in SUBSET FreshOf(p, c, w)'
    BY <1>1, <1>6, <2>1, <2>3 DEF FreshOf
  <2>5. ASSUME NEW t \in c.on
        PROVE  (IF t \in h THEN ClassIn(c, w, g[t][tx[p].key]) ELSE Unread) = Lines(c, Here(p), x)[t]
    <3>1. t \in TablesOf[kind] /\ tx[p].key \in Names[kind]
      BY <1>1, <1>7 DEF Sessions
    <3>2. CASE FileOf(t) # FileOf(Here(p).on)
      BY <1>3, <2>1, <2>2, <2>5, <3>1, <3>2 DEF Lines, Describes
    <3>3. CASE FileOf(t) = FileOf(Here(p).on) /\ Here(p).op = "read"
      <4>1. g[t][tx[p].key] = Thing(p, t) /\ Lines(c, Here(p), x)[t] = x.thing[t]
        BY <1>3, <2>2, <2>5, <3>1, <3>3 DEF Lines, Describes, Thing
      <4>2. QED
        BY <2>1, <2>2, <2>5, <3>3, <4>1 DEF Describes
    <3>4. CASE FileOf(t) = FileOf(Here(p).on) /\ Here(p).op # "read" /\ t \in c.follows
      <4>1. t \in c.rows /\ Key(p, t) = tx[p].key
        BY <3>4, ConcernFacts
      <4>2. g[t][tx[p].key] = Shown(Own(p, t))
        BY <1>3, <3>1, <3>4, <4>1 DEF Own
      <4>3. OwnIn(x, t) = ClassIn(c, w, Own(p, t))
        BY <2>2, <4>1 DEF Describes
      <4>4. Lines(c, Here(p), x)[t] = Shown(OwnIn(x, t))
        BY <1>1, <2>5, <3>4 DEF Lines
      <4>5. QED
        BY <1>7, <2>1, <2>5, <3>4, <4>2, <4>3, <4>4, ClassFacts
    <3>5. CASE FileOf(t) = FileOf(Here(p).on) /\ Here(p).op # "read" /\ t \notin c.follows
      BY <1>1, <2>1, <2>5, <3>5 DEF Lines
    <3>6. QED
      BY <3>2, <3>3, <3>4, <3>5
  <2>6. LineIn(p, c, w, h)' = [t \in c.on |-> IF t \in h THEN ClassIn(c, w, g[t][tx[p].key]) ELSE Unread]
    BY <1>1, <1>6 DEF LineIn
  <2>7. Lines(c, Here(p), x) = [t \in c.on |-> Lines(c, Here(p), x)[t]]
    BY DEF Lines
  <2>8. LineIn(p, c, w, h)' = Lines(c, Here(p), x)
    BY <2>5, <2>6, <2>7
  <2>9. KnownOf(p, c, w, h)' = Known(x.thing, x.com, x.mine, x.asked, Lines(c, Here(p), x))
    BY <1>6, <1>8, <2>2, <2>8 DEF KnownOf, Describes
  <2>10. QED
    BY <1>1, <2>4, <2>9, DidFacts DEF x
<1>11. DoneAs(p, c, w)
  BY <1>10 DEF DoneAs
<1>12. QED
  BY <1>1, <1>4, <1>5, <1>11, NothingTouched, DoneReady

\* A session that has changed nothing.
LEMMA NothingMine ==
  ASSUME TypeOK, Orderly, NEW c \in Concerns(kind), NEW w, NEW p \in Procs, Busy(p)
  PROVE  (\A t \in c.rows : tx[p].mine[t] = Same) <=> MineIn(p, c, w) = [t \in c.rows |-> Same]
<1>1. Describes(KnownOf(p, c, w, {}), p, c, w, {})
  BY KnownFacts
<1>2. \A t \in c.rows : MineIn(p, c, w)[t] = Same <=> tx[p].mine[t] = Same
  BY <1>1 DEF Describes
<1>3. QED
  BY <1>2 DEF MineIn

\* A task that takes a name knows of it what is so of all that are at rest.
LEMMA NewKeyReady ==
  ASSUME TypeOK, Orderly, NEW c \in Concerns(kind), NEW w, Ready(c, w), NEW p \in Procs, NewKey(p)
  PROVE  Ready(c, w)'
<1>1. /\ Busy(p) /\ kind' = kind /\ rows' = rows /\ things' = things /\ mishaps' = mishaps
      /\ tx[p].at \in DOMAIN Steps(p) /\ tx[p] \in Sessions /\ Here(p).op = "mint" /\ Single
  BY DEF NewKey, AtStep, TypeOK, Busy, Here, Orderly
<1>2. CASE Unused(p) = {}
  <2>1. Refuse(p) /\ Here(p).op \notin RowOps
    BY <1>1, <1>2 DEF NewKey, RowOps
  <2>2. \A f \in SUBSET FreshOf(p, c, w) :
          KnownOf(p, c, w, f) \in Failed(kind, tx[p].name, c, Here(p), KnownOf(p, c, w, f))
    BY <1>1, FailedFacts
  <2>3. QED
    BY <1>1, <2>1, <2>2, IdleRefusalReady
<1>3. CASE Unused(p) # {}
  <2>1. PICK k \in Unused(p) : Advance(p, [tx[p] EXCEPT !.key = k])
    BY <1>3 DEF NewKey
  <2> DEFINE s == [tx[p] EXCEPT !.key = k]
  <2>2. /\ Advance(p, s) /\ DOMAIN s = DOMAIN tx[p] /\ s.name = tx[p].name /\ s.key = k
        /\ s.mine = tx[p].mine /\ s.added = tx[p].added /\ s.asked = tx[p].asked /\ s.file = tx[p].file
    BY <1>1, <2>1 DEF Sessions
  <2> HIDE DEF s
  <2>3. CASE tx[p].name \notin Tasks[kind]
    <3>1. k = tx[p].key
      BY <2>3 DEF Unused
    <3>2. \A f \in SUBSET FreshOf(p, c, w) :
           KnownOf(p, c, w, f) \in Did(kind, tx[p].name, c, Here(p), KnownOf(p, c, w, f))
      BY <1>1, <2>3, DidFacts
    <3>3. QED
      BY <1>1, <2>2, <3>1, <3>2, IdleStepReady
  <2>4. CASE tx[p].name \in Tasks[kind] /\ Bears(c)'
    <3>1. Goes(p, s, tx[p].at + 1) /\ k \in Names[kind] /\ Bears(c)
      BY <1>1, <2>2, <2>4, Onward DEF Advance, Unused, Bears
    <3>2. PICK f \in SUBSET FreshOf(p, c, w) : KnownOf(p, c, w, f) \in Among(p, c)[tx[p].at]
      BY <1>1, <3>1 DEF Ready, Foreseen
    <3> DEFINE x == KnownOf(p, c, w, f)
    <3>3. BackIn(x) \in c.rest /\ x.mine = [t \in c.rows |-> Same]
      BY <1>1, <2>4, <3>2, StepKept DEF Fits
    <3>4. Describes(x, p, c, w, f)
      BY <1>1, KnownFacts
    <3> HIDE DEF x
    <3>5. BackIn(x) = RestOf(c, w, tx[p].key) /\ x.asked = AskedBy(p, c, w) /\ MineIn(p, c, w) = [t \in c.rows |-> Same]
      BY <3>3, <3>4 DEF BackIn, RestOf, Describes
    <3>6. \A j \in Names[kind] : RestOf(c, w, j) \in c.rest /\ RestOf(c, w, j)' = RestOf(c, w, j)
      <4>1. ASSUME NEW j \in Names[kind] PROVE RestOf(c, w, j) \in c.rest
        <5>1. CASE j = tx[p].key
          BY <3>3, <3>5, <5>1
        <5>2. CASE j # tx[p].key
          BY <1>1, <3>1, <5>2 DEF AtRest, Single, Ready
        <5>3. QED
          BY <5>1, <5>2
      <4>2. QED
        BY <1>1, <4>1 DEF RestOf, ThingIn, RowsIn
    <3>7. AtRestIn(c, RestOf(c, w, k), x.asked, NoLine(c)) \in Did(kind, tx[p].name, c, Here(p), x)
      <4>1. rows[Here(p).on][k] = None
        BY DEF Unused
      <4>2. Here(p).on \in c.rows => RestOf(c, w, k).row[Here(p).on] = None
        BY <4>1 DEF RestOf, RowsIn, ClassIn, Class
      <4>3. RestOf(c, w, k) \in Unnamed(c, Here(p))
        BY <3>1, <3>6, <4>2 DEF Unnamed
      <4>4. QED
        BY <1>1, <2>4, <4>3, DidFacts
    <3>8. AtRestIn(c, RestOf(c, w, k), x.asked, NoLine(c)) \in Among(p, c)[tx'[p].at]
      BY <1>1, <3>1, <3>2, <3>7, StepKept DEF Goes, x
    <3>9. tx'[p].key = k /\ tx'[p].mine = tx[p].mine /\ tx'[p].asked = tx[p].asked
      BY <2>2, <3>1 DEF Goes
    <3>10. MineIn(p, c, w)' = [t \in c.rows |-> Same]
      <4>1. \A t \in c.rows : tx[p].mine[t] = Same
        BY <1>1, <3>5, NothingMine
      <4>2. QED
        BY <3>9, <4>1 DEF MineIn
    <3>11. KnownOf(p, c, w, {})' = AtRestIn(c, RestOf(c, w, k), x.asked, NoLine(c))
      <4>1. ThingIn(c, w, k)' = ThingIn(c, w, k) /\ RowsIn(c, w, k)' = RowsIn(c, w, k)
        BY <1>1, SameThings, SameRows
      <4>2. AskedBy(p, c, w)' = AskedBy(p, c, w)
        BY <3>9 DEF AskedBy
      <4>3. LineIn(p, c, w, {})' = NoLine(c)
        BY DEF LineIn, NoLine
      <4>4. QED
        BY <3>5, <3>9, <3>10, <4>1, <4>2, <4>3 DEF KnownOf, AtRestIn, RestOf
    <3>12. Among(p, c)' = Among(p, c)
      BY <1>1, <3>1 DEF Among, Goes
    <3>13. Foreseen(p, c, w)'
      BY <3>8, <3>11, <3>12 DEF Foreseen
    <3>14. \A q \in Procs : Busy(q)' => q = p
      BY <1>1, <3>1, GoesSingle
    <3>15. QED
      BY <1>1, <3>6, <3>13, <3>14 DEF Ready
  <2>5. CASE ~Bears(c)'
    BY <2>5 DEF Ready
  <2>6. QED
    BY <2>3, <2>4, <2>5
<1>4. QED
  BY <1>2, <1>3

\* What a request may ask for is the value that is watched, or another one.
LEMMA AskedFacts ==
  ASSUME TypeOK, NEW c \in Concerns(kind), NEW w, Watched(c, w), NEW n \in DOMAIN Scripts[kind], NEW a \in Asks(n)
  PROVE  ClassIn(c, w, a) \in AskedIn(kind, n, c)
<1>1. CASE \E i \in DOMAIN Scripts[kind][n] : Scripts[kind][n][i].val = Asked
  <2>1. a \in Answers /\ AskedIn(kind, n, c) = IF c.watch THEN {"this", "other"} ELSE {"other"}
    BY <1>1 DEF Asks, AskedIn
  <2>2. a \notin {None, "off", "broken", "twice"} \cup c.words
    BY <2>1, WordsAssumption, ConcernFacts
  <2>3. ClassIn(c, w, a) = IF a = w THEN "this" ELSE "other"
    BY <2>2 DEF ClassIn, Class
  <2>4. QED
    BY <2>1, <2>2, <2>3 DEF Watched
<1>2. CASE ~\E i \in DOMAIN Scripts[kind][n] : Scripts[kind][n][i].val = Asked
  BY <1>2 DEF Asks, AskedIn, ClassIn, Class
<1>3. QED
  BY <1>1, <1>2

LEMMA ArrivalReady ==
  ASSUME OneAtATime, TypeOK, NEW c \in Concerns(kind), NEW w, Watched(c, w), Ready(c, w), NEW p \in Procs,
         Begin(p) \/ \E j \in jobs : Take(p, j)
  PROVE  Ready(c, w)'
<1>1. /\ kind' = kind /\ rows' = rows /\ things' = things /\ mishaps' = mishaps
      /\ \A q \in Procs : ~Busy(q)
  BY ArrivalFlow
<1>2. PICK n \in DOMAIN Scripts[kind], k \in Names[kind] : \E a \in Asks(n) : Start(p, n, k, a)
  BY ArrivalFlow
<1>3. PICK a \in Asks(n) : Start(p, n, k, a)
  BY <1>2
<1>4. /\ Busy(p)' /\ \A q \in Procs \ {p} : tx'[q] = tx[q]
      /\ tx'[p].at \in Lands[kind][n][1] /\ tx'[p].name = n /\ tx'[p].key = k
      /\ tx'[p].asked = a /\ tx'[p].mine = [t \in Tables |-> Same]
      /\ tx'[p].file = [t \in Tables |-> [j \in Names[kind] |-> None]]
  BY <1>3, StartFlow
<1> SUFFICES ASSUME Bears(c)' PROVE Ready(c, w)'
  BY DEF Ready
<1>5. Bears(c) /\ c.on \cup c.rows \subseteq Tables
  BY <1>1, ConcernFacts DEF Bears, TypeOK, Tables
<1>6. \A j \in Names[kind] : RestOf(c, w, j) \in c.rest /\ RestOf(c, w, j)' = RestOf(c, w, j)
  <2>1. \A j \in Names[kind] : RestOf(c, w, j) \in c.rest
    BY <1>1, <1>5 DEF Ready, AtRest
  <2>2. \A j : RestOf(c, w, j)' = RestOf(c, w, j)
    BY <1>1 DEF RestOf, ThingIn, RowsIn
  <2>3. QED
    BY <2>1, <2>2
<1> DEFINE v == ClassIn(c, w, a)
           f == IF c.alone THEN c.on ELSE {}
<1>7. v \in AskedIn(kind, n, c)
  BY AskedFacts
<1> HIDE DEF v
<1>8. AtRestIn(c, RestOf(c, w, k), v, FirstLine(c)) \in KnownAt(kind, n, c)[tx'[p].at]
  <2>1. Keeps(kind, n, c) /\ Lands[kind][n] = LandsIn(Scripts[kind][n])
    BY ConcernFacts, LandsFacts
  <2>2. AtRestIn(c, RestOf(c, w, k), v, FirstLine(c)) \in AtStart(kind, n, c)
    BY <1>6, <1>7 DEF AtStart
  <2>3. QED
    BY <1>4, <2>1, <2>2 DEF Keeps
<1>9. f \in SUBSET FreshOf(p, c, w)'
  BY <1>1, <1>4, <1>5 DEF FreshOf, Bears
<1>10. KnownOf(p, c, w, f)' = AtRestIn(c, RestOf(c, w, k), v, FirstLine(c))
  <2>1. ThingIn(c, w, k)' = ThingIn(c, w, k) /\ RowsIn(c, w, k)' = RowsIn(c, w, k)
    BY <1>1, SameThings, SameRows
  <2>2. MineIn(p, c, w)' = [t \in c.rows |-> Same]
    BY <1>4, <1>5 DEF MineIn
  <2>3. AskedBy(p, c, w)' = v
    BY <1>4 DEF AskedBy, v
  <2>4. LineIn(p, c, w, f)' = FirstLine(c)
    <3>1. ClassIn(c, w, None) = None
      BY DEF ClassIn, Class
    <3>2. QED
      BY <1>4, <1>5, <3>1 DEF LineIn, FirstLine
  <2> HIDE DEF f
  <2>5. QED
    BY <1>4, <2>1, <2>2, <2>3, <2>4 DEF KnownOf, AtRestIn, RestOf
<1>11. Among(p, c)' = KnownAt(kind, n, c)
  BY <1>1, <1>4 DEF Among
<1> HIDE DEF f
<1>12. Foreseen(p, c, w)'
  BY <1>8, <1>9, <1>10, <1>11 DEF Foreseen
<1>13. \A q \in Procs : Busy(q)' => q = p
  BY <1>1, <1>4 DEF Busy
<1>14. QED
  BY <1>1, <1>6, <1>12, <1>13 DEF Ready

LEMMA CrashReady ==
  ASSUME TypeOK, Orderly, NEW c \in Concerns(kind), NEW w, Ready(c, w), NEW p \in Procs, Crash(p)
  PROVE  Ready(c, w)'
<1>1. Busy(p) /\ kind' = kind /\ rows' = rows /\ things' = things /\ Stops(p) /\ Single
  BY Ends DEF Crash, Orderly
<1>2. (Bears(c)' => Bears(c)) /\ (Bears(c)' => "crash" \in c.bears)
  BY <1>1 DEF Crash, Mishap, Bears, TypeOK
<1>3. PICK name : name = tx[p].key
  OBVIOUS
<1>4. ASSUME Bears(c)'
      PROVE  RestOf(c, w, name)' \in c.rest
  <2>1. PICK f \in SUBSET FreshOf(p, c, w) : KnownOf(p, c, w, f) \in Among(p, c)[tx[p].at]
    BY <1>1, <1>2, <1>4 DEF Ready, Foreseen
  <2>2. BackIn(KnownOf(p, c, w, f)) \in c.rest
    BY <1>1, <1>2, <1>4, <2>1, StateKept
  <2>3. BackIn(KnownOf(p, c, w, f)) = RestOf(c, w, name)
    BY <1>3 DEF BackIn, KnownOf, Known, RestOf
  <2>4. RestOf(c, w, name)' = RestOf(c, w, name)
    BY <1>1, SameThings, SameRows DEF RestOf
  <2>5. QED
    BY <2>2, <2>3, <2>4
<1>5. QED
  BY <1>1, <1>2, <1>3, <1>4, NothingTouched, StopsReady

\* What a commit makes of the rows of p's name, and that it leaves the others.
LEMMA CommittedRows ==
  ASSUME TypeOK, Orderly, NEW c \in Concerns(kind), NEW w, NEW p \in Procs, Busy(p), things' = things,
         rows' = Committed(p), NEW f, NEW name, name = tx[p].key
  PROVE  OthersKept(p, c, w) /\ RestOf(c, w, name)' = OverIn(c, KnownOf(p, c, w, f))
<1> DEFINE x == KnownOf(p, c, w, f)
<1>1. Describes(x, p, c, w, f)
  BY KnownFacts
<1> HIDE DEF x
<1>2. \A t \in c.rows : \A k \in Names[kind] : rows'[t][k] = Visible(p, t, k)
  BY <1>1 DEF Committed, TypeOK, Tables, Describes
<1>3. OthersKept(p, c, w)
  <2>1. \A t \in c.rows : \A k \in Names[kind] \ {tx[p].key} : Visible(p, t, k) = rows[t][k]
    BY <1>1 DEF Describes, Visible
  <2>2. QED
    BY <1>2, <2>1, OthersSame
<1>4. name \in Names[kind]
  BY DEF TypeOK, Busy, Sessions
<1>5. RowsIn(c, w, name)' = [t \in c.rows |-> OwnIn(x, t)]
  BY <1>1, <1>2, <1>4 DEF RowsIn, Own, Describes
<1>6. ThingIn(c, w, name)' = ThingIn(c, w, name)
  BY SameThings
<1>7. RestOf(c, w, name)' = OverIn(c, x)
  BY <1>1, <1>5, <1>6 DEF RestOf, OverIn, Describes
<1>8. QED
  BY <1>3, <1>7 DEF x

LEMMA CommitNowReady ==
  ASSUME TypeOK, Orderly, NEW c \in Concerns(kind), NEW w, Ready(c, w), NEW p \in Procs, CommitNow(p)
  PROVE  Ready(c, w)'
<1>1. /\ Busy(p) /\ kind' = kind /\ rows' = Committed(p) /\ things' = things /\ mishaps' = mishaps
      /\ tx[p].at \in DOMAIN Steps(p) /\ Here(p).op = "commit" /\ Single
  BY DEF CommitNow, AtStep, Orderly, Here
<1>2. PICK s : /\ Goes(p, s, tx[p].at + 1)
               /\ s.key = tx[p].key /\ s.mine = [t \in Tables |-> Same] /\ s.file = tx[p].file
               /\ s.asked = tx[p].asked
  BY <1>1, CommitNowFlow
<1>3. FreshOf(p, c, w)' = FreshOf(p, c, w)
  BY <1>1, <1>2 DEF FreshOf, Goes
<1>4. PICK name : name = tx[p].key
  OBVIOUS
<1>5. ASSUME NEW f
      PROVE  KnownOf(p, c, w, f)' \in Did(kind, tx[p].name, c, Here(p), KnownOf(p, c, w, f))
  <2> DEFINE x == KnownOf(p, c, w, f)
  <2>1. RestOf(c, w, name)' = OverIn(c, x)
    <3>1. Busy(p) /\ things' = things /\ rows' = Committed(p)
      BY <1>1
    <3>2. QED
      BY <3>1, <1>4, CommittedRows
  <2>2. x.asked = AskedBy(p, c, w) /\ x.line = LineIn(p, c, w, f)
    BY DEF KnownOf, Known
  <2> HIDE DEF x
  <2>3. MineIn(p, c, w)' = [t \in c.rows |-> Same]
    <3>1. c.rows \subseteq Tables
      BY ConcernFacts DEF TypeOK, Tables
    <3>2. QED
      BY <1>2, <3>1 DEF MineIn, Goes
  <2>4. AskedBy(p, c, w)' = AskedBy(p, c, w) /\ LineIn(p, c, w, f)' = LineIn(p, c, w, f)
    BY <1>2 DEF AskedBy, LineIn, Goes
  <2>5. KnownOf(p, c, w, f)' = AtRestIn(c, RestOf(c, w, name)', x.asked, x.line)
    BY <1>2, <1>4, <2>2, <2>3, <2>4 DEF KnownOf, AtRestIn, RestOf, Goes
  <2>6. QED
    BY <1>1, <2>1, <2>5, DidFacts DEF x
<1>6. OthersKept(p, c, w)
  BY <1>1, <1>4, CommittedRows
<1>7. DoneAs(p, c, w)
  BY <1>3, <1>5 DEF DoneAs
<1>8. QED
  BY <1>1, <1>2, <1>6, <1>7, DoneReady

LEMMA ReturnReady ==
  ASSUME TypeOK, Orderly, NEW c \in Concerns(kind), NEW w, Ready(c, w), NEW p \in Procs, Return(p)
  PROVE  Ready(c, w)'
<1>1. /\ Busy(p) /\ kind' = kind /\ rows' = Committed(p) /\ things' = things /\ mishaps' = mishaps
      /\ tx[p].at = Len(Steps(p)) + 1 /\ Single /\ Stops(p)
  BY ReturnFlow DEF Return, Orderly
<1>2. Bears(c)' = Bears(c)
  BY <1>1 DEF Bears
<1>3. PICK name : name = tx[p].key
  OBVIOUS
<1>4. ASSUME Bears(c)'
      PROVE  RestOf(c, w, name)' \in c.rest
  <2>1. PICK f \in SUBSET FreshOf(p, c, w) : KnownOf(p, c, w, f) \in Among(p, c)[tx[p].at]
    BY <1>1, <1>2, <1>4 DEF Ready, Foreseen
  <2>2. OverIn(c, KnownOf(p, c, w, f)) \in c.rest
    BY <1>1, <2>1, StateKept
  <2>3. QED
    BY <1>1, <1>3, <2>2, CommittedRows
<1>5. OthersKept(p, c, w)
  BY <1>1, <1>3, CommittedRows
<1>6. QED
  BY <1>1, <1>2, <1>3, <1>4, <1>5, StopsReady
-----------------------------------------------------------------------------
(* Calls to the system. *)

\* What a value asked for, read or written in the handler may be.
LEMMA GivesFacts ==
  ASSUME TypeOK, Orderly, NEW c \in Concerns(kind), NEW w, Watched(c, w), NEW p \in Procs, Busy(p),
         tx[p].at \in DOMAIN Steps(p), Here(p).op \notin Untabled, Here(p).on \in c.on \cup c.rows,
         NEW x, x.asked = AskedBy(p, c, w)
  PROVE  ClassIn(c, w, Value(p)) \in Gives(c, Here(p), x)
<1>1. CASE Here(p).val = Asked
  BY <1>1 DEF Value, Gives, AskedBy, Asked, Kept, Found
<1>2. CASE Here(p).val \in {Kept, Found}
  <2>1. ClassIn(c, w, Value(p)) \in RowsOf(c)
    BY ConcernFacts, ClassFacts
  <2>2. QED
    BY <1>2, <2>1 DEF Gives, Asked, Kept, Found
<1>3. CASE Here(p).val \notin {Asked, Kept, Found}
  <2>1. Value(p) = Here(p).val
    BY <1>3 DEF Value
  <2>2. ClassIn(c, w, Here(p).val) = WordIn(c, Here(p).val)
    BY WordsOfStep, WordFacts
  <2>3. QED
    BY <1>3, <2>1, <2>2 DEF Gives
<1>4. QED
  BY <1>1, <1>2, <1>3

\* Whether a call is impossible.
LEMMA CalledAsKnown ==
  ASSUME TypeOK, Orderly, NEW c \in Concerns(kind), NEW w, NEW p \in Procs, Busy(p),
         tx[p].at \in DOMAIN Steps(p), Here(p).op \in Changes, NEW f
  PROVE  /\ Impossible(p) => CalledFor(c, Here(p), KnownOf(p, c, w, f), FALSE)
         /\ ~Impossible(p) => CalledFor(c, Here(p), KnownOf(p, c, w, f), TRUE)
<1> DEFINE x == KnownOf(p, c, w, f)
           e == Here(p)
<1>1. c.words \cap {"this", "other"} = {}
  BY ConcernFacts
<1>2. Describes(x, p, c, w, f)
  BY KnownFacts
<1> HIDE DEF x, e
<1>3. \A t \in c.on : x.thing[t] = None <=> Thing(p, t) = None
  BY <1>1, <1>2, ClassFacts DEF Describes
<1>4. /\ Impossible(p) => CalledFor(c, e, x, FALSE)
      /\ ~Impossible(p) => CalledFor(c, e, x, TRUE)
  BY <1>3 DEF Impossible, CalledFor, e
<1>5. QED
  BY <1>4 DEF x, e

\* What a call makes of the thing it is about, and what the others are.
Result(p) ==
  CASE Here(p).op = "make" -> IF Thing(p, Here(p).on) = None THEN Value(p) ELSE Thing(p, Here(p).on)
    [] Here(p).op \in {"new", "put", "change", "save"} -> Value(p)
    [] Here(p).op \in {"drop", "wipe"} -> None
    [] Here(p).op = "mirror" -> tx[p].file[Here(p).val][Key(p, Here(p).on)]
    [] Here(p).op = "count" -> IF Thing(p, Here(p).on) = None THEN "one" ELSE "full"
    [] Here(p).op \in {"copy", "move"} -> Thing(p, Here(p).val)
Emptied(p, t) == Here(p).op = "move" /\ t = Here(p).val
Before(p, t) ==
  IF Here(p).op = "save" /\ FileOf(t) = FileOf(Here(p).on) THEN tx[p].file[t] ELSE things[t]

LEMMA AfterFacts ==
  ASSUME TypeOK, NEW p \in Procs, AtStep(p, Changes), NEW t \in TablesOf[kind]
  PROVE  /\ t # Here(p).on /\ ~Emptied(p, t) => After(p)[t] = Before(p, t)
         /\ Here(p).op \notin {"wipe", "mirror"} =>
              /\ \A k \in Names[kind] \ {Key(p, t)} : After(p)[t][k] = Before(p, t)[k]
              /\ Emptied(p, t) => After(p)[t][Key(p, t)] = None
              /\ t = Here(p).on /\ ~Emptied(p, t) => After(p)[t][Key(p, t)] = Shown(Result(p))
         /\ Here(p).op = "wipe" /\ t = Here(p).on => \A k \in Names[kind] : After(p)[t][k] = None
         /\ Here(p).op = "mirror" /\ t = Here(p).on =>
              /\ Here(p).val \in TablesOf[kind]
              /\ \A k \in Names[kind] : After(p)[t][k] = tx[p].file[Here(p).val][k]
<1>1. Busy(p) /\ tx[p].at \in DOMAIN Steps(p) /\ Here(p).op \in Changes /\ Here(p).op \notin Untabled
  BY DEF AtStep, Here, Changes, Untabled
<1> DEFINE e == Here(p)
           set(m, x) == [m EXCEPT ![e.on][Key(p, e.on)] = Shown(x)]
<1>2. /\ e.on \in TablesOf[kind] /\ tx[p] \in Sessions /\ Tables = TablesOf[kind]
      /\ (e.op \in {"copy", "move", "mirror"} => e.val \in TablesOf[kind])
  BY <1>1, StepFacts DEF TypeOK, Tables
<1>3. /\ things \in Tabled /\ Key(p, t) \in Names[kind]
      /\ Key(p, e.on) \in Names[kind] /\ Key(p, e.val) \in Names[kind]
  BY <1>1, KeyFacts DEF TypeOK, Tabled
<1>4. ASSUME NEW m, \A u \in TablesOf[kind] : DOMAIN m[u] = Names[kind], DOMAIN m = TablesOf[kind], NEW x
      PROVE  /\ t # e.on => set(m, x)[t] = m[t]
             /\ \A k \in Names[kind] \ {Key(p, t)} : set(m, x)[t][k] = m[t][k]
             /\ t = e.on => set(m, x)[t][Key(p, t)] = Shown(x)
  BY <1>2, <1>3, <1>4
<1>5. (\A u \in TablesOf[kind] : DOMAIN things[u] = Names[kind]) /\ DOMAIN things = TablesOf[kind]
  BY <1>3 DEF Tabled
<1>6. CASE e.op \in {"make", "new", "put", "change", "drop", "count", "copy"}
  <2>1. After(p) = set(things, Result(p))
    <3>1. CASE e.op = "make"
      BY <3>1 DEF After, Result
    <3>2. CASE e.op \in {"new", "put", "change"}
      BY <3>2 DEF After, Result
    <3>3. CASE e.op = "drop"
      BY <3>3 DEF After, Result
    <3>4. CASE e.op = "count"
      BY <3>4 DEF After, Result
    <3>5. CASE e.op = "copy"
      BY <3>5 DEF After, Result
    <3>6. QED
      BY <1>6, <3>1, <3>2, <3>3, <3>4, <3>5
  <2>2. ~Emptied(p, t) /\ Before(p, t) = things[t]
    BY <1>6 DEF Emptied, Before
  <2> HIDE DEF set
  <2>3. QED
    BY <1>4, <1>5, <1>6, <2>1, <2>2
<1>7. CASE e.op = "move"
  <2> DEFINE m == set(things, Thing(p, e.val))
  <2>1. After(p) = [m EXCEPT ![e.val][Key(p, e.val)] = None] /\ Result(p) = Thing(p, e.val)
    BY <1>7 DEF After, Result
  <2>2. Before(p, t) = things[t] /\ (Emptied(p, t) <=> t = e.val)
    BY <1>7 DEF Before, Emptied
  <2>3. (\A u \in TablesOf[kind] : DOMAIN m[u] = Names[kind]) /\ DOMAIN m = TablesOf[kind]
    BY <1>2, <1>5
  <2>4. /\ t # e.on => m[t] = things[t]
        /\ \A k \in Names[kind] \ {Key(p, t)} : m[t][k] = things[t][k]
        /\ t = e.on => m[t][Key(p, t)] = Shown(Result(p))
    BY <1>4, <1>5, <2>1
  <2> HIDE DEF m
  <2>5. QED
    BY <1>2, <1>3, <1>7, <2>1, <2>2, <2>3, <2>4
<1>8. CASE e.op = "save"
  <2> DEFINE m == [u \in Tables |-> IF FileOf(u) = FileOf(e.on) THEN tx[p].file[u] ELSE things[u]]
  <2>1. After(p) = set(m, Result(p))
    BY <1>8 DEF After, Result
  <2>2. (\A u \in TablesOf[kind] : DOMAIN m[u] = Names[kind]) /\ DOMAIN m = TablesOf[kind]
    BY <1>2, <1>5 DEF Sessions
  <2>3. m[t] = Before(p, t) /\ ~Emptied(p, t)
    BY <1>2, <1>8 DEF Before, Emptied
  <2> HIDE DEF m, set
  <2>4. QED
    BY <1>4, <1>8, <2>1, <2>2, <2>3
<1>9. CASE e.op \in {"wipe", "mirror"}
  <2>1. t # e.on => After(p)[t] = things[t]
    <3>1. CASE e.op = "wipe"
      BY <1>2, <1>5, <3>1 DEF After
    <3>2. CASE e.op = "mirror"
      BY <1>2, <1>5, <3>2 DEF After
    <3>3. QED
      BY <1>9, <3>1, <3>2
  <2>2. Before(p, t) = things[t]
    BY <1>9 DEF Before
  <2>3. e.op = "wipe" /\ t = e.on => \A k \in Names[kind] : After(p)[t][k] = None
    BY <1>2, <1>5 DEF After
  <2>4. e.op = "mirror" /\ t = e.on => \A k \in Names[kind] : After(p)[t][k] = tx[p].file[e.val][k]
    BY <1>2, <1>5 DEF After
  <2>5. QED
    BY <1>2, <1>9, <2>1, <2>2, <2>3, <2>4
<1>10. QED
  BY <1>1, <1>6, <1>7, <1>8, <1>9 DEF Changes

\* What a call leaves of the things of p's name, and the lines that p has.
Made(p, c, w) == [t \in c.on |-> ClassIn(c, w, After(p)[t][tx[p].key])]
LineMade(p, c, w, fresh) ==
  [t \in c.on |-> IF t \in fresh THEN ClassIn(c, w, Written(p).file[t][tx[p].key]) ELSE Unread]
StillFresh(p, c, f) ==
  {t \in c.on :
     IF t = Here(p).on /\ Here(p).op \in {"save", "wipe", "mirror"}
     THEN Here(p).op = "save" \/ (Here(p).op = "mirror" /\ Here(p).val = t /\ t \in f)
     ELSE t \in f}

LEMMA CalledContext ==
  ASSUME TypeOK, Orderly, NEW c \in Concerns(kind), NEW p \in Procs, AtStep(p, Changes)
  PROVE  /\ Busy(p) /\ tx[p].at \in DOMAIN Steps(p) /\ Here(p).op \in Changes /\ Here(p).op \notin Untabled
         /\ Here(p).on \in TablesOf[kind] /\ tx[p] \in Sessions /\ Tables = TablesOf[kind]
         /\ Here(p).op \in {"copy", "move", "mirror"} => Here(p).val \in TablesOf[kind]
         /\ tx[p].key \in Names[kind] /\ Plain(p) /\ c.words \cap {"this", "other"} = {}
         /\ c.on \cup c.rows \subseteq TablesOf[kind]
         /\ \A t \in c.on \cup c.rows : Key(p, t) = tx[p].key
<1>1. Busy(p) /\ tx[p].at \in DOMAIN Steps(p) /\ Here(p).op \in Changes /\ Here(p).op \notin Untabled
  BY DEF AtStep, Here, Changes, Untabled
<1>2. /\ Here(p).on \in TablesOf[kind] /\ tx[p] \in Sessions /\ Tables = TablesOf[kind]
      /\ Here(p).op \in {"copy", "move", "mirror"} => Here(p).val \in TablesOf[kind]
  BY <1>1, StepFacts DEF TypeOK, Tables
<1>3. tx[p].key \in Names[kind] /\ Plain(p)
  BY <1>1, <1>2 DEF Sessions, Orderly
<1>4. QED
  BY <1>1, <1>2, <1>3, ConcernFacts

\* The lines that are written back are those that were read.
LEMMA BeforeOthers ==
  ASSUME NEW c, NEW w, NEW p, NEW f \in SUBSET FreshOf(p, c, w), NEW x, Describes(x, p, c, w, f), NEW n,
         Fits(kind, n, c, Here(p), x), NEW t \in c.on, NEW k \in Names[kind] \ {tx[p].key}
  PROVE  ClassIn(c, w, Before(p, t)[k]) = ClassIn(c, w, things[t][k])
<1>1. CASE Here(p).op = "save" /\ FileOf(t) = FileOf(Here(p).on)
  <2>1. t \in f
    BY <1>1 DEF Fits, Describes
  <2>2. QED
    BY <1>1, <2>1 DEF Before, FreshOf
<1>2. CASE ~(Here(p).op = "save" /\ FileOf(t) = FileOf(Here(p).on))
  BY <1>2 DEF Before
<1>3. QED
  BY <1>1, <1>2

LEMMA BeforeOwn ==
  ASSUME NEW c, NEW w, NEW p, NEW f, NEW x, Describes(x, p, c, w, f), NEW n,
         Fits(kind, n, c, Here(p), x), NEW t \in c.on
  PROVE  ClassIn(c, w, Before(p, t)[tx[p].key]) =
           IF Here(p).op = "save" /\ FileOf(t) = FileOf(Here(p).on) THEN x.line[t] ELSE x.thing[t]
<1>1. CASE Here(p).op = "save" /\ FileOf(t) = FileOf(Here(p).on)
  <2>1. t \in f /\ x.line[t] = ClassIn(c, w, tx[p].file[t][tx[p].key])
    BY <1>1 DEF Fits, Describes
  <2>2. QED
    BY <1>1, <2>1 DEF Before
<1>2. CASE ~(Here(p).op = "save" /\ FileOf(t) = FileOf(Here(p).on))
  <2>1. x.thing[t] = ClassIn(c, w, things[t][tx[p].key])
    BY DEF Describes, Thing
  <2>2. QED
    BY <1>2, <2>1 DEF Before
<1>3. QED
  BY <1>1, <1>2

\* What the call leaves of a thing of another name.
LEMMA OthersAfter ==
  ASSUME TypeOK, Orderly, NEW c \in Concerns(kind), NEW w, NEW p \in Procs, AtStep(p, Changes),
         NEW f \in SUBSET FreshOf(p, c, w), NEW x, Describes(x, p, c, w, f), ~c.alone,
         Fits(kind, tx[p].name, c, Here(p), x)
  PROVE  \A t \in c.on : \A k \in Names[kind] \ {tx[p].key} :
           /\ t = Here(p).on /\ Here(p).op = "mirror" =>
                ClassIn(c, w, After(p)[t][k]) = ClassIn(c, w, things[Here(p).val][k])
           /\ t # Here(p).on \/ Here(p).op # "mirror" =>
                ClassIn(c, w, After(p)[t][k]) = ClassIn(c, w, things[t][k])
<1> SUFFICES ASSUME NEW t \in c.on, NEW k \in Names[kind] \ {tx[p].key}
             PROVE  /\ t = Here(p).on /\ Here(p).op = "mirror" =>
                         ClassIn(c, w, After(p)[t][k]) = ClassIn(c, w, things[Here(p).val][k])
                    /\ t # Here(p).on \/ Here(p).op # "mirror" =>
                         ClassIn(c, w, After(p)[t][k]) = ClassIn(c, w, things[t][k])
  OBVIOUS
<1>1. t \in TablesOf[kind] /\ Key(p, t) = tx[p].key
  BY CalledContext
<1>2. ClassIn(c, w, Before(p, t)[k]) = ClassIn(c, w, things[t][k])
  BY BeforeOthers
<1>3. CASE t = Here(p).on /\ Here(p).op = "mirror"
  <2>1. /\ Here(p).val \in c.on /\ Here(p).val \in f
        /\ After(p)[t][k] = tx[p].file[Here(p).val][k]
    BY <1>1, <1>3, AfterFacts DEF Fits, Describes
  <2>2. QED
    BY <1>3, <2>1 DEF FreshOf
<1>4. CASE t # Here(p).on /\ Here(p).op \in {"mirror", "wipe"}
  BY <1>1, <1>2, <1>4, AfterFacts DEF Emptied
<1>5. CASE t = Here(p).on /\ Here(p).op = "wipe"
  BY <1>5 DEF Fits
<1>6. CASE Here(p).op \notin {"mirror", "wipe"}
  BY <1>1, <1>2, <1>6, AfterFacts
<1>7. QED
  BY <1>3, <1>4, <1>5, <1>6

LEMMA OthersLeft ==
  ASSUME TypeOK, Orderly, NEW c \in Concerns(kind), NEW w, NEW p \in Procs, AtStep(p, Changes),
         NEW f \in SUBSET FreshOf(p, c, w), NEW x, Describes(x, p, c, w, f), Bears(c),
         Fits(kind, tx[p].name, c, Here(p), x), rows' = rows, things' = After(p)
  PROVE  OthersKept(p, c, w)
<1> SUFFICES ASSUME NEW k \in Names[kind] \ {tx[p].key}, RestOf(c, w, k) \in c.rest
             PROVE  RestOf(c, w, k)' \in c.rest
  BY DEF OthersKept
<1> DEFINE e == Here(p)
           r == RestOf(c, w, k)
<1>1. ~c.alone
  BY CalledContext DEF Bears
<1>2. \A t \in c.on :
        /\ t = e.on /\ e.op = "mirror" => ClassIn(c, w, After(p)[t][k]) = ClassIn(c, w, things[e.val][k])
        /\ t # e.on \/ e.op # "mirror" => ClassIn(c, w, After(p)[t][k]) = ClassIn(c, w, things[t][k])
  BY <1>1, OthersAfter
<1>3. PICK th : th = [t \in c.on |-> ClassIn(c, w, things[t][k])]
  OBVIOUS
<1>4. PICK ro : ro = RowsIn(c, w, k)
  OBVIOUS
<1>5. r = [thing |-> th, row |-> ro] /\ DOMAIN th = c.on
  BY <1>3, <1>4 DEF RestOf, ThingIn
<1>6. RestOf(c, w, k)' = [thing |-> [t \in c.on |-> ClassIn(c, w, After(p)[t][k])], row |-> ro]
  BY <1>4 DEF RestOf, ThingIn, RowsIn
<1> HIDE DEF r, e
<1>7. CASE e.op = "mirror" /\ e.on \in c.on
  <2>1. e.val \in c.on /\ [r EXCEPT !.thing[e.on] = r.thing[e.val]] \in c.rest
    BY <1>1, <1>7 DEF Fits, r, e
  <2>2. \A t \in c.on : ClassIn(c, w, After(p)[t][k]) = IF t = e.on THEN th[e.val] ELSE th[t]
    BY <1>3, <1>7, <1>2, <2>1
  <2>3. [t \in c.on |-> ClassIn(c, w, After(p)[t][k])] = [th EXCEPT ![e.on] = th[e.val]]
    BY <1>3, <2>1, <2>2
  <2>4. [r EXCEPT !.thing[e.on] = r.thing[e.val]] = [thing |-> [th EXCEPT ![e.on] = th[e.val]], row |-> ro]
    BY <1>5
  <2>5. RestOf(c, w, k)' = [r EXCEPT !.thing[e.on] = r.thing[e.val]]
    BY <1>6, <2>3, <2>4
  <2>6. QED
    BY <2>1, <2>5
<1>8. CASE ~(e.op = "mirror" /\ e.on \in c.on)
  <2>1. [t \in c.on |-> ClassIn(c, w, After(p)[t][k])] = th
    BY <1>3, <1>8, <1>2
  <2>2. RestOf(c, w, k)' = r
    BY <1>5, <1>6, <2>1
  <2>3. QED
    BY <2>2 DEF r
<1>9. QED
  BY <1>7, <1>8

\* What a call leaves of the thing that it is about is what Remains says.
LEMMA RemainsFacts ==
  ASSUME TypeOK, Orderly, NEW c \in Concerns(kind), NEW w, Watched(c, w), NEW p \in Procs, AtStep(p, Changes),
         ~Impossible(p), NEW f, NEW x, Describes(x, p, c, w, f), Here(p).on \in c.on
  PROVE  ClassIn(c, w, Shown(Result(p))) \in Remains(c, Here(p), x)
<1> DEFINE e == Here(p)
           v == ClassIn(c, w, Shown(Result(p)))
<1>1. /\ Busy(p) /\ tx[p].at \in DOMAIN Steps(p) /\ e.op \in Changes /\ e.op \notin Untabled
      /\ e.on \in TablesOf[kind] /\ c.words \cap {"this", "other"} = {} /\ Plain(p)
      /\ (e.op \in {"copy", "move", "mirror"} => e.val \in TablesOf[kind])
      /\ Key(p, e.on) = tx[p].key /\ tx[p].key \in Names[kind]
  BY CalledContext
<1>2. e.on \in c.on
  OBVIOUS
<1>3. /\ x.thing[e.on] = ClassIn(c, w, Thing(p, e.on)) /\ Thing(p, e.on) # "off"
      /\ (x.thing[e.on] = None <=> Thing(p, e.on) = None)
  BY <1>1, ClassFacts DEF Describes
<1>4. ClassIn(c, w, Value(p)) \in Gives(c, e, x) /\ ClassIn(c, w, Shown(Value(p))) = Shown(ClassIn(c, w, Value(p)))
  BY <1>1, GivesFacts, ClassFacts DEF Describes
<1>5. \A u : u # "off" => Shown(u) = u /\ ClassIn(c, w, u) \in ThingsOf(c)
  BY <1>1, ClassFacts DEF ThingsOf, Shown
<1> SUFFICES v \in Remains(c, e, x)
  OBVIOUS
<1> HIDE DEF e, v
<1>6. CASE e.op = "make"
  <2>1. CASE Thing(p, e.on) = None
    <3>1. v = Shown(ClassIn(c, w, Value(p)))
      BY <1>4, <1>6, <2>1 DEF Result, e, v
    <3>2. QED
      BY <1>2, <1>3, <1>4, <1>6, <2>1, <3>1 DEF Remains
  <2>2. CASE Thing(p, e.on) # None
    <3>1. Result(p) = Thing(p, e.on)
      BY <1>6, <2>2 DEF Result, e
    <3>2. Shown(Result(p)) = Thing(p, e.on)
      BY <1>3, <3>1 DEF Shown
    <3>3. v = x.thing[e.on]
      BY <1>3, <3>2 DEF v
    <3>4. QED
      BY <1>2, <1>3, <1>6, <2>2, <3>3 DEF Remains
  <2>3. QED
    BY <2>1, <2>2
<1>7. CASE e.op \in {"new", "put", "change", "save"}
  <2>1. v = Shown(ClassIn(c, w, Value(p)))
    BY <1>4, <1>7 DEF Result, e, v
  <2>2. QED
    BY <1>2, <1>4, <1>7, <2>1 DEF Remains
<1>8. CASE e.op \in {"drop", "wipe"}
  <2>1. Shown(Result(p)) = None
    BY <1>8 DEF Result, Shown, e
  <2>2. v = None
    BY <2>1 DEF ClassIn, Class, v
  <2>3. QED
    BY <1>2, <1>8, <2>2 DEF Remains
<1>9. CASE e.op = "count"
  <2> DEFINE u == IF Thing(p, e.on) = None THEN "one" ELSE "full"
  <2>1. Result(p) = u /\ Shown(u) = u
    BY <1>9 DEF Result, Shown, e
  <2>2. ClassIn(c, w, u) = WordIn(c, u)
    BY <1>1, WordsOfStep, WordFacts DEF e
  <2>3. v = WordIn(c, u)
    BY <2>1, <2>2 DEF v
  <2>4. QED
    BY <1>2, <1>3, <1>9, <2>3 DEF Remains
<1>10. CASE e.op = "mirror"
  <2>1. Result(p) = tx[p].file[e.val][tx[p].key]
    BY <1>1, <1>10 DEF Result, e
  <2>2. tx[p].file[e.val][tx[p].key] # "off"
    BY <1>1, <1>10 DEF Plain
  <2>3. v = ClassIn(c, w, tx[p].file[e.val][tx[p].key]) /\ v \in ThingsOf(c)
    BY <1>5, <2>1, <2>2 DEF v
  <2>4. e.val \in c.on /\ x.line[e.val] # Unread => v = x.line[e.val]
    BY <2>3 DEF Describes
  <2>5. QED
    BY <1>2, <1>10, <2>3, <2>4 DEF Remains
<1>11. CASE e.op \in {"copy", "move"}
  <2>1. Result(p) = Thing(p, e.val)
    BY <1>11 DEF Result, e
  <2>2. Thing(p, e.val) # "off"
    <3>1. e.val \in TablesOf[kind] /\ Key(p, e.val) \in Names[kind]
      BY <1>1, <1>11, KeyFacts
    <3>2. QED
      BY <3>1 DEF Orderly, NoneOff, Thing
  <2>3. v = ClassIn(c, w, Thing(p, e.val)) /\ v \in ThingsOf(c)
    BY <1>5, <2>1, <2>2 DEF v
  <2>4. e.val \in c.on => v = x.thing[e.val]
    BY <2>3 DEF Describes
  <2>5. e.op = "move" => v # None
    BY <1>1, <2>3, ClassFacts DEF Impossible, e
  <2>6. QED
    BY <1>2, <1>11, <2>3, <2>4, <2>5 DEF Remains
<1>12. QED
  BY <1>1, <1>6, <1>7, <1>8, <1>9, <1>10, <1>11 DEF Changes

\* What it leaves of p's name.
MadeOf(p, c, w, x, t) ==
  IF Here(p).op = "move" /\ t = Here(p).val THEN None
  ELSE IF t = Here(p).on THEN ClassIn(c, w, Shown(Result(p)))
  ELSE IF Here(p).op = "save" /\ FileOf(t) = FileOf(Here(p).on) THEN x.line[t]
  ELSE x.thing[t]

LEMMA MadeFacts ==
  ASSUME TypeOK, Orderly, NEW c \in Concerns(kind), NEW w, NEW p \in Procs, AtStep(p, Changes),
         NEW f \in SUBSET FreshOf(p, c, w), NEW x, Describes(x, p, c, w, f),
         Fits(kind, tx[p].name, c, Here(p), x), NEW t \in c.on
  PROVE  ClassIn(c, w, After(p)[t][tx[p].key]) = MadeOf(p, c, w, x, t)
<1> DEFINE e == Here(p)
<1>1. t \in TablesOf[kind] /\ Key(p, t) = tx[p].key /\ tx[p].key \in Names[kind] /\ Plain(p)
  BY CalledContext
<1>2. ClassIn(c, w, Before(p, t)[tx[p].key]) =
        IF e.op = "save" /\ FileOf(t) = FileOf(e.on) THEN x.line[t] ELSE x.thing[t]
  BY BeforeOwn
<1>3. Emptied(p, t) <=> e.op = "move" /\ t = e.val
  BY DEF Emptied
<1>4. CASE Emptied(p, t)
  <2>1. After(p)[t][tx[p].key] = None
    BY <1>1, <1>3, <1>4, AfterFacts
  <2>2. ClassIn(c, w, None) = None
    BY DEF ClassIn, Class
  <2>3. QED
    BY <1>3, <1>4, <2>1, <2>2 DEF MadeOf
<1>5. CASE ~Emptied(p, t) /\ t # e.on
  <2>1. After(p)[t] = Before(p, t)
    BY <1>1, <1>5, AfterFacts
  <2>2. QED
    BY <1>2, <1>3, <1>5, <2>1 DEF MadeOf
<1>6. CASE ~Emptied(p, t) /\ t = e.on
  <2>1. CASE e.op \notin {"wipe", "mirror"}
    <3>1. After(p)[t][tx[p].key] = Shown(Result(p))
      BY <1>1, <1>6, <2>1, AfterFacts
    <3>2. QED
      BY <1>3, <1>6, <3>1 DEF MadeOf
  <2>2. CASE e.op = "wipe"
    <3>1. After(p)[t][tx[p].key] = None /\ Shown(Result(p)) = None
      BY <1>1, <1>6, <2>2, AfterFacts DEF Result, Shown
    <3>2. QED
      BY <1>3, <1>6, <3>1 DEF MadeOf
  <2>3. CASE e.op = "mirror"
    <3>1. /\ After(p)[t][tx[p].key] = tx[p].file[e.val][tx[p].key] /\ e.val \in TablesOf[kind]
          /\ Result(p) = tx[p].file[e.val][tx[p].key]
      BY <1>1, <1>6, <2>3, AfterFacts DEF Result
    <3>2. Shown(Result(p)) = Result(p)
      BY <1>1, <3>1 DEF Plain, Shown
    <3>3. QED
      BY <1>3, <1>6, <3>1, <3>2 DEF MadeOf
  <2>4. QED
    BY <2>1, <2>2, <2>3
<1>7. QED
  BY <1>4, <1>5, <1>6

\* The lines that p still has as they are, and those of its name.
LEMMA LinesMade ==
  ASSUME TypeOK, Orderly, NEW c \in Concerns(kind), NEW w, NEW p \in Procs, AtStep(p, Changes),
         NEW f \in SUBSET FreshOf(p, c, w), NEW x, Describes(x, p, c, w, f),
         Fits(kind, tx[p].name, c, Here(p), x), NEW t \in StillFresh(p, c, f)
  PROVE  /\ \A k \in Names[kind] \ {tx[p].key} :
              ClassIn(c, w, Written(p).file[t][k]) = ClassIn(c, w, After(p)[t][k])
         /\ ClassIn(c, w, Written(p).file[t][tx[p].key]) =
              IF t = Here(p).on /\ Here(p).op = "save" THEN ClassIn(c, w, Shown(Result(p))) ELSE x.line[t]
<1> DEFINE e == Here(p)
<1>1. /\ t \in c.on /\ t \in TablesOf[kind] /\ Key(p, t) = tx[p].key /\ tx[p].key \in Names[kind]
      /\ tx[p] \in Sessions /\ Tables = TablesOf[kind]
  BY CalledContext DEF StillFresh
<1>2. \A k \in Names[kind] \ {tx[p].key} : ClassIn(c, w, Before(p, t)[k]) = ClassIn(c, w, things[t][k])
  BY <1>1, BeforeOthers
<1>3. tx[p].file \in [TablesOf[kind] -> [Names[kind] -> Values]]
  BY <1>1 DEF Sessions
<1>4. t \in f => /\ \A k \in Names[kind] \ {tx[p].key} : ClassIn(c, w, tx[p].file[t][k]) = ClassIn(c, w, things[t][k])
                 /\ x.line[t] = ClassIn(c, w, tx[p].file[t][tx[p].key])
  BY <1>1 DEF FreshOf, Describes
<1>5. ASSUME t # e.on \/ e.op \notin {"wipe", "mirror"}, NEW k \in Names[kind] \ {tx[p].key}
      PROVE  After(p)[t][k] = Before(p, t)[k]
  <2>1. CASE e.op \in {"wipe", "mirror"}
    BY <1>1, <1>5, <2>1, AfterFacts DEF Emptied
  <2>2. CASE e.op \notin {"wipe", "mirror"}
    BY <1>1, <1>5, <2>2, AfterFacts
  <2>3. QED
    BY <2>1, <2>2
<1>6. CASE t = e.on /\ e.op = "save"
  <2>1. Written(p).file = [tx[p].file EXCEPT ![e.on][Key(p, e.on)] = Shown(Value(p))]
    BY <1>1, <1>6 DEF Written, Sessions
  <2>2. /\ Written(p).file[t][tx[p].key] = Shown(Value(p))
        /\ \A k \in Names[kind] \ {tx[p].key} : Written(p).file[t][k] = tx[p].file[t][k]
    BY <1>1, <1>3, <1>6, <2>1
  <2>3. Result(p) = Value(p)
    BY <1>6 DEF Result
  <2>4. \A k : Before(p, t)[k] = tx[p].file[t][k]
    BY <1>6 DEF Before
  <2>5. \A k \in Names[kind] \ {tx[p].key} : Written(p).file[t][k] = After(p)[t][k]
    BY <1>5, <1>6, <2>2, <2>4
  <2>6. QED
    BY <1>6, <2>2, <2>3, <2>5
<1>7. CASE t = e.on /\ e.op = "mirror" /\ e.val = t /\ t \in f
  <2>1. Written(p) = tx[p]
    BY <1>7 DEF Written
  <2>2. \A k \in Names[kind] : After(p)[t][k] = tx[p].file[t][k]
    BY <1>1, <1>7, AfterFacts
  <2>3. QED
    BY <1>4, <1>7, <2>1, <2>2
<1>8. CASE ~(t = e.on /\ e.op \in {"save", "wipe", "mirror"}) /\ t \in f
  <2>1. \A k \in Names[kind] : Written(p).file[t][k] = tx[p].file[t][k]
    <3>1. CASE e.op = "save"
      <4>1. e.on \in TablesOf[kind] /\ Key(p, e.on) \in Names[kind] /\ t # e.on
        BY <1>1, <1>8, <3>1, CalledContext, KeyFacts
      <4>2. Written(p).file = [tx[p].file EXCEPT ![e.on][Key(p, e.on)] = Shown(Value(p))]
        BY <1>1, <3>1 DEF Written, Sessions
      <4>3. QED
        BY <1>1, <1>3, <4>1, <4>2
    <3>2. CASE e.op # "save"
      BY <3>2 DEF Written
    <3>3. QED
      BY <3>1, <3>2
  <2>2. \A k \in Names[kind] \ {tx[p].key} : ClassIn(c, w, After(p)[t][k]) = ClassIn(c, w, things[t][k])
    BY <1>2, <1>5, <1>8
  <2>3. QED
    BY <1>1, <1>4, <1>8, <2>1, <2>2
<1>9. QED
  BY <1>6, <1>7, <1>8 DEF StillFresh

\* What a call leaves is what Called says.
LEMMA CalledFacts ==
  ASSUME TypeOK, Orderly, NEW c \in Concerns(kind), NEW w, Watched(c, w), NEW p \in Procs, AtStep(p, Changes),
         ~Impossible(p), NEW f \in SUBSET FreshOf(p, c, w), NEW x, Describes(x, p, c, w, f),
         Fits(kind, tx[p].name, c, Here(p), x)
  PROVE  Known(Made(p, c, w), RowsIn(c, w, tx[p].key), MineIn(p, c, w), AskedBy(p, c, w),
               LineMade(p, c, w, StillFresh(p, c, f)))
           \in Called(c, Here(p), x)
<1> DEFINE e == Here(p)
           u == ClassIn(c, w, Shown(Result(p)))
<1>1. e.on \in c.on => u \in Remains(c, e, x)
  BY RemainsFacts
<1>2. \A t \in c.on :
        ClassIn(c, w, After(p)[t][tx[p].key]) =
           IF e.op = "move" /\ t = e.val THEN None
           ELSE IF t = e.on THEN u
           ELSE IF e.op = "save" /\ FileOf(t) = FileOf(e.on) THEN x.line[t]
           ELSE x.thing[t]
  <2>1. \A t \in c.on : ClassIn(c, w, After(p)[t][tx[p].key]) = MadeOf(p, c, w, x, t)
    BY MadeFacts
  <2>2. QED
    BY <2>1 DEF MadeOf
<1>3. \A t \in StillFresh(p, c, f) :
        ClassIn(c, w, Written(p).file[t][tx[p].key]) = IF t = e.on /\ e.op = "save" THEN u ELSE x.line[t]
  BY LinesMade
<1>4. \A t \in c.on : t \notin f => x.line[t] = Unread
  BY DEF Describes
<1>5. StillFresh(p, c, f) =
        {t \in c.on : IF t = e.on /\ e.op \in {"save", "wipe", "mirror"}
                      THEN e.op = "save" \/ (e.op = "mirror" /\ e.val = t /\ t \in f)
                      ELSE t \in f}
  BY DEF StillFresh
<1>6. /\ x.com = RowsIn(c, w, tx[p].key) /\ x.mine = MineIn(p, c, w) /\ x.asked = AskedBy(p, c, w)
  BY DEF Describes
<1> HIDE DEF e, u
<1>7. PICK v \in Remains(c, e, x) : e.on \in c.on => v = u
  BY <1>1 DEF Remains
<1>8. Made(p, c, w) =
        [t \in c.on |-> IF e.op = "move" /\ t = e.val THEN None
                        ELSE IF t = e.on THEN v
                        ELSE IF e.op = "save" /\ FileOf(t) = FileOf(e.on) THEN x.line[t]
                        ELSE x.thing[t]]
  BY <1>2, <1>7 DEF Made
<1>9. LineMade(p, c, w, StillFresh(p, c, f)) =
        [t \in c.on |-> IF t # e.on \/ e.op \notin {"save", "wipe", "mirror"} THEN x.line[t]
                        ELSE IF e.op = "save" THEN v
                        ELSE IF e.op = "mirror" /\ e.val = t THEN x.line[t]
                        ELSE Unread]
  <2>1. ASSUME NEW t \in c.on
        PROVE  (IF t \in StillFresh(p, c, f) THEN ClassIn(c, w, Written(p).file[t][tx[p].key]) ELSE Unread)
                 = IF t # e.on \/ e.op \notin {"save", "wipe", "mirror"} THEN x.line[t]
                   ELSE IF e.op = "save" THEN v
                   ELSE IF e.op = "mirror" /\ e.val = t THEN x.line[t]
                   ELSE Unread
    BY <1>3, <1>4, <1>5, <1>7
  <2>2. QED
    BY <2>1 DEF LineMade
<1>10. Known(Made(p, c, w), x.com, x.mine, x.asked, LineMade(p, c, w, StillFresh(p, c, f))) \in Called(c, e, x)
  BY <1>8, <1>9 DEF Called
<1>11. QED
  BY <1>6, <1>10 DEF e

LEMMA WrittenFacts ==
  ASSUME TypeOK, NEW p \in Procs, Busy(p)
  PROVE  /\ DOMAIN Written(p) = DOMAIN tx[p] /\ Written(p).name = tx[p].name
         /\ Written(p).key = tx[p].key /\ Written(p).asked = tx[p].asked
         /\ Written(p).added = tx[p].added /\ Written(p).mine = tx[p].mine
BY DEF Written, TypeOK, Busy, Sessions

LEMMA CallReady ==
  ASSUME TypeOK, Orderly, NEW c \in Concerns(kind), NEW w, Watched(c, w), Ready(c, w),
         NEW p \in Procs, Call(p)
  PROVE  Ready(c, w)'
<1>1. /\ kind' = kind /\ rows' = rows /\ mishaps' = mishaps /\ AtStep(p, Changes)
      /\ Busy(p) /\ tx[p].at \in DOMAIN Steps(p) /\ Here(p).op \in Changes /\ Single
  BY DEF Call, AtStep, Here, Orderly
<1>2. CASE Impossible(p)
  <2>1. things' = things /\ Refuse(p) /\ Here(p).op \notin RowOps
    BY <1>1, <1>2 DEF Call, Changes, RowOps
  <2>2. \A f \in SUBSET FreshOf(p, c, w) :
          KnownOf(p, c, w, f) \in Failed(kind, tx[p].name, c, Here(p), KnownOf(p, c, w, f))
    <3>1. ASSUME NEW f PROVE CalledFor(c, Here(p), KnownOf(p, c, w, f), FALSE)
      BY <1>1, <1>2, CalledAsKnown
    <3>2. QED
      BY <1>1, <3>1, FailedFacts
  <2>3. QED
    BY <1>1, <2>1, <2>2, IdleRefusalReady
<1>3. CASE ~Bears(c)
  BY <1>1, <1>3 DEF Bears, Ready
<1>4. CASE ~Impossible(p) /\ Bears(c)
  <2>1. things' = After(p) /\ Advance(p, Written(p))
    BY <1>4 DEF Call
  <2>2. Goes(p, Written(p), tx[p].at + 1)
    BY <1>1, <2>1, WrittenFacts, Onward DEF Advance
  <2>3. /\ tx'[p].key = tx[p].key /\ tx'[p].asked = tx[p].asked /\ tx'[p].added = tx[p].added
        /\ tx'[p].mine = tx[p].mine /\ tx'[p].file = Written(p).file
    BY <1>1, <2>2, WrittenFacts DEF Goes
  <2>4. OthersKept(p, c, w)
    <3>1. PICK f \in SUBSET FreshOf(p, c, w) : KnownOf(p, c, w, f) \in Among(p, c)[tx[p].at]
      BY <1>1, <1>4 DEF Ready, Foreseen
    <3> DEFINE x == KnownOf(p, c, w, f)
    <3>2. Fits(kind, tx[p].name, c, Here(p), x) /\ Describes(x, p, c, w, f)
      BY <1>1, <3>1, StepKept, KnownFacts
    <3> HIDE DEF x
    <3>3. QED
      BY <1>1, <1>4, <2>1, <3>2, OthersLeft
  <2>5. ASSUME NEW f \in SUBSET FreshOf(p, c, w),
               Fits(kind, tx[p].name, c, Here(p), KnownOf(p, c, w, f))
        PROVE  \E g \in SUBSET FreshOf(p, c, w)' :
                 KnownOf(p, c, w, g)' \in Did(kind, tx[p].name, c, Here(p), KnownOf(p, c, w, f))
    <3> DEFINE x == KnownOf(p, c, w, f)
    <3>1. Describes(x, p, c, w, f) /\ Fits(kind, tx[p].name, c, Here(p), x)
      BY <1>1, <2>5, KnownFacts
    <3>2. CalledFor(c, Here(p), x, TRUE)
      BY <1>1, <1>4, CalledAsKnown
    <3> HIDE DEF x
    <3>3. PICK h : h = StillFresh(p, c, f)
      OBVIOUS
    <3>4. h \in SUBSET FreshOf(p, c, w)'
      <4>1. ASSUME NEW t \in h
            PROVE  /\ t \in c.on
                   /\ \A k \in Names[kind] \ {tx[p].key} :
                        ClassIn(c, w, Written(p).file[t][k]) = ClassIn(c, w, After(p)[t][k])
        BY <1>1, <3>1, <3>3, <4>1, LinesMade DEF StillFresh
      <4>2. QED
        BY <1>1, <2>1, <2>3, <4>1 DEF FreshOf
    <3>5. /\ Known(Made(p, c, w), RowsIn(c, w, tx[p].key), MineIn(p, c, w), AskedBy(p, c, w),
                   LineMade(p, c, w, h)) \in Called(c, Here(p), x)
      BY <1>1, <1>4, <3>1, <3>3, CalledFacts
    <3>6. KnownOf(p, c, w, h)' =
            Known(Made(p, c, w), RowsIn(c, w, tx[p].key), MineIn(p, c, w), AskedBy(p, c, w), LineMade(p, c, w, h))
      <4>1. MineIn(p, c, w)' = MineIn(p, c, w) /\ AskedBy(p, c, w)' = AskedBy(p, c, w)
        BY <1>1, <2>3, SameMine DEF AskedBy
      <4>2. ThingIn(c, w, tx[p].key)' = Made(p, c, w) /\ RowsIn(c, w, tx[p].key)' = RowsIn(c, w, tx[p].key)
        BY <1>1, <2>1, <2>3 DEF ThingIn, Made, RowsIn
      <4>3. LineIn(p, c, w, h)' = LineMade(p, c, w, h)
        BY <2>3 DEF LineIn, LineMade
      <4>4. QED
        BY <4>1, <4>2, <4>3 DEF KnownOf
    <3>7. KnownOf(p, c, w, h)' \in Did(kind, tx[p].name, c, Here(p), x)
      BY <1>1, <3>2, <3>5, <3>6, DidFacts
    <3>8. QED
      BY <3>4, <3>7 DEF x
  <2>6. DoneAs(p, c, w)
    BY <2>5 DEF DoneAs
  <2>7. QED
    BY <1>1, <2>2, <2>3, <2>4, <2>6, WrittenFacts, DoneReady
<1>5. QED
  BY <1>2, <1>3, <1>4

\* One that fails may have done its work.
LEMMA CallFailsReady ==
  ASSUME TypeOK, Orderly, NEW c \in Concerns(kind), NEW w, Watched(c, w), Ready(c, w),
         NEW p \in Procs, CallFails(p)
  PROVE  Ready(c, w)'
<1>1. /\ kind' = kind /\ rows' = rows /\ AtStep(p, Changes) /\ ~Impossible(p) /\ Refuse(p) /\ Mishap("call")
      /\ Busy(p) /\ tx[p].at \in DOMAIN Steps(p) /\ Here(p).op \in Changes /\ Single
      /\ things' \in {things, After(p)} /\ Here(p).op \notin RowOps
  BY DEF CallFails, AtStep, Here, Orderly, Changes, RowOps
<1>2. (Bears(c)' => Bears(c)) /\ (Bears(c)' => "call" \in c.bears)
  BY <1>1 DEF Mishap, Bears, TypeOK
<1> SUFFICES ASSUME Bears(c)' PROVE Ready(c, w)'
  BY DEF Ready
<1>3. OthersKept(p, c, w)
  <2>1. CASE things' = things
    BY <1>1, <2>1, NothingTouched
  <2>2. CASE things' = After(p)
    <3>1. PICK f \in SUBSET FreshOf(p, c, w) : KnownOf(p, c, w, f) \in Among(p, c)[tx[p].at]
      BY <1>1, <1>2 DEF Ready, Foreseen
    <3> DEFINE x == KnownOf(p, c, w, f)
    <3>2. Fits(kind, tx[p].name, c, Here(p), x) /\ Describes(x, p, c, w, f)
      BY <1>1, <3>1, StepKept, KnownFacts
    <3> HIDE DEF x
    <3>3. QED
      BY <1>1, <1>2, <2>2, <3>2, OthersLeft
  <2>3. QED
    BY <1>1, <2>1, <2>2
<1>4. ASSUME NEW f \in SUBSET FreshOf(p, c, w),
             Fits(kind, tx[p].name, c, Here(p), KnownOf(p, c, w, f))
      PROVE  \E g \in SUBSET FreshLeft(p, c, w) :
               Left(p, c, w, g) \in Failed(kind, tx[p].name, c, Here(p), KnownOf(p, c, w, f))
  <2> DEFINE x == KnownOf(p, c, w, f)
  <2>1. Describes(x, p, c, w, f) /\ Fits(kind, tx[p].name, c, Here(p), x)
    BY <1>1, <1>4, KnownFacts
  <2>2. CalledFor(c, Here(p), x, TRUE)
    BY <1>1, CalledAsKnown
  <2>3. {x} \cup {[z EXCEPT !.line = NoLine(c)] : z \in Called(c, Here(p), x)}
          \subseteq Failed(kind, tx[p].name, c, Here(p), x)
    BY <1>1, <1>2, <2>2, FailedFacts
  <2>4. CASE things' = things
    <3>1. FreshLeft(p, c, w) = FreshOf(p, c, w) /\ Left(p, c, w, f) = x
      BY <2>4 DEF FreshLeft, FreshOf, KnownOf, Left, ThingLeft, ThingIn
    <3> HIDE DEF x
    <3>2. QED
      BY <2>3, <3>1 DEF x
  <2> HIDE DEF x
  <2>5. CASE things' = After(p)
    <3>1. PICK z : z = Known(Made(p, c, w), RowsIn(c, w, tx[p].key), MineIn(p, c, w), AskedBy(p, c, w),
                             LineMade(p, c, w, StillFresh(p, c, f)))
      OBVIOUS
    <3>2. z \in Called(c, Here(p), x)
      BY <1>1, <2>1, <3>1, CalledFacts
    <3>3. LineIn(p, c, w, {}) = NoLine(c)
      BY DEF LineIn, NoLine
    <3>4. Left(p, c, w, {}) = [z EXCEPT !.line = NoLine(c)]
      BY <2>5, <3>1, <3>3 DEF Left, Known, ThingLeft, Made
    <3>5. Left(p, c, w, {}) \in Failed(kind, tx[p].name, c, Here(p), x)
      BY <2>3, <3>2, <3>4
    <3>6. {} \in SUBSET FreshLeft(p, c, w)
      OBVIOUS
    <3>7. QED
      BY <3>5, <3>6 DEF x
  <2>6. QED
    BY <1>1, <2>4, <2>5 DEF x
<1>5. RefusedAs(p, c, w)
  BY <1>4 DEF RefusedAs
<1>6. QED
  BY <1>1, <1>2, <1>3, <1>5, RefusedReady

\* A file that cannot be read, or a task that cannot be sent, is nothing done.
LEMMA AskFailsReady ==
  ASSUME TypeOK, Orderly, NEW c \in Concerns(kind), NEW w, Ready(c, w), NEW p \in Procs, AskFails(p)
  PROVE  Ready(c, w)'
<1>1. /\ kind' = kind /\ rows' = rows /\ things' = things /\ Refuse(p) /\ Mishap("call") /\ Single
      /\ Busy(p) /\ tx[p].at \in DOMAIN Steps(p) /\ Here(p).op \in {"read", "spawn"}
      /\ Here(p).op \notin RowOps
  BY DEF AskFails, AtStep, Here, Orderly, RowOps
<1>2. (Bears(c)' => Bears(c)) /\ (Bears(c)' => "call" \in c.bears)
  BY <1>1 DEF Mishap, Bears, TypeOK
<1> SUFFICES ASSUME Bears(c)' PROVE Ready(c, w)'
  BY DEF Ready
<1>3. FreshLeft(p, c, w) = FreshOf(p, c, w) /\ \A f : KnownOf(p, c, w, f) = Left(p, c, w, f)
  BY <1>1 DEF FreshLeft, FreshOf, KnownOf, Left, ThingLeft, ThingIn
<1>4. \A f : KnownOf(p, c, w, f) \in Failed(kind, tx[p].name, c, Here(p), KnownOf(p, c, w, f))
  BY <1>1, <1>2, FailedFacts
<1>5. RefusedAs(p, c, w)
  BY <1>3, <1>4 DEF RefusedAs
<1>6. OthersKept(p, c, w)
  BY <1>1, NothingTouched
<1>7. QED
  BY <1>1, <1>2, <1>5, <1>6, RefusedReady
-----------------------------------------------------------------------------
(* Changes of rows. *)

\* What p's own row is after its step has changed it, and the other tables.
Stored(p) ==
  IF Here(p).op = "add" /\ rows[Here(p).on][tx[p].key] # None THEN "twice"
  ELSE IF Own(p, Here(p).on) = "twice" /\ Here(p).op # "clear"
       THEN IF Here(p).op = "delete" THEN "there" ELSE "twice"
       ELSE Value(p)
Emptying(p, t) == Here(p).op \in {"delete", "clear"} /\ RowIn(kind, t) = Here(p).on

LEMMA FlushedOwn ==
  ASSUME TypeOK, Orderly, NEW c \in Concerns(kind), NEW p \in Procs, Busy(p), tx[p].at \in DOMAIN Steps(p),
         Here(p).op \in RowOps, NEW s, s = Flushed(p), NEW t \in c.rows, NEW own,
         own = IF t \in s.added /\ rows[t][tx[p].key] # None THEN "twice" ELSE s.mine[t]
  PROVE  /\ t = Here(p).on => s.mine[t] # Same /\ own = Stored(p)
         /\ t # Here(p).on /\ Emptying(p, t) => s.mine[t] # Same /\ own = None
         /\ t # Here(p).on /\ ~Emptying(p, t) =>
              s.mine[t] = tx[p].mine[t] /\ (s.mine[t] # Same => own = Own(p, t))
<1>1. /\ tx[p] \in Sessions /\ Plain(p) /\ Tables = TablesOf[kind] /\ Here(p).op \notin Untabled
      /\ Here(p).op = "add" => Here(p).on \notin DOMAIN Columns[kind]
  BY StepFacts DEF Orderly, TypeOK, Busy, Tables, RowOps, Untabled
<1>2. t \in Tables /\ Key(p, t) = tx[p].key
  BY <1>1, ConcernFacts
<1>3. Value(p) # Same /\ "there" # Same /\ "twice" # Same /\ None # Same
  BY <1>1, ValueFact, NoValue DEF Same, None
<1>4. /\ s.added = IF Here(p).op = "add" THEN tx[p].added \cup {Here(p).on} ELSE tx[p].added \ {Here(p).on}
      /\ s.mine[t] = IF t = Here(p).on
                     THEN IF Own(p, t) = "twice" /\ Here(p).op # "clear"
                          THEN IF Here(p).op = "delete" THEN "there" ELSE "twice"
                          ELSE Value(p)
                     ELSE IF Here(p).op \in {"delete", "clear"} /\ RowOf(t) = Here(p).on THEN None
                     ELSE tx[p].mine[t]
  BY <1>1, <1>2 DEF Flushed, Sessions
<1>5. RowIn(kind, t) = RowOf(t)
  BY DEF RowIn, RowOf
<1>6. CASE t = Here(p).on
  BY <1>3, <1>4, <1>6 DEF Stored
<1>7. CASE t # Here(p).on /\ Emptying(p, t)
  <2>1. t \in DOMAIN Columns[kind]
    BY <1>7 DEF RowIn, Emptying
  <2>2. t \notin s.added
    BY <1>1, <1>4, <1>7, <2>1 DEF Plain, Emptying
  <2>3. QED
    BY <1>3, <1>4, <1>5, <1>7, <2>2 DEF Emptying
<1>8. CASE t # Here(p).on /\ ~Emptying(p, t)
  <2>1. s.mine[t] = tx[p].mine[t] /\ (t \in s.added <=> t \in tx[p].added)
    BY <1>4, <1>5, <1>8 DEF Emptying
  <2>2. QED
    BY <1>2, <1>8, <2>1 DEF Own, Visible
<1>9. QED
  BY <1>6, <1>7, <1>8

\* The cases of FlushedIn.
LEMMA FlushedFacts ==
  ASSUME NEW m, NEW n, NEW c, NEW e, NEW x, NEW v
  PROVE  LET d == FlushedIn(m, n, c, e, x) IN
         /\ e.on \notin c.rows => Sending(m, c, e, x, None) \in d
         /\ e.on \in c.rows =>
              /\ e.op = "insert" /\ OwnIn(x, e.on) = None /\ v \in Gives(c, e, x) => Sending(m, c, e, x, v) \in d
              /\ e.op = "add" /\ v \in (IF OwnIn(x, e.on) = "twice" \/ x.com[e.on] # None
                                        THEN {"twice"} ELSE Gives(c, e, x)) => Sending(m, c, e, x, v) \in d
              /\ e.op \in {"update", "rekey"} /\ v \in Sends(c, e, x) => Sending(m, c, e, x, v) \in d
              /\ e.op \in {"delete", "clear"} /\ OwnIn(x, e.on) # None
                   /\ v = (IF OwnIn(x, e.on) = "twice" /\ e.op = "delete" THEN WordIn(c, "there") ELSE None) =>
                     Sending(m, c, e, x, v) \in d
BY DEF FlushedIn

LEMMA UnchangedFacts ==
  ASSUME NEW m, NEW n, NEW c, NEW e, NEW x,
         \/ e.on \notin c.rows
         \/ e.op = "update" /\ (OwnIn(x, e.on) \in Sends(c, e, x) \/ Moves(m, n))
         \/ e.op \in {"delete", "clear"} /\ OwnIn(x, e.on) = None
  PROVE  x \in FlushedIn(m, n, c, e, x)
BY DEF FlushedIn

\* What p knows of its own row before and after it.
LEMMA StoredFacts ==
  ASSUME TypeOK, Orderly, NEW c \in Concerns(kind), NEW w, Watched(c, w), NEW p \in Procs, Busy(p),
         tx[p].at \in DOMAIN Steps(p), Here(p).op \in RowOps, NEW f, NEW x, Describes(x, p, c, w, f),
         Here(p).on \in c.rows
  PROVE  /\ OwnIn(x, Here(p).on) = None <=> Own(p, Here(p).on) = None
         /\ OwnIn(x, Here(p).on) = "twice" <=> Own(p, Here(p).on) = "twice"
         /\ x.com[Here(p).on] = None <=> rows[Here(p).on][tx[p].key] = None
         /\ OwnIn(x, Here(p).on) = ClassIn(c, w, Own(p, Here(p).on))
         /\ ClassIn(c, w, Value(p)) \in Gives(c, Here(p), x)
         /\ ClassIn(c, w, "there") = WordIn(c, "there") /\ ClassIn(c, w, "twice") = "twice"
         /\ ClassIn(c, w, None) = None
<1>1. c.words \cap {"this", "other"} = {} /\ Here(p).op \notin Untabled
  BY ConcernFacts DEF RowOps, Untabled
<1>2. /\ OwnIn(x, Here(p).on) = ClassIn(c, w, Own(p, Here(p).on))
      /\ x.com[Here(p).on] = ClassIn(c, w, rows[Here(p).on][tx[p].key])
      /\ x.asked = AskedBy(p, c, w)
  BY DEF Describes
<1>3. ClassIn(c, w, Value(p)) \in Gives(c, Here(p), x)
  BY <1>1, <1>2, GivesFacts
<1>4. ClassIn(c, w, "there") = WordIn(c, "there")
  BY WordsOfStep, WordFacts
<1>5. ClassIn(c, w, "twice") = "twice" /\ ClassIn(c, w, None) = None
  BY DEF ClassIn, Class
<1>6. QED
  BY <1>1, <1>2, <1>3, <1>4, <1>5, ClassFacts

LEMMA FlushedKnown ==
  ASSUME TypeOK, Orderly, NEW c \in Concerns(kind), NEW w, Watched(c, w),
         NEW p \in Procs, Flush(p), ~NoChange(p), ~Broken(p),
         NEW f, NEW x, Describes(x, p, c, w, f), Fits(kind, tx[p].name, c, Here(p), x),
         NEW m, NEW n, Here(p).on \in c.rows
  PROVE  Sending(m, c, Here(p), x, ClassIn(c, w, Stored(p))) \in FlushedIn(m, n, c, Here(p), x)
<1> DEFINE e == Here(p)
           v == ClassIn(c, w, Stored(p))
<1>1. Busy(p) /\ tx[p].at \in DOMAIN Steps(p) /\ e.op \in RowOps /\ tx[p].gone = {} /\ e.on \in c.rows
  BY DEF Flush, AtStep, Here, RowOps, Orderly, Plain
<1>2. /\ OwnIn(x, e.on) = None <=> Own(p, e.on) = None
      /\ OwnIn(x, e.on) = "twice" <=> Own(p, e.on) = "twice"
      /\ x.com[e.on] = None <=> rows[e.on][tx[p].key] = None
      /\ ClassIn(c, w, Value(p)) \in Gives(c, e, x)
      /\ ClassIn(c, w, "there") = WordIn(c, "there") /\ ClassIn(c, w, "twice") = "twice"
      /\ ClassIn(c, w, None) = None
  BY <1>1, StoredFacts
<1>3. /\ e.op \in {"delete", "clear"} => Value(p) = None /\ Own(p, e.on) # None
      /\ e.op = "insert" => Own(p, e.on) = None
  BY <1>1 DEF NoChange, Broken, Stale, Value, Fits, None, Asked, Kept, Found
<1>4. v = ClassIn(c, w, IF e.op = "add" /\ rows[e.on][tx[p].key] # None THEN "twice"
                        ELSE IF Own(p, e.on) = "twice" /\ e.op # "clear"
                             THEN IF e.op = "delete" THEN "there" ELSE "twice"
                             ELSE Value(p))
  BY DEF Stored
<1> HIDE DEF v, e
<1>5. CASE e.op = "insert"
  <2>1. v \in Gives(c, e, x) /\ OwnIn(x, e.on) = None
    BY <1>2, <1>3, <1>4, <1>5 DEF None
  <2>2. QED
    BY <1>1, <1>5, <2>1, FlushedFacts DEF v, e
<1>6. CASE e.op = "add"
  <2>1. v \in IF OwnIn(x, e.on) = "twice" \/ x.com[e.on] # None THEN {"twice"} ELSE Gives(c, e, x)
    BY <1>2, <1>4, <1>6
  <2>2. QED
    BY <1>1, <1>6, <2>1, FlushedFacts DEF v, e
<1>7. CASE e.op \in {"update", "rekey"}
  <2>1. v \in Sends(c, e, x)
    BY <1>2, <1>4, <1>7 DEF Sends
  <2>2. QED
    BY <1>1, <1>7, <2>1, FlushedFacts DEF v, e
<1>8. CASE e.op \in {"delete", "clear"}
  <2>1. /\ OwnIn(x, e.on) # None
        /\ v = (IF OwnIn(x, e.on) = "twice" /\ e.op = "delete" THEN WordIn(c, "there") ELSE None)
    BY <1>2, <1>3, <1>4, <1>8
  <2>2. QED
    BY <1>1, <1>8, <2>1, FlushedFacts DEF v, e
<1>9. QED
  BY <1>1, <1>5, <1>6, <1>7, <1>8 DEF RowOps

\* What p has made of all rows after the step.
MineWith(c, e, x, v) ==
  [t \in c.rows |-> IF t = e.on THEN v
                    ELSE IF e.op \in {"delete", "clear"} /\ RowIn(kind, t) = e.on THEN None
                    ELSE x.mine[t]]

LEMMA FlushedMine ==
  ASSUME TypeOK, Orderly, kind' = kind, rows' = rows, NEW c \in Concerns(kind), NEW w, NEW p \in Procs, Busy(p),
         tx[p].at \in DOMAIN Steps(p), Here(p).op \in RowOps, Goes(p, Flushed(p), tx[p].at + 1),
         NEW f, NEW x, Describes(x, p, c, w, f)
  PROVE  MineIn(p, c, w)' = MineWith(c, Here(p), x, ClassIn(c, w, Stored(p)))
<1>1. PICK s : s = Flushed(p)
  OBVIOUS
<1> DEFINE own(t) == IF t \in s.added /\ rows[t][tx[p].key] # None THEN "twice" ELSE s.mine[t]
<1>2. \A t \in c.rows :
         /\ t = Here(p).on => s.mine[t] # Same /\ own(t) = Stored(p)
         /\ t # Here(p).on /\ Emptying(p, t) => s.mine[t] # Same /\ own(t) = None
         /\ t # Here(p).on /\ ~Emptying(p, t) =>
              s.mine[t] = tx[p].mine[t] /\ (s.mine[t] # Same => own(t) = Own(p, t))
  BY <1>1, FlushedOwn
<1>3. /\ tx'[p].mine = s.mine /\ tx'[p].added = s.added
      /\ \A t \in c.rows : Key(p, t)' = Key(p, t) /\ Key(p, t) = tx[p].key
  <2>1. Flushed(p).key = tx[p].key
    BY DEF Flushed, TypeOK, Busy, Sessions
  <2>2. QED
    BY <1>1, <2>1, ConcernFacts DEF Goes, Key
<1>4. \A t \in c.rows : s.mine[t] # Same => Own(p, t)' = own(t)
  BY <1>3 DEF Own, Visible
<1>5. \A t \in c.rows : x.mine[t] = IF tx[p].mine[t] = Same THEN Same ELSE ClassIn(c, w, Own(p, t))
  BY DEF Describes
<1> HIDE DEF own
<1>6. PICK v : v = ClassIn(c, w, Stored(p))
  OBVIOUS
<1>7. PICK e : e = Here(p)
  OBVIOUS
<1>8. ClassIn(c, w, None) = None
  BY DEF ClassIn, Class
<1>9. ASSUME NEW t \in c.rows
      PROVE  MineIn(p, c, w)'[t] = MineWith(c, e, x, v)[t]
  <2>1. MineIn(p, c, w)'[t] = IF s.mine[t] = Same THEN Same ELSE ClassIn(c, w, own(t))
    BY <1>3, <1>4, <1>9 DEF MineIn
  <2>2. MineWith(c, e, x, v)[t] = IF t = e.on THEN v ELSE IF Emptying(p, t) THEN None ELSE x.mine[t]
    BY <1>7, <1>9 DEF MineWith, Emptying
  <2>3. CASE t = e.on
    BY <1>2, <1>6, <1>7, <1>9, <2>1, <2>2, <2>3
  <2>4. CASE t # e.on /\ Emptying(p, t)
    BY <1>2, <1>7, <1>8, <1>9, <2>1, <2>2, <2>4
  <2>5. CASE t # e.on /\ ~Emptying(p, t)
    BY <1>2, <1>5, <1>7, <1>9, <2>1, <2>2, <2>5
  <2>6. QED
    BY <2>3, <2>4, <2>5
<1>10. MineWith(c, e, x, v) = [t \in c.rows |-> MineWith(c, e, x, v)[t]]
  BY DEF MineWith
<1>11. MineIn(p, c, w)' = [t \in c.rows |-> MineIn(p, c, w)'[t]]
  BY DEF MineIn
<1>12. QED
  BY <1>6, <1>7, <1>9, <1>10, <1>11

\* A change that is none leaves what is known.
LEMMA UnchangedReady ==
  ASSUME TypeOK, Orderly, NEW c \in Concerns(kind), NEW w, Watched(c, w), Ready(c, w),
         NEW p \in Procs, Flush(p), NoChange(p)
  PROVE  Ready(c, w)'
<1>1. /\ Busy(p) /\ kind' = kind /\ rows' = rows /\ things' = things /\ mishaps' = mishaps
      /\ tx[p].at \in DOMAIN Steps(p) /\ tx[p] \in Sessions /\ Here(p).op \in RowOps /\ Plain(p)
  BY DEF Flush, AtStep, TypeOK, Busy, Here, Orderly, RowOps
<1>2. ASSUME NEW f \in SUBSET FreshOf(p, c, w)
      PROVE  KnownOf(p, c, w, f) \in Did(kind, tx[p].name, c, Here(p), KnownOf(p, c, w, f))
  <2> DEFINE x == KnownOf(p, c, w, f)
             e == Here(p)
             n == tx[p].name
  <2>1. Describes(x, p, c, w, f)
    BY <1>1, KnownFacts
  <2> HIDE DEF x
  <2>2. Did(kind, n, c, e, x) = FlushedIn(kind, n, c, e, x)
    BY <1>1, DidFacts
  <2>3. CASE e.on \notin c.rows
    BY <2>2, <2>3, UnchangedFacts DEF x
  <2>4. CASE e.on \in c.rows
    <3>1. /\ OwnIn(x, e.on) = None <=> Own(p, e.on) = None
          /\ OwnIn(x, e.on) = "twice" <=> Own(p, e.on) = "twice"
          /\ OwnIn(x, e.on) = ClassIn(c, w, Own(p, e.on))
          /\ ClassIn(c, w, Value(p)) \in Gives(c, e, x)
      BY <1>1, <2>1, <2>4, StoredFacts
    <3>2. CASE e.op = "update"
      <4>1. View(p, e.on) = Value(p)
        BY <3>2 DEF NoChange
      <4>2. ~Moves(kind, n) => Own(p, e.on) \in {Value(p), "twice"}
        BY <1>1, <2>1, <2>4, <4>1, ViewFacts DEF Describes
      <4>3. OwnIn(x, e.on) \in Sends(c, e, x) \/ Moves(kind, n)
        BY <3>1, <4>2 DEF Sends
      <4>4. QED
        BY <2>2, <3>2, <4>3, UnchangedFacts DEF x
    <3>3. CASE e.op # "update"
      <4>1. e.op \in {"delete", "clear"} /\ Own(p, e.on) = None
        BY <1>1, <3>3 DEF NoChange, Stale, Plain
      <4>2. QED
        BY <2>2, <3>1, <4>1, UnchangedFacts DEF x
    <3>4. QED
      BY <3>2, <3>3
  <2>5. QED
    BY <2>3, <2>4 DEF x
<1>3. Advance(p, tx[p])
  BY DEF Flush
<1>4. QED
  BY <1>1, <1>2, <1>3, IdleStepReady

\* One that the database refuses rolls back all others.
LEMMA BrokenReady ==
  ASSUME TypeOK, Orderly, NEW c \in Concerns(kind), NEW w, Watched(c, w), Ready(c, w),
         NEW p \in Procs, Flush(p), ~NoChange(p), Broken(p)
  PROVE  Ready(c, w)'
<1>1. /\ Busy(p) /\ kind' = kind /\ rows' = rows /\ things' = things /\ mishaps' = mishaps
      /\ tx[p].at \in DOMAIN Steps(p) /\ Here(p).op \in RowOps /\ Plain(p) /\ Single
  BY DEF Flush, AtStep, Here, Orderly, RowOps
<1>2. (Bears(c)' <=> Bears(c)) /\ OthersKept(p, c, w)
  BY <1>1, NothingTouched DEF Bears
<1>3. Stops(p)
  BY Ends DEF Flush, Abort
<1>4. Here(p).op = "insert" /\ Own(p, Here(p).on) # None
  BY <1>1 DEF Broken, Stale, Plain
<1>5. PICK name : name = tx[p].key
  OBVIOUS
<1>6. ASSUME Bears(c)
      PROVE  RestOf(c, w, name)' \in c.rest
  <2>1. PICK f \in SUBSET FreshOf(p, c, w) : KnownOf(p, c, w, f) \in Among(p, c)[tx[p].at]
    BY <1>1, <1>6 DEF Ready, Foreseen
  <2> DEFINE x == KnownOf(p, c, w, f)
  <2>2. Describes(x, p, c, w, f)
    BY <1>1, KnownFacts
  <2>3. BackIn(x) = RestOf(c, w, name)
    BY <1>5 DEF BackIn, KnownOf, Known, RestOf
  <2>4. x \in Among(p, c)[tx[p].at]
    BY <2>1
  <2> HIDE DEF x
  <2>5. Here(p).on \in c.rows => OwnIn(x, Here(p).on) # None
    BY <1>1, <1>4, <2>2, StoredFacts
  <2>6. x \in Failed(kind, tx[p].name, c, Here(p), x)
    BY <1>4, <2>5, FailedFacts
  <2>7. BackIn(x) \in c.rest
    BY <1>1, <2>4, <2>6, StepKept
  <2>8. RestOf(c, w, name)' = RestOf(c, w, name)
    BY <1>1, SameThings, SameRows DEF RestOf
  <2>9. QED
    BY <2>3, <2>7, <2>8
<1>7. QED
  BY <1>1, <1>2, <1>3, <1>5, <1>6, StopsReady

LEMMA FlushReady ==
  ASSUME TypeOK, Orderly, NEW c \in Concerns(kind), NEW w, Watched(c, w), Ready(c, w),
         NEW p \in Procs, Flush(p)
  PROVE  Ready(c, w)'
<1>1. /\ Busy(p) /\ kind' = kind /\ rows' = rows /\ things' = things /\ mishaps' = mishaps
      /\ tx[p].at \in DOMAIN Steps(p) /\ tx[p] \in Sessions /\ Here(p).op \in RowOps /\ Single
  BY DEF Flush, AtStep, TypeOK, Busy, Here, Orderly, RowOps
<1>2. CASE ~NoChange(p) /\ ~Broken(p)
  <2>1. Advance(p, Flushed(p))
    BY <1>2 DEF Flush
  <2>2. /\ DOMAIN Flushed(p) = DOMAIN tx[p] /\ Flushed(p).name = tx[p].name
        /\ Flushed(p).key = tx[p].key /\ Flushed(p).asked = tx[p].asked /\ Flushed(p).file = tx[p].file
    BY <1>1 DEF Flushed, Sessions
  <2>3. Goes(p, Flushed(p), tx[p].at + 1)
    BY <1>1, <2>1, <2>2, Onward DEF Advance
  <2>4. FreshOf(p, c, w)' = FreshOf(p, c, w)
    BY <1>1, <2>2, <2>3 DEF FreshOf, Goes
  <2>5. \A f : KnownOf(p, c, w, f)' =
          Known(ThingIn(c, w, tx[p].key), RowsIn(c, w, tx[p].key), MineIn(p, c, w)', AskedBy(p, c, w),
                LineIn(p, c, w, f))
    <3>1. tx'[p].key = tx[p].key /\ tx'[p].asked = tx[p].asked /\ tx'[p].file = tx[p].file
      BY <2>2, <2>3 DEF Goes
    <3>2. /\ ThingIn(c, w, tx[p].key)' = ThingIn(c, w, tx[p].key)
          /\ RowsIn(c, w, tx[p].key)' = RowsIn(c, w, tx[p].key)
          /\ AskedBy(p, c, w)' = AskedBy(p, c, w)
          /\ \A f : LineIn(p, c, w, f)' = LineIn(p, c, w, f)
      BY <1>1, <3>1 DEF ThingIn, RowsIn, AskedBy, LineIn
    <3>3. QED
      BY <3>2 DEF KnownOf
  <2>6. ASSUME NEW f \in SUBSET FreshOf(p, c, w), Fits(kind, tx[p].name, c, Here(p), KnownOf(p, c, w, f))
        PROVE  KnownOf(p, c, w, f)' \in Did(kind, tx[p].name, c, Here(p), KnownOf(p, c, w, f))
    <3> DEFINE x == KnownOf(p, c, w, f)
    <3>1. Describes(x, p, c, w, f) /\ Fits(kind, tx[p].name, c, Here(p), x)
      BY <1>1, <2>6, KnownFacts
    <3> HIDE DEF x
    <3>2. PICK v : v = ClassIn(c, w, Stored(p))
      OBVIOUS
    <3>3. PICK e : e = Here(p)
      OBVIOUS
    <3>4. PICK m : m = kind
      OBVIOUS
    <3>5. MineIn(p, c, w)' = MineWith(c, e, x, v)
      BY <1>1, <2>3, <3>1, <3>2, <3>3, FlushedMine
    <3>6. KnownOf(p, c, w, f)' = Sending(m, c, e, x, v)
      <4>1. Sending(m, c, e, x, v) = Known(x.thing, x.com, MineWith(c, e, x, v), x.asked, x.line)
        BY <3>4 DEF Sending, MineWith
      <4>2. KnownOf(p, c, w, f)' = Known(x.thing, x.com, MineIn(p, c, w)', x.asked, x.line)
        BY <2>5, <3>1 DEF Describes
      <4>3. QED
        BY <3>5, <4>1, <4>2
    <3>7. ASSUME e.on \in c.rows
          PROVE  \A n : Sending(m, c, e, x, v) \in FlushedIn(m, n, c, e, x)
      BY <1>2, <3>1, <3>2, <3>3, <3>7, FlushedKnown
    <3>8. ASSUME e.on \notin c.rows
          PROVE  \A n : Sending(m, c, e, x, v) \in FlushedIn(m, n, c, e, x)
      <4>1. Sending(m, c, e, x, v) = Sending(m, c, e, x, None)
        BY <3>8 DEF Sending
      <4>2. QED
        BY <3>8, <4>1, FlushedFacts
    <3>9. Sending(m, c, e, x, v) \in FlushedIn(kind, tx[p].name, c, Here(p), x)
      BY <3>3, <3>4, <3>7, <3>8
    <3>10. KnownOf(p, c, w, f)' \in Did(kind, tx[p].name, c, Here(p), x)
      BY <1>1, <3>6, <3>9, DidFacts
    <3>11. QED
      BY <3>10 DEF x
  <2>7. DoneAs(p, c, w)
    BY <2>4, <2>6 DEF DoneAs
  <2>8. QED
    BY <1>1, <2>2, <2>3, <2>7, NothingTouched, DoneReady
<1>3. QED
  BY <1>2, UnchangedReady, BrokenReady
-----------------------------------------------------------------------------
(* The promises. *)

LEMMA FirstReady ==
  ASSUME Init, TypeOK
  PROVE  AllReady
<1> SUFFICES ASSUME NEW c \in Concerns(kind), NEW w, Watched(c, w), NEW k \in Names[kind]
             PROVE  RestOf(c, w, k) \in c.rest
  BY DEF AllReady, Ready, Init, Busy
<1>1. /\ c.on \cup c.rows \subseteq TablesOf[kind] /\ AtFirst(kind, c) \in c.rest
      /\ c.watch => WordsIn(kind, c.on \cup c.rows) \subseteq c.words
  BY ConcernFacts
<1>2. \A t \in c.on \cup c.rows : /\ rows[t][k] = IF t \in Given[kind] THEN "there" ELSE None
                                  /\ things[t][k] = rows[t][k]
  BY <1>1 DEF Init
<1>3. ClassIn(c, w, "there") = WordIn(c, "there")
  <2>1. c.watch => "there" \in c.words
    BY <1>1 DEF WordsIn
  <2>2. QED
    BY <2>1, WordFacts
<1>4. ClassIn(c, w, None) = WordIn(c, None)
  BY DEF ClassIn, WordIn, Class
<1>5. RestOf(c, w, k) = AtFirst(kind, c)
  <2>1. \A t \in c.on \cup c.rows :
          /\ ClassIn(c, w, things[t][k]) = WordIn(c, IF t \in Given[kind] THEN "there" ELSE None)
          /\ ClassIn(c, w, rows[t][k]) = WordIn(c, IF t \in Given[kind] THEN "there" ELSE None)
    BY <1>2, <1>3, <1>4
  <2>2. QED
    BY <2>1 DEF RestOf, ThingIn, RowsIn, AtFirst
<1>6. QED
  BY <1>1, <1>5

LEMMA IdleReady ==
  ASSUME NEW c, NEW w, Ready(c, w), UNCHANGED <<kind, rows, things, tx, mishaps>>
  PROVE  Ready(c, w)'
<1>1. \A k : RestOf(c, w, k)' = RestOf(c, w, k)
  BY DEF RestOf, ThingIn, RowsIn
<1>2. \A p : Busy(p)' = Busy(p) /\ Among(p, c)' = Among(p, c) /\ FreshOf(p, c, w)' = FreshOf(p, c, w)
  BY DEF Busy, Among, FreshOf
<1>3. \A p, t : Own(p, t)' = Own(p, t)
  BY DEF Own, Visible, Key
<1>4. \A p, f : KnownOf(p, c, w, f)' = KnownOf(p, c, w, f)
  BY <1>3 DEF KnownOf, Known, ThingIn, RowsIn, MineIn, AskedBy, LineIn
<1>5. \A p : Foreseen(p, c, w)' = Foreseen(p, c, w)
  BY <1>2, <1>4 DEF Foreseen
<1>6. \A k : AtRest(k)' = AtRest(k)
  BY <1>2 DEF AtRest
<1>7. Bears(c)' = Bears(c)
  BY DEF Bears
<1>8. QED
  BY <1>1, <1>2, <1>5, <1>6, <1>7 DEF Ready

\* While no request begins before the other has ended, the things and rows
\* of every name are among what Flows computes for its handler's step, and
\* what is left is fit for the next request.
LEMMA ConcernsAreKept ==
  ASSUME OneAtATime
  PROVE  Spec => []AllReady
<1>1. Init /\ TypeOK => AllReady
  BY FirstReady
<1>2. TypeOK /\ Orderly /\ AllReady /\ [Next]_vars => AllReady'
  <2> SUFFICES ASSUME TypeOK, Orderly, AllReady, [Next]_vars
               PROVE  AllReady'
    OBVIOUS
  <2>1. CASE UNCHANGED vars \/ Beat
    <3>1. UNCHANGED <<kind, rows, things, tx, mishaps>>
      BY <2>1 DEF vars, Beat
    <3>2. QED
      BY <3>1, IdleReady DEF AllReady
  <2>2. ASSUME NEW p \in Procs,
               \/ Begin(p) \/ (\E j \in jobs : Take(p, j)) \/ Runs(p)
               \/ CallFails(p) \/ AskFails(p) \/ Crash(p)
        PROVE  AllReady'
    <3>1. kind' = kind
      BY <2>2 DEF Begin, Take, Runs, CallFails, AskFails, Crash, Query, NewKey, Flush, CommitNow,
                  Return, Call, ReadFile, Control
    <3>2. SUFFICES ASSUME NEW c \in Concerns(kind), NEW w, Watched(c, w) PROVE Ready(c, w)'
      BY <3>1 DEF AllReady
    <3>3. Ready(c, w)
      BY <3>2 DEF AllReady
    <3>4. CASE Begin(p) \/ \E j \in jobs : Take(p, j)
      BY <3>2, <3>3, <3>4, ArrivalReady
    <3>5. CASE Runs(p)
      BY <3>2, <3>3, <3>5, QueryReady, NewKeyReady, FlushReady, CommitNowReady, ReturnReady, CallReady,
         ReadFileReady, ControlReady DEF Runs
    <3>6. CASE CallFails(p) \/ AskFails(p) \/ Crash(p)
      BY <3>2, <3>3, <3>6, CallFailsReady, AskFailsReady, CrashReady
    <3>7. QED
      BY <2>2, <3>4, <3>5, <3>6
  <2>3. QED
    BY <2>1, <2>2 DEF Next
<1>3. QED
  BY <1>1, <1>2, TypeCorrect, SessionsAreOrderly, PTL DEF Spec

\* What shall always be true of a name's things is.
LEMMA AlwaysKept ==
  ASSUME TypeOK, Orderly, AllReady, NEW c \in Concerns(kind), Bears(c), NEW k \in Names[kind],
         \A r \in c.rest : r.thing \in c.always
  PROVE  ThingIn(c, None, k) \in c.always
<1>1. Ready(c, None)
  BY DEF AllReady, Watched
<1>2. CASE AtRest(k)
  BY <1>1, <1>2 DEF Ready, RestOf
<1>3. CASE ~AtRest(k)
  <2>1. PICK p \in Procs : Busy(p) /\ tx[p].key = k
    BY <1>3 DEF AtRest
  <2>2. PICK f \in SUBSET FreshOf(p, c, None) : KnownOf(p, c, None, f) \in Among(p, c)[tx[p].at]
    BY <1>1, <2>1 DEF Ready, Foreseen
  <2>3. KnownOf(p, c, None, f).thing \in c.always
    BY <2>1, <2>2, StateKept
  <2>4. QED
    BY <2>1, <2>3 DEF KnownOf, Known
<1>4. QED
  BY <1>2, <1>3

\* The class of a thing says whether it is there.
LEMMA ThereFacts ==
  ASSUME TypeOK, NEW c \in Concerns(kind), NEW w, NEW k \in Names[kind], NEW t \in c.on
  PROVE  /\ ThingIn(c, w, k)[t] = None <=> ~There(t, k)
         /\ ThingIn(c, w, k)[t] = "broken" <=> things[t][k] = "broken"
<1>1. ThingIn(c, w, k)[t] = ClassIn(c, w, things[t][k])
  BY DEF ThingIn
<1>2. c.words \cap {"this", "other"} = {}
  BY ConcernFacts
<1>3. QED
  BY <1>1, <1>2, ClassFacts DEF There

\* What a concern says of every name at rest, for any value of w.
LEMMA RestKept ==
  ASSUME TypeOK, AllReady, NEW c \in Concerns(kind), NEW w, Watched(c, w), Bears(c),
         NEW k \in Names[kind], AtRest(k)
  PROVE  RestOf(c, w, k) \in c.rest
BY DEF AllReady, Ready

\* RowsAreBacked for any names, values and sequences of requests and tasks:
\* what the system refused to do is in no row.
THEOREM NoRowWithoutItsThing ==
  ASSUME OneAtATime
  PROVE  Spec => []RowsAreBacked
<1>1. TypeOK /\ Orderly /\ AllReady => RowsAreBacked
  <2> SUFFICES ASSUME TypeOK, Orderly, AllReady, NEW t \in Backed[kind], NEW k \in Names[kind],
                      mishaps["crash"] = 0, AtRest(k), rows[t][k] # None
               PROVE  There(t, k)
    BY DEF RowsAreBacked
  <2>1. PICK c \in Concerns(kind) : c = Backing(kind, t)
    BY DEF Concerns
  <2>2. /\ t \in c.on /\ t \in c.rows /\ c.bears = {"call"} /\ ~c.alone
        /\ \A r \in c.rest : r.row[t] # None => r.thing[t] # None
    BY <2>1 DEF Backing, Concern
  <2>3. RestOf(c, None, k) \in c.rest
    BY <2>2, RestKept DEF Bears, Watched
  <2>4. RowsIn(c, None, k)[t] # None
    <3>1. c.words \cap {"this", "other"} = {}
      BY ConcernFacts
    <3>2. QED
      BY <2>2, <3>1, ClassFacts DEF RowsIn
  <2>5. ThingIn(c, None, k)[t] # None
    BY <2>2, <2>3, <2>4 DEF RestOf
  <2>6. QED
    BY <2>2, <2>5, ThereFacts
<1>2. QED
  BY <1>1, TypeCorrect, SessionsAreOrderly, ConcernsAreKept, PTL

\* ReferencesAreWrittenLast for any names, values and sequences of requests
\* and tasks, and failures and crashes at any step.
THEOREM NothingRefersToNothing ==
  ASSUME OneAtATime
  PROVE  Spec => []ReferencesAreWrittenLast
<1>1. TypeOK /\ Orderly /\ AllReady => ReferencesAreWrittenLast
  <2> SUFFICES ASSUME TypeOK, Orderly, AllReady, NEW k \in Names[kind]
               PROVE  /\ \A ab \in Supports[kind] : There(ab[1], k) => There(ab[2], k)
                      /\ Calm => \A ab \in CalmSupports[kind] : There(ab[1], k) => There(ab[2], k)
    BY DEF ReferencesAreWrittenLast
  <2>1. ASSUME NEW ab \in Supports[kind], There(ab[1], k)
        PROVE  There(ab[2], k)
    <3>1. PICK c \in Concerns(kind) : c = Reference(kind, ab[2])
      BY DEF Concerns
    <3>2. /\ ab[1] \in c.on /\ ab[2] \in c.on /\ c.bears = {"call", "crash"} /\ ~c.alone
          /\ \A r \in c.rest : r.thing \in c.always
          /\ \A f \in c.always : f[ab[1]] # None => f[ab[2]] # None
      BY <3>1 DEF Reference, Concern, Upheld, Refer
    <3>3. ThingIn(c, None, k) \in c.always
      BY <3>2, AlwaysKept DEF Bears
    <3>4. QED
      BY <2>1, <3>2, <3>3, ThereFacts
  <2>2. ASSUME Calm, NEW ab \in CalmSupports[kind], There(ab[1], k)
        PROVE  There(ab[2], k)
    <3>1. PICK c \in Concerns(kind) : c = CalmReference(kind, ab[2])
      BY DEF Concerns
    <3>2. /\ ab[1] \in c.on /\ ab[2] \in c.on /\ ~c.alone
          /\ \A r \in c.rest : r.thing \in c.always
          /\ \A f \in c.always : f[ab[1]] # None => f[ab[2]] # None
      BY <3>1 DEF CalmReference, Concern, Upheld, Refer
    <3>3. Bears(c)
      BY <2>2, <3>2 DEF Calm, Bears
    <3>4. ThingIn(c, None, k) \in c.always
      BY <3>2, <3>3, AlwaysKept
    <3>5. QED
      BY <2>2, <3>2, <3>4, ThereFacts
  <2>3. QED
    BY <2>1, <2>2
<1>2. QED
  BY <1>1, TypeCorrect, SessionsAreOrderly, ConcernsAreKept, PTL

\* SshdIsTested for any names, values and sequences of requests, and
\* failures and crashes at any step.
THEOREM SshdIsNeverBroken ==
  ASSUME OneAtATime
  PROVE  Spec => []SshdIsTested
<1>1. TypeOK /\ Orderly /\ AllReady => SshdIsTested
  <2> SUFFICES ASSUME TypeOK, Orderly, AllReady, kind = "ssh", NEW k \in Names[kind]
               PROVE  things["sshd"][k] # "broken"
    BY DEF SshdIsTested
  <2>1. PICK c \in Concerns(kind) : c = Tested
    BY DEF Concerns
  <2>2. /\ "sshd" \in c.on /\ c.bears = {"call", "crash"} /\ ~c.alone
        /\ \A r \in c.rest : r.thing \in c.always
        /\ \A f \in c.always : f["sshd"] # "broken"
    BY <2>1 DEF Tested, Concern
  <2>3. ThingIn(c, None, k) \in c.always
    BY <2>2, AlwaysKept DEF Bears
  <2>4. QED
    BY <2>2, <2>3, ThereFacts
<1>2. QED
  BY <1>1, TypeCorrect, SessionsAreOrderly, ConcernsAreKept, PTL

\* Those that watch a value bear no mishap.
LEMMA WatchingFacts ==
  ASSUME NEW m, NEW on, NEW inRows, NEW follows, NEW c, c = Watching(m, on, inRows, follows)
  PROVE  /\ c.on = on /\ c.rows = inRows /\ c.follows = follows /\ c.watch /\ c.bears = {}
         /\ c.alone => m = "zones"
BY DEF Watching, Concern

LEMMA CalmBears ==
  ASSUME TypeOK, NoMishap, NEW c, c.bears = {}, c.alone => \A j, k \in Names[kind] : j = k
  PROVE  Bears(c)
BY DEF TypeOK, NoMishap, Bears

\* The kind zones is one zone with one record, which goes with it.
ZonesAreAlone == kind = "zones" => \A j, k \in Names[kind] : j = k

\* SystemFollowsRows for any names, values and sequences of requests and
\* tasks, whatever value is written: create, update and delete undo and redo
\* each other for every kind, for the zones while there is one.
THEOREM SystemIsWhatRowsSay ==
  ASSUME OneAtATime
  PROVE  Spec => [](ZonesAreAlone => SystemFollowsRows)
<1>1. TypeOK /\ Orderly /\ AllReady => (ZonesAreAlone => SystemFollowsRows)
  <2> SUFFICES ASSUME TypeOK, Orderly, AllReady, ZonesAreAlone, NoMishap,
                      NEW t \in Followed[kind], NEW k \in Names[kind], AtRest(k)
               PROVE  things[t][k] = Shown(rows[t][k])
    BY DEF SystemFollowsRows, Agree
  <2>1. PICK c \in Concerns(kind) : c = Following(kind, t)
    BY DEF Concerns
  <2>2. /\ c.follows = {t} /\ c.watch /\ c.bears = {} /\ (c.alone => kind = "zones")
        /\ t \in c.on /\ t \in c.rows
    BY <2>1, WatchingFacts DEF Following
  <2>3. PICK w : w = things[t][k]
    OBVIOUS
  <2>4. RestOf(c, w, k) \in c.rest
    BY <2>2, CalmBears, RestKept DEF ZonesAreAlone, Watched
  <2>5. ClassIn(c, w, w) = Shown(ClassIn(c, w, rows[t][k]))
    <3>1. \A r \in c.rest : \A u \in c.follows : r.thing[u] = Shown(r.row[u])
      BY ConcernFacts
    <3>2. RestOf(c, w, k).thing[t] = Shown(RestOf(c, w, k).row[t])
      BY <2>2, <2>4, <3>1
    <3>3. QED
      BY <2>2, <2>3, <3>2 DEF RestOf, ThingIn, RowsIn
  <2>6. c.words \cap {"this", "other"} = {}
    BY ConcernFacts
  <2>7. ClassIn(c, w, Shown(rows[t][k])) = ClassIn(c, w, w)
    BY <2>5, <2>6, ClassFacts
  <2>8. QED
    BY <2>3, <2>6, <2>7, SameClass
<1>2. QED
  BY <1>1, TypeCorrect, SessionsAreOrderly, ConcernsAreKept, PTL

\* ServedAsWritten for any names, values and sequences of requests.
THEOREM WhatRunsIsWhatIsWritten ==
  ASSUME OneAtATime
  PROVE  Spec => []ServedAsWritten
<1>1. TypeOK /\ Orderly /\ AllReady => ServedAsWritten
  <2> SUFFICES ASSUME TypeOK, Orderly, AllReady, NoMishap, \A p \in Procs : ~Busy(p),
                      NEW ab \in Twins[kind], NEW k \in Names[kind]
               PROVE  things[ab[1]][k] = things[ab[2]][k]
    BY DEF ServedAsWritten
  <2>1. PICK c \in Concerns(kind) : c = Twinned(kind)
    BY DEF Concerns
  <2>2. c.watch /\ c.bears = {} /\ (c.alone => kind = "zones") /\ ab[1] \in c.on /\ ab[2] \in c.on
    <3> DEFINE on == (UNION {{cd[1], cd[2]} : cd \in Twins[kind]}) \cup For(WithTwins, kind)
               inRows == IF kind = "apache" THEN {"domain"} ELSE {}
    <3>1. c = Watching(kind, on, inRows, {})
      BY <2>1 DEF Twinned
    <3>2. ab[1] \in on /\ ab[2] \in on
      OBVIOUS
    <3> HIDE DEF on, inRows
    <3>3. QED
      BY <3>1, <3>2, WatchingFacts
  <2>3. kind \in DOMAIN Scripts \cap DOMAIN Handlers
    BY KindsAssumption DEF TypeOK
  <2>4. ~c.alone
    BY <2>1, <2>3, HandlersKeepTwins
  <2>5. PICK w : w = things[ab[2]][k]
    OBVIOUS
  <2>6. RestOf(c, w, k) \in c.rest
    BY <2>2, <2>4, CalmBears, RestKept DEF Watched, AtRest
  <2>7. RestOf(c, w, k).thing[ab[1]] = RestOf(c, w, k).thing[ab[2]]
    BY <2>1, <2>3, <2>6, HandlersKeepTwins
  <2>8. ClassIn(c, w, things[ab[1]][k]) = ClassIn(c, w, w)
    BY <2>2, <2>5, <2>7 DEF RestOf, ThingIn
  <2>9. c.words \cap {"this", "other"} = {}
    BY ConcernFacts
  <2>10. QED
    BY <2>5, <2>8, <2>9, SameClass
<1>2. QED
  BY <1>1, TypeCorrect, SessionsAreOrderly, ConcernsAreKept, PTL

\* ModeIsApplied for any names and modes, however often the firewall is
\* switched off and on.
THEOREM ModeOutlivesTheFirewall ==
  ASSUME OneAtATime
  PROVE  Spec => []ModeIsApplied
<1>1. TypeOK /\ Orderly /\ AllReady => ModeIsApplied
  <2> SUFFICES ASSUME TypeOK, Orderly, AllReady, kind \in Modes, NoMishap,
                      NEW k \in Names[kind], AtRest(k), There("meta", k)
               PROVE  things["waf_mode"][k] = things["mode"][k]
    BY DEF ModeIsApplied, Modes
  <2>1. PICK c \in Concerns(kind) : c = Moded(kind)
    BY DEF Concerns
  <2>2. /\ c.watch /\ c.bears = {} /\ (c.alone => kind = "zones")
        /\ c.on = {"meta", "mode", "waf_mode"}
    BY <2>1, WatchingFacts DEF Moded
  <2>3. PICK w : w = things["mode"][k]
    OBVIOUS
  <2>4. RestOf(c, w, k) \in c.rest
    BY <2>2, CalmBears, RestKept DEF Watched, Modes
  <2>5. kind \in DOMAIN Scripts \cap DOMAIN Handlers
    BY KindsAssumption DEF TypeOK
  <2>6. ThingIn(c, w, k)["meta"] # None
    BY <2>2, ThereFacts
  <2>7. RestOf(c, w, k).thing["waf_mode"] = RestOf(c, w, k).thing["mode"]
    BY <2>1, <2>4, <2>5, <2>6, HandlersKeepTwins DEF RestOf
  <2>8. ClassIn(c, w, things["waf_mode"][k]) = ClassIn(c, w, w)
    BY <2>2, <2>3, <2>7 DEF RestOf, ThingIn
  <2>9. c.words \cap {"this", "other"} = {}
    BY ConcernFacts
  <2>10. QED
    BY <2>3, <2>8, <2>9, SameClass
<1>2. QED
  BY <1>1, TypeCorrect, SessionsAreOrderly, ConcernsAreKept, PTL
=============================================================================
