----------------------------- MODULE OverlapProofs -----------------------------
(***************************************************************************)
(* Two promises that hold however many requests and tasks are at work at   *)
(* once, for all names, values and processes: a deployment rests on the    *)
(* lock of its row, a quota on where it is looked at.  What Flows finds of *)
(* each handler alone becomes an invariant of every session.               *)
(***************************************************************************)
EXTENDS FlowProofs, FiniteSetTheorems

\* What others do leaves q's session as it is, but for rows that have gone.
Carried(q) ==
  /\ Busy(q)' <=> Busy(q)
  /\ Busy(q) => /\ tx'[q].name = tx[q].name /\ tx'[q].at = tx[q].at /\ tx'[q].key = tx[q].key
                /\ tx'[q].mine = tx[q].mine /\ tx'[q].added = tx[q].added
                /\ tx'[q].seen = tx[q].seen /\ tx[q].gone \subseteq tx'[q].gone

\* p goes on, past the step it was at or where that leads when it refuses.
MovesOn(p, s, i) ==
  /\ Busy(p)' /\ tx'[p].at \in Lands[kind][tx[p].name][i]
  /\ tx'[p].name = tx[p].name /\ tx'[p].key = s.key /\ tx'[p].added = s.added
  /\ tx'[p].gone = s.gone /\ tx'[p].seen = s.seen /\ tx'[p].mine = s.mine
Refused(p) == rows' = rows /\ Here(p).or # 0 /\ MovesOn(p, tx[p], tx[p].at + Here(p).or)
Flushes(p, s) ==
  \/ NoChange(p) /\ s.mine = tx[p].mine /\ s.added = tx[p].added
  \/ /\ ~NoChange(p) /\ ~Broken(p) /\ s.mine = Flushed(p).mine /\ s.added = Flushed(p).added
Passed(p, s) ==
  /\ MovesOn(p, s, tx[p].at + 1)
  /\ s.gone = tx[p].gone /\ (tx[p].name \notin Tasks[kind] \/ Here(p).op # "mint" => s.key = tx[p].key)
  /\ IF Here(p).op = "commit"
     THEN /\ rows' = Committed(p) /\ s.mine = [t \in Tables |-> Same] /\ s.added = {}
          /\ s.seen = [t \in Tables |-> IF tx[p].mine[t] = Same THEN tx[p].seen[t] ELSE tx[p].mine[t]]
     ELSE /\ rows' = rows
          /\ IF Here(p).op = "need" THEN s.seen = Loaded(p).seen ELSE s.seen = tx[p].seen
          /\ IF Here(p).op \in RowOps THEN Flushes(p, s)
             ELSE s.mine = tx[p].mine /\ s.added = tx[p].added
  /\ Here(p).op \in {"need", "room"} => Holds(p)
GoesOnward(p) == Refused(p) \/ \E s : Passed(p, s)
Over(p) == /\ ~Busy(p)'
           /\ \/ rows' = rows
              \/ tx[p].at = Len(Steps(p)) + 1 /\ rows' = Committed(p)

LEMMA GoesCarries ==
  ASSUME TypeOK, NEW p \in Procs, NEW s, NEW i, Goes(p, s, i) \/ Stops(p)
  PROVE  (\A q \in Procs \ {p} : Carried(q)) /\ (Goes(p, s, i) => MovesOn(p, s, i))
BY DEF Goes, MovesOn, Stops, Carried, Busy

LEMMA OthersCarry ==
  ASSUME TypeOK, NEW p \in Procs, Busy(p), NEW q \in Procs \ {p}, tx'[q] = Others(p)[q]
  PROVE  Carried(q)
<1>1. CASE ~Busy(q)
  BY <1>1 DEF Others, Carried, Busy
<1>2. CASE Busy(q)
  <2>1. tx[q] \in Sessions
    BY <1>2 DEF TypeOK, Busy
  <2> DEFINE g == tx[q].gone \cup {t \in Deleted(p) : Key(q, t) = Key(p, t) /\ tx[q].seen[t] # Unread}
  <2>2. tx'[q] = [tx[q] EXCEPT !.gone = g]
    BY <1>2, <2>1 DEF Others, Sessions
  <2> HIDE DEF g
  <2>3. /\ tx'[q].name = tx[q].name /\ tx'[q].key = tx[q].key /\ tx'[q].at = tx[q].at
        /\ tx'[q].mine = tx[q].mine /\ tx'[q].added = tx[q].added /\ tx'[q].seen = tx[q].seen
        /\ tx'[q].gone = g
    BY <2>1, <2>2 DEF Sessions
  <2>4. Busy(q)'
    BY <1>2, CommitFacts DEF Busy
  <2>5. QED
    BY <1>2, <2>3, <2>4 DEF Carried, g
<1>3. QED
  BY <1>1, <1>2

LEMMA RefusedStep ==
  ASSUME TypeOK, NEW p \in Procs, Busy(p), rows' = rows, Refuse(p)
  PROVE  (\A q \in Procs \ {p} : Carried(q)) /\ (Over(p) \/ Refused(p))
BY RefuseFlow, GoesCarries DEF Over, Refused, Stops

LEMMA QueryStep ==
  ASSUME TypeOK, NEW p \in Procs, Query(p)
  PROVE  (\A q \in Procs \ {p} : Carried(q)) /\ (Over(p) \/ GoesOnward(p))
<1>1. /\ Busy(p) /\ rows' = rows /\ tx[p] \in Sessions /\ Here(p).op \notin RowOps \cup {"mint", "commit"}
  BY DEF Query, AtStep, TypeOK, Busy, Here, RowOps
<1>2. CASE ~Holds(p)
  BY <1>1, <1>2, RefusedStep DEF Query, GoesOnward
<1>3. CASE Holds(p) /\ Here(p).op # "need"
  <2>1. Goes(p, tx[p], tx[p].at + 1)
    BY <1>1, <1>3, Onward DEF Query, Advance
  <2>2. Passed(p, tx[p])
    BY <1>1, <1>3, <2>1, GoesCarries DEF Passed
  <2>3. QED
    BY <2>1, <2>2, GoesCarries DEF GoesOnward
<1>4. CASE Holds(p) /\ Here(p).op = "need"
  <2>1. /\ DOMAIN Loaded(p) = DOMAIN tx[p] /\ Loaded(p).name = tx[p].name
        /\ Loaded(p).key = tx[p].key /\ Loaded(p).added = tx[p].added
        /\ Loaded(p).gone = tx[p].gone /\ Loaded(p).mine = tx[p].mine
    BY <1>1 DEF Loaded, Sessions
  <2>2. Goes(p, Loaded(p), tx[p].at + 1)
    BY <1>1, <1>4, <2>1, Onward DEF Query, Advance
  <2>3. Passed(p, Loaded(p))
    BY <1>1, <1>4, <2>1, <2>2, GoesCarries DEF Passed
  <2>4. QED
    BY <2>2, <2>3, GoesCarries DEF GoesOnward
<1>5. QED
  BY <1>2, <1>3, <1>4

LEMMA NewKeyStep ==
  ASSUME TypeOK, NEW p \in Procs, NewKey(p)
  PROVE  (\A q \in Procs \ {p} : Carried(q)) /\ (Over(p) \/ GoesOnward(p))
<1>1. /\ Busy(p) /\ rows' = rows /\ tx[p] \in Sessions /\ Here(p).op = "mint"
  BY DEF NewKey, AtStep, TypeOK, Busy, Here
<1>2. CASE Unused(p) = {}
  BY <1>1, <1>2, RefusedStep DEF NewKey, GoesOnward
<1>3. CASE Unused(p) # {}
  <2>1. PICK k \in Unused(p) : Advance(p, [tx[p] EXCEPT !.key = k])
    BY <1>3 DEF NewKey
  <2> DEFINE s == [tx[p] EXCEPT !.key = k]
  <2>2. /\ DOMAIN s = DOMAIN tx[p] /\ s.name = tx[p].name /\ s.key = k
        /\ s.added = tx[p].added /\ s.seen = tx[p].seen
        /\ s.gone = tx[p].gone /\ s.mine = tx[p].mine
    BY <1>1 DEF Sessions
  <2> HIDE DEF s
  <2>3. Goes(p, s, tx[p].at + 1)
    BY <1>1, <2>1, <2>2, Onward DEF Advance, s
  <2>4. tx[p].name \notin Tasks[kind] => k = tx[p].key
    BY DEF Unused
  <2>5. Passed(p, s)
    BY <1>1, <2>2, <2>3, <2>4, GoesCarries DEF Passed, RowOps
  <2>6. QED
    BY <2>3, <2>5, GoesCarries DEF GoesOnward
<1>4. QED
  BY <1>2, <1>3

LEMMA FlushStep ==
  ASSUME TypeOK, NEW p \in Procs, Flush(p)
  PROVE  (\A q \in Procs \ {p} : Carried(q)) /\ (Over(p) \/ GoesOnward(p))
<1>1. /\ Busy(p) /\ rows' = rows /\ tx[p] \in Sessions /\ Here(p).op \in RowOps
  BY DEF Flush, AtStep, TypeOK, Busy, Here, RowOps
<1>2. CASE NoChange(p)
  <2>1. Goes(p, tx[p], tx[p].at + 1)
    BY <1>1, <1>2, Onward DEF Flush, Advance
  <2>2. Passed(p, tx[p])
    BY <1>1, <1>2, <2>1, GoesCarries DEF Passed, RowOps, Flushes
  <2>3. QED
    BY <2>1, <2>2, GoesCarries DEF GoesOnward
<1>3. CASE ~NoChange(p) /\ Broken(p)
  <2>1. Stops(p)
    BY <1>3, Ends DEF Flush, Abort
  <2>2. QED
    BY <1>1, <2>1, GoesCarries DEF Over, Stops
<1>4. CASE ~NoChange(p) /\ ~Broken(p)
  <2>1. /\ DOMAIN Flushed(p) = DOMAIN tx[p] /\ Flushed(p).name = tx[p].name
        /\ Flushed(p).key = tx[p].key /\ Flushed(p).seen = tx[p].seen
        /\ Flushed(p).gone = tx[p].gone
    BY <1>1 DEF Flushed, Sessions
  <2>2. Goes(p, Flushed(p), tx[p].at + 1)
    BY <1>1, <1>4, <2>1, Onward DEF Flush, Advance
  <2>3. Passed(p, Flushed(p))
    BY <1>1, <1>4, <2>1, <2>2, GoesCarries DEF Passed, RowOps, Flushes
  <2>4. QED
    BY <2>2, <2>3, GoesCarries DEF GoesOnward
<1>5. QED
  BY <1>2, <1>3, <1>4

LEMMA CommitNowStep ==
  ASSUME TypeOK, NEW p \in Procs, CommitNow(p)
  PROVE  (\A q \in Procs \ {p} : Carried(q)) /\ GoesOnward(p)
<1>1. /\ Busy(p) /\ rows' = Committed(p) /\ tx[p] \in Sessions /\ Here(p).op = "commit"
  BY DEF CommitNow, AtStep, TypeOK, Busy, Here
<1> DEFINE seen == [t \in Tables |-> IF tx[p].mine[t] = Same THEN tx[p].seen[t] ELSE tx[p].mine[t]]
           s(at) == [tx[p] EXCEPT !.at = at, !.seen = seen, !.mine = [t \in Tables |-> Same], !.added = {}]
<1>2. PICK at \in Lands[kind][tx[p].name][tx[p].at + 1] : tx' = [Others(p) EXCEPT ![p] = s(at)]
  BY DEF CommitNow
<1>3. tx'[p] = s(at) /\ \A q \in Procs \ {p} : tx'[q] = Others(p)[q]
  BY <1>1, <1>2, CommitFacts
<1> HIDE DEF seen
<1>4. /\ s(at).name = tx[p].name /\ s(at).key = tx[p].key /\ s(at).at = at
      /\ s(at).asked = tx[p].asked /\ s(at).gone = tx[p].gone /\ s(at).file = tx[p].file
      /\ s(at).added = {} /\ s(at).mine = [t \in Tables |-> Same] /\ s(at).seen = seen
  BY <1>1 DEF Sessions
<1>5. \A q \in Procs \ {p} : Carried(q)
  BY <1>1, <1>3, OthersCarry
<1>6. Busy(p)'
  BY CommitNowFacts
<1> HIDE DEF s
<1>7. MovesOn(p, s(at), tx[p].at + 1)
  BY <1>2, <1>3, <1>4, <1>6 DEF MovesOn
<1>8. Passed(p, s(at))
  BY <1>1, <1>4, <1>7 DEF Passed, seen
<1>9. QED
  BY <1>5, <1>8 DEF GoesOnward

LEMMA ReturnStep ==
  ASSUME TypeOK, NEW p \in Procs, Return(p)
  PROVE  (\A q \in Procs \ {p} : Carried(q)) /\ Over(p)
<1>1. /\ Busy(p) /\ rows' = Committed(p) /\ tx[p].at = Len(Steps(p)) + 1
      /\ tx' = [Others(p) EXCEPT ![p] = Idle]
  BY DEF Return
<1>2. tx'[p] = Idle /\ \A q \in Procs \ {p} : tx'[q] = Others(p)[q]
  BY <1>1, CommitFacts
<1>3. QED
  BY <1>1, <1>2, OthersCarry DEF Over, Busy

LEMMA CallStep ==
  ASSUME TypeOK, NEW p \in Procs, Call(p) \/ CallFails(p)
  PROVE  (\A q \in Procs \ {p} : Carried(q)) /\ (Over(p) \/ GoesOnward(p))
<1>1. /\ Busy(p) /\ rows' = rows /\ tx[p] \in Sessions
      /\ Here(p).op \notin RowOps \cup {"mint", "commit", "need", "room"}
  BY DEF Call, CallFails, AtStep, TypeOK, Busy, Here, RowOps, Changes
<1>2. CASE Refuse(p)
  BY <1>1, <1>2, RefusedStep DEF GoesOnward
<1>3. CASE ~Refuse(p)
  <2>1. Advance(p, Written(p))
    BY <1>3 DEF Call, CallFails
  <2>2. /\ DOMAIN Written(p) = DOMAIN tx[p] /\ Written(p).name = tx[p].name
        /\ Written(p).key = tx[p].key /\ Written(p).added = tx[p].added
        /\ Written(p).gone = tx[p].gone /\ Written(p).mine = tx[p].mine
        /\ Written(p).seen = tx[p].seen
    BY <1>1 DEF Written, Sessions
  <2>3. Goes(p, Written(p), tx[p].at + 1)
    BY <1>1, <2>1, <2>2, Onward DEF Advance
  <2>4. Passed(p, Written(p))
    BY <1>1, <2>2, <2>3, GoesCarries DEF Passed
  <2>5. QED
    BY <2>3, <2>4, GoesCarries DEF GoesOnward
<1>4. QED
  BY <1>2, <1>3

LEMMA AskFailsStep ==
  ASSUME TypeOK, NEW p \in Procs, AskFails(p)
  PROVE  (\A q \in Procs \ {p} : Carried(q)) /\ (Over(p) \/ GoesOnward(p))
<1>1. /\ Busy(p) /\ rows' = rows /\ tx[p] \in Sessions /\ Refuse(p)
      /\ Here(p).op \notin RowOps \cup {"mint", "commit", "need", "room"}
  BY DEF AskFails, AtStep, TypeOK, Busy, Here, RowOps
<1>2. QED
  BY <1>1, RefusedStep DEF GoesOnward

LEMMA ReadFileStep ==
  ASSUME TypeOK, NEW p \in Procs, ReadFile(p)
  PROVE  (\A q \in Procs \ {p} : Carried(q)) /\ (Over(p) \/ GoesOnward(p))
<1>1. /\ Busy(p) /\ rows' = rows /\ tx[p] \in Sessions
      /\ Here(p).op \notin RowOps \cup {"mint", "commit", "need", "room"}
  BY DEF ReadFile, AtStep, TypeOK, Busy, Here, RowOps
<1>2. PICK f : Advance(p, [tx[p] EXCEPT !.file = f])
  BY <1>1 DEF ReadFile, Sessions
<1> DEFINE s == [tx[p] EXCEPT !.file = f]
<1>3. /\ DOMAIN s = DOMAIN tx[p] /\ s.name = tx[p].name /\ s.key = tx[p].key
      /\ s.added = tx[p].added /\ s.gone = tx[p].gone /\ s.mine = tx[p].mine /\ s.seen = tx[p].seen
  BY <1>1 DEF Sessions
<1> HIDE DEF s
<1>4. Goes(p, s, tx[p].at + 1)
  BY <1>1, <1>2, <1>3, Onward DEF Advance, s
<1>5. Passed(p, s)
  BY <1>1, <1>3, <1>4, GoesCarries DEF Passed
<1>6. QED
  BY <1>4, <1>5, GoesCarries DEF GoesOnward

LEMMA ControlStep ==
  ASSUME TypeOK, NEW p \in Procs, Control(p)
  PROVE  (\A q \in Procs \ {p} : Carried(q)) /\ (Over(p) \/ GoesOnward(p))
<1>1. /\ Busy(p) /\ rows' = rows /\ tx[p] \in Sessions
      /\ Here(p).op \notin RowOps \cup {"mint", "commit", "need", "room"}
  BY DEF Control, AtStep, TypeOK, Busy, Here, RowOps
<1>2. CASE Refuse(p)
  BY <1>1, <1>2, RefusedStep DEF GoesOnward
<1>3. CASE ~Refuse(p)
  <2>1. PICK again : Advance(p, [tx[p] EXCEPT !.again = again])
    BY <1>3 DEF Control
  <2> DEFINE s == [tx[p] EXCEPT !.again = again]
  <2>2. /\ DOMAIN s = DOMAIN tx[p] /\ s.name = tx[p].name /\ s.key = tx[p].key
        /\ s.added = tx[p].added /\ s.gone = tx[p].gone /\ s.mine = tx[p].mine /\ s.seen = tx[p].seen
    BY <1>1 DEF Sessions
  <2> HIDE DEF s
  <2>3. Goes(p, s, tx[p].at + 1)
    BY <1>1, <2>1, <2>2, Onward DEF Advance, s
  <2>4. Passed(p, s)
    BY <1>1, <2>2, <2>3, GoesCarries DEF Passed
  <2>5. QED
    BY <2>3, <2>4, GoesCarries DEF GoesOnward
<1>4. QED
  BY <1>2, <1>3

LEMMA CrashStep ==
  ASSUME TypeOK, NEW p \in Procs, Crash(p)
  PROVE  (\A q \in Procs \ {p} : Carried(q)) /\ Over(p)
<1>1. Stops(p) /\ rows' = rows
  BY Ends DEF Crash
<1>2. QED
  BY <1>1, GoesCarries DEF Over, Stops

\* What a process does to its session and to those of others.
LEMMA OwnStep ==
  ASSUME TypeOK, NEW p \in Procs, Runs(p) \/ CallFails(p) \/ AskFails(p) \/ Crash(p)
  PROVE  /\ Busy(p) /\ kind' = kind /\ mishaps'["overlap"] = mishaps["overlap"]
         /\ \A q \in Procs \ {p} : Carried(q)
         /\ Over(p) \/ GoesOnward(p)
         /\ ~Over(p) => tx[p].at \in DOMAIN Steps(p)
<1>1. Busy(p) /\ kind' = kind
  BY DEF Runs, Query, NewKey, Flush, CommitNow, Return, Call, ReadFile, Control, CallFails, AskFails,
         Crash, AtStep
<1>2. mishaps'["overlap"] = mishaps["overlap"]
  BY DEF Runs, Query, NewKey, Flush, CommitNow, Return, Call, ReadFile, Control, CallFails, AskFails,
         Crash, Mishap, TypeOK
<1>3. (\A q \in Procs \ {p} : Carried(q)) /\ (Over(p) \/ GoesOnward(p))
  BY QueryStep, NewKeyStep, FlushStep, CommitNowStep, ReturnStep, CallStep, AskFailsStep,
     ReadFileStep, ControlStep, CrashStep
     DEF Runs
<1>4. Return(p) \/ Crash(p) \/ tx[p].at \in DOMAIN Steps(p)
  BY DEF Runs, Query, NewKey, Flush, CommitNow, Call, ReadFile, Control, CallFails, AskFails, AtStep
<1>5. QED
  BY <1>1, <1>2, <1>3, <1>4, ReturnStep, CrashStep
-----------------------------------------------------------------------------
(* A deployment marks its row before it works on the tree, and what it has *)
(* marked stays locked.                                                    *)

MarkedSession(p, c) ==
  /\ tx[p].seen[c.on] # c.val /\ {c.on, RowOf(c.on)} \cap tx[p].added = {}
  /\ MarkOf(c, tx[p].mine[c.on]) \in MarkedAt(kind, tx[p].name, c)[tx[p].at]
\* Nobody else ever sees the mark.
Hidden(c) ==
  kind = "git" => /\ \A k \in Names[kind] : rows[c.on][k] # c.val
                  /\ \A p \in Procs : Busy(p) => MarkedSession(p, c)

LEMMA MarkFacts ==
  ASSUME TypeOK, kind = "git", NEW c, c = Deploying
  PROVE  /\ kind \in Kinds /\ c.on \in Tables /\ RowIn(kind, c.on) = RowOf(c.on)
         /\ {c.on, RowOf(c.on)} \cap (Singles[kind] \cup Given[kind]) = {}
         /\ \A n \in DOMAIN Scripts[kind] : MarksFirst(kind, n, c)
         /\ c.val \notin {Same, Unread, None, "there", "twice"}
<1>1. kind \in Kinds /\ kind \in DOMAIN Scripts \cap DOMAIN Handlers
  BY KindsAssumption DEF TypeOK
<1>2. /\ c.on \in TablesIn(kind)
      /\ {c.on, RowIn(kind, c.on)} \cap (Singles[kind] \cup Given[kind]) = {}
      /\ \A n \in DOMAIN Scripts[kind] : MarksFirst(kind, n, c)
  BY <1>1, DeploysAreMarked
<1>3. c.on \in Tables
  BY <1>1, <1>2, SameTables DEF TypeOK, Tables
<1>4. c.val = "deploying"
  BY DEF Deploying
<1>5. RowIn(kind, c.on) = RowOf(c.on)
  BY DEF RowIn, RowOf
<1>6. QED
  BY <1>1, <1>2, <1>3, <1>4, <1>5 DEF Same, Unread, None

\* What MarksFirst says of the step that p is at.
LEMMA MarkStep ==
  ASSUME TypeOK, kind = "git", NEW c, c = Deploying, NEW p \in Procs, Busy(p), tx[p].at \in DOMAIN Steps(p),
         NEW x \in MarkedAt(kind, tx[p].name, c)[tx[p].at]
  PROVE  /\ Here(p).op = "commit" => x # "marked"
         /\ Here(p).op \in Changes /\ Here(p).on \in c.over => x # "same"
         /\ Here(p).op \in RowOps /\ Here(p).on = c.on =>
              Here(p).op = "update" /\ Here(p).val \notin {Asked, Kept, Found}
         /\ Here(p).op = "add" => Here(p).on # RowOf(c.on)
         /\ \A j \in Lands[kind][tx[p].name][tx[p].at + 1] :
              Marks(kind, c, Here(p), x) \subseteq MarkedAt(kind, tx[p].name, c)[j]
         /\ Here(p).or # 0 => \A j \in Lands[kind][tx[p].name][tx[p].at + Here(p).or] :
              x \in MarkedAt(kind, tx[p].name, c)[j]
<1>1. tx[p].name \in DOMAIN Scripts[kind] /\ tx[p].at \in DOMAIN Scripts[kind][tx[p].name]
  BY StepFacts DEF Steps
<1>2. MarksFirst(kind, tx[p].name, c) /\ Lands[kind][tx[p].name] = LandsIn(Scripts[kind][tx[p].name])
      /\ RowIn(kind, c.on) = RowOf(c.on)
  BY <1>1, MarkFacts, LandsFacts
<1> DEFINE n == tx[p].name
           s == Scripts[kind][n]
           at == MarkedAt(kind, n, c)
           lands == LandsIn(s)
<1>3. \A i \in DOMAIN s :
        /\ s[i].op = "commit" => "marked" \notin at[i]
        /\ s[i].op \in Changes /\ s[i].on \in c.over => "same" \notin at[i]
        /\ s[i].op \in RowOps /\ s[i].on = c.on => s[i].op = "update" /\ s[i].val \notin {Asked, Kept, Found}
        /\ s[i].op = "add" => s[i].on # RowIn(kind, c.on)
        /\ \A y \in at[i] :
             /\ \A j \in lands[i + 1] : Marks(kind, c, s[i], y) \subseteq at[j]
             /\ s[i].or # 0 => \A j \in lands[i + s[i].or] : y \in at[j]
  BY <1>2 DEF MarksFirst
<1>4. Here(p) = s[tx[p].at] /\ Lands[kind][n] = lands /\ x \in at[tx[p].at]
  BY <1>2 DEF Here, Steps
<1>0. tx[p].at \in DOMAIN s /\ RowIn(kind, c.on) = RowOf(c.on)
  BY <1>1, <1>2
<1> HIDE DEF n, s, at, lands
<1>5. /\ Here(p).op = "commit" => x # "marked"
      /\ Here(p).op \in Changes /\ Here(p).on \in c.over => x # "same"
      /\ Here(p).op \in RowOps /\ Here(p).on = c.on =>
           Here(p).op = "update" /\ Here(p).val \notin {Asked, Kept, Found}
      /\ Here(p).op = "add" => Here(p).on # RowOf(c.on)
      /\ \A j \in lands[tx[p].at + 1] : Marks(kind, c, Here(p), x) \subseteq at[j]
      /\ Here(p).or # 0 => \A j \in lands[tx[p].at + Here(p).or] : x \in at[j]
  BY <1>0, <1>3, <1>4
<1>6. QED
  BY <1>4, <1>5 DEF n, at

\* What is committed is not the mark.
LEMMA MarkNotCommitted ==
  ASSUME TypeOK, kind = "git", NEW c, c = Deploying, Hidden(c), NEW p \in Procs, Busy(p),
         MarkOf(c, tx[p].mine[c.on]) # "marked"
  PROVE  \A k \in Names[kind] : Committed(p)[c.on][k] # c.val
<1>1. \A k \in Names[kind] : Committed(p)[c.on][k] = Visible(p, c.on, k)
  BY MarkFacts DEF Committed
<1>2. tx[p].mine[c.on] # c.val
  BY MarkFacts DEF MarkOf
<1>3. QED
  BY <1>1, <1>2, MarkFacts DEF Visible, Hidden

\* What a flush makes of the mark.
LEMMA MarkFlushed ==
  ASSUME TypeOK, kind = "git", NEW c, c = Deploying, Hidden(c), NEW p \in Procs, Busy(p),
         tx[p].at \in DOMAIN Steps(p), Here(p).op \in RowOps, NEW s, Flushes(p, s)
  PROVE  /\ MarkOf(c, s.mine[c.on]) \in Marks(kind, c, Here(p), MarkOf(c, tx[p].mine[c.on]))
         /\ {c.on, RowOf(c.on)} \cap s.added = {}
<1> DEFINE x == MarkOf(c, tx[p].mine[c.on])
           e == Here(p)
<1>1. /\ MarkedSession(p, c) /\ tx[p] \in Sessions /\ c.on \in Tables
      /\ x \in MarkedAt(kind, tx[p].name, c)[tx[p].at]
  BY MarkFacts DEF Hidden, TypeOK, Busy, MarkedSession
<1>2. /\ e.on = c.on => e.op = "update" /\ e.val \notin {Asked, Kept, Found}
      /\ e.op = "add" => e.on \notin {c.on, RowOf(c.on)}
  BY <1>1, MarkStep
<1>3. e.op \notin Untabled /\ e.val # Same /\ e.val \in Values
  <2>1. e.op \notin Untabled
    BY DEF RowOps, Untabled
  <2>2. e.val \in Values
    BY StepFacts DEF AStep
  <2>3. QED
    BY <2>1, <2>2, NoValue
<1>4. e.on = c.on => Value(p) = e.val
  BY <1>2 DEF Value
<1>5. View(p, c.on) = c.val => x = "marked"
  <2>1. ASSUME tx[p].mine[c.on] = Same PROVE View(p, c.on) # c.val
    <3>1. rows[c.on][Key(p, c.on)] # c.val
      BY KeyFacts DEF Hidden
    <3>2. Own(p, c.on) = rows[c.on][Key(p, c.on)]
      BY <2>1 DEF Own, Visible
    <3>3. QED
      BY <1>1, <2>1, <3>1, <3>2 DEF View, MarkedSession
  <2>2. ASSUME tx[p].mine[c.on] # Same PROVE View(p, c.on) = tx[p].mine[c.on]
    BY <1>1, <2>2 DEF View, Own, Visible, MarkedSession
  <2>3. QED
    BY <2>1, <2>2, MarkFacts DEF MarkOf
<1>6. x = "marked" => View(p, c.on) = c.val
  BY <1>1, MarkFacts DEF MarkOf, View, Own, Visible, MarkedSession
<1>7. CASE NoChange(p) /\ s.mine = tx[p].mine /\ s.added = tx[p].added
  <2>1. x \in Marks(kind, c, e, x)
    <3>1. CASE e.on = c.on
      <4>1. e.op = "update" /\ View(p, c.on) = e.val
        BY <1>2, <1>4, <1>7, <3>1 DEF NoChange
      <4>2. QED
        BY <1>5, <1>6, <3>1, <4>1 DEF Marks
    <3>2. CASE e.on # c.on
      BY <3>2 DEF Marks, RowOps
    <3>3. QED
      BY <3>1, <3>2
  <2>2. QED
    BY <1>1, <1>7, <2>1 DEF MarkedSession
<1>8. CASE s.mine = Flushed(p).mine /\ s.added = Flushed(p).added
  <2>1. /\ s.added = IF e.op = "add" THEN tx[p].added \cup {e.on} ELSE tx[p].added \ {e.on}
        /\ s.mine[c.on] = IF c.on = e.on
                       THEN IF Own(p, c.on) = "twice" /\ e.op # "clear"
                            THEN IF e.op = "delete" THEN "there" ELSE "twice"
                            ELSE Value(p)
                       ELSE IF e.op \in {"delete", "clear"} /\ RowOf(c.on) = e.on THEN None
                       ELSE tx[p].mine[c.on]
    BY <1>1, <1>8 DEF Flushed, Sessions
  <2>2. {c.on, RowOf(c.on)} \cap s.added = {}
    BY <1>1, <1>2, <2>1 DEF MarkedSession
  <2>3. CASE c.on = e.on
    <3>1. s.mine[c.on] \in {"twice", e.val}
      BY <1>2, <1>4, <2>1, <2>3
    <3>2. "twice" \notin {Same, c.val}
      BY MarkFacts DEF Same
    <3>3. QED
      BY <1>2, <1>3, <2>2, <2>3, <3>1, <3>2 DEF MarkOf, Marks
  <2>4. CASE c.on # e.on
    <3>1. None \notin {Same, c.val}
      BY MarkFacts DEF Same, None
    <3>2. RowIn(kind, c.on) = RowOf(c.on)
      BY MarkFacts
    <3>3. QED
      BY <2>1, <2>2, <2>4, <3>1, <3>2 DEF MarkOf, Marks, RowOps
  <2>5. QED
    BY <2>3, <2>4
<1>9. QED
  BY <1>7, <1>8 DEF Flushes

\* p goes on, and the mark is as MarkedAt says.
LEMMA MarkOnward ==
  ASSUME TypeOK, kind = "git", NEW c, c = Deploying, Hidden(c), NEW p \in Procs, Busy(p),
         tx[p].at \in DOMAIN Steps(p), kind' = kind, GoesOnward(p)
  PROVE  MarkedSession(p, c)' /\ \A k \in Names[kind] : rows'[c.on][k] # c.val
<1> DEFINE x == MarkOf(c, tx[p].mine[c.on])
           n == tx[p].name
<1>1. /\ MarkedSession(p, c) /\ tx[p] \in Sessions /\ c.on \in Tables
      /\ x \in MarkedAt(kind, n, c)[tx[p].at] /\ \A k \in Names[kind] : rows[c.on][k] # c.val
  BY MarkFacts DEF Hidden, TypeOK, Busy, MarkedSession
<1>2. RowOf(c.on)' = RowOf(c.on)
  BY DEF RowOf
<1>3. CASE Refused(p)
  <2>1. /\ rows' = rows /\ Here(p).or # 0 /\ tx'[p].name = n
        /\ tx'[p].at \in Lands[kind][n][tx[p].at + Here(p).or]
        /\ tx'[p].added = tx[p].added /\ tx'[p].seen = tx[p].seen /\ tx'[p].mine = tx[p].mine
    BY <1>3 DEF Refused, MovesOn
  <2>2. x \in MarkedAt(kind, n, c)[tx'[p].at]
    BY <1>1, <2>1, MarkStep
  <2>3. QED
    BY <1>1, <1>2, <2>1, <2>2 DEF MarkedSession
<1>4. ASSUME NEW s, Passed(p, s)
      PROVE  MarkedSession(p, c)' /\ \A k \in Names[kind] : rows'[c.on][k] # c.val
  <2>1. /\ tx'[p].at \in Lands[kind][n][tx[p].at + 1] /\ tx'[p].name = n
        /\ tx'[p].added = s.added /\ tx'[p].seen = s.seen /\ tx'[p].mine = s.mine
    BY <1>4 DEF Passed, MovesOn
  <2>2. Marks(kind, c, Here(p), x) \subseteq MarkedAt(kind, n, c)[tx'[p].at]
    BY <1>1, <2>1, MarkStep
  <2>3. SUFFICES /\ s.seen[c.on] # c.val /\ {c.on, RowOf(c.on)} \cap s.added = {}
                 /\ MarkOf(c, s.mine[c.on]) \in Marks(kind, c, Here(p), x)
                 /\ \A k \in Names[kind] : rows'[c.on][k] # c.val
    BY <1>2, <2>1, <2>2 DEF MarkedSession
  <2>4. CASE Here(p).op = "commit"
    <3>1. /\ rows' = Committed(p) /\ s.mine[c.on] = Same /\ s.added = {}
          /\ s.seen[c.on] = IF tx[p].mine[c.on] = Same THEN tx[p].seen[c.on] ELSE tx[p].mine[c.on]
      BY <1>1, <1>4, <2>4 DEF Passed
    <3>2. x # "marked"
      BY <1>1, <2>4, MarkStep
    <3>3. tx[p].mine[c.on] # c.val
      BY <3>2, MarkFacts DEF MarkOf
    <3>4. \A k \in Names[kind] : rows'[c.on][k] # c.val
      BY <3>1, <3>2, MarkNotCommitted
    <3>5. MarkOf(c, s.mine[c.on]) \in Marks(kind, c, Here(p), x)
      BY <2>4, <3>1 DEF MarkOf, Marks, RowOps
    <3>6. QED
      BY <1>1, <3>1, <3>3, <3>4, <3>5 DEF MarkedSession
  <2>5. CASE Here(p).op # "commit"
    <3>1. rows' = rows
      BY <1>4, <2>5 DEF Passed
    <3>2. s.seen[c.on] # c.val
      <4>1. CASE Here(p).op # "need"
        BY <1>1, <1>4, <2>5, <4>1 DEF Passed, MarkedSession
      <4>2. CASE Here(p).op = "need"
        <5>1. s.seen[c.on] = IF RowOf(c.on) = Here(p).on /\ tx[p].seen[c.on] = Unread
                             THEN rows[c.on][Key(p, c.on)] ELSE tx[p].seen[c.on]
          BY <1>1, <1>4, <2>5, <4>2 DEF Passed, Loaded, Sessions
        <5>2. QED
          BY <1>1, <5>1, KeyFacts DEF MarkedSession
      <4>3. QED
        BY <4>1, <4>2
    <3>3. /\ MarkOf(c, s.mine[c.on]) \in Marks(kind, c, Here(p), x)
          /\ {c.on, RowOf(c.on)} \cap s.added = {}
      <4>1. CASE Here(p).op \in RowOps
        <5>1. Flushes(p, s)
          BY <1>4, <2>5, <4>1 DEF Passed
        <5>2. QED
          BY <4>1, <5>1, MarkFlushed
      <4>2. CASE Here(p).op \notin RowOps
        <5>1. s.mine = tx[p].mine /\ s.added = tx[p].added
          BY <1>4, <2>5, <4>2 DEF Passed
        <5>2. x \in Marks(kind, c, Here(p), x)
          BY <2>5, <4>2 DEF Marks, RowOps
        <5>3. QED
          BY <1>1, <5>1, <5>2 DEF MarkedSession
      <4>3. QED
        BY <4>1, <4>2
    <3>4. QED
      BY <1>1, <3>1, <3>2, <3>3
  <2>6. QED
    BY <2>4, <2>5
<1>5. QED
  BY <1>3, <1>4 DEF GoesOnward

\* p is done, and has taken its mark back.
LEMMA MarkOver ==
  ASSUME TypeOK, kind = "git", NEW c, c = Deploying, Hidden(c), NEW p \in Procs, Busy(p), Over(p)
  PROVE  \A k \in Names[kind] : rows'[c.on][k] # c.val
<1>1. CASE rows' = rows
  BY <1>1 DEF Hidden
<1>2. CASE tx[p].at = Len(Steps(p)) + 1 /\ rows' = Committed(p)
  <2>1. MarkedSession(p, c) /\ tx[p].name \in DOMAIN Scripts[kind]
    BY DEF Hidden, TypeOK, Busy, Sessions
  <2>2. "marked" \notin MarkedAt(kind, tx[p].name, c)[tx[p].at]
    BY <1>2, <2>1, MarkFacts DEF MarksFirst, Steps
  <2>3. QED
    BY <1>2, <2>1, <2>2, MarkNotCommitted DEF MarkedSession
<1>3. QED
  BY <1>1, <1>2 DEF Over

\* A session that has begun has no mark.
LEMMA MarkFirst ==
  ASSUME TypeOK, kind = "git", NEW c, c = Deploying, kind' = kind, NEW p \in Procs,
         NEW n \in DOMAIN Scripts[kind], NEW k \in Names[kind], NEW a \in Asks(n), Start(p, n, k, a)
  PROVE  MarkedSession(p, c)'
<1>1. /\ tx'[p].at \in Lands[kind][n][1] /\ tx'[p].name = n /\ tx'[p].added = {}
      /\ tx'[p].seen[c.on] = Unread /\ tx'[p].mine[c.on] = Same
  BY StartFlow, MarkFacts
<1>2. "same" \in MarkedAt(kind, n, c)[tx'[p].at]
  BY <1>1, MarkFacts, LandsFacts DEF MarksFirst
<1>3. MarkOf(c, Same) = "same" /\ Unread # c.val
  BY MarkFacts DEF MarkOf
<1>4. QED
  BY <1>1, <1>2, <1>3 DEF MarkedSession

LEMMA CarriesMark ==
  ASSUME NEW c, NEW q \in Procs, kind' = kind, Busy(q), Carried(q), MarkedSession(q, c)
  PROVE  MarkedSession(q, c)'
BY DEF Carried, MarkedSession, RowOf

LEMMA ArrivalStep ==
  ASSUME TypeOK, NEW p \in Procs, Begin(p) \/ \E j \in jobs : Take(p, j)
  PROVE  /\ kind' = kind /\ rows' = rows /\ ~Busy(p) /\ Overlaps(p)
         /\ \A q \in Procs \ {p} : tx'[q] = tx[q]
         /\ \E n \in DOMAIN Scripts[kind], k \in Names[kind] :
              \E a \in Asks(n) : Start(p, n, k, a)
<1>1. \A j \in jobs : j.name \in DOMAIN Scripts[kind] /\ j.key \in Names[kind]
  BY PanelAssumption DEF TypeOK
<1>2. \E n \in DOMAIN Scripts[kind], k \in Names[kind] : \E a \in Asks(n) : Start(p, n, k, a)
  BY <1>1 DEF Begin, Take
<1>3. QED
  BY <1>2, StartFlow DEF Begin, Take

LEMMA HiddenAtFirst ==
  ASSUME NEW c, c = Deploying, Init, TypeOK
  PROVE  Hidden(c)
<1> SUFFICES ASSUME Init, TypeOK, kind = "git" PROVE Hidden(c)
  BY DEF Hidden
<1>1. \A p \in Procs : ~Busy(p)
  BY DEF Init, Busy
<1>2. \A k \in Names[kind] : rows[c.on][k] = None
  BY MarkFacts DEF Init, Tables
<1>3. QED
  BY <1>1, <1>2, MarkFacts DEF Hidden

\* Nobody sees the mark, whoever else is at work.
LEMMA HiddenStays ==
  ASSUME NEW c, c = Deploying, TypeOK, Hidden(c), [Next]_vars
  PROVE  Hidden(c)'
<1> SUFFICES ASSUME (kind = "git")'
             PROVE  /\ \A k \in Names[kind]' : rows'[c.on][k] # c.val
                    /\ \A q \in Procs : Busy(q)' => MarkedSession(q, c)'
  BY DEF Hidden
<1>1. CASE Beat \/ UNCHANGED vars
  <2>1. kind' = kind /\ rows' = rows /\ tx' = tx
    BY <1>1 DEF Beat, vars
  <2>2. QED
    BY <2>1 DEF Hidden, MarkedSession, Busy, RowOf
<1>2. ASSUME NEW p \in Procs, Begin(p) \/ \E j \in jobs : Take(p, j)
      PROVE  /\ \A k \in Names[kind]' : rows'[c.on][k] # c.val
             /\ \A q \in Procs : Busy(q)' => MarkedSession(q, c)'
  <2>1. kind' = kind /\ kind = "git" /\ rows' = rows /\ \A q \in Procs \ {p} : tx'[q] = tx[q]
    BY <1>2, ArrivalStep
  <2>2. MarkedSession(p, c)'
    BY <1>2, <2>1, ArrivalStep, MarkFirst
  <2>3. ASSUME NEW q \in Procs \ {p}, Busy(q)' PROVE MarkedSession(q, c)'
    BY <2>1, <2>3 DEF Hidden, MarkedSession, Busy, RowOf
  <2>4. QED
    BY <2>1, <2>2, <2>3 DEF Hidden
<1>3. ASSUME NEW p \in Procs, Runs(p) \/ CallFails(p) \/ AskFails(p) \/ Crash(p)
      PROVE  /\ \A k \in Names[kind]' : rows'[c.on][k] # c.val
             /\ \A q \in Procs : Busy(q)' => MarkedSession(q, c)'
  <2>1. /\ Busy(p) /\ kind' = kind /\ kind = "git" /\ \A q \in Procs \ {p} : Carried(q)
        /\ Over(p) \/ (GoesOnward(p) /\ tx[p].at \in DOMAIN Steps(p))
    BY <1>3, OwnStep
  <2>2. ASSUME NEW q \in Procs \ {p}, Busy(q)' PROVE MarkedSession(q, c)'
    <3>1. Busy(q) /\ Carried(q)
      BY <2>1, <2>2 DEF Carried
    <3>2. QED
      BY <2>1, <3>1, CarriesMark DEF Hidden
  <2>3. CASE Over(p)
    BY <2>1, <2>2, <2>3, MarkOver DEF Over
  <2>4. CASE GoesOnward(p) /\ tx[p].at \in DOMAIN Steps(p)
    BY <2>1, <2>2, <2>4, MarkOnward
  <2>5. QED
    BY <2>1, <2>3, <2>4
<1>4. QED
  BY <1>1, <1>2, <1>3 DEF Next

\* Of two that deploy, both hold the row of the deployment, so that they
\* work on different ones: git and the build commands of one directory are
\* never run by two requests at once, however many there are.
THEOREM DeploysExclude == Spec => []OneDeployAtATime
<1> DEFINE c == Deploying
<1>1. TypeOK /\ Hidden(c) /\ LocksExclude => OneDeployAtATime
  <2> SUFFICES ASSUME TypeOK, Hidden(c), LocksExclude, kind = "git", NEW p \in Procs, NEW q \in Procs, p # q,
                      Deploys(p), Deploys(q), tx[p].key = tx[q].key
               PROVE  FALSE
    BY DEF OneDeployAtATime
  <2>1. ASSUME NEW r \in Procs, Deploys(r)
        PROVE  <<RowOf(c.on), tx[r].key>> \in Held(r)
    <3>1. /\ Busy(r) /\ tx[r].at \in DOMAIN Steps(r) /\ Here(r).op \in Changes
          /\ Here(r).on \in c.over
      BY <2>1 DEF Deploys, AtStep, Here, Deploying
    <3>2. MarkedSession(r, c)
      BY <3>1 DEF Hidden
    <3>3. MarkOf(c, tx[r].mine[c.on]) # "same"
      BY <3>1, <3>2, MarkStep DEF MarkedSession
    <3>4. tx[r].mine[c.on] # Same /\ RowOf(c.on) \notin tx[r].added
      BY <3>2, <3>3 DEF MarkOf, MarkedSession
    <3>5. c.on \in Tables /\ RowOf(c.on) \notin Singles[kind]
      BY MarkFacts
    <3>6. QED
      BY <3>1, <3>4, <3>5 DEF Held, Key
  <2>2. <<RowOf(c.on), tx[p].key>> \in Held(p) \cap Held(q)
    BY <2>1
  <2>3. QED
    BY <2>2 DEF LocksExclude
<1>2. Init /\ TypeOK => Hidden(c)
  BY HiddenAtFirst
<1>3. TypeOK /\ Hidden(c) /\ [Next]_vars => Hidden(c)'
  BY HiddenStays
<1> HIDE DEF c
<1>4. QED
  BY <1>1, <1>2, <1>3, TypeCorrect, RowsAreLockedOnce, PTL DEF Spec
-----------------------------------------------------------------------------
(* A quota is exceeded by no more than the requests that have looked at it *)
(* before others that looked at it have committed.                         *)

Behind(p, ops, t) == tx[p].at \in Past(Steps(p), ops, t)
\* What p's session says of its row of t: one that p has changed without
\* looking at the quota is active only if the committed row is.
CountedSession(p, t) ==
  /\ t \notin tx[p].added
  /\ tx[p].mine[t] # Same => Behind(p, RowOps, t)
  /\ tx[p].mine[t] # Same /\ ~Behind(p, {"room"}, t) /\ Shown(tx[p].mine[t]) # None =>
       Shown(rows[t][tx[p].key]) # None
AllCounted == \A t \in Quotas[kind] : \A p \in Procs : Busy(p) => CountedSession(p, t)

LEMMA QuotaFacts ==
  ASSUME TypeOK, NEW t \in Quotas[kind]
  PROVE  /\ kind \in Kinds /\ t \in Tables /\ t \notin Given[kind] /\ RowOf(t) = t
         /\ \A p : Key(p, t) = tx[p].key
         /\ \A n \in DOMAIN Scripts[kind] : CountsFirst(kind, n, t)
<1>1. kind \in Kinds /\ kind \in DOMAIN Scripts \cap DOMAIN Handlers
  BY KindsAssumption DEF TypeOK
<1>2. /\ t \in TablesIn(kind) /\ t \notin Singles[kind] \cup Given[kind] \cup DOMAIN Columns[kind]
      /\ \A n \in DOMAIN Scripts[kind] : CountsFirst(kind, n, t)
  BY <1>1, QuotasAreCounted
<1>3. t \in Tables
  BY <1>1, <1>2, SameTables DEF TypeOK, Tables
<1>4. QED
  BY <1>1, <1>2, <1>3 DEF RowOf, Key

\* What CountsFirst says of the step that p is at.
LEMMA CountStep ==
  ASSUME TypeOK, NEW t \in Quotas[kind], NEW p \in Procs, Busy(p), tx[p].at \in DOMAIN Steps(p)
  PROVE  /\ Here(p).op # "commit" /\ (Here(p).op = "mint" => tx[p].name \notin Tasks[kind])
         /\ Here(p).on = t =>
              /\ Here(p).op # "add"
              /\ Here(p).op = "room" => ~Behind(p, RowOps, t)
              /\ Here(p).op = "insert" => Behind(p, {"room"}, t)
              /\ Here(p).op \in {"update", "rekey"} => Here(p).val = "off"
              /\ Here(p).op \in {"delete", "clear"} => Here(p).val = None
<1>1. tx[p].name \in DOMAIN Scripts[kind] /\ tx[p].at \in DOMAIN Scripts[kind][tx[p].name]
  BY StepFacts DEF Steps
<1>2. CountsFirst(kind, tx[p].name, t)
  BY <1>1, QuotaFacts
<1>3. QED
  BY <1>1, <1>2 DEF CountsFirst, Here, Steps, Behind

\* Where the step that p is at leads, and where it does when it is refused.
LEMMA CountLeads ==
  ASSUME TypeOK, NEW t \in Quotas[kind], NEW p \in Procs, Busy(p), tx[p].at \in DOMAIN Steps(p),
         NEW j \in Lands[kind][tx[p].name][tx[p].at + 1]
  PROVE  /\ Behind(p, {"room"}, t) => j \in Past(Steps(p), {"room"}, t)
         /\ Behind(p, RowOps, t) => j \in Past(Steps(p), RowOps, t)
         /\ j \in Past(Steps(p), {"room"}, t) =>
              Behind(p, {"room"}, t) \/ (Here(p).op = "room" /\ Here(p).on = t)
         /\ Here(p).op \in RowOps /\ Here(p).on = t => j \in Past(Steps(p), RowOps, t)
<1> DEFINE n == tx[p].name
           s == Scripts[kind][n]
           lands == LandsIn(s)
           i == tx[p].at
<1>1. n \in DOMAIN Scripts[kind] /\ i \in DOMAIN s /\ Steps(p) = s /\ Here(p) = s[i]
  BY StepFacts DEF Steps, Here
<1>2. CountsFirst(kind, n, t) /\ Lands[kind][n] = lands
  BY <1>1, QuotaFacts, LandsFacts
<1>3. /\ OnlyBy(s, {"room"}, t)
      /\ Closed(s, Past(s, {"room"}, t)) /\ Closed(s, Past(s, RowOps, t))
      /\ s[i].on = t /\ s[i].op \in RowOps => lands[i + 1] \subseteq Past(s, RowOps, t)
  BY <1>1, <1>2 DEF CountsFirst
<1>4. j \in lands[i + 1]
  BY <1>1, <1>2
<1>5. ASSUME NEW past, Closed(s, past), i \in past PROVE j \in past
  BY <1>1, <1>4, <1>5 DEF Closed
<1>6. ASSUME j \in Past(s, {"room"}, t), i \notin Past(s, {"room"}, t)
      PROVE  s[i].op = "room" /\ s[i].on = t
  BY <1>1, <1>3, <1>4, <1>6 DEF OnlyBy
<1> HIDE DEF s, lands
<1>7. QED
  BY <1>1, <1>2, <1>3, <1>4, <1>5, <1>6 DEF Behind

LEMMA CountRefused ==
  ASSUME TypeOK, NEW t \in Quotas[kind], NEW p \in Procs, Busy(p), tx[p].at \in DOMAIN Steps(p),
         Here(p).or # 0, NEW j \in Lands[kind][tx[p].name][tx[p].at + Here(p).or]
  PROVE  /\ Behind(p, {"room"}, t) <=> j \in Past(Steps(p), {"room"}, t)
         /\ Behind(p, RowOps, t) => j \in Past(Steps(p), RowOps, t)
<1> DEFINE n == tx[p].name
           s == Scripts[kind][n]
           lands == LandsIn(s)
           i == tx[p].at
<1>1. n \in DOMAIN Scripts[kind] /\ i \in DOMAIN s /\ Steps(p) = s /\ Here(p) = s[i]
  BY StepFacts DEF Steps, Here
<1>2. CountsFirst(kind, n, t) /\ Lands[kind][n] = lands
  BY <1>1, QuotaFacts, LandsFacts
<1>3. /\ OnlyBy(s, {"room"}, t)
      /\ Closed(s, Past(s, {"room"}, t)) /\ Closed(s, Past(s, RowOps, t))
  BY <1>1, <1>2 DEF CountsFirst
<1>4. s[i].or # 0 /\ j \in lands[i + s[i].or]
  BY <1>1, <1>2
<1>5. ASSUME NEW past, Closed(s, past), i \in past PROVE j \in past
  BY <1>1, <1>4, <1>5 DEF Closed
<1>6. ASSUME j \in Past(s, {"room"}, t), i \notin Past(s, {"room"}, t)
      PROVE  FALSE
  BY <1>1, <1>3, <1>4, <1>6 DEF OnlyBy
<1> HIDE DEF s, lands
<1>7. QED
  BY <1>1, <1>2, <1>3, <1>4, <1>5, <1>6 DEF Behind

\* p works on one row of t.
LEMMA CountedRow ==
  ASSUME TypeOK, NEW t \in Quotas[kind], NEW p \in Procs, Busy(p), CountedSession(p, t)
  PROVE  /\ tx[p] \in Sessions /\ tx[p].key \in Names[kind] /\ Key(p, t) = tx[p].key
         /\ \A k : Visible(p, t, k) = IF k # tx[p].key \/ tx[p].mine[t] = Same
                                      THEN rows[t][k] ELSE tx[p].mine[t]
         /\ rows[t][tx[p].key] \in Values /\ tx[p].mine[t] \in Values \cup {Same}
<1>1. tx[p] \in Sessions /\ Key(p, t) = tx[p].key /\ t \in Tables
  BY QuotaFacts DEF TypeOK, Busy
<1>2. tx[p].key \in Names[kind] /\ tx[p].mine[t] \in Values \cup {Same}
  BY <1>1 DEF Sessions
<1>3. rows[t][tx[p].key] \in Values
  BY <1>1, <1>2 DEF TypeOK, Tables
<1>4. QED
  BY <1>1, <1>2, <1>3 DEF Visible, CountedSession

\* Without having looked at the quota, p switches a row off or removes it.
LEMMA CountedFlush ==
  ASSUME TypeOK, NEW t \in Quotas[kind], NEW p \in Procs, Busy(p), CountedSession(p, t),
         tx[p].at \in DOMAIN Steps(p), Here(p).op \in RowOps, NEW s, Flushes(p, s)
  PROVE  /\ t \notin s.added
         /\ Here(p).on # t => s.mine[t] = tx[p].mine[t]
         /\ s.mine[t] # Same /\ ~Behind(p, {"room"}, t) /\ Shown(s.mine[t]) # None =>
              Shown(rows[t][tx[p].key]) # None
<1>1. CASE NoChange(p) /\ s.mine = tx[p].mine /\ s.added = tx[p].added
  BY <1>1 DEF CountedSession
<1>2. CASE ~NoChange(p) /\ ~Broken(p) /\ s.mine = Flushed(p).mine /\ s.added = Flushed(p).added
  <2>1. tx[p] \in Sessions /\ RowOf(t) = t /\ t \in Tables /\ Own(p, t) = Visible(p, t, tx[p].key)
    BY CountedRow, QuotaFacts DEF Own
  <2>2. /\ s.added = IF Here(p).op = "add" THEN tx[p].added \cup {Here(p).on} ELSE tx[p].added \ {Here(p).on}
        /\ s.mine[t] = IF t = Here(p).on
                       THEN IF Own(p, t) = "twice" /\ Here(p).op # "clear"
                            THEN IF Here(p).op = "delete" THEN "there" ELSE "twice"
                            ELSE Value(p)
                       ELSE IF Here(p).op \in {"delete", "clear"} /\ RowOf(t) = Here(p).on THEN None
                       ELSE tx[p].mine[t]
    BY <1>2, <2>1 DEF Flushed, Sessions
  <2>3. t \notin s.added
    BY <2>2, CountStep DEF CountedSession
  <2>4. CASE Here(p).on # t
    BY <2>1, <2>2, <2>3, <2>4 DEF CountedSession
  <2>5. CASE Here(p).on = t
    <3>1. ASSUME ~Behind(p, {"room"}, t), Shown(s.mine[t]) # None
          PROVE  Shown(rows[t][tx[p].key]) # None
      <4>1. Here(p).op \in {"update", "rekey", "delete", "clear"}
        BY <2>5, <3>1, CountStep DEF RowOps
      <4>2. Here(p).val \in {"off", None}
        BY <2>5, <4>1, CountStep
      <4>3. Value(p) = Here(p).val
        BY <4>2 DEF Value, None, Asked, Kept, Found
      <4>4. Own(p, t) = "twice"
        BY <2>2, <2>5, <3>1, <4>2, <4>3 DEF Shown
      <4>5. Shown("twice") # None
        BY DEF Shown, None
      <4>6. Own(p, t) = IF tx[p].mine[t] = Same THEN rows[t][tx[p].key] ELSE tx[p].mine[t]
        BY <2>1, CountedRow
      <4>7. QED
        BY <3>1, <4>4, <4>5, <4>6 DEF CountedSession
    <3>2. QED
      BY <2>3, <2>5, <3>1
  <2>6. QED
    BY <2>4, <2>5
<1>3. QED
  BY <1>1, <1>2 DEF Flushes

LEMMA CountedOnward ==
  ASSUME TypeOK, NEW t \in Quotas[kind], NEW p \in Procs, Busy(p), CountedSession(p, t),
         tx[p].at \in DOMAIN Steps(p), kind' = kind, GoesOnward(p)
  PROVE  /\ rows' = rows /\ CountedSession(p, t)'
         /\ Behind(p, {"room"}, t)' =>
              \/ Behind(p, {"room"}, t)
              \/ Holds(p) /\ Here(p).op = "room" /\ Here(p).on = t /\ tx[p].mine[t] = Same
         /\ Behind(p, {"room"}, t) => Behind(p, {"room"}, t)'
<1> DEFINE n == tx[p].name
           j == tx'[p].at
           R == Past(Steps(p), {"room"}, t)
           C == Past(Steps(p), RowOps, t)
<1>1. tx'[p].name = n => /\ Behind(p, {"room"}, t)' <=> j \in R
                         /\ Behind(p, RowOps, t)' <=> j \in C
  BY DEF Behind, Steps, RowOps
<1>2. /\ Behind(p, {"room"}, t) <=> tx[p].at \in R
      /\ Behind(p, RowOps, t) <=> tx[p].at \in C
  BY DEF Behind
<1>3. CASE Refused(p)
  <2>1. /\ rows' = rows /\ Here(p).or # 0 /\ tx'[p].name = n /\ tx'[p].key = tx[p].key
        /\ j \in Lands[kind][n][tx[p].at + Here(p).or]
        /\ tx'[p].added = tx[p].added /\ tx'[p].mine = tx[p].mine
    BY <1>3 DEF Refused, MovesOn
  <2>2. (Behind(p, {"room"}, t) <=> j \in R) /\ (Behind(p, RowOps, t) => j \in C)
    BY <2>1, CountRefused
  <2>3. QED
    BY <1>1, <1>2, <2>1, <2>2 DEF CountedSession
<1>4. ASSUME NEW s, Passed(p, s)
      PROVE  /\ rows' = rows /\ CountedSession(p, t)'
             /\ Behind(p, {"room"}, t)' =>
                  \/ Behind(p, {"room"}, t)
                  \/ Holds(p) /\ Here(p).op = "room" /\ Here(p).on = t /\ tx[p].mine[t] = Same
             /\ Behind(p, {"room"}, t) => Behind(p, {"room"}, t)'
  <2>1. /\ Here(p).op # "commit" /\ s.key = tx[p].key /\ rows' = rows
        /\ IF Here(p).op \in RowOps THEN Flushes(p, s)
           ELSE s.mine = tx[p].mine /\ s.added = tx[p].added
        /\ Here(p).op \in {"need", "room"} => Holds(p)
    BY <1>4, CountStep DEF Passed
  <2>2. /\ tx'[p].name = n /\ tx'[p].key = tx[p].key
        /\ j \in Lands[kind][n][tx[p].at + 1]
        /\ tx'[p].added = s.added /\ tx'[p].mine = s.mine
    BY <1>4, <2>1 DEF Passed, MovesOn
  <2>3. /\ Behind(p, {"room"}, t) => j \in R
        /\ Behind(p, RowOps, t) => j \in C
        /\ j \in R => Behind(p, {"room"}, t) \/ (Here(p).op = "room" /\ Here(p).on = t)
        /\ Here(p).op \in RowOps /\ Here(p).on = t => j \in C
    BY <2>2, CountLeads
  <2>4. j \in R => \/ Behind(p, {"room"}, t)
                   \/ Holds(p) /\ Here(p).op = "room" /\ Here(p).on = t /\ tx[p].mine[t] = Same
    BY <2>1, <2>3, CountStep DEF CountedSession
  <2>5. SUFFICES /\ t \notin s.added
                 /\ s.mine[t] # Same => j \in C
                 /\ s.mine[t] # Same /\ j \notin R /\ Shown(s.mine[t]) # None =>
                      Shown(rows[t][tx[p].key]) # None
    BY <1>1, <2>1, <2>2, <2>3, <2>4 DEF CountedSession
  <2>6. CASE Here(p).op \in RowOps
    BY <2>1, <2>3, <2>6, CountedFlush DEF CountedSession
  <2>7. CASE Here(p).op \notin RowOps
    BY <2>1, <2>3, <2>7 DEF CountedSession
  <2>8. QED
    BY <2>6, <2>7
<1>5. QED
  BY <1>3, <1>4 DEF GoesOnward

\* Another request does not change the row that q has locked.
LEMMA CountedOthers ==
  ASSUME TypeOK, NEW t \in Quotas[kind], NEW p \in Procs, NEW q \in Procs \ {p}, Busy(p), Busy(q),
         LocksExclude, CountedSession(p, t), CountedSession(q, t), kind' = kind, Carried(q),
         rows' = rows \/ rows' = Committed(p)
  PROVE  CountedSession(q, t)'
<1> DEFINE k == tx[q].key
<1>1. /\ tx'[q].name = tx[q].name /\ tx'[q].at = tx[q].at /\ tx'[q].key = k
      /\ tx'[q].mine = tx[q].mine /\ tx'[q].added = tx[q].added
  BY DEF Carried
<1>2. /\ Behind(q, {"room"}, t)' <=> Behind(q, {"room"}, t)
      /\ Behind(q, RowOps, t)' <=> Behind(q, RowOps, t)
  BY <1>1 DEF Behind, Steps, RowOps
<1>3. SUFFICES tx[q].mine[t] # Same => rows'[t][k] = rows[t][k]
  BY <1>1, <1>2 DEF CountedSession, Shown
<1>4. CASE rows' = rows
  BY <1>4
<1>5. CASE rows' = Committed(p)
  <2>1. k \in Names[kind] /\ t \in Tables /\ RowOf(t) = t /\ Key(q, t) = k /\ Key(p, t) = tx[p].key
    BY CountedRow, QuotaFacts
  <2>2. rows'[t][k] = Visible(p, t, k)
    BY <1>5, <2>1 DEF Committed
  <2>3. rows'[t][k] = IF k # tx[p].key \/ tx[p].mine[t] = Same THEN rows[t][k] ELSE tx[p].mine[t]
    BY <2>2, CountedRow
  <2>4. ASSUME tx[q].mine[t] # Same, k = tx[p].key, tx[p].mine[t] # Same PROVE FALSE
    <3>1. <<t, k>> \in Held(p) /\ <<t, k>> \in Held(q)
      BY <2>1, <2>4 DEF Held, CountedSession
    <3>2. QED
      BY <3>1 DEF LocksExclude
  <2>5. QED
    BY <2>3, <2>4
<1>6. QED
  BY <1>4, <1>5

LEMMA CountedFirst ==
  ASSUME TypeOK, NEW t \in Quotas[kind], kind' = kind, NEW p \in Procs,
         NEW n \in DOMAIN Scripts[kind], NEW k \in Names[kind], NEW a \in Asks(n), Start(p, n, k, a)
  PROVE  CountedSession(p, t)' /\ ~Behind(p, {"room"}, t)'
<1>1. /\ tx'[p].at \in Lands[kind][n][1] /\ tx'[p].name = n /\ tx'[p].added = {}
      /\ tx'[p].mine[t] = Same
  BY StartFlow, QuotaFacts
<1>2. OnlyBy(Scripts[kind][n], {"room"}, t) /\ tx'[p].at \in LandsIn(Scripts[kind][n])[1]
  BY <1>1, QuotaFacts, LandsFacts DEF CountsFirst
<1>3. tx'[p].at \notin Past(Scripts[kind][n], {"room"}, t)
  BY <1>2 DEF OnlyBy
<1>4. ~Behind(p, {"room"}, t)'
  BY <1>1, <1>3 DEF Behind, Steps
<1>5. QED
  BY <1>1, <1>4 DEF CountedSession

LEMMA CountedNow ==
  ASSUME TypeOK, AllCounted, LocksExclude, NEW p \in Procs, Runs(p) \/ CallFails(p) \/ AskFails(p) \/ Crash(p)
  PROVE  AllCounted'
<1>1. /\ Busy(p) /\ kind' = kind /\ \A q \in Procs \ {p} : Carried(q)
      /\ Over(p) \/ (GoesOnward(p) /\ tx[p].at \in DOMAIN Steps(p))
  BY OwnStep
<1>2. SUFFICES ASSUME NEW t \in Quotas[kind], NEW q \in Procs, Busy(q)' PROVE CountedSession(q, t)'
  BY <1>1 DEF AllCounted
<1>3. CountedSession(p, t)
  BY <1>1 DEF AllCounted
<1>4. CASE q = p
  BY <1>1, <1>2, <1>3, <1>4, CountedOnward DEF Over
<1>5. CASE q # p
  <2>1. Busy(q) /\ Carried(q) /\ CountedSession(q, t)
    BY <1>1, <1>2, <1>5 DEF Carried, AllCounted
  <2>2. rows' = rows \/ rows' = Committed(p)
    BY <1>1, <1>3, CountedOnward DEF Over
  <2>3. QED
    BY <1>1, <1>3, <1>5, <2>1, <2>2, CountedOthers
<1>6. QED
  BY <1>4, <1>5

LEMMA CountedStays ==
  ASSUME TypeOK, AllCounted, LocksExclude, [Next]_vars
  PROVE  AllCounted'
<1>1. CASE Beat \/ UNCHANGED vars
  <2>1. kind' = kind /\ rows' = rows /\ tx' = tx
    BY <1>1 DEF Beat, vars
  <2>2. QED
    BY <2>1 DEF AllCounted, CountedSession, Busy, Behind, Steps, RowOps, Shown
<1>2. ASSUME NEW p \in Procs, Begin(p) \/ \E j \in jobs : Take(p, j)
      PROVE  AllCounted'
  <2>1. kind' = kind /\ rows' = rows /\ \A q \in Procs \ {p} : tx'[q] = tx[q]
    BY <1>2, ArrivalStep
  <2>2. SUFFICES ASSUME NEW t \in Quotas[kind], NEW q \in Procs, Busy(q)' PROVE CountedSession(q, t)'
    BY <2>1 DEF AllCounted
  <2>3. CASE q = p
    BY <1>2, <2>1, <2>3, ArrivalStep, CountedFirst
  <2>4. CASE q # p
    BY <2>1, <2>2, <2>4 DEF AllCounted, CountedSession, Busy, Behind, Steps, RowOps, Shown
  <2>5. QED
    BY <2>3, <2>4
<1>3. QED
  BY <1>1, <1>2, CountedNow DEF Next
-----------------------------------------------------------------------------
(* Counting them. *)

Working == {p \in Procs : Busy(p)}
Used(t) == {k \in Names[kind] : Shown(rows[t][k]) # None}
Going(t) == {p \in Procs : Busy(p) /\ Behind(p, {"room"}, t)}
FewWork == IsFiniteSet(Working) /\ Cardinality(Working) <= 1 + mishaps["overlap"]
Few(t) == IsFiniteSet(Used(t)) /\ Cardinality(Used(t)) + Cardinality(Going(t)) <= Limit + mishaps["overlap"]
Within == FewWork /\ \A t \in Quotas[kind] : Few(t)

LEMMA GoingFacts ==
  ASSUME FewWork, NEW t
  PROVE  IsFiniteSet(Going(t)) /\ Going(t) \subseteq Working /\ Cardinality(Going(t)) \in Nat
<1>1. Going(t) \subseteq Working /\ IsFiniteSet(Working)
  BY DEF Going, Working, FewWork
<1>2. QED
  BY <1>1, FS_Subset, FS_CardinalityType

LEMMA WithinAtFirst ==
  ASSUME Init, TypeOK
  PROVE  Within
<1>1. Working = {}
  BY DEF Init, Working, Busy
<1>2. mishaps["overlap"] = 0 /\ Limit \in Nat
  BY PanelAssumption DEF Init
<1>3. FewWork
  BY <1>1, <1>2, FS_EmptySet DEF FewWork
<1>4. ASSUME NEW t \in Quotas[kind] PROVE Few(t)
  <2>1. Going(t) = {}
    BY <1>1 DEF Going, Working
  <2>2. Used(t) = {}
    BY QuotaFacts DEF Init, Used, Tables, Shown
  <2>3. QED
    BY <1>2, <2>1, <2>2, FS_EmptySet DEF Few
<1>5. QED
  BY <1>3, <1>4 DEF Within

\* A request that arrives while others are at work is counted.
LEMMA ArrivalWithin ==
  ASSUME TypeOK, Within, NEW p \in Procs, Begin(p) \/ \E j \in jobs : Take(p, j)
  PROVE  Within'
<1>1. /\ kind' = kind /\ rows' = rows /\ ~Busy(p) /\ Overlaps(p)
      /\ \A q \in Procs \ {p} : tx'[q] = tx[q]
  BY ArrivalStep
<1>2. PICK n \in DOMAIN Scripts[kind], k \in Names[kind] : \E a \in Asks(n) : Start(p, n, k, a)
  BY ArrivalStep
<1>3. Busy(p)'
  BY <1>2, StartFlow
<1>4. Working' = Working \cup {p} /\ p \notin Working
  BY <1>1, <1>3 DEF Working, Busy
<1>5. mishaps["overlap"] \in Nat
  BY DEF TypeOK
<1>6. \/ Working = {} /\ mishaps'["overlap"] = mishaps["overlap"]
      \/ mishaps'["overlap"] = mishaps["overlap"] + 1
  BY <1>1 DEF Overlaps, Mishap, TypeOK, Working
<1>7. FewWork'
  <2>1. IsFiniteSet(Working) /\ Cardinality(Working) \in Nat
    BY FS_CardinalityType DEF Within, FewWork
  <2>2. IsFiniteSet(Working') /\ Cardinality(Working') = Cardinality(Working) + 1
    BY <1>4, <2>1, FS_AddElement
  <2>3. Working = {} => Cardinality(Working) = 0
    BY FS_EmptySet
  <2>4. QED
    BY <1>5, <1>6, <2>1, <2>2, <2>3 DEF Within, FewWork
<1>8. ASSUME NEW t \in Quotas[kind] PROVE Few(t)'
  <2>1. ~Behind(p, {"room"}, t)'
    BY <1>1, <1>2, CountedFirst
  <2>2. Going(t)' = Going(t)
    BY <1>1, <2>1 DEF Going, Busy, Behind, Steps
  <2>3. Used(t)' = Used(t)
    BY <1>1 DEF Used
  <2>4. Cardinality(Going(t)) \in Nat /\ Cardinality(Used(t)) \in Nat /\ Limit \in Nat
    BY GoingFacts, FS_CardinalityType, PanelAssumption DEF Within, Few
  <2>5. QED
    BY <1>5, <1>6, <2>2, <2>3, <2>4 DEF Within, Few
<1>9. QED
  BY <1>1, <1>7, <1>8 DEF Within

\* Who is at work and behind the quota of t, when p takes a step.
LEMMA StepWithin ==
  ASSUME TypeOK, NEW p \in Procs, Busy(p), kind' = kind, \A q \in Procs \ {p} : Carried(q)
  PROVE  /\ Working' = IF Busy(p)' THEN Working ELSE Working \ {p}
         /\ \A t : Going(t)' = IF Busy(p)' /\ Behind(p, {"room"}, t)'
                              THEN Going(t) \cup {p} ELSE Going(t) \ {p}
<1>1. \A q \in Procs \ {p} : Busy(q)' <=> Busy(q)
  BY DEF Carried
<1>2. \A q \in Procs \ {p} : Busy(q) => tx'[q].name = tx[q].name /\ tx'[q].at = tx[q].at
  BY DEF Carried
<1>3. \A t : \A q \in Procs \ {p} : Busy(q) => (Behind(q, {"room"}, t)' <=> Behind(q, {"room"}, t))
  BY <1>2 DEF Behind, Steps
<1>4. QED
  BY <1>1, <1>3 DEF Working, Going

LEMMA OnwardWithin ==
  ASSUME TypeOK, Within, NEW t \in Quotas[kind], NEW p \in Procs, Busy(p), CountedSession(p, t),
         tx[p].at \in DOMAIN Steps(p), kind' = kind, mishaps'["overlap"] = mishaps["overlap"],
         GoesOnward(p), \A q \in Procs \ {p} : Carried(q)
  PROVE  Few(t)'
<1>1. /\ rows' = rows /\ Busy(p)'
      /\ Behind(p, {"room"}, t)' =>
              \/ Behind(p, {"room"}, t)
              \/ Holds(p) /\ Here(p).op = "room" /\ Here(p).on = t /\ tx[p].mine[t] = Same
      /\ Behind(p, {"room"}, t) => Behind(p, {"room"}, t)'
  BY CountedOnward DEF GoesOnward, Refused, Passed, MovesOn
<1>2. Used(t)' = Used(t)
  BY <1>1 DEF Used
<1>3. /\ Cardinality(Going(t)) \in Nat /\ Cardinality(Used(t)) \in Nat /\ Limit \in Nat
      /\ mishaps["overlap"] \in Nat /\ IsFiniteSet(Used(t))
  BY GoingFacts, FS_CardinalityType, PanelAssumption DEF Within, Few, TypeOK
<1>4. CASE Behind(p, {"room"}, t) \/ ~Behind(p, {"room"}, t)'
  <2>1. Going(t)' = Going(t)
    BY <1>1, <1>4, StepWithin DEF Going
  <2>2. QED
    BY <1>2, <2>1 DEF Within, Few
<1>5. CASE Holds(p) /\ Here(p).op = "room" /\ Here(p).on = t /\ tx[p].mine[t] = Same
  <2>1. Cardinality(Used(t)) < Limit
    <3>1. \A k \in Names[kind] : Visible(p, t, k) = rows[t][k]
      BY <1>5, CountedRow
    <3>2. {k \in Names[kind] : Shown(Visible(p, t, k)) # None} = Used(t)
      BY <3>1 DEF Used
    <3>3. QED
      BY <1>5, <3>2 DEF Holds
  <2>2. Going(t)' \subseteq Working
    BY <1>1, StepWithin DEF Going, Working
  <2>3. IsFiniteSet(Working) /\ Cardinality(Working) <= 1 + mishaps["overlap"] /\ Cardinality(Working) \in Nat
    BY FS_CardinalityType DEF Within, FewWork
  <2>4. Cardinality(Going(t)') <= Cardinality(Working) /\ Cardinality(Going(t)') \in Nat
    BY <2>2, <2>3, FS_Subset, FS_CardinalityType
  <2>5. QED
    BY <1>2, <1>3, <2>1, <2>3, <2>4 DEF Few
<1>6. QED
  BY <1>1, <1>4, <1>5

\* One that looked at the quota may add a row, and is then done.
LEMMA OverWithin ==
  ASSUME TypeOK, Within, NEW t \in Quotas[kind], NEW p \in Procs, Busy(p), CountedSession(p, t),
         kind' = kind, mishaps'["overlap"] = mishaps["overlap"],
         Over(p), \A q \in Procs \ {p} : Carried(q)
  PROVE  Few(t)'
<1> DEFINE k == tx[p].key
<1>1. /\ Cardinality(Going(t)) \in Nat /\ IsFiniteSet(Going(t)) /\ Cardinality(Used(t)) \in Nat /\ Limit \in Nat
      /\ mishaps["overlap"] \in Nat /\ IsFiniteSet(Used(t))
  BY GoingFacts, FS_CardinalityType, PanelAssumption DEF Within, Few, TypeOK
<1>2. Going(t)' = Going(t) \ {p}
  BY StepWithin DEF Over
<1>3. /\ IsFiniteSet(Going(t)') /\ Cardinality(Going(t)') \in Nat
      /\ Cardinality(Going(t)') = IF Behind(p, {"room"}, t) THEN Cardinality(Going(t)) - 1 ELSE Cardinality(Going(t))
  <2>1. p \in Going(t) <=> Behind(p, {"room"}, t)
    BY DEF Going
  <2>2. QED
    BY <1>1, <1>2, <2>1, FS_RemoveElement, FS_CardinalityType
<1>4. /\ Used(t)' \subseteq Used(t) \cup {k}
      /\ ~Behind(p, {"room"}, t) => Used(t)' \subseteq Used(t)
  <2>1. CASE rows' = rows
    BY <2>1 DEF Used
  <2>2. CASE rows' = Committed(p)
    <3>1. \A j \in Names[kind] : rows'[t][j] = IF j # k \/ tx[p].mine[t] = Same
                                              THEN rows[t][j] ELSE tx[p].mine[t]
      BY <2>2, CountedRow, QuotaFacts DEF Committed
    <3>2. tx[p].mine[t] # Same /\ ~Behind(p, {"room"}, t) /\ Shown(tx[p].mine[t]) # None =>
            Shown(rows[t][k]) # None
      BY DEF CountedSession
    <3>3. QED
      BY <3>1, <3>2 DEF Used
  <2>3. QED
    BY <2>1, <2>2 DEF Over
<1>5. /\ IsFiniteSet(Used(t) \cup {k})
      /\ Cardinality(Used(t) \cup {k}) <= Cardinality(Used(t)) + 1
      /\ Cardinality(Used(t) \cup {k}) \in Nat
  <2>1. ASSUME NEW U, IsFiniteSet(U), NEW x
        PROVE  /\ IsFiniteSet(U \cup {x}) /\ Cardinality(U) \in Nat
               /\ Cardinality(U \cup {x}) \in {Cardinality(U), Cardinality(U) + 1}
    <3>1. CASE x \in U
      <4>1. U \cup {x} = U
        BY <3>1
      <4>2. QED
        BY <2>1, <4>1, FS_CardinalityType
    <3>2. CASE x \notin U
      BY <2>1, <3>2, FS_AddElement, FS_CardinalityType
    <3>3. QED
      BY <3>1, <3>2
  <2>2. /\ IsFiniteSet(Used(t) \cup {k}) /\ Cardinality(Used(t)) \in Nat
        /\ Cardinality(Used(t) \cup {k}) \in {Cardinality(Used(t)), Cardinality(Used(t)) + 1}
    BY <1>1, <2>1
  <2>3. QED
    BY <2>2
<1>6. /\ IsFiniteSet(Used(t)') /\ Cardinality(Used(t)') \in Nat
      /\ Cardinality(Used(t)') <= Cardinality(Used(t)) + 1
      /\ ~Behind(p, {"room"}, t) => Cardinality(Used(t)') <= Cardinality(Used(t))
  <2>1. IsFiniteSet(Used(t)') /\ Cardinality(Used(t)') <= Cardinality(Used(t) \cup {k})
    BY <1>4, <1>5, FS_Subset
  <2>2. Cardinality(Used(t)') \in Nat
    BY <2>1, FS_CardinalityType
  <2>3. ~Behind(p, {"room"}, t) => Cardinality(Used(t)') <= Cardinality(Used(t))
    BY <1>1, <1>4, FS_Subset
  <2>4. QED
    BY <1>1, <1>5, <2>1, <2>2, <2>3
<1>7. Cardinality(Used(t)) + Cardinality(Going(t)) <= Limit + mishaps["overlap"]
  BY DEF Within, Few
<1>8. QED
  BY <1>1, <1>3, <1>6, <1>7 DEF Few

LEMMA RunsWithin ==
  ASSUME TypeOK, AllCounted, Within, NEW p \in Procs, Runs(p) \/ CallFails(p) \/ AskFails(p) \/ Crash(p)
  PROVE  Within'
<1>1. /\ Busy(p) /\ kind' = kind /\ mishaps'["overlap"] = mishaps["overlap"]
      /\ \A q \in Procs \ {p} : Carried(q)
      /\ Over(p) \/ (GoesOnward(p) /\ tx[p].at \in DOMAIN Steps(p))
  BY OwnStep
<1>2. FewWork'
  <2>1. Working' \subseteq Working /\ IsFiniteSet(Working) /\ Cardinality(Working) \in Nat
    BY <1>1, StepWithin, FS_CardinalityType DEF Within, FewWork
  <2>2. IsFiniteSet(Working') /\ Cardinality(Working') \in Nat /\ Cardinality(Working') <= Cardinality(Working)
    BY <2>1, FS_Subset, FS_CardinalityType
  <2>3. mishaps["overlap"] \in Nat
    BY DEF TypeOK
  <2>4. QED
    BY <1>1, <2>1, <2>2, <2>3 DEF Within, FewWork
<1>3. ASSUME NEW t \in Quotas[kind] PROVE Few(t)'
  <2>1. CountedSession(p, t)
    BY <1>1 DEF AllCounted
  <2>2. QED
    BY <1>1, <2>1, OnwardWithin, OverWithin
<1>4. QED
  BY <1>1, <1>2, <1>3 DEF Within

\* Requests that look at a quota at the same time may exceed it together,
\* each by one, and only as far as they have overlapped: however many
\* processes, names and requests there are.
THEOREM QuotasAreNearlyKept == Spec => []QuotaIsNearlyKept
<1>1. Init /\ TypeOK => AllCounted /\ Within
  <2>1. Init => AllCounted
    BY DEF Init, AllCounted, Busy
  <2>2. QED
    BY <2>1, WithinAtFirst
<1>2. TypeOK /\ LocksExclude /\ AllCounted /\ Within /\ [Next]_vars => AllCounted' /\ Within'
  <2> SUFFICES ASSUME TypeOK, LocksExclude, AllCounted, Within, [Next]_vars
               PROVE  AllCounted' /\ Within'
    OBVIOUS
  <2>1. CASE Beat \/ UNCHANGED vars
    <3>1. kind' = kind /\ rows' = rows /\ tx' = tx /\ mishaps' = mishaps
      BY <2>1 DEF Beat, vars
    <3>2. Within'
      BY <3>1 DEF Within, FewWork, Few, Working, Used, Going, Busy, Behind, Steps
    <3>3. QED
      BY <3>2, CountedStays
  <2>2. ASSUME NEW p \in Procs,
               \/ Begin(p) \/ (\E j \in jobs : Take(p, j)) \/ Runs(p)
               \/ CallFails(p) \/ AskFails(p) \/ Crash(p)
        PROVE  Within'
    BY <2>2, ArrivalWithin, RunsWithin
  <2>3. QED
    BY <2>1, <2>2, CountedStays DEF Next
<1>3. TypeOK /\ Within => QuotaIsNearlyKept
  <2> SUFFICES ASSUME TypeOK, Within, NEW t \in Quotas[kind]
               PROVE  Cardinality(Used(t)) <= Limit + mishaps["overlap"]
    BY DEF QuotaIsNearlyKept, Used
  <2>1. /\ Cardinality(Going(t)) \in Nat /\ Cardinality(Used(t)) \in Nat /\ Limit \in Nat
        /\ mishaps["overlap"] \in Nat
    BY GoingFacts, FS_CardinalityType, PanelAssumption DEF Within, Few, TypeOK
  <2>2. QED
    BY <2>1 DEF Within, Few
<1>4. QED
  BY <1>1, <1>2, <1>3, TypeCorrect, RowsAreLockedOnce, PTL DEF Spec
=============================================================================
