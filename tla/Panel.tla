-------------------------------- MODULE Panel --------------------------------
(***************************************************************************)
(* The machine that runs the handlers of the control panel: the uvicorn    *)
(* processes and the Celery worker, a database, and the system they all    *)
(* administer.  Each handler is a sequence of the steps of Script.  Rows   *)
(* and things have no common transaction: a call to the system is done     *)
(* when it is done, a row is changed when the handler returns.             *)
(*                                                                         *)
(* A kind is a group of handlers that share tables.  A behaviour is about  *)
(* one kind, so that one run checks all of them without multiplying them.  *)
(***************************************************************************)
EXTENDS Script, FiniteSets

CONSTANTS
  Kinds,
  Scripts,     \* kind -> handler -> its steps
  Tasks,       \* kind -> the handlers that are Celery tasks
  Periodic,    \* kind -> the tasks that beat sends
  Unserved,    \* tasks whose queue no worker reads
  Names,       \* kind -> names of rows and things
  Given,       \* kind -> tables whose rows and things are there from the start
  Singles,     \* kind -> tables with one row and one thing, whatever the name
  Columns,     \* kind -> a column that has steps of its own -> its table
  Files,       \* a table whose things are lines of a shared file -> the file
  Web,         \* processes that serve requests
  Workers,     \* processes that run tasks; a run may make them the same
  Answers,     \* what a request may ask for
  Limit,       \* of the quota
  Most         \* how often each mishap may happen in a behaviour

VARIABLES
  kind,        \* what this behaviour is about
  rows,        \* table -> name -> committed value
  things,      \* table -> name -> what there is on the system
  tx,          \* process -> the handler it runs
  jobs,        \* tasks that are queued or not acknowledged
  mishaps      \* how often what has gone wrong so far (history)

\* What the steps and the kinds are: no jump leaves its handler, no copy is
\* of a table the kind does not have, only tasks are sent, a column is of a
\* table, and tables that are added to have their own rows.
Untabled == {"commit", "jump", "spawn", "maybe"}
Values ==
  Answers \cup {None, "there", "twice", "one", "full"}
    \cup UNION {UNION {{Scripts[k][n][i].val : i \in DOMAIN Scripts[k][n]} :
                        n \in DOMAIN Scripts[k]} : k \in Kinds}
\* The tables that the handlers of a kind name.
TablesOf ==
  [k \in Kinds |->
     {t \in UNION {{Scripts[k][n][i].on : i \in DOMAIN Scripts[k][n]} : n \in DOMAIN Scripts[k]} : t # ""}]
StepOK(k, n, i) ==
  LET step == Scripts[k][n][i] IN
  /\ i + step.or \in 1 .. Len(Scripts[k][n]) + 1
  /\ step.op \in Untabled <=> step.on = ""
  /\ step.op \in {"copy", "move", "mirror"} => step.val \in TablesOf[k]
  /\ step.op = "spawn" => step.val \in Tasks[k]
  /\ step.op = "add" => step.on \notin DOMAIN Columns[k]
ASSUME PanelAssumption ==
  /\ Limit \in Nat
  /\ Most \in [{"overlap", "call", "crash"} -> Nat]
  /\ \A k \in Kinds :
       /\ Names[k] # {}
       /\ Periodic[k] \subseteq Tasks[k] /\ Tasks[k] \subseteq DOMAIN Scripts[k]
       /\ \A t \in DOMAIN Columns[k] : Columns[k][t] \notin DOMAIN Columns[k]
       /\ \A n \in DOMAIN Scripts[k] :
            /\ n # ""
            /\ Scripts[k][n] \in Seq([op : STRING, on : STRING, val : Values, or : Nat])
            /\ \A i \in DOMAIN Scripts[k][n] : StepOK(k, n, i)

Procs == Web \cup Workers
vars == <<kind, rows, things, tx, jobs, mishaps>>
-----------------------------------------------------------------------------
Unread == "unread"   \* not loaded in this session
Same   == "same"     \* not changed in this session
Idle   == [name |-> ""]

Tables == DOMAIN rows   \* TablesOf[kind]

FileOf(t) == IF t \in DOMAIN Files THEN Files[t] ELSE t
RowOf(t) == IF t \in DOMAIN Columns[kind] THEN Columns[kind][t] ELSE t

\* Where control is after it has come to step i: a jump takes no time.
LandsIn(s) ==
  LET at == 1 .. Len(s) + 1
      from[i \in at] ==
        IF i > Len(s) \/ s[i].or = 0 \/ s[i].op \notin {"jump", "maybe"} THEN {i}
        ELSE from[i + s[i].or] \cup (IF s[i].op = "maybe" THEN from[i + 1] ELSE {})
  IN [i \in at |-> from[i] \cap at]
Lands == [k \in Kinds |-> [n \in DOMAIN Scripts[k] |-> LandsIn(Scripts[k][n])]]

\* A session that has just begun.
Session(n, k, a) ==
  [name |-> n, at |-> 1, key |-> k, job |-> k, again |-> FALSE, asked |-> a,
   added |-> {}, gone |-> {},
   seen |-> [t \in Tables |-> Unread], mine |-> [t \in Tables |-> Same],
   file |-> [t \in Tables |-> [j \in Names[kind] |-> None]]]

Busy(p)  == tx[p] # Idle
Steps(p) == Scripts[kind][tx[p].name]
AtStep(p, ops) == Busy(p) /\ tx[p].at \in DOMAIN Steps(p) /\ Steps(p)[tx[p].at].op \in ops
Here(p)  == Steps(p)[tx[p].at]

\* The row and the thing of table t that p works on.
Key(p, t) == IF t \in Singles[kind] THEN CHOOSE k \in Names[kind] : TRUE ELSE tx[p].key

\* Mutant of Visible: columns that were not changed are sent as well.
Mutant_Visible(p, t, k) == IF k # Key(p, t) THEN rows[t][k] ELSE tx[p].mine[t]
\* What a query of p returns for name k, and what its loaded object says.
Visible(p, t, k) ==
  IF k # Key(p, t) \/ tx[p].mine[t] = Same THEN rows[t][k]
  ELSE IF t \in tx[p].added /\ rows[t][k] # None THEN "twice"
  ELSE tx[p].mine[t]
Own(p, t)  == Visible(p, t, Key(p, t))
View(p, t) ==
  IF tx[p].mine[t] = Same /\ tx[p].seen[t] # Unread THEN tx[p].seen[t] ELSE Own(p, t)
Thing(p, t) == things[t][Key(p, t)]

Value(p) ==
  LET v == Here(p).val
      t == Here(p).on
  IN CASE v = Asked -> tx[p].asked
       [] v = Kept  -> View(p, t)
       [] v = Found -> Thing(p, t)
       [] OTHER     -> v

\* An inactive row has nothing to show on the system.
Shown(v) == IF v = "off" THEN None ELSE v
-----------------------------------------------------------------------------
(* How a step ends. *)

GoOn(p, session, i) ==
  \E at \in Lands[kind][tx[p].name][i] : tx' = [tx EXCEPT ![p] = [session EXCEPT !.at = at]]
Advance(p, session) == GoOn(p, session, tx[p].at + 1)

\* A task is acknowledged when it has ended, however it ended; self.retry
\* has sent it once more by then.
Job(p) == [name |-> tx[p].name, key |-> tx[p].job]
Done(p) == jobs' = IF tx[p].name \in Tasks[kind] /\ ~tx[p].again THEN jobs \ {Job(p)} ELSE jobs

Abort(p) == tx' = [tx EXCEPT ![p] = Idle] /\ Done(p)

\* Mutant of Refuse: what has failed is tried again.
Mutant_Refuse(p) ==
  IF Here(p).or = 0 THEN Abort(p) ELSE tx' = tx /\ UNCHANGED jobs
Refuse(p) ==
  IF Here(p).or = 0
  THEN Abort(p)
  ELSE GoOn(p, tx[p], tx[p].at + Here(p).or) /\ UNCHANGED jobs

\* Mishaps are of one sort in a behaviour.
Mishap(m) ==
  /\ mishaps[m] < Most[m]
  /\ \A other \in DOMAIN mishaps \ {m} : mishaps[other] = 0
  /\ mishaps' = [mishaps EXCEPT ![m] = @ + 1]
NoMishap == \A m \in DOMAIN mishaps : mishaps[m] = 0
-----------------------------------------------------------------------------
(* Queries. *)

Holds(p) ==
  LET t == Here(p).on IN
  CASE Here(p).op = "need"   -> Own(p, t) # None
    [] Here(p).op = "fresh"  -> Own(p, t) = None
    [] Here(p).op = "room"   -> Cardinality({k \in Names[kind] : Shown(Visible(p, t, k)) # None}) < Limit
    [] Here(p).op = "is"     -> View(p, t) = Here(p).val
    [] Here(p).op = "has"    -> Thing(p, t) # None
    [] Here(p).op = "lacks"  -> Thing(p, t) = None
    [] Here(p).op = "shows"  -> Thing(p, t) = Value(p)
    [] Here(p).op = "listed" -> tx[p].file[t][Key(p, t)] # None

\* Names that nobody has used.  A request was given one when it began.
Unused(p) ==
  LET t == Here(p).on IN
  {k \in IF tx[p].name \in Tasks[kind] THEN Names[kind] ELSE {tx[p].key} :
     /\ rows[t][k] = None /\ things[t][k] = None
     /\ \A q \in Procs \ {p} : Busy(q) => tx[q].key # k}

NewKey(p) ==
  /\ AtStep(p, {"mint"})
  /\ IF Unused(p) = {} THEN Refuse(p)
     ELSE /\ \E k \in Unused(p) : Advance(p, [tx[p] EXCEPT !.key = k])
          /\ UNCHANGED jobs
  /\ UNCHANGED <<kind, rows, things, mishaps>>

\* Loading a row loads all its columns, unless the session has it already.
Loaded(p) ==
  [tx[p] EXCEPT !.seen = [t \in Tables |->
     IF RowOf(t) = Here(p).on /\ tx[p].seen[t] = Unread THEN rows[t][Key(p, t)]
     ELSE tx[p].seen[t]]]

Query(p) ==
  /\ AtStep(p, {"need", "fresh", "room", "is", "has", "lacks", "shows", "listed"})
  /\ IF Holds(p)
     THEN Advance(p, IF Here(p).op = "need" THEN Loaded(p) ELSE tx[p]) /\ UNCHANGED jobs
     ELSE Refuse(p)
  /\ UNCHANGED <<kind, rows, things, mishaps>>
-----------------------------------------------------------------------------
(* Changes of rows.  A changed row is locked until its transaction ends; a *)
(* new one is not seen by the others, who wait for it only when they       *)
(* insert the same value into the same unique index.                       *)

Held(p) ==
  IF Busy(p)
  THEN {<<RowOf(t), Key(p, RowOf(t))>> :
          t \in {u \in Tables : tx[p].mine[u] # Same /\ RowOf(u) \notin tx[p].added}}
  ELSE {}

Waits(p) ==
  LET r == RowOf(Here(p).on)
  IN \E q \in Procs \ {p} : <<r, Key(p, r)>> \in Held(q)

\* A UPDATE of a row that is gone raises StaleDataError.
Stale(p) == RowOf(Here(p).on) \in tx[p].gone

Flushed(p) ==
  [tx[p] EXCEPT
     !.added = IF Here(p).op = "add" THEN @ \cup {Here(p).on} ELSE @ \ {Here(p).on},
     !.mine = [t \in Tables |->
       IF t = Here(p).on
       THEN IF Own(p, t) = "twice" /\ Here(p).op # "clear"
            THEN IF Here(p).op = "delete" THEN "there" ELSE "twice"
            ELSE Value(p)
       ELSE IF Here(p).op \in {"delete", "clear"} /\ RowOf(t) = Here(p).on THEN None
       ELSE tx[p].mine[t]]]

\* Nothing is sent when nothing changes.
NoChange(p) ==
  \/ Here(p).op = "update" /\ View(p, Here(p).on) = Value(p)
  \/ Here(p).op \in {"delete", "clear"} /\ (Stale(p) \/ Own(p, Here(p).on) = None)

\* The unique index refuses a second row of the name.
Broken(p) ==
  \/ Here(p).op = "insert" /\ Own(p, Here(p).on) # None
  \/ Here(p).op \in {"update", "rekey"} /\ Stale(p)

Flush(p) ==
  /\ AtStep(p, {"insert", "add", "update", "rekey", "delete", "clear"})
  /\ IF NoChange(p) THEN Advance(p, tx[p]) /\ UNCHANGED jobs
     ELSE /\ Here(p).op # "add" => ~Waits(p)
          /\ IF Broken(p) THEN Abort(p) ELSE Advance(p, Flushed(p)) /\ UNCHANGED jobs
  /\ UNCHANGED <<kind, rows, things, mishaps>>

\* The rows after p's commit, and what it means for the other sessions.
Committed(p) ==
  [t \in Tables |-> [k \in Names[kind] |-> Visible(p, t, k)]]
Deleted(p) == {t \in Tables : RowOf(t) = t /\ tx[p].mine[t] = None}
Others(p) ==
  [q \in Procs |->
     IF q # p /\ Busy(q)
     THEN [tx[q] EXCEPT !.gone = @ \cup
             {t \in Deleted(p) : Key(q, t) = Key(p, t) /\ tx[q].seen[t] # Unread}]
     ELSE tx[q]]

CommitNow(p) ==
  /\ AtStep(p, {"commit"})
  /\ rows' = Committed(p)
  /\ \E at \in Lands[kind][tx[p].name][tx[p].at + 1] :
       tx' = [Others(p) EXCEPT ![p] =
              [tx[p] EXCEPT !.at = at, !.seen = [t \in Tables |-> 
                               IF tx[p].mine[t] = Same THEN tx[p].seen[t] ELSE tx[p].mine[t]],
                            !.mine = [t \in Tables |-> Same], !.added = {}]]
  /\ UNCHANGED <<kind, things, jobs, mishaps>>

Return(p) ==
  /\ Busy(p) /\ tx[p].at = Len(Steps(p)) + 1
  /\ rows' = Committed(p)
  /\ tx' = [Others(p) EXCEPT ![p] = Idle]
  /\ Done(p)
  /\ UNCHANGED <<kind, things, mishaps>>
-----------------------------------------------------------------------------
(* Calls to the system. *)

After(p) ==
  LET t == Here(p).on
      set(v) == [things EXCEPT ![t][Key(p, t)] = Shown(v)]
      lines  == [u \in Tables |-> IF FileOf(u) = FileOf(t) THEN tx[p].file[u] ELSE things[u]]
  IN CASE Here(p).op = "make"   -> set(IF Thing(p, t) = None THEN Value(p) ELSE Thing(p, t))
       [] Here(p).op \in {"new", "put", "change"} -> set(Value(p))
       [] Here(p).op = "drop"   -> set(None)
       [] Here(p).op = "count"  -> set(IF Thing(p, t) = None THEN "one" ELSE "full")
       [] Here(p).op = "wipe"   -> [things EXCEPT ![t] = [k \in Names[kind] |-> None]]
       [] Here(p).op = "copy"   -> set(Thing(p, Here(p).val))
       [] Here(p).op = "move"   ->
            [set(Thing(p, Here(p).val)) EXCEPT ![Here(p).val][Key(p, Here(p).val)] = None]
       [] Here(p).op = "save"   -> [lines EXCEPT ![t][Key(p, t)] = Shown(Value(p))]
       [] Here(p).op = "mirror" -> [things EXCEPT ![t] = tx[p].file[Here(p).val]]

Changes == {"make", "new", "put", "change", "drop", "wipe", "count", "copy", "move", "save", "mirror"}
Impossible(p) ==
  \/ Here(p).op = "change" /\ Thing(p, Here(p).on) = None
  \/ Here(p).op = "new" /\ Thing(p, Here(p).on) # None
  \/ Here(p).op = "move" /\ Thing(p, Here(p).val) = None

\* What is saved has been changed in memory first.
Written(p) ==
  IF Here(p).op = "save"
  THEN [tx[p] EXCEPT !.file[Here(p).on][Key(p, Here(p).on)] = Shown(Value(p))] ELSE tx[p]

Call(p) ==
  /\ AtStep(p, Changes)
  /\ IF Impossible(p)
     THEN Refuse(p) /\ UNCHANGED things
     ELSE Advance(p, Written(p)) /\ things' = After(p) /\ UNCHANGED jobs
  /\ UNCHANGED <<kind, rows, mishaps>>

\* A call that fails or times out may have done its work or not.
CallFails(p) ==
  /\ AtStep(p, Changes)
  /\ ~Impossible(p)
  /\ Mishap("call")
  /\ things' \in {things, After(p)}
  /\ Refuse(p)
  /\ UNCHANGED <<kind, rows>>

\* A file that cannot be read, a task that cannot be sent.
AskFails(p) ==
  /\ AtStep(p, {"read", "spawn"})
  /\ Mishap("call")
  /\ Refuse(p)
  /\ UNCHANGED <<kind, rows, things>>

ReadFile(p) ==
  /\ AtStep(p, {"read", "collect"})
  /\ Advance(p, [tx[p] EXCEPT !.file = [t \in Tables |->
        IF FileOf(t) # FileOf(Here(p).on) THEN @[t]
        ELSE [k \in Names[kind] |->
                IF Here(p).op = "read" THEN things[t][k] ELSE Shown(Visible(p, t, k))]]])
  /\ UNCHANGED <<kind, rows, things, jobs, mishaps>>

Control(p) ==
  /\ AtStep(p, {"jump", "spawn"})
  /\ IF Here(p).op = "jump" THEN Refuse(p)
     ELSE LET again == Here(p).val = tx[p].name
              key   == IF again THEN tx[p].job ELSE tx[p].key
          IN /\ Advance(p, [tx[p] EXCEPT !.again = again])
             /\ jobs' = jobs \cup {[name |-> Here(p).val, key |-> key]}
  /\ UNCHANGED <<kind, rows, things, mishaps>>
-----------------------------------------------------------------------------
Overlaps(p) ==
  IF \E q \in Procs \ {p} : Busy(q) THEN Mishap("overlap")
  ELSE UNCHANGED mishaps

Start(p, n, k, a) ==
  \E at \in Lands[kind][n][1] : tx' = [tx EXCEPT ![p] = [Session(n, k, a) EXCEPT !.at = at]]

Asks(n) ==
  IF \E i \in DOMAIN Scripts[kind][n] : Scripts[kind][n][i].val = Asked THEN Answers ELSE {None}

\* A request arrives.
Begin(p) ==
  /\ p \in Web /\ ~Busy(p)
  /\ \E n \in DOMAIN Scripts[kind] \ Tasks[kind], k \in Names[kind] :
       \E v \in Asks(n) : Start(p, n, k, v)
  /\ Overlaps(p)
  /\ UNCHANGED <<kind, rows, things, jobs>>

\* Beat sends a task when its time has come.
Beat ==
  /\ \E n \in Periodic[kind], k \in Names[kind] : jobs' = jobs \cup {[name |-> n, key |-> k]}
  /\ UNCHANGED <<kind, rows, things, tx, mishaps>>

\* A worker takes a task that is not acknowledged: also one that another is
\* at work on, for Redis delivers a task again that runs for over an hour.
Take(p, j) ==
  /\ p \in Workers /\ ~Busy(p)
  /\ j \in jobs /\ j.name \notin Unserved
  /\ \E v \in Asks(j.name) : Start(p, j.name, j.key, v)
  /\ Overlaps(p)
  /\ UNCHANGED <<kind, rows, things, jobs>>

\* A process dies; its transaction is rolled back, its task stays queued.
Crash(p) ==
  /\ Busy(p)
  /\ Mishap("crash")
  /\ tx' = [tx EXCEPT ![p] = Idle]
  /\ UNCHANGED <<kind, rows, things, jobs>>

Init ==
  /\ kind \in Kinds
  /\ rows = [t \in TablesOf[kind] |->
              [k \in Names[kind] |-> IF t \in Given[kind] THEN "there" ELSE None]]
  /\ things = rows
  /\ tx = [p \in Procs |-> Idle]
  /\ jobs = {}
  /\ mishaps = [m \in {"overlap", "call", "crash"} |-> 0]

Runs(p) ==
  Query(p) \/ NewKey(p) \/ Flush(p) \/ CommitNow(p) \/ Return(p) \/ Call(p) \/ ReadFile(p) \/ Control(p)

Next ==
  \/ Beat
  \/ \E p \in Procs :
       Begin(p) \/ (\E j \in jobs : Take(p, j)) \/ Runs(p) \/ CallFails(p) \/ AskFails(p) \/ Crash(p)

Spec == Init /\ [][Next]_vars

\* What runs goes on, and a queue is a list in Redis whose messages have
\* their turn; nothing says that requests arrive.
Messages == UNION {[name : Tasks[k], key : Names[k]] : k \in Kinds}
FairSpec ==
  /\ Spec
  /\ \A p \in Procs : WF_vars(Runs(p))
  /\ \A p \in Workers : \A j \in Messages : SF_vars(Take(p, j))
-----------------------------------------------------------------------------
Sessions ==
  [name : DOMAIN Scripts[kind], at : Nat, key : Names[kind], job : Names[kind],
   again : BOOLEAN, asked : Answers \cup {None}, added : SUBSET Tables, gone : SUBSET Tables,
   seen : [Tables -> Values \cup {Unread}], mine : [Tables -> Values \cup {Same}],
   file : [Tables -> [Names[kind] -> Values]]]

\* Each variable has its type; a session works on tables of its kind.
TypeOK ==
  /\ kind \in Kinds
  /\ rows \in [TablesOf[kind] -> [Names[kind] -> Values]]
  /\ things \in [TablesOf[kind] -> [Names[kind] -> Values]]
  /\ tx \in [Procs -> Sessions \cup {Idle}]
  /\ \A p \in Procs : Busy(p) => tx[p].at \in 1 .. Len(Steps(p)) + 1
  /\ jobs \subseteq [name : Tasks[kind], key : Names[kind]]
  /\ mishaps \in [{"overlap", "call", "crash"} -> Nat]
=============================================================================
