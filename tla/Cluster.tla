-------------------------------- MODULE Cluster --------------------------------
(***************************************************************************)
(* The multi-server cluster: the rows of cluster_nodes and                 *)
(* cluster_assignments, the three Celery tasks that watch and balance the  *)
(* nodes, and the requests an administrator or a node makes.               *)
(*                                                                         *)
(* Tasks and requests run in several processes.  Each works in a           *)
(* transaction of its own: it loads rows, talks to nodes for seconds, and  *)
(* writes what it remembers.  A transaction takes several steps here.  Row *)
(* locks, the foreign key and its ON DELETE CASCADE are PostgreSQL's       *)
(* (READ COMMITTED); an UPDATE is sent by the flush that precedes the next *)
(* query of the session or its commit, one row at a time, in the order     *)
(* SQLAlchemy sends them: cluster_nodes, then cluster_assignments, each by *)
(* primary key.                                                            *)
(***************************************************************************)
EXTENDS Integers, FiniteSets

CONSTANTS
    Nodes,        \* primary keys of cluster_nodes
    Assignments,  \* primary keys of cluster_assignments
    Type,         \* node_type of each node
    Kind,         \* the service of an assignment's resource_type
    Members,      \* nodes that are in the cluster at first
    Procs,        \* worker and API processes
    Ops,          \* what each process may run
    Threshold,    \* _FAILOVER_THRESHOLD
    Dead,         \* nodes that never answer
    CountBy,      \* the contacts whose failure seen counts ...
    ResetBy,      \* ... and those whose success starts it again
    Gone,         \* where a deleted assignment is
    None          \* no node

AllOps == {"heartbeat", "health", "balance", "check", "post", "migrate",
           "remove", "add", "crash"}
Contacts == {"heartbeat", "health", "check", "post"}

ASSUME RowsAssumption ==
    /\ Nodes \subseteq Nat /\ Assignments \subseteq Nat
    /\ \A n \in Nodes, a \in Assignments : n < a
    /\ IsFiniteSet(Nodes) /\ IsFiniteSet(Assignments)
    /\ {Gone, None} \cap (Nodes \cup Assignments) = {}
ASSUME NodesAssumption ==
    /\ Type \in [Nodes -> {"web", "mail", "db", "all"}]
    /\ Kind \in [Assignments -> {"web", "mail", "db"}]
    /\ Members \subseteq Nodes /\ Dead \subseteq Nodes
    /\ Threshold \in Nat \ {0}
ASSUME ProcsAssumption ==
    /\ Ops \in [Procs -> SUBSET AllOps]
    /\ CountBy \subseteq Contacts /\ ResetBy \subseteq Contacts

VARIABLES
    state,   \* a node is "new" (not added yet), "on", "off" (is_active) or "gone"
    failed,  \* failed_checks, counted up to the threshold
    home,    \* node_id of an assignment
    seen,    \* history: failed contacts with a node, see CountBy and ResetBy
    tx,      \* the transaction of a process
    plan     \* what a balancing transaction has in memory besides

vars == <<state, failed, home, seen, tx, plan>>

-----------------------------------------------------------------------------
(* Transactions.                                                           *)

Rows  == Nodes \cup Assignments
Count == 0..Threshold
Least(S) == CHOOSE x \in S : \A y \in S : x <= y

\* todo: rows the loop has still to visit; node: the one it is at; val: the
\* failed_checks of the loaded objects; set: those of them that were changed;
\* off: those with is_active set to False; to: new node_ids; dirty: rows to flush;
\* held: rows flushed, which stay locked until the commit.
Tx == [op : AllOps \cup {"idle"},
       pc : {"idle", "contact", "failover", "remove", "delete", "balance", "commit"},
       todo : SUBSET Rows, node : Nodes \cup {None}, val : [Nodes -> Count],
       set : SUBSET Nodes, off : SUBSET Nodes,
       to : [Assignments -> Nodes \cup {Gone}],
       dirty : SUBSET Rows, held : SUBSET Rows]

\* The attributes of the objects are those of the rows when they were loaded.
Begun(op, pc, todo, node) ==
    [op |-> op, pc |-> pc, todo |-> todo, node |-> node, val |-> failed, set |-> {},
     off |-> {}, to |-> home, dirty |-> {}, held |-> {}]

Idle == [op |-> "idle", pc |-> "idle", todo |-> {}, node |-> None,
         val |-> [n \in Nodes |-> 0], set |-> {}, off |-> {},
         to |-> [a \in Assignments |-> Gone], dirty |-> {}, held |-> {}]

\* size and total: number of nodes loaded and of their assignments; cnt: the
\* assignments of each node; over and under: the nodes above the threshold and
\* below the average that have still to be dealt with; head: underloaded[0];
\* src: the overloaded node at hand.
Plan == [size : Nat, total : Nat, cnt : [Nodes -> Int], over : SUBSET Nodes,
         under : SUBSET Nodes, head : Nodes \cup {None}, src : Nodes \cup {None}]

NoPlan == [size |-> 0, total |-> 0, cnt |-> [n \in Nodes |-> 0], over |-> {},
           under |-> {}, head |-> None, src |-> None]

\* What a query of p sees: the committed rows and p's own flushed changes.
Sees(p, n)    == IF n \in tx[p].off \cap tx[p].held THEN "off" ELSE state[n]
Failures(p, n) == IF n \in tx[p].set \cap tx[p].held THEN tx[p].val[n] ELSE failed[n]
HomeSeen(p, a) == IF a \in tx[p].held THEN tx[p].to[a] ELSE home[a]

At(p, n) == {a \in Assignments : HomeSeen(p, a) = n}

Exists(n) == state[n] \in {"on", "off"}

\* (node_type == x) | (node_type == "all") | (x == "all")
Compatible(n, m) == Type[m] = Type[n] \/ Type[m] = "all" \/ Type[n] = "all"

-----------------------------------------------------------------------------
(* PostgreSQL and the unit of work.                                        *)

RowExists(r) == IF r \in Nodes THEN Exists(r) ELSE home[r] # Gone

\* p is deleting the node: its row and whatever refers to it are locked
Deletes(p) == IF tx[p].op = "remove" /\ tx[p].node \in tx[p].held
              THEN {tx[p].node} ELSE {}

\* the foreign keys of flushed assignments lock the nodes they refer to
Refers(p) == {tx[p].to[a] : a \in (tx[p].held \ tx[p].dirty) \cap Assignments}

\* the rows and nodes p's next statement has to wait for
Wants(p) ==
    IF tx[p].dirty # {}
    THEN LET r == Least(tx[p].dirty) IN
         {r} \cup (IF r \in Assignments THEN {tx[p].to[r]} \cap Nodes ELSE {})
    ELSE {tx[p].node} \cup At(p, tx[p].node)

\* p is at a query or at its commit, not in a loop without one
Flushes(p)   == /\ tx[p].dirty # {} /\ tx[p].pc # "contact"
                /\ tx[p].pc = "balance" => tx[p].todo = {}
Statement(p) == Flushes(p) \/ (tx[p].dirty = {} /\ tx[p].pc = "delete")

WaitsFor(p, q) ==
    /\ p # q /\ Statement(p)
    /\ LET r == Wants(p)
           own == IF tx[p].dirty # {} THEN {Least(tx[p].dirty)} ELSE r
       IN \/ own \cap tx[q].held # {}
          \/ r \cap Deletes(q) # {}
          \/ tx[p].dirty = {} /\ tx[p].node \in Refers(q)

Blocked(p) == \E q \in Procs : WaitsFor(p, q)

\* p's transaction becomes t, and nothing is written yet
Continue(p, t) == /\ tx' = [tx EXCEPT ![p] = t]
                  /\ UNCHANGED <<state, failed, home, plan>>

Rollback(p) == /\ tx' = [tx EXCEPT ![p] = Idle]
               /\ plan' = [plan EXCEPT ![p] = NoPlan]
               /\ UNCHANGED <<state, failed, home, seen>>

\* An UPDATE that matches no row raises StaleDataError, one whose node_id refers
\* to no node an IntegrityError; a DELETE may match no row.
Fails(p, r) ==
    \/ ~ RowExists(r) /\ ~ (r \in Assignments /\ tx[p].to[r] = Gone)
    \/ r \in Assignments /\ tx[p].to[r] \in Nodes /\ ~ Exists(tx[p].to[r])

\* One statement of a flush.
Flush(p) ==
    /\ Flushes(p) /\ ~ Blocked(p)
    /\ \E r \in tx[p].dirty :
          /\ r = Least(tx[p].dirty)
          /\ IF Fails(p, r) THEN Rollback(p)
             ELSE /\ Continue(p, [tx[p] EXCEPT !.dirty = tx[p].dirty \ {r},
                                              !.held = tx[p].held \cup {r}])
                  /\ UNCHANGED seen

\* PostgreSQL ends one of the transactions that wait for each other.
Deadlock(p) ==
    /\ \E S \in SUBSET Procs : p \in S /\ \A q \in S : \E s \in S : WaitsFor(q, s)
    /\ Rollback(p)

\* The worker or the API process dies, and its connection with it.
Crash(p) == "crash" \in Ops[p] /\ tx[p].pc # "idle" /\ Rollback(p)

Commit(p) ==
    LET t == tx[p] IN
    /\ t.pc = "commit" /\ t.dirty = {}
    /\ state' = [n \in Nodes |-> IF n \in Deletes(p) THEN "gone"
                                 ELSE IF n \in t.off \cap t.held THEN "off" ELSE state[n]]
    /\ failed' = [n \in Nodes |-> IF n \in Deletes(p) THEN 0
                                  ELSE IF n \in t.set \cap t.held THEN t.val[n] ELSE failed[n]]
    /\ home' = [a \in Assignments |-> IF a \in t.held THEN t.to[a] ELSE home[a]]
    /\ tx' = [tx EXCEPT ![p] = Idle]
    /\ plan' = [plan EXCEPT ![p] = NoPlan]
    /\ UNCHANGED seen

-----------------------------------------------------------------------------
(* The loops of the tasks and requests.                                    *)

Starts(p, op) == op \in Ops[p] /\ tx[p].pc = "idle"

On == {n \in Nodes : state[n] = "on"}

\* cluster_heartbeat and cluster_health_check load the active nodes
Collect(p, op) ==
    /\ Starts(p, op) /\ On # {}
    /\ Continue(p, Begun(op, "contact", On, None))
    /\ UNCHANGED seen

\* GET /cluster/nodes/{id}/health, up to the contact
node_health_check(p, n) ==
    /\ Starts(p, "check") /\ Exists(n)
    /\ Continue(p, Begun("check", "contact", {n}, None))
    /\ UNCHANGED seen

Note(n, kind, ok) ==
    seen' = [seen EXCEPT ![n] = IF ok /\ kind \in ResetBy THEN 0
                                ELSE IF ~ ok /\ kind \in CountBy /\ @ < Threshold THEN @ + 1
                                ELSE @]

\* Mutant of Increment: starting again at the threshold.
Mutant_Increment_wraps(k) == IF k + 1 < Threshold THEN k + 1 ELSE 0

\* node.failed_checks += 1
Increment(k) == IF k < Threshold THEN k + 1 ELSE Threshold

\* Mutant of After: the loop ends with the first node.
Mutant_After(todo) == "commit"

After(todo) == IF todo = {} THEN "commit" ELSE "contact"

\* A contact with one node, and what the loop body does with the answer.
ContactWith(p, n, ok) ==
    LET t    == tx[p]
        val  == IF ok THEN 0 ELSE Increment(t.val[n])
        over == t.op = "health" /\ ~ ok /\ val >= Threshold
    IN
    /\ t.pc = "contact" /\ n \in t.todo
    /\ ok => n \notin Dead
    /\ Note(n, t.op, ok)
    /\ Continue(p, [t EXCEPT !.pc = IF over THEN "failover" ELSE After(t.todo \ {n}),
                             !.todo = t.todo \ {n},
                             !.node = IF over THEN n ELSE None,
                             !.val = [t.val EXCEPT ![n] = val],
                             !.set = IF ok /\ t.val[n] = 0 THEN t.set ELSE t.set \cup {n},
                             !.off = IF over THEN t.off \cup {n} ELSE t.off,
                             !.dirty = t.dirty \cup {n}])

\* Mutant of Contact: without a timeout, a node that is down is waited for.
Mutant_Contact(p, n, ok) == n \notin Dead /\ ContactWith(p, n, ok)

Contact(p, n, ok) == ContactWith(p, n, ok)

\* Where a failed node's assignments may go.
Candidates(p, n) ==
    {m \in Nodes \ {n} : Sees(p, m) = "on" /\ Failures(p, m) < Threshold /\ Compatible(n, m)}

\* The candidates take turns, in the order of their load.
Spread(A, C) ==
    {f \in [A -> C] : \A c, d \in C :
        Cardinality({a \in A : f[a] = c}) <= Cardinality({a \in A : f[a] = d}) + 1}

\* Once the node is flushed as inactive: the rest of _perform_failover, which moves
\* the assignments A.
FailoverOf(p, A) ==
    LET t == tx[p]
        C == Candidates(p, t.node)
    IN
    /\ t.pc = "failover" /\ t.dirty = {}
    /\ \E f \in IF C = {} THEN {t.to} ELSE Spread(A, C) :
          Continue(p, [t EXCEPT !.pc = After(t.todo),
                                !.node = None,
                                !.to = [a \in Assignments |->
                                          IF C # {} /\ a \in A THEN f[a] ELSE t.to[a]],
                                !.dirty = IF C = {} THEN {} ELSE A])
    /\ UNCHANGED seen

\* Mutant of _perform_failover: the assignments are those loaded before the run.
Mutant_perform_failover(p) ==
    FailoverOf(p, {a \in Assignments : home[a] = tx[p].node})

_perform_failover(p) == FailoverOf(p, At(p, tx[p].node))

\* POST /cluster/heartbeat
receive_heartbeat(p, n) ==
    /\ Starts(p, "post") /\ Exists(n) /\ n \notin Dead
    /\ Continue(p, [Begun("post", "commit", {}, None) EXCEPT
                    !.val[n] = 0, !.dirty = {n},
                    !.set = IF failed[n] = 0 THEN {} ELSE {n}])
    /\ Note(n, "post", TRUE)

\* POST /cluster/nodes: hostname is unique; the node is added even if it does not
\* answer.
add_cluster_node(p, n) ==
    /\ Starts(p, "add") /\ state[n] = "new"
    /\ state' = [state EXCEPT ![n] = "on"]
    /\ UNCHANGED <<failed, home, seen, tx, plan>>

\* POST /cluster/migrate, up to the calls to the two nodes, whose failure changes
\* nothing but the text of the answer.
migrate_resource(p, a, m) ==
    /\ Starts(p, "migrate")
    /\ home[a] # Gone /\ m # home[a] /\ state[m] = "on"
    /\ Continue(p, [Begun("migrate", "commit", {}, None) EXCEPT !.to[a] = m, !.dirty = {a}])
    /\ UNCHANGED seen

\* DELETE /cluster/nodes/{id} loads the node and its assignments ...
remove_cluster_node(p, n) ==
    LET A == {a \in Assignments : home[a] = n} IN
    /\ Starts(p, "remove") /\ Exists(n)
    /\ Continue(p, Begun("remove", IF A = {} THEN "delete" ELSE "remove", A, n))
    /\ UNCHANGED seen

\* ... looks for a node for each (any active one that fits, whatever its
\* failed_checks) and deletes an assignment that has none ...
Alternatives(p, n) == {m \in Nodes \ {n} : Sees(p, m) = "on" /\ Compatible(n, m)}

RemoveMoveTo(p, C) ==
    LET t == tx[p] IN
    /\ t.pc = "remove" /\ t.dirty = {}
    /\ \E a \in t.todo, m \in C :
          Continue(p, [t EXCEPT !.to = [t.to EXCEPT ![a] = m], !.dirty = {a},
                                !.todo = t.todo \ {a},
                                !.pc = IF t.todo = {a} THEN "delete" ELSE "remove"])
    /\ UNCHANGED seen

Orphaned(C) == IF C = {} THEN {Gone} ELSE C

\* Mutants of RemoveMove: node_id is emptied instead of the row deleted; only a
\* node of the very same type will do.
Mutant_RemoveMove_null(p) ==
    LET C == Alternatives(p, tx[p].node) IN RemoveMoveTo(p, IF C = {} THEN {None} ELSE C)
Mutant_RemoveMove_type(p) ==
    RemoveMoveTo(p, Orphaned({m \in Alternatives(p, tx[p].node) : Type[m] = Type[tx[p].node]}))

RemoveMove(p) == RemoveMoveTo(p, Orphaned(Alternatives(p, tx[p].node)))

\* ... then deletes the node, and what refers to it by then with it.
RemoveDeleteWith(p, A) ==
    LET t == tx[p] IN
    /\ t.pc = "delete" /\ t.dirty = {} /\ ~ Blocked(p)
    /\ Continue(p, [t EXCEPT !.pc = "commit",
                             !.held = t.held \cup A \cup {t.node},
                             !.to = [a \in Assignments |-> IF a \in A THEN Gone ELSE t.to[a]]])
    /\ UNCHANGED seen

\* Mutant of RemoveDelete: neither relationship nor foreign key cascades.
Mutant_RemoveDelete(p) == RemoveDeleteWith(p, {})

RemoveDelete(p) == RemoveDeleteWith(p, At(p, tx[p].node))

-----------------------------------------------------------------------------
(* cluster_auto_balance and POST /cluster/balance: the same loops.         *)

\* count > max(avg * 1.5, avg + 2), count < avg and count >= avg, in integers
Overloaded(b, n)  == /\ 2 * b.cnt[n] * b.size > 3 * b.total
                     /\ b.cnt[n] * b.size > b.total + 2 * b.size
Underloaded(b, n) == b.cnt[n] * b.size < b.total

\* Mutant of Excess: rounded up.
Mutant_Excess(b, n) == (b.cnt[n] * b.size - b.total + b.size - 1) \div b.size

\* int(count - avg)
Excess(b, n)      == (b.cnt[n] * b.size - b.total) \div b.size

\* the nodes that can come first in the list sorted by count
Heads(b, U) == IF U = {} THEN {None}
               ELSE {n \in U : \A m \in U : b.cnt[n] <= b.cnt[m]}

Load(h, n) == Cardinality({a \in Assignments : h[a] = n})

\* node_counts (node_loads) and what is computed from them
Averages == [size |-> Cardinality(On),
             total |-> Cardinality({a \in Assignments : home[a] \in On}),
             cnt |-> [n \in Nodes |-> Load(home, n)],
             over |-> {}, under |-> {}, head |-> None, src |-> None]

auto_balance(p) ==
    LET b == Averages
        U == {n \in On : Underloaded(b, n)}
    IN
    /\ Starts(p, "balance")
    /\ b.size >= 2 /\ b.total > 0
    /\ tx' = [tx EXCEPT ![p] = Begun("balance", "balance", {}, None)]
    /\ \E h \in Heads(b, U) :
          plan' = [plan EXCEPT ![p] = [b EXCEPT !.over = {n \in On : Overloaded(b, n)},
                                                !.under = U, !.head = h]]
    /\ UNCHANGED <<state, failed, home, seen>>

\* the next overloaded node and the assignments to move off it
BalanceSource(p) ==
    LET t == tx[p]
        b == plan[p]
    IN
    /\ t.pc = "balance" /\ t.todo = {} /\ b.over # {} /\ t.dirty = {}
    /\ \E s \in b.over :
          LET A == At(p, s)
              k == IF Excess(b, s) < Cardinality(A) THEN Excess(b, s) ELSE Cardinality(A)
          IN
          /\ \E M \in SUBSET A : Cardinality(M) = k /\ tx' = [tx EXCEPT ![p] = [t EXCEPT !.todo = M]]
          /\ plan' = [plan EXCEPT ![p] = [b EXCEPT !.over = b.over \ {s}, !.src = s]]
    /\ UNCHANGED <<state, failed, home, seen>>

\* underloaded once its head has reached the average
Remaining(b) == IF Underloaded(b, b.head) THEN b.under ELSE b.under \ {b.head}

\* node_counts after a move to the head of the list
Moved(b) == [n \in Nodes |-> IF n = b.src THEN b.cnt[n] - 1
                             ELSE IF n = b.head THEN b.cnt[n] + 1 ELSE b.cnt[n]]

\* one assignment of it; the head of the list stays when its type does not fit
BalanceMove(p) ==
    LET t == tx[p]
        b == plan[p]
        c == [b EXCEPT !.cnt = Moved(b)]
        U == Remaining(c)
    IN
    /\ t.pc = "balance" /\ t.todo # {}
    /\ IF b.under = {}
       THEN Continue(p, [t EXCEPT !.todo = {}])
       ELSE \E a \in t.todo :
            /\ a = Least(t.todo)
            /\ IF ~ Compatible(b.src, b.head)
               THEN Continue(p, [t EXCEPT !.todo = t.todo \ {a}])
               ELSE /\ tx' = [tx EXCEPT ![p] = [t EXCEPT !.todo = t.todo \ {a},
                                                         !.to = [t.to EXCEPT ![a] = b.head],
                                                         !.dirty = t.dirty \cup {a}]]
                    /\ \E h \in IF U = b.under THEN {b.head} ELSE Heads(c, U) :
                          plan' = [plan EXCEPT ![p] = [c EXCEPT !.under = U, !.head = h]]
                    /\ UNCHANGED <<state, failed, home>>
    /\ UNCHANGED seen

BalanceEnd(p) ==
    /\ tx[p].pc = "balance" /\ tx[p].todo = {} /\ plan[p].over = {}
    /\ Continue(p, [tx[p] EXCEPT !.pc = "commit"])
    /\ UNCHANGED seen

-----------------------------------------------------------------------------
Init ==
    /\ state = [n \in Nodes |-> IF n \in Members THEN "on" ELSE "new"]
    /\ failed = [n \in Nodes |-> 0]
    /\ home \in [Assignments -> Members]
    /\ \A a \in Assignments : Type[home[a]] \in {Kind[a], "all"}
    /\ seen = [n \in Nodes |-> 0]
    /\ tx = [p \in Procs |-> Idle]
    /\ plan = [p \in Procs |-> NoPlan]

Start(p) ==
    \/ Collect(p, "heartbeat")
    \/ Collect(p, "health")
    \/ auto_balance(p)
    \/ \E n \in Nodes : \/ node_health_check(p, n)
                        \/ receive_heartbeat(p, n)
                        \/ add_cluster_node(p, n)
                        \/ remove_cluster_node(p, n)
    \/ \E a \in Assignments, m \in Nodes : migrate_resource(p, a, m)

Step(p) ==
    \/ \E n \in Nodes, ok \in BOOLEAN : Contact(p, n, ok)
    \/ _perform_failover(p)
    \/ RemoveMove(p) \/ RemoveDelete(p)
    \/ BalanceSource(p) \/ BalanceMove(p) \/ BalanceEnd(p)
    \/ Flush(p) \/ Deadlock(p) \/ Commit(p)

Next == \E p \in Procs : Start(p) \/ Step(p) \/ Crash(p)

Spec == Init /\ [][Next]_vars

\* A process that has begun goes on (every call to a node has a timeout, and
\* PostgreSQL breaks deadlocks); a statement that waits for a row gets it in the
\* end, since PostgreSQL queues those that wait for one.
FairSpec == /\ Spec
            /\ \A p \in Procs : /\ WF_vars(Step(p))
                                /\ SF_vars(Flush(p) \/ RemoveDelete(p))

-----------------------------------------------------------------------------
(* Properties.                                                             *)

\* Every variable has its type (models/cluster.py; the attributes and pending
\* writes of a session).
TypeOK ==
    /\ state \in [Nodes -> {"new", "on", "off", "gone"}]
    /\ failed \in [Nodes -> Count]
    /\ home \in [Assignments -> Nodes \cup {Gone}]
    /\ seen \in [Nodes -> Count]
    /\ tx \in [Procs -> Tx]
    /\ plan \in [Procs -> Plan]

\* A node is deactivated only when at least _FAILOVER_THRESHOLD of the contacts
\* with it that count (CountBy, ResetBy) have failed.  When every kind of contact
\* counts and a success is never taken into account it holds, however the tasks
\* and requests that load, increment and overwrite failed_checks interleave.  When
\* what counts is consecutive health checks, as the comments of the task say, it
\* does not: heartbeats raise the same counter.
DeactivatedAfterFailures == \A n \in Nodes : state[n] = "off" => seen[n] >= Threshold

\* No assignment refers to a node that is not in the table, also when it is moved
\* there by one transaction while another removes the node.
HomesExist == \A a \in Assignments : home[a] # Gone => Exists(home[a])

\* m is active, before and after the step below the threshold, and takes what n has.
TakesOver(n, m) == /\ state'[m] = "on" /\ Compatible(n, m)
                   /\ failed[m] < Threshold /\ failed'[m] < Threshold

\* Of transactions that follow one another: no step newly puts or leaves an
\* assignment on a node that is not active, but for a health check that has to give
\* up that very node and finds no other that takes over; one that gives up several
\* nodes, and the node the assignments of the first went to among them, moves them
\* on.  (With two at once the node may be deactivated between the question and the
\* commit.)
MovesToActiveNode ==
    [][\A a \in Assignments, n \in Nodes :
          home'[a] = n /\ state'[n] # "on" /\ (home[a] # n \/ state[n] = "on") =>
              state[n] = "on" /\ \A m \in Nodes \ {n} : ~ TakesOver(n, m)]_vars

\* Of transactions that follow one another: each task and request, with its loops,
\* its flushes and its queries that see them, is one step of Placement; it counts
\* every contact once, gives up exactly the nodes that have reached the threshold
\* and puts their assignments where Placement allows.
Serially == INSTANCE Placement
OneAtATime == Serially!Spec

\* "Migrates resources to other nodes first": an assignment is deleted only when
\* no other active node fits.  It holds of transactions that follow one another; a
\* migration that overtakes the removal breaks it.
RemovalMovesFirst ==
    [][\A a \in Assignments :
          home[a] # Gone /\ home'[a] = Gone =>
              \A m \in Nodes \ {home[a]} : ~ (state[m] = "on" /\ Compatible(home[a], m))]_vars

BalanceEnds == \E p \in Procs : tx[p].op = "balance" /\ tx[p].pc = "commit" /\ tx'[p].pc = "idle"

\* A balancing run takes no node above the average by more than the last
\* assignment it got and no node below it.
BalanceStopsAtAverage ==
    [][BalanceEnds =>
         \A n \in On :
            /\ Load(home', n) > Load(home, n) =>
                  (Load(home', n) - 1) * Averages.size < Averages.total
            /\ Load(home', n) < Load(home, n) =>
                  Load(home', n) * Averages.size >= Averages.total]_vars

\* Every task and request ends: they may wait for each other's rows, and even
\* deadlock, but not forever.
TransactionsEnd == \A p \in Procs : tx[p].pc # "idle" ~> tx[p].pc = "idle"

HealthChecked == \E p \in Procs : tx[p].op = "health" /\ Commit(p)

\* As long as health checks are done again and again (nothing is assumed to make
\* them), a node that never answers does not stay active, however often the counts
\* are overwritten, rolled back or lost with a worker.
DeadNodesAreDeactivated ==
    []<><<HealthChecked>>_vars => \A n \in Dead : state[n] = "on" ~> state[n] # "on"

=============================================================================
