-------------------------- MODULE ClusterAloneProofs ---------------------------
(***************************************************************************)
(* Where transactions that follow one another put assignments, for any     *)
(* number of nodes and assignments and any sequence of tasks and requests: *)
(* on active nodes, nowhere only when no node fits, and, when they balance *)
(* the load, never past the average by more than one.                      *)
(*                                                                         *)
(* The three are about a commit, and what it writes was decided steps      *)
(* earlier.  The invariants carry the reasons along: what the open         *)
(* transaction has in memory (its assignments' new nodes, its plan), and   *)
(* why.                                                                    *)
(***************************************************************************)
EXTENDS ClusterProofs

\* One process: its transactions follow one another.
Alone == \A p, q \in Procs : p = q

Homeless(n) == \A m \in Nodes \ {n} : ~ (state[m] = "on" /\ Compatible(n, m))

\* An assignment stays, or goes, or moves to an active node.
Aimed(t) == \A a \in Assignments : t.to[a] \in {home[a], Gone} \cup On

\* The balancer's targets are active.
Heading(b) == b.under \subseteq On /\ (b.under # {} => b.head \in b.under)

\* A removal visits every assignment of the node, and moves those it has visited
\* off it.
Clearing(t) ==
    t.op = "remove" =>
      /\ t.off = {}
      /\ \A a \in t.todo : home[a] = t.node
      /\ \A a \in Assignments : home[a] = t.node => a \in t.todo \cup t.held \cup t.dirty
      /\ t.pc \in {"delete", "commit"} => t.todo = {}
      /\ \A a \in (t.held \cup t.dirty) \cap Assignments :
            home[a] = t.node /\ t.to[a] # t.node

\* An assignment goes only with its node, and when nothing else fits.
Sparing(t) ==
    \A a \in Assignments : home[a] # Gone /\ t.to[a] = Gone =>
        t.op = "remove" /\ home[a] = t.node /\ Homeless(t.node)

Reasoned(t, b) == /\ Aimed(t) /\ Heading(b)
                  /\ t.pc # "idle" => Clearing(t) /\ Sparing(t)
                  /\ t.pc \in {"remove", "delete"} => t.op = "remove"
                  /\ t.op = "remove" => t.pc \in {"remove", "delete", "commit"}

AllReasoned == \A p \in Procs : Reasoned(tx[p], plan[p])

-----------------------------------------------------------------------------
(* What a step of the only process comes to.                               *)

LEMMA GoneIsNoNode == Gone \notin Nodes /\ Nodes \cap Assignments = {}
<1>1. \A n \in Nodes : n \in Nat /\ ~ (n < n)
  BY RowsAssumption
<1>2. \A n \in Nodes : n \notin Assignments
  BY <1>1, RowsAssumption
<1> QED BY <1>2, RowsAssumption

\* Only a commit changes where assignments are.
LEMMA OnlyCommits ==
  ASSUME NEW p \in Procs, Start(p) \/ Step(p) \/ Crash(p), ~ Commit(p)
  PROVE  home' = home
<1>1. ASSUME Rollback(p) PROVE home' = home
  BY <1>1 DEF Rollback
<1>2. CASE Start(p)
  BY <1>2 DEF Start, Collect, auto_balance, node_health_check, receive_heartbeat,
              add_cluster_node, remove_cluster_node, migrate_resource, Continue
<1>3. CASE \E n \in Nodes, ok \in BOOLEAN : Contact(p, n, ok)
  BY <1>3 DEF Contact, ContactWith, Continue
<1>4. CASE _perform_failover(p)
  BY <1>4 DEF _perform_failover, FailoverOf, Continue
<1>5. CASE RemoveMove(p) \/ RemoveDelete(p)
  BY <1>5 DEF RemoveMove, RemoveMoveTo, RemoveDelete, RemoveDeleteWith, Continue
<1>6. CASE BalanceSource(p) \/ BalanceMove(p) \/ BalanceEnd(p)
  BY <1>6 DEF BalanceSource, BalanceMove, BalanceEnd, Continue
<1>7. CASE Flush(p)
  BY <1>1, <1>7 DEF Flush, Continue
<1>8. CASE Deadlock(p) \/ Crash(p)
  BY <1>1, <1>8 DEF Deadlock, Crash
<1> QED BY <1>2, <1>3, <1>4, <1>5, <1>6, <1>7, <1>8 DEF Step

\* The only transaction becomes t, with the plan b.
LEMMA OneReasoned ==
  ASSUME Typed, Alone, NEW p \in Procs, NEW t, NEW b,
         tx' = [tx EXCEPT ![p] = t], plan' = [plan EXCEPT ![p] = b],
         Reasoned(t, b)'
  PROVE  AllReasoned'
<1>1. tx'[p] = t /\ plan'[p] = b /\ \A q \in Procs : q = p
  BY DEF Alone, Typed, TypeOK
<1> QED BY <1>1 DEF AllReasoned, Reasoned, Aimed, Heading, Clearing, Sparing

\* The same when the rows stay as they are, as they do until a commit.
LEMMA SameReasoned ==
  ASSUME Typed, Alone, NEW p \in Procs, NEW t, NEW b,
         tx' = [tx EXCEPT ![p] = t], plan' = [plan EXCEPT ![p] = b],
         home' = home, state' = state, Reasoned(t, b)
  PROVE  AllReasoned'
<1>1. Reasoned(t, b)'
  BY DEF Reasoned, Aimed, Heading, Clearing, Sparing, Homeless, On
<1> QED BY <1>1, OneReasoned

LEMMA KeptPlan ==
  ASSUME Typed, NEW p \in Procs, plan' = plan PROVE plan' = [plan EXCEPT ![p] = plan[p]]
  BY DEF Typed, TypeOK

\* Whatever the rows are: nothing is decided yet, or any more.
LEMMA IdleReasoned ==
  Reasoned(Idle, NoPlan) /\ Reasoned(Idle, NoPlan)'
  BY DEF Reasoned, Aimed, Heading, Clearing, Sparing, Idle, NoPlan

LEMMA RollbackReasoned ==
  ASSUME Typed, Alone, NEW p \in Procs, Rollback(p) PROVE AllReasoned'
  BY IdleReasoned, OneReasoned DEF Rollback

LEMMA CommitReasoned ==
  ASSUME Typed, Alone, NEW p \in Procs, Commit(p) PROVE AllReasoned'
  BY IdleReasoned, OneReasoned DEF Commit

-----------------------------------------------------------------------------
(* The steps.                                                              *)

LEMMA BegunReasoned ==
  ASSUME NEW op, NEW pc, NEW todo, NEW node, NEW b, Heading(b),
         pc \in {"remove", "delete"} <=> op = "remove",
         op = "remove" => /\ todo = {a \in Assignments : home[a] = node}
                          /\ pc = "delete" => todo = {}
  PROVE  Reasoned(Begun(op, pc, todo, node), b)
  BY DEF Reasoned, Aimed, Clearing, Sparing, Begun

LEMMA StartReasoned ==
  ASSUME Typed, Alone, AllReasoned, NEW p \in Procs, Start(p) PROVE AllReasoned'
<1>0. Reasoned(tx[p], plan[p]) /\ Heading(plan[p])
  BY DEF AllReasoned, Reasoned
<1> DEFINE begins(t) == /\ tx' = [tx EXCEPT ![p] = t] /\ home' = home /\ state' = state
                        /\ plan' = plan /\ Reasoned(t, plan[p])
<1>1. ASSUME NEW t, begins(t) PROVE AllReasoned'
  BY <1>1, KeptPlan, SameReasoned
<1>2. ASSUME NEW op \in {"heartbeat", "health"}, Collect(p, op) PROVE AllReasoned'
  <2>1. begins(Begun(op, "contact", On, None))
    BY <1>0, <1>2, BegunReasoned DEF Collect, Continue
  <2> QED BY <1>1, <2>1
<1>3. CASE auto_balance(p)
  <2> DEFINE a == Averages
             U == {n \in On : Underloaded(a, n)}
             O == {n \in On : Overloaded(a, n)}
             b(h) == [a EXCEPT !.over = O, !.under = U, !.head = h]
  <2>1. PICK h \in Heads(a, U) : plan' = [plan EXCEPT ![p] = b(h)]
    BY <1>3 DEF auto_balance
  <2>2. b(h).under = U /\ b(h).head = h /\ U \subseteq On
    BY DEF Averages
  <2> HIDE DEF U, b
  <2>3. Heading(b(h))
    BY <2>1, <2>2 DEF Heading, Heads
  <2>4. Reasoned(Begun("balance", "balance", {}, None), b(h))
    BY <2>3, BegunReasoned
  <2> QED BY <1>3, <2>1, <2>4, SameReasoned DEF auto_balance
<1>4. ASSUME NEW n \in Nodes, node_health_check(p, n) PROVE AllReasoned'
  <2>1. begins(Begun("check", "contact", {n}, None))
    BY <1>0, <1>4, BegunReasoned DEF node_health_check, Continue
  <2> QED BY <1>1, <2>1
<1>5. ASSUME NEW n \in Nodes, receive_heartbeat(p, n) PROVE AllReasoned'
  <2> DEFINE t == [Begun("post", "commit", {}, None) EXCEPT
                     !.val[n] = 0, !.dirty = {n}, !.set = IF failed[n] = 0 THEN {} ELSE {n}]
  <2>1. tx' = [tx EXCEPT ![p] = t] /\ home' = home /\ state' = state /\ plan' = plan
    BY <1>5 DEF receive_heartbeat, Continue
  <2>2. t.op = "post" /\ t.pc = "commit" /\ t.to = home
    BY DEF Begun
  <2> HIDE DEF t
  <2>3. Reasoned(t, plan[p])
    BY <1>0, <2>2 DEF Reasoned, Aimed, Clearing, Sparing
  <2> QED BY <1>1, <2>1, <2>3
<1>6. ASSUME NEW n \in Nodes, add_cluster_node(p, n) PROVE AllReasoned'
  <2>1. /\ tx' = [tx EXCEPT ![p] = tx[p]] /\ plan' = [plan EXCEPT ![p] = plan[p]]
        /\ home' = home /\ tx[p].pc = "idle"
    BY <1>6 DEF add_cluster_node, Starts, Typed, TypeOK
  <2>2. On \subseteq On'
    BY <1>6 DEF add_cluster_node, On, Typed, TypeOK
  <2>3. Reasoned(tx[p], plan[p])'
    BY <1>0, <1>6, <2>1, <2>2 DEF add_cluster_node, Reasoned, Aimed, Heading
  <2>4. AllReasoned'
    BY <2>3 DEF AllReasoned, Alone
  <2> QED BY <2>4
<1>7. ASSUME NEW n \in Nodes, remove_cluster_node(p, n) PROVE AllReasoned'
  <2> DEFINE A  == {a \in Assignments : home[a] = n}
             pc == IF A = {} THEN "delete" ELSE "remove"
  <2>1. Reasoned(Begun("remove", pc, A, n), plan[p])
    <3>1. pc \in {"remove", "delete"} /\ (pc = "delete" => A = {})
      OBVIOUS
    <3> HIDE DEF pc
    <3> QED BY <1>0, <3>1, BegunReasoned
  <2>2. begins(Begun("remove", pc, A, n))
    BY <1>7, <2>1 DEF remove_cluster_node, Continue
  <2> QED BY <1>1, <2>2
<1>8. ASSUME NEW a \in Assignments, NEW m \in Nodes, migrate_resource(p, a, m)
      PROVE  AllReasoned'
  <2> DEFINE t == [Begun("migrate", "commit", {}, None) EXCEPT !.to[a] = m, !.dirty = {a}]
  <2>1. tx' = [tx EXCEPT ![p] = t] /\ home' = home /\ state' = state /\ plan' = plan
    BY <1>8 DEF migrate_resource, Continue
  <2>2. t.op = "migrate" /\ t.pc = "commit" /\ t.to = [home EXCEPT ![a] = m]
    BY DEF Begun
  <2>3. m \in On /\ m # Gone /\ home \in [Assignments -> Nodes \cup {Gone}]
    BY <1>8, GoneIsNoNode DEF migrate_resource, On, Typed, TypeOK
  <2> HIDE DEF t
  <2>4. Reasoned(t, plan[p])
    BY <1>0, <2>2, <2>3 DEF Reasoned, Aimed, Clearing, Sparing
  <2> QED BY <1>1, <2>1, <2>4
<1> QED BY <1>2, <1>3, <1>4, <1>5, <1>6, <1>7, <1>8 DEF Start

\* A step that leaves the new nodes of the assignments as they are, in a
\* transaction that removes no node.
LEMMA AsideReasoned ==
  ASSUME NEW old, NEW b, Reasoned(old, b), NEW t,
         old.pc # "idle", old.op # "remove", t.op = old.op, t.to = old.to,
         t.pc \notin {"remove", "delete"}
  PROVE  Reasoned(t, b)
  BY DEF Reasoned, Aimed, Clearing, Sparing

\* The same when some assignments are moved to active nodes.
LEMMA MovedReasoned ==
  ASSUME NEW old, NEW b, NEW c, Reasoned(old, b), Heading(c), NEW t,
         old.pc # "idle", old.op # "remove", t.op = old.op,
         \A a \in Assignments : t.to[a] \in {old.to[a]} \cup On,
         t.pc \notin {"remove", "delete"}
  PROVE  Reasoned(t, c)
<1>1. Gone \notin On
  BY GoneIsNoNode DEF On
<1> QED BY <1>1 DEF Reasoned, Aimed, Clearing, Sparing

LEMMA LoopReasoned ==
  ASSUME Typed, Alone, AllReasoned, NEW p \in Procs,
         \/ \E n \in Nodes, ok \in BOOLEAN : Contact(p, n, ok)
         \/ _perform_failover(p)
         \/ BalanceSource(p) \/ BalanceMove(p) \/ BalanceEnd(p)
  PROVE  AllReasoned'
<1> DEFINE old == tx[p]
           becomes(t) == /\ tx' = [tx EXCEPT ![p] = t] /\ home' = home /\ state' = state
                         /\ Reasoned(t, plan[p])
<1>0. /\ old \in Tx /\ TxShape(old) /\ plan[p] \in Plan /\ Reasoned(old, plan[p])
      /\ Heading(plan[p])
  BY DEF Typed, TypeOK, Shape, AllReasoned, Reasoned
<1>1. ASSUME NEW t, becomes(t), plan' = plan PROVE AllReasoned'
  BY <1>1, KeptPlan, SameReasoned
<1>2. ASSUME NEW n \in Nodes, NEW ok \in BOOLEAN, Contact(p, n, ok) PROVE AllReasoned'
  <2> DEFINE val  == IF ok THEN 0 ELSE Increment(old.val[n])
             over == old.op = "health" /\ ~ ok /\ val >= Threshold
             pc   == IF over THEN "failover" ELSE After(old.todo \ {n})
             node == IF over THEN n ELSE None
             set  == IF ok /\ old.val[n] = 0 THEN old.set ELSE old.set \cup {n}
             off  == IF over THEN old.off \cup {n} ELSE old.off
             t    == [old EXCEPT !.pc = pc, !.todo = old.todo \ {n}, !.node = node,
                                 !.val = [old.val EXCEPT ![n] = val],
                                 !.set = set, !.off = off, !.dirty = old.dirty \cup {n}]
  <2>1. /\ tx' = [tx EXCEPT ![p] = t] /\ home' = home /\ state' = state /\ plan' = plan
        /\ old.pc = "contact"
    BY <1>2 DEF Contact, ContactWith, Continue
  <2>2. pc \in {"failover", "commit", "contact"}
    BY DEF After
  <2>3. old.op # "remove"
    BY <1>0, <2>1 DEF TxShape, Contacts
  <2>4. t.op = old.op /\ t.to = old.to /\ t.pc = pc
    BY <1>0 DEF Tx
  <2> HIDE DEF t, pc
  <2>5. Reasoned(t, plan[p])
    BY <1>0, <2>1, <2>2, <2>3, <2>4, AsideReasoned
  <2> QED BY <1>1, <2>1, <2>5
<1>3. CASE _perform_failover(p)
  <2> DEFINE A == At(p, old.node)
             C == Candidates(p, old.node)
             t(f) == [old EXCEPT !.pc = After(old.todo), !.node = None,
                                 !.to = [a \in Assignments |->
                                           IF C # {} /\ a \in A THEN f[a] ELSE old.to[a]],
                                 !.dirty = IF C = {} THEN {} ELSE A]
  <2>1. PICK f \in IF C = {} THEN {old.to} ELSE Spread(A, C) : Continue(p, t(f))
    BY <1>3 DEF _perform_failover, FailoverOf
  <2>2. old.pc = "failover" /\ old.op # "remove"
    BY <1>0, <1>3 DEF _perform_failover, FailoverOf, TxShape, Contacts
  <2>3. C \subseteq On
    BY DEF Candidates, Sees, On
  <2>4. C # {} => \A a \in A : f[a] \in On
    BY <2>1, <2>3 DEF Spread
  <2>5. /\ t(f).op = old.op /\ t(f).pc \in {"commit", "contact"}
        /\ t(f).to = [a \in Assignments |-> IF C # {} /\ a \in A THEN f[a] ELSE old.to[a]]
    BY <1>0 DEF Tx, After
  <2> HIDE DEF t, A, C
  <2>6. Reasoned(t(f), plan[p])
    BY <1>0, <2>2, <2>4, <2>5, MovedReasoned
  <2> QED BY <1>1, <2>1, <2>6 DEF Continue
<1>4. CASE BalanceSource(p)
  <2>1. PICK M, s :
          /\ tx' = [tx EXCEPT ![p] = [old EXCEPT !.todo = M]]
          /\ plan' = [plan EXCEPT ![p] = [plan[p] EXCEPT !.over = plan[p].over \ {s}, !.src = s]]
    BY <1>4 DEF BalanceSource
  <2> DEFINE t == [old EXCEPT !.todo = M]
             b == [plan[p] EXCEPT !.over = plan[p].over \ {s}, !.src = s]
  <2>2. /\ old.pc = "balance" /\ old.op # "remove" /\ home' = home /\ state' = state
    BY <1>0, <1>4 DEF BalanceSource, Reasoned
  <2>3. t.op = old.op /\ t.to = old.to /\ t.pc = old.pc
    BY <1>0 DEF Tx
  <2>4. b.under = plan[p].under /\ b.head = plan[p].head
    BY <1>0 DEF Plan
  <2> HIDE DEF t, b
  <2>5. Heading(b)
    BY <1>0, <2>4 DEF Heading
  <2>6. Reasoned(t, b)
    BY <1>0, <2>2, <2>3, <2>5, MovedReasoned
  <2> QED BY <2>1, <2>2, <2>6, SameReasoned DEF t, b
<1>5. CASE BalanceMove(p)
  <2>1. old.pc = "balance" /\ old.op # "remove" /\ home' = home /\ state' = state
    BY <1>0, <1>5 DEF BalanceMove, Reasoned, Continue
  <2>2. ASSUME NEW M, Continue(p, [old EXCEPT !.todo = M]) PROVE AllReasoned'
    <3> DEFINE t == [old EXCEPT !.todo = M]
    <3>1. t.op = old.op /\ t.to = old.to /\ t.pc = old.pc
      BY <1>0 DEF Tx
    <3> HIDE DEF t
    <3>2. Reasoned(t, plan[p])
      BY <1>0, <2>1, <3>1, AsideReasoned
    <3> QED BY <1>1, <2>2, <3>2 DEF Continue, t
  <2> DEFINE b == plan[p]
             c == [b EXCEPT !.cnt = Moved(b)]
             U == Remaining(c)
             u(h) == [c EXCEPT !.under = U, !.head = h]
             t(a) == [old EXCEPT !.todo = old.todo \ {a}, !.to = [old.to EXCEPT ![a] = b.head],
                                 !.dirty = old.dirty \cup {a}]
  <2>3. ASSUME b.under # {}, NEW a, NEW h \in IF U = b.under THEN {b.head} ELSE Heads(c, U),
               tx' = [tx EXCEPT ![p] = t(a)], plan' = [plan EXCEPT ![p] = u(h)]
        PROVE  AllReasoned'
    <3>1. b.under \subseteq On /\ b.head \in b.under
      BY <1>0, <2>3 DEF Heading
    <3>2. c.under = b.under /\ c.head = b.head
      BY <1>0 DEF Plan
    <3>3. u(h).under = U /\ u(h).head = h
      BY <1>0 DEF Plan
    <3>4. /\ t(a).op = old.op /\ t(a).pc = old.pc /\ t(a).to = [old.to EXCEPT ![a] = b.head]
          /\ old.to \in [Assignments -> Nodes \cup {Gone}]
      BY <1>0 DEF Tx
    <3> HIDE DEF t, u, c
    <3>5. U \subseteq b.under
      BY <3>2 DEF Remaining
    <3>6. U # {} => h \in U
      BY <2>3, <3>1 DEF Heads
    <3> HIDE DEF U
    <3>7. Heading(u(h))
      BY <3>1, <3>3, <3>5, <3>6 DEF Heading
    <3>8. Reasoned(t(a), u(h))
      BY <1>0, <2>1, <3>1, <3>4, <3>7, MovedReasoned
    <3> QED BY <2>1, <2>3, <3>8, SameReasoned
  <2>4. CASE b.under = {}
    BY <1>5, <2>2, <2>4 DEF BalanceMove
  <2>5. CASE b.under # {}
    BY <1>5, <2>2, <2>3, <2>5 DEF BalanceMove
  <2> QED BY <2>4, <2>5
<1>6. CASE BalanceEnd(p)
  <2> DEFINE t == [old EXCEPT !.pc = "commit"]
  <2>1. old.pc = "balance" /\ old.op # "remove"
    BY <1>0, <1>6 DEF BalanceEnd, Reasoned
  <2>2. t.op = old.op /\ t.to = old.to /\ t.pc = "commit"
    BY <1>0 DEF Tx
  <2>3. tx' = [tx EXCEPT ![p] = t] /\ home' = home /\ state' = state /\ plan' = plan
    BY <1>6 DEF BalanceEnd, Continue
  <2> HIDE DEF t
  <2>4. Reasoned(t, plan[p])
    BY <1>0, <2>1, <2>2, AsideReasoned
  <2> QED BY <1>1, <2>3, <2>4
<1> QED BY <1>2, <1>3, <1>4, <1>5, <1>6

\* An assignment of the node gets another node, or none if nothing fits.
LEMMA MoveReasoned ==
  ASSUME Typed, Alone, AllReasoned, NEW p \in Procs, RemoveMove(p) PROVE AllReasoned'
<1> DEFINE old == tx[p]
           C   == Orphaned(Alternatives(p, old.node))
           t(a, m) == [old EXCEPT !.to = [old.to EXCEPT ![a] = m], !.dirty = {a},
                                  !.todo = old.todo \ {a},
                                  !.pc = IF old.todo = {a} THEN "delete" ELSE "remove"]
<1>1. PICK a \in old.todo, m \in C : Continue(p, t(a, m))
  BY DEF RemoveMove, RemoveMoveTo
<1>2. /\ old \in Tx /\ TxShape(old) /\ Reasoned(old, plan[p])
      /\ old.pc = "remove" /\ old.dirty = {} /\ old.op = "remove"
  BY DEF Typed, TypeOK, Shape, AllReasoned, Reasoned, RemoveMove, RemoveMoveTo
<1>3. /\ t(a, m).to = [old.to EXCEPT ![a] = m] /\ t(a, m).dirty = {a}
      /\ t(a, m).todo = old.todo \ {a} /\ t(a, m).held = old.held /\ t(a, m).off = old.off
      /\ t(a, m).op = old.op /\ t(a, m).node = old.node
      /\ t(a, m).pc = IF old.todo = {a} THEN "delete" ELSE "remove"
      /\ old.to \in [Assignments -> Nodes \cup {Gone}] /\ old.node \in Nodes
  BY <1>2 DEF Tx, TxShape
<1>4. old.off = {} /\ home[a] = old.node
  BY <1>1, <1>2 DEF Reasoned, Clearing
<1>5. \A n \in Nodes : Sees(p, n) = state[n]
  BY <1>4 DEF Sees
<1>6. (m \in On /\ m # old.node) \/ (m = Gone /\ Homeless(old.node))
  BY <1>5 DEF Orphaned, Alternatives, On, Homeless
<1>7. tx' = [tx EXCEPT ![p] = t(a, m)] /\ UNCHANGED <<home, state, plan>>
  BY <1>1 DEF Continue
<1> HIDE DEF t
<1>8. Aimed(t(a, m)) /\ Heading(plan[p])
  BY <1>2, <1>3, <1>6 DEF Reasoned, Aimed
<1>9. Clearing(t(a, m))
  <2>1. m # old.node
    BY <1>3, <1>6, GoneIsNoNode
  <2>2. \A b \in (t(a, m).held \cup t(a, m).dirty) \cap Assignments :
          home[b] = old.node /\ t(a, m).to[b] # old.node
    BY <1>2, <1>3, <1>4, <2>1 DEF Reasoned, Clearing
  <2>3. \A b \in Assignments : home[b] = old.node =>
          b \in t(a, m).todo \cup t(a, m).held \cup t(a, m).dirty
    BY <1>2, <1>3 DEF Reasoned, Clearing
  <2>4. t(a, m).pc \in {"delete", "commit"} => t(a, m).todo = {}
    BY <1>3
  <2>5. \A b \in t(a, m).todo : home[b] = old.node
    BY <1>2, <1>3 DEF Reasoned, Clearing
  <2> QED BY <1>3, <1>4, <2>2, <2>3, <2>4, <2>5 DEF Clearing
<1>10. Sparing(t(a, m))
  BY <1>2, <1>3, <1>4, <1>6, GoneIsNoNode DEF Reasoned, Sparing, On
<1>11. Reasoned(t(a, m), plan[p])
  BY <1>2, <1>3, <1>8, <1>9, <1>10 DEF Reasoned
<1> QED BY <1>7, <1>11, KeptPlan, SameReasoned

\* Nothing refers to the node any more when it is deleted.
LEMMA DeleteReasoned ==
  ASSUME Typed, Alone, AllReasoned, NEW p \in Procs, RemoveDelete(p) PROVE AllReasoned'
<1> DEFINE old == tx[p]
           A   == At(p, old.node)
           t   == [old EXCEPT !.pc = "commit", !.held = old.held \cup A \cup {old.node},
                              !.to = [a \in Assignments |-> IF a \in A THEN Gone ELSE old.to[a]]]
<1>1. /\ old \in Tx /\ TxShape(old) /\ Reasoned(old, plan[p])
      /\ old.pc = "delete" /\ old.dirty = {} /\ old.op = "remove"
      /\ tx' = [tx EXCEPT ![p] = t] /\ UNCHANGED <<home, state, plan>>
  BY DEF Typed, TypeOK, Shape, AllReasoned, Reasoned, RemoveDelete, RemoveDeleteWith, Continue
<1>2. A = {}
  <2>1. /\ \A a \in Assignments : home[a] = old.node => a \in old.held
        /\ \A a \in old.held \cap Assignments : old.to[a] # old.node
    BY <1>1 DEF Reasoned, Clearing
  <2> QED BY <2>1 DEF At, HomeSeen
<1>3. /\ t.pc = "commit" /\ t.held = old.held \cup {old.node} /\ t.dirty = {}
      /\ t.todo = old.todo /\ t.off = old.off /\ t.op = old.op /\ t.node = old.node
      /\ \A a \in Assignments : t.to[a] = old.to[a]
      /\ old.node \in Nodes
  BY <1>1, <1>2 DEF Tx, TxShape
<1> HIDE DEF t
<1>4. Reasoned(t, plan[p])
  BY <1>1, <1>3, GoneIsNoNode DEF Reasoned, Aimed, Clearing, Sparing
<1> QED BY <1>1, <1>4, KeptPlan, SameReasoned

LEMMA FlushReasoned ==
  ASSUME Typed, Alone, AllReasoned, NEW p \in Procs, Flush(p) PROVE AllReasoned'
<1> DEFINE old  == tx[p]
           t(r) == [old EXCEPT !.dirty = old.dirty \ {r}, !.held = old.held \cup {r}]
<1>1. PICK r \in old.dirty : Rollback(p) \/ Continue(p, t(r))
  BY DEF Flush
<1>2. CASE Rollback(p)
  BY <1>2, RollbackReasoned
<1>3. CASE Continue(p, t(r))
  <2>1. /\ t(r).held \cup t(r).dirty = old.held \cup old.dirty
        /\ t(r).to = old.to /\ t(r).op = old.op /\ t(r).pc = old.pc /\ t(r).todo = old.todo
        /\ t(r).node = old.node /\ t(r).off = old.off
    BY DEF Typed, TypeOK, Tx
  <2>2. Reasoned(old, plan[p])
    BY DEF AllReasoned
  <2> HIDE DEF t
  <2>3. Reasoned(t(r), plan[p])
    BY <2>1, <2>2 DEF Reasoned, Aimed, Clearing, Sparing
  <2> QED BY <1>3, <2>3, KeptPlan, SameReasoned DEF Continue
<1> QED BY <1>1, <1>2, <1>3

LEMMA NextReasoned == Typed /\ Alone /\ AllReasoned /\ [Next]_vars => AllReasoned'
<1> SUFFICES ASSUME Typed, Alone, AllReasoned, [Next]_vars PROVE AllReasoned'
  OBVIOUS
<1>1. CASE UNCHANGED vars
  BY <1>1 DEF vars, AllReasoned, Reasoned, Aimed, Heading, Clearing, Sparing, Homeless, On
<1>2. CASE Next
  <2>1. PICK p \in Procs : Start(p) \/ Step(p) \/ Crash(p)
    BY <1>2 DEF Next
  <2>2. CASE Start(p)
    BY <2>2, StartReasoned
  <2>3. CASE Crash(p)
    BY <2>3, RollbackReasoned DEF Crash
  <2>4. CASE \/ \E n \in Nodes, ok \in BOOLEAN : Contact(p, n, ok)
             \/ _perform_failover(p)
             \/ BalanceSource(p) \/ BalanceMove(p) \/ BalanceEnd(p)
    BY <2>4, LoopReasoned
  <2>5. CASE RemoveMove(p)
    BY <2>5, MoveReasoned
  <2>6. CASE RemoveDelete(p)
    BY <2>6, DeleteReasoned
  <2>7. CASE Flush(p)
    BY <2>7, FlushReasoned
  <2>8. CASE Deadlock(p)
    BY <2>8, RollbackReasoned DEF Deadlock
  <2>9. CASE Commit(p)
    BY <2>9, CommitReasoned
  <2> QED BY <2>1, <2>2, <2>3, <2>4, <2>5, <2>6, <2>7, <2>8, <2>9 DEF Step
<1> QED BY <1>1, <1>2

LEMMA InitReasoned == Init => AllReasoned
<1> SUFFICES ASSUME Init, NEW p \in Procs PROVE Reasoned(tx[p], plan[p])
  BY DEF AllReasoned
<1>1. tx[p] = Idle /\ plan[p] = NoPlan
  BY DEF Init
<1> QED BY <1>1, IdleReasoned

-----------------------------------------------------------------------------
(* What is committed.                                                      *)

\* An assignment changes its node when the transaction that moved it commits.
LEMMA CommitMoves ==
  ASSUME [Next]_vars, NEW a \in Assignments, home'[a] # home[a]
  PROVE  \E p \in Procs : Commit(p) /\ a \in tx[p].held /\ home'[a] = tx[p].to[a]
<1>1. PICK p \in Procs : Start(p) \/ Step(p) \/ Crash(p)
  BY DEF Next, vars
<1>2. Commit(p)
  BY <1>1, OnlyCommits
<1> QED BY <1>2 DEF Commit

\* remove_cluster_node among transactions that follow one another: an assignment
\* is deleted only when no other active node fits.
THEOREM RemovalsMoveFirst ==
  ASSUME Alone
  PROVE  Spec => RemovalMovesFirst
<1>1. ASSUME AllReasoned, [Next]_vars
      PROVE  [\A a \in Assignments :
                home[a] # Gone /\ home'[a] = Gone =>
                  \A m \in Nodes \ {home[a]} :
                    ~ (state[m] = "on" /\ Compatible(home[a], m))]_vars
  <2> SUFFICES ASSUME NEW a \in Assignments, home[a] # Gone, home'[a] = Gone
               PROVE  \A m \in Nodes \ {home[a]} :
                        ~ (state[m] = "on" /\ Compatible(home[a], m))
    OBVIOUS
  <2>1. PICK p \in Procs : Commit(p) /\ home'[a] = tx[p].to[a]
    BY <1>1, CommitMoves
  <2>2. Sparing(tx[p])
    BY <1>1, <2>1 DEF AllReasoned, Reasoned, Commit
  <2> QED BY <2>1, <2>2 DEF Sparing, Homeless
<1> QED BY <1>1, InitTyped, InitReasoned, NextTyped, NextReasoned, PTL
        DEF Spec, RemovalMovesFirst

-----------------------------------------------------------------------------
(* Failing over.                                                           *)

\* Whoever else fits n is, as far as the transaction knows, given up or at the
\* threshold.
Stranded(t, n) ==
    \A m \in Nodes \ {n} : Compatible(n, m) =>
        \/ state[m] # "on" \/ m \in t.off
        \/ failed[m] >= Threshold \/ (m \in t.set /\ t.val[m] >= Threshold)

\* A health check visits a node once, and on a node it has given up it leaves, but
\* for the one it is at, only what is stranded there.
Watched(t) ==
    /\ t.off # {} \/ t.pc = "failover" => t.op = "health"
    /\ t.op = "health" =>
         /\ t.pc \in {"contact", "failover", "commit"}
         /\ t.todo \cup t.off \subseteq On
         /\ t.off \subseteq t.set /\ t.set \subseteq t.held \cup t.dirty
         /\ t.set \cap t.todo = {}
         /\ \A a \in Assignments : t.to[a] # home[a] => a \in t.held \cup t.dirty
         /\ \A a \in Assignments, n \in t.off : t.to[a] = n =>
               (t.pc = "failover" /\ t.node = n) \/ Stranded(t, n)

AllWatched == \A p \in Procs : Watched(tx[p])

\* The only transaction becomes t.
LEMMA OneWatched ==
  ASSUME Typed, Alone, NEW p \in Procs, NEW t, tx' = [tx EXCEPT ![p] = t], Watched(t)'
  PROVE  AllWatched'
<1>1. tx'[p] = t /\ \A q \in Procs : q = p
  BY DEF Alone, Typed, TypeOK
<1> QED BY <1>1 DEF AllWatched, Watched, Stranded

LEMMA SameWatched ==
  ASSUME Typed, Alone, NEW p \in Procs, NEW t, Continue(p, t), Watched(t)
  PROVE  AllWatched'
<1>1. tx' = [tx EXCEPT ![p] = t] /\ UNCHANGED <<state, failed, home>>
  BY DEF Continue
<1>2. Watched(t)'
  BY <1>1 DEF Watched, Stranded, On
<1> QED BY <1>1, <1>2, OneWatched

\* A transaction that is no health check gives up no node.
LEMMA OtherWatched ==
  ASSUME Typed, Alone, NEW p \in Procs, NEW t, tx' = [tx EXCEPT ![p] = t],
         t.op # "health", t.pc # "failover", t.off = {}
  PROVE  AllWatched'
<1>1. Watched(t)'
  BY DEF Watched
<1> QED BY <1>1, OneWatched

LEMMA StartWatched ==
  ASSUME Typed, Alone, AllWatched, NEW p \in Procs, Start(p) PROVE AllWatched'
<1>1. ASSUME Collect(p, "health") PROVE AllWatched'
  <2> DEFINE t == Begun("health", "contact", On, None)
  <2>1. Watched(t)
    BY DEF Watched, Begun
  <2> QED BY <1>1, <2>1, SameWatched DEF Collect
<1>2. ASSUME NEW op, NEW pc, NEW todo, NEW node,
             tx' = [tx EXCEPT ![p] = Begun(op, pc, todo, node)],
             op # "health", pc # "failover"
      PROVE  AllWatched'
  <2> DEFINE t == Begun(op, pc, todo, node)
  <2>1. t.op = op /\ t.pc = pc /\ t.off = {}
    BY DEF Begun
  <2> HIDE DEF t
  <2> QED BY <1>2, <2>1, OtherWatched DEF t
<1>3. CASE Collect(p, "heartbeat")
  BY <1>2, <1>3 DEF Collect, Continue
<1>4. CASE auto_balance(p)
  BY <1>2, <1>4 DEF auto_balance
<1>5. ASSUME NEW n \in Nodes, node_health_check(p, n) PROVE AllWatched'
  BY <1>2, <1>5 DEF node_health_check, Continue
<1>6. ASSUME NEW n \in Nodes, receive_heartbeat(p, n) PROVE AllWatched'
  <2> DEFINE t == [Begun("post", "commit", {}, None) EXCEPT
                     !.val[n] = 0, !.dirty = {n}, !.set = IF failed[n] = 0 THEN {} ELSE {n}]
  <2>1. t.op = "post" /\ t.pc = "commit" /\ t.off = {}
    BY DEF Begun
  <2>2. tx' = [tx EXCEPT ![p] = t]
    BY <1>6 DEF receive_heartbeat, Continue
  <2> HIDE DEF t
  <2> QED BY <2>1, <2>2, OtherWatched
<1>7. ASSUME NEW n \in Nodes, add_cluster_node(p, n) PROVE AllWatched'
  <2>1. tx[p].pc = "idle" /\ tx' = [tx EXCEPT ![p] = tx[p]]
    BY <1>7 DEF add_cluster_node, Starts, Typed, TypeOK
  <2>2. Watched(tx[p])
    BY DEF AllWatched
  <2>3. tx[p].op # "health" /\ tx[p].off = {}
    BY <2>1, <2>2 DEF Watched
  <2> QED BY <2>1, <2>3, OtherWatched
<1>8. ASSUME NEW n \in Nodes, remove_cluster_node(p, n) PROVE AllWatched'
  <2> DEFINE A  == {a \in Assignments : home[a] = n}
             pc == IF A = {} THEN "delete" ELSE "remove"
  <2>1. tx' = [tx EXCEPT ![p] = Begun("remove", pc, A, n)] /\ pc # "failover"
    BY <1>8 DEF remove_cluster_node, Continue
  <2> HIDE DEF pc, A
  <2> QED BY <1>2, <2>1
<1>9. ASSUME NEW a \in Assignments, NEW m \in Nodes, migrate_resource(p, a, m)
      PROVE  AllWatched'
  <2> DEFINE t == [Begun("migrate", "commit", {}, None) EXCEPT !.to[a] = m, !.dirty = {a}]
  <2>1. t.op = "migrate" /\ t.pc = "commit" /\ t.off = {}
    BY DEF Begun
  <2>2. tx' = [tx EXCEPT ![p] = t]
    BY <1>9 DEF migrate_resource, Continue
  <2> HIDE DEF t
  <2> QED BY <2>1, <2>2, OtherWatched
<1> QED BY <1>1, <1>3, <1>4, <1>5, <1>6, <1>7, <1>8, <1>9 DEF Start

\* A contact with a node: if it is given up, it is the one the run is at.
LEMMA ContactWatched ==
  ASSUME Typed, Alone, AllWatched, NEW p \in Procs, NEW n \in Nodes, NEW ok \in BOOLEAN,
         Contact(p, n, ok)
  PROVE  AllWatched'
<1> DEFINE old  == tx[p]
           val  == IF ok THEN 0 ELSE Increment(old.val[n])
           over == old.op = "health" /\ ~ ok /\ val >= Threshold
           pc   == IF over THEN "failover" ELSE After(old.todo \ {n})
           node == IF over THEN n ELSE None
           set  == IF ok /\ old.val[n] = 0 THEN old.set ELSE old.set \cup {n}
           off  == IF over THEN old.off \cup {n} ELSE old.off
           vals == [old.val EXCEPT ![n] = val]
           t    == [old EXCEPT !.pc = pc, !.todo = old.todo \ {n}, !.node = node, !.val = vals,
                               !.set = set, !.off = off, !.dirty = old.dirty \cup {n}]
<1>1. /\ old \in Tx /\ Watched(old) /\ old.pc = "contact" /\ n \in old.todo /\ Continue(p, t)
  BY DEF Contact, ContactWith, Typed, TypeOK, AllWatched
<1>2. /\ t.op = old.op /\ t.pc = pc /\ t.todo = old.todo \ {n} /\ t.node = node
      /\ t.val = vals /\ t.set = set /\ t.off = off /\ t.to = old.to
      /\ t.held = old.held /\ t.dirty = old.dirty \cup {n}
  BY <1>1 DEF Tx
<1>3. /\ pc = "failover" <=> over
      /\ pc \in {"contact", "failover", "commit"}
  BY DEF After
<1>4. \A m \in Nodes \ {n} : vals[m] = old.val[m]
  BY <1>1 DEF Tx
<1>5. /\ over => old.op = "health" /\ n \in set /\ off = old.off \cup {n} /\ node = n
      /\ ~ over => off = old.off
      /\ old.set \subseteq set /\ set \subseteq old.set \cup {n}
  OBVIOUS
<1> HIDE DEF val, over, pc, node, set, off, vals, t
<1>6. CASE old.op # "health"
  <2>1. off = {} /\ pc # "failover"
    BY <1>1, <1>3, <1>5, <1>6 DEF Watched
  <2> QED BY <1>1, <1>2, <1>6, <2>1, OtherWatched DEF Continue
<1>7. CASE old.op = "health"
  <2>1. n \notin old.set /\ n \in On
    BY <1>1, <1>7 DEF Watched
  <2>2. ASSUME NEW k, Stranded(old, k) PROVE Stranded(t, k)
    BY <1>2, <1>4, <1>5, <2>1, <2>2 DEF Stranded
  <2>3. \A a \in Assignments, k \in off : old.to[a] = k =>
           (pc = "failover" /\ node = k) \/ Stranded(t, k)
    BY <1>1, <1>3, <1>5, <1>7, <2>2 DEF Watched
  <2>4. Watched(t)
    BY <1>1, <1>2, <1>3, <1>5, <1>7, <2>1, <2>3 DEF Watched
  <2> QED BY <1>1, <2>4, SameWatched
<1> QED BY <1>6, <1>7

\* A failover leaves its node empty, or with what nothing else fits.
LEMMA FailoverWatched ==
  ASSUME Typed, Alone, AllWatched, NEW p \in Procs, _perform_failover(p) PROVE AllWatched'
<1> DEFINE old == tx[p]
           n   == old.node
           A   == At(p, n)
           C   == Candidates(p, n)
           to(f) == [a \in Assignments |-> IF C # {} /\ a \in A THEN f[a] ELSE old.to[a]]
           t(f) == [old EXCEPT !.pc = After(old.todo), !.node = None, !.to = to(f),
                               !.dirty = IF C = {} THEN {} ELSE A]
<1>1. PICK f \in IF C = {} THEN {old.to} ELSE Spread(A, C) : Continue(p, t(f))
  BY DEF _perform_failover, FailoverOf
<1>2. /\ old \in Tx /\ Watched(old) /\ old.pc = "failover" /\ old.dirty = {}
      /\ old.op = "health"
  BY DEF _perform_failover, FailoverOf, Typed, TypeOK, AllWatched, Watched
<1>3. /\ t(f).op = old.op /\ t(f).pc = After(old.todo) /\ t(f).todo = old.todo
      /\ t(f).val = old.val /\ t(f).set = old.set /\ t(f).off = old.off /\ t(f).to = to(f)
      /\ t(f).held = old.held /\ t(f).dirty = IF C = {} THEN {} ELSE A
  BY <1>2 DEF Tx
<1>4. After(old.todo) \in {"contact", "commit"}
  BY DEF After
<1>5. old.off \subseteq old.held /\ old.set \subseteq old.held
  BY <1>2 DEF Watched
<1>6. \A k : Stranded(t(f), k) <=> Stranded(old, k)
  BY <1>3 DEF Stranded
<1>7. \A a \in Assignments : old.to[a] = n => a \in A
  BY <1>2 DEF Watched, At, HomeSeen
<1>8. \A m \in C : m \notin old.off
  BY <1>5 DEF Candidates, Sees
<1>9. C = {} => Stranded(old, n)
  <2> SUFFICES ASSUME C = {}, NEW m \in Nodes \ {n}, Compatible(n, m), state[m] = "on",
                      m \notin old.off, ~ (failed[m] >= Threshold),
                      ~ (m \in old.set /\ old.val[m] >= Threshold)
               PROVE  FALSE
    BY DEF Stranded
  <2>1. Sees(p, m) = "on"
    BY DEF Sees
  <2>2. Failures(p, m) < Threshold
    <3>1. failed[m] \in Nat /\ old.val[m] \in Nat /\ Threshold \in Nat
      BY <1>2, NodesAssumption DEF Typed, TypeOK, Tx, Count
    <3>2. failed[m] < Threshold /\ (m \in old.set => old.val[m] < Threshold)
      BY <3>1
    <3> QED BY <3>2 DEF Failures
  <2> QED BY <2>1, <2>2 DEF Candidates
<1>10. \A a \in A : C # {} => f[a] \in C
  BY <1>1 DEF Spread
<1> HIDE DEF t, A, C
<1>11. \A a \in Assignments : to(f)[a] # home[a] => a \in old.held \cup t(f).dirty
  BY <1>2, <1>3 DEF Watched
<1>12. \A a \in Assignments, k \in old.off : to(f)[a] = k => Stranded(old, k)
  <2> SUFFICES ASSUME NEW a \in Assignments, NEW k \in old.off, to(f)[a] = k
               PROVE  Stranded(old, k)
    OBVIOUS
  <2>1. CASE C # {} /\ a \in A
    BY <1>8, <1>10, <2>1
  <2>2. CASE ~ (C # {} /\ a \in A)
    BY <1>2, <1>7, <1>9, <2>2 DEF Watched
  <2> QED BY <2>1, <2>2
<1> HIDE DEF to
<1>13. Watched(t(f))
  BY <1>2, <1>3, <1>4, <1>5, <1>6, <1>11, <1>12 DEF Watched
<1> QED BY <1>1, <1>13, SameWatched

\* The other steps of a transaction give up nothing and do not belong to a health
\* check.
LEMMA AsideWatched ==
  ASSUME Typed, Alone, AllReasoned, AllWatched, NEW p \in Procs,
         \/ RemoveMove(p) \/ RemoveDelete(p)
         \/ BalanceSource(p) \/ BalanceMove(p) \/ BalanceEnd(p)
  PROVE  AllWatched'
<1> DEFINE old == tx[p]
<1>1. old \in Tx /\ Watched(old)
  BY DEF Typed, TypeOK, AllWatched
<1>2. old.pc \notin {"contact", "failover", "commit"}
  BY DEF RemoveMove, RemoveMoveTo, RemoveDelete, RemoveDeleteWith, BalanceSource, BalanceMove,
         BalanceEnd
<1>3. old.op # "health" /\ old.off = {}
  BY <1>1, <1>2 DEF Watched
<1>4. ASSUME NEW t, tx' = [tx EXCEPT ![p] = t], t.op = old.op, t.off = old.off,
             t.pc # "failover"
      PROVE  AllWatched'
  BY <1>3, <1>4, OtherWatched
<1>5. CASE RemoveMove(p)
  <2> DEFINE t(a, m) == [old EXCEPT !.to = [old.to EXCEPT ![a] = m], !.dirty = {a},
                                    !.todo = old.todo \ {a},
                                    !.pc = IF old.todo = {a} THEN "delete" ELSE "remove"]
  <2>1. PICK a, m : tx' = [tx EXCEPT ![p] = t(a, m)]
    BY <1>5 DEF RemoveMove, RemoveMoveTo, Continue
  <2>2. t(a, m).op = old.op /\ t(a, m).off = old.off /\ t(a, m).pc # "failover"
    BY <1>1 DEF Tx
  <2> HIDE DEF t
  <2> QED BY <1>4, <2>1, <2>2
<1>6. CASE RemoveDelete(p)
  <2> DEFINE A == At(p, old.node)
             t == [old EXCEPT !.pc = "commit", !.held = old.held \cup A \cup {old.node},
                              !.to = [a \in Assignments |-> IF a \in A THEN Gone ELSE old.to[a]]]
  <2>1. tx' = [tx EXCEPT ![p] = t]
    BY <1>6 DEF RemoveDelete, RemoveDeleteWith, Continue
  <2>2. t.op = old.op /\ t.off = old.off /\ t.pc # "failover"
    BY <1>1 DEF Tx
  <2> HIDE DEF t
  <2> QED BY <1>4, <2>1, <2>2
<1>7. ASSUME NEW M, tx' = [tx EXCEPT ![p] = [old EXCEPT !.todo = M]] PROVE AllWatched'
  <2> DEFINE t == [old EXCEPT !.todo = M]
  <2>1. t.op = old.op /\ t.off = old.off /\ t.pc # "failover"
    BY <1>1, <1>2 DEF Tx
  <2> HIDE DEF t
  <2> QED BY <1>4, <1>7, <2>1 DEF t
<1>8. CASE BalanceSource(p)
  BY <1>7, <1>8 DEF BalanceSource
<1>9. CASE BalanceMove(p)
  <2> DEFINE b == plan[p]
             t(a) == [old EXCEPT !.todo = old.todo \ {a}, !.to = [old.to EXCEPT ![a] = b.head],
                                 !.dirty = old.dirty \cup {a}]
  <2>1. \/ \E M : tx' = [tx EXCEPT ![p] = [old EXCEPT !.todo = M]]
        \/ \E a : tx' = [tx EXCEPT ![p] = t(a)]
    BY <1>9 DEF BalanceMove, Continue
  <2>2. ASSUME NEW a, tx' = [tx EXCEPT ![p] = t(a)] PROVE AllWatched'
    <3>1. t(a).op = old.op /\ t(a).off = old.off /\ t(a).pc # "failover"
      BY <1>1, <1>2 DEF Tx
    <3> HIDE DEF t
    <3> QED BY <1>4, <2>2, <3>1
  <2> QED BY <1>7, <2>1, <2>2
<1>10. CASE BalanceEnd(p)
  <2> DEFINE t == [old EXCEPT !.pc = "commit"]
  <2>1. t.op = old.op /\ t.off = old.off /\ t.pc # "failover"
    BY <1>1 DEF Tx
  <2>2. tx' = [tx EXCEPT ![p] = t]
    BY <1>10 DEF BalanceEnd, Continue
  <2> HIDE DEF t
  <2> QED BY <1>4, <2>1, <2>2
<1> QED BY <1>5, <1>6, <1>8, <1>9, <1>10

\* What ends a transaction leaves none behind.
LEMMA EndWatched ==
  ASSUME Typed, Alone, NEW p \in Procs, tx' = [tx EXCEPT ![p] = Idle] PROVE AllWatched'
<1>1. Idle.op # "health" /\ Idle.pc # "failover" /\ Idle.off = {}
  BY DEF Idle
<1> QED BY <1>1, OtherWatched

LEMMA FlushWatched ==
  ASSUME Typed, Alone, AllWatched, NEW p \in Procs, Flush(p) PROVE AllWatched'
<1> DEFINE old  == tx[p]
           t(r) == [old EXCEPT !.dirty = old.dirty \ {r}, !.held = old.held \cup {r}]
<1>1. PICK r \in old.dirty : Rollback(p) \/ Continue(p, t(r))
  BY DEF Flush
<1>2. CASE Rollback(p)
  BY <1>2, EndWatched DEF Rollback
<1>3. CASE Continue(p, t(r))
  <2>1. /\ t(r).held \cup t(r).dirty = old.held \cup old.dirty
        /\ t(r).to = old.to /\ t(r).op = old.op /\ t(r).pc = old.pc /\ t(r).todo = old.todo
        /\ t(r).node = old.node /\ t(r).off = old.off /\ t(r).set = old.set
        /\ t(r).val = old.val
    BY DEF Typed, TypeOK, Tx
  <2>2. Watched(old)
    BY DEF AllWatched
  <2> HIDE DEF t
  <2>3. Watched(t(r))
    BY <2>1, <2>2 DEF Watched, Stranded
  <2> QED BY <1>3, <2>3, SameWatched
<1> QED BY <1>1, <1>2, <1>3

LEMMA NextWatched ==
  Typed /\ Alone /\ AllReasoned /\ AllWatched /\ [Next]_vars => AllWatched'
<1> SUFFICES ASSUME Typed, Alone, AllReasoned, AllWatched, [Next]_vars PROVE AllWatched'
  OBVIOUS
<1>1. CASE UNCHANGED vars
  BY <1>1 DEF vars, AllWatched, Watched, Stranded, On
<1>2. CASE Next
  <2>1. PICK p \in Procs : Start(p) \/ Step(p) \/ Crash(p)
    BY <1>2 DEF Next
  <2>2. CASE Start(p)
    BY <2>2, StartWatched
  <2>3. CASE Crash(p) \/ Deadlock(p) \/ Commit(p)
    BY <2>3, EndWatched DEF Crash, Deadlock, Commit, Rollback
  <2>4. CASE \E n \in Nodes, ok \in BOOLEAN : Contact(p, n, ok)
    BY <2>4, ContactWatched
  <2>5. CASE _perform_failover(p)
    BY <2>5, FailoverWatched
  <2>6. CASE \/ RemoveMove(p) \/ RemoveDelete(p)
             \/ BalanceSource(p) \/ BalanceMove(p) \/ BalanceEnd(p)
    BY <2>6, AsideWatched
  <2>7. CASE Flush(p)
    BY <2>7, FlushWatched
  <2> QED BY <2>1, <2>2, <2>3, <2>4, <2>5, <2>6, <2>7 DEF Step
<1> QED BY <1>1, <1>2

LEMMA InitWatched == Init => AllWatched
<1>1. Watched(Idle)
  BY DEF Watched, Idle
<1> QED BY <1>1 DEF Init, AllWatched

\* Only a commit ends a node's activity.
LEMMA OnlyCommitsEnd ==
  ASSUME Typed, NEW p \in Procs, Start(p) \/ Step(p) \/ Crash(p), ~ Commit(p),
         NEW n \in Nodes, state[n] = "on"
  PROVE  state'[n] = "on"
<1>1. ASSUME Rollback(p) PROVE state' = state
  BY <1>1 DEF Rollback
<1>2. CASE \E m \in Nodes : add_cluster_node(p, m)
  BY <1>2 DEF add_cluster_node, Typed, TypeOK
<1>3. CASE Start(p) /\ ~ \E m \in Nodes : add_cluster_node(p, m)
  BY <1>3 DEF Start, Collect, auto_balance, node_health_check, receive_heartbeat,
              remove_cluster_node, migrate_resource, Continue
<1>4. CASE \E m \in Nodes, ok \in BOOLEAN : Contact(p, m, ok)
  BY <1>4 DEF Contact, ContactWith, Continue
<1>5. CASE _perform_failover(p)
  BY <1>5 DEF _perform_failover, FailoverOf, Continue
<1>6. CASE RemoveMove(p) \/ RemoveDelete(p)
  BY <1>6 DEF RemoveMove, RemoveMoveTo, RemoveDelete, RemoveDeleteWith, Continue
<1>7. CASE BalanceSource(p) \/ BalanceMove(p) \/ BalanceEnd(p)
  BY <1>7 DEF BalanceSource, BalanceMove, BalanceEnd, Continue
<1>8. CASE Flush(p)
  BY <1>1, <1>8 DEF Flush, Continue
<1>9. CASE Deadlock(p) \/ Crash(p)
  BY <1>1, <1>9 DEF Deadlock, Crash
<1> QED BY <1>2, <1>3, <1>4, <1>5, <1>6, <1>7, <1>8, <1>9 DEF Step

\* A health check commits: whoever else fits the node it has given up is inactive
\* or was at the threshold.
LEMMA StrandedAtCommit ==
  ASSUME Typed, NEW p \in Procs, Commit(p), Watched(tx[p]), tx[p].op = "health",
         NEW n \in tx[p].off, Stranded(tx[p], n), NEW m \in Nodes \ {n}
  PROVE  ~ TakesOver(n, m)
<1> DEFINE t == tx[p]
<1>1. t.off \subseteq t.held /\ t.set \subseteq t.held
  BY DEF Watched, Commit
<1>2. Deletes(p) = {}
  BY DEF Deletes
<1>3. state'[m] = IF m \in t.off THEN "off" ELSE state[m]
  BY <1>1, <1>2 DEF Commit
<1>4. failed'[m] = IF m \in t.set THEN t.val[m] ELSE failed[m]
  BY <1>1, <1>2 DEF Commit
<1>5. failed[m] \in Nat /\ t.val[m] \in Nat /\ Threshold \in Nat
  BY NodesAssumption DEF Typed, TypeOK, Tx, Count
<1> QED BY <1>3, <1>4, <1>5 DEF Stranded, TakesOver

MoveStep ==
    \A a \in Assignments, n \in Nodes :
        home'[a] = n /\ state'[n] # "on" /\ (home[a] # n \/ state[n] = "on") =>
            state[n] = "on" /\ \A m \in Nodes \ {n} : ~ TakesOver(n, m)

\* _perform_failover, auto_balance, migrate_resource and remove_cluster_node, one
\* after another: an assignment gets to, or stays on, a node that is given up only
\* in the health check that gives it up, and when no other node takes over.
THEOREM MovesAreToActiveNodes ==
  ASSUME Alone
  PROVE  Spec => MovesToActiveNode
<1>1. ASSUME Typed, AllReasoned, AllWatched, [Next]_vars PROVE [MoveStep]_vars
  <2> SUFFICES ASSUME ~ UNCHANGED vars, NEW a \in Assignments, NEW n \in Nodes,
                      home'[a] = n, state'[n] # "on", home[a] # n \/ state[n] = "on"
               PROVE  state[n] = "on" /\ \A m \in Nodes \ {n} : ~ TakesOver(n, m)
    BY DEF MoveStep
  <2>1. PICK p \in Procs : Start(p) \/ Step(p) \/ Crash(p)
    BY <1>1 DEF Next
  <2>2. Commit(p)
    BY <1>1, <2>1, OnlyCommits, OnlyCommitsEnd
  <2> DEFINE t == tx[p]
  <2>3. /\ t \in Tx /\ t.pc = "commit" /\ t.dirty = {}
        /\ Aimed(t) /\ Clearing(t) /\ Watched(t)
    BY <1>1, <2>2 DEF Commit, Typed, TypeOK, AllReasoned, Reasoned, AllWatched
  <2>4. n = IF a \in t.held THEN t.to[a] ELSE home[a]
    BY <2>2 DEF Commit
  <2>5. state[n] = "on"
    <3>1. CASE home[a] # n
      BY <2>3, <2>4, <3>1, GoneIsNoNode DEF Aimed, On
    <3> QED BY <3>1
  <2>6. n \notin Deletes(p)
    <3> SUFFICES ASSUME t.op = "remove", n = t.node PROVE FALSE
      BY DEF Deletes
    <3>1. t.todo = {} /\ (home[a] = n => a \in t.held) /\ (a \in t.held => t.to[a] # n)
      BY <2>3 DEF Clearing
    <3> QED BY <2>4, <3>1
  <2>7. n \in t.off
    BY <2>2, <2>5, <2>6 DEF Commit
  <2>8. t.op = "health" /\ t.to[a] = n
    BY <2>3, <2>4, <2>7 DEF Watched
  <2>9. Stranded(t, n)
    BY <2>3, <2>7, <2>8 DEF Watched
  <2> QED BY <1>1, <2>2, <2>3, <2>5, <2>7, <2>8, <2>9, StrandedAtCommit
<1> QED BY <1>1, InitTyped, InitReasoned, InitWatched, NextTyped, NextReasoned, NextWatched, PTL
        DEF Spec, MovesToActiveNode, MoveStep

-----------------------------------------------------------------------------
(* Balancing.                                                              *)

\* What the run counts is what it has in memory, and no node has got more than one
\* above the average or lost more than down to it: the targets (under) are below
\* it, and the source will not be when its last assignment has gone.
Even(t, b) ==
    t.op = "balance" =>
      /\ t.pc \in {"balance", "commit"}
      /\ b.size = Averages.size /\ b.total = Averages.total
      /\ t.held \cup t.dirty \subseteq Assignments
      /\ \A a \in Assignments : t.to[a] # home[a] => a \in t.held \cup t.dirty
      /\ \A n \in Nodes : b.cnt[n] = Load(t.to, n)
      /\ b.src \notin b.under \cup b.over /\ b.under \cap b.over = {}
      /\ \A n \in b.over : b.cnt[n] * b.size > b.total
      /\ \A n \in b.under : b.cnt[n] * b.size < b.total
      /\ t.todo # {} =>
           /\ b.src \in Nodes /\ (b.cnt[b.src] - Cardinality(t.todo)) * b.size >= b.total
           /\ t.todo \subseteq {a \in Assignments : t.to[a] = b.src}
      /\ \A n \in Nodes :
           /\ b.cnt[n] > Load(home, n) => (b.cnt[n] - 1) * b.size < b.total
           /\ b.cnt[n] < Load(home, n) => b.cnt[n] * b.size >= b.total

AllEven == \A p \in Procs : Even(tx[p], plan[p])

\* n * k <= x for the quotient n.
LEMMA QuotientBelow ==
  ASSUME NEW x \in Int, NEW k \in Nat \ {0}, NEW n \in Int, n <= x \div k
  PROVE  n * k <= x
  OBVIOUS

LEMMA TimesMonotone ==
  ASSUME NEW m \in Int, NEW n \in Int, m <= n, NEW k \in Nat
  PROVE  m * k <= n * k
  OBVIOUS

LEMMA TimesMinus ==
  ASSUME NEW m \in Int, NEW n \in Int, NEW k \in Int
  PROVE  (m - n) * k = m * k - n * k
  OBVIOUS

LEMMA LoadNat ==
  ASSUME NEW h, NEW n
  PROVE  /\ Load(h, n) \in Nat /\ IsFiniteSet({a \in Assignments : h[a] = n})
         /\ \A M \in SUBSET {a \in Assignments : h[a] = n} :
               IsFiniteSet(M) /\ Cardinality(M) \in Nat /\ Cardinality(M) <= Load(h, n)
<1> DEFINE S == {a \in Assignments : h[a] = n}
<1>1. IsFiniteSet(Assignments) /\ S \subseteq Assignments
  BY RowsAssumption
<1>2. IsFiniteSet(S)
  BY <1>1, FS_Subset
<1> QED BY <1>2, FS_Subset, FS_CardinalityType DEF Load

\* One assignment moves: one node has one less, another one more.
LEMMA LoadMoves ==
  ASSUME NEW h \in [Assignments -> Nodes \cup {Gone}], NEW a \in Assignments,
         NEW m \in Nodes, h[a] # m, NEW n \in Nodes
  PROVE  Load([h EXCEPT ![a] = m], n) =
           IF n = h[a] THEN Load(h, n) - 1 ELSE IF n = m THEN Load(h, n) + 1 ELSE Load(h, n)
<1> DEFINE g    == [h EXCEPT ![a] = m]
           S(f) == {x \in Assignments : f[x] = n}
<1>1. IsFiniteSet(S(h))
  BY LoadNat
<1>2. CASE n = h[a]
  <2>1. S(g) = S(h) \ {a} /\ a \in S(h)
    BY <1>2
  <2> QED BY <1>1, <1>2, <2>1, FS_RemoveElement DEF Load
<1>3. CASE n # h[a] /\ n = m
  <2>1. S(g) = S(h) \cup {a} /\ a \notin S(h)
    BY <1>3
  <2> QED BY <1>1, <1>3, <2>1, FS_AddElement DEF Load
<1>4. CASE n # h[a] /\ n # m
  <2>1. S(g) = S(h)
    BY <1>4
  <2> QED BY <1>4, <2>1 DEF Load
<1> QED BY <1>2, <1>3, <1>4

\* The averages are those of the committed rows, which stay until the run commits.
LEMMA AveragesOK ==
  /\ Averages.size = Cardinality(On) /\ Averages.size \in Nat /\ Averages.total \in Nat
  /\ Averages.cnt = [n \in Nodes |-> Load(home, n)] /\ Averages.src = None
<1>1. IsFiniteSet(Nodes) /\ IsFiniteSet(Assignments)
  BY RowsAssumption
<1>2. IsFiniteSet(On) /\ IsFiniteSet({a \in Assignments : home[a] \in On})
  BY <1>1, FS_Subset DEF On
<1> QED BY <1>2, FS_CardinalityType DEF Averages

LEMMA OneEven ==
  ASSUME Typed, Alone, NEW p \in Procs, NEW t, NEW b,
         tx' = [tx EXCEPT ![p] = t], plan' = [plan EXCEPT ![p] = b],
         home' = home, state' = state, Even(t, b)
  PROVE  AllEven'
<1>1. tx'[p] = t /\ plan'[p] = b /\ \A q \in Procs : q = p
  BY DEF Alone, Typed, TypeOK
<1>2. Averages' = Averages /\ \A n : Load(home, n)' = Load(home, n)
  BY DEF Averages, Load, On
<1>3. Even(t, b)'
  BY <1>2 DEF Even
<1> QED BY <1>1, <1>3 DEF AllEven, Even

\* Any step after which the transaction is no balancing run.
LEMMA OtherEven ==
  ASSUME Typed, Alone, NEW p \in Procs, NEW t, tx' = [tx EXCEPT ![p] = t], t.op # "balance"
  PROVE  AllEven'
<1>1. tx'[p] = t /\ \A q \in Procs : q = p
  BY DEF Alone, Typed, TypeOK
<1> QED BY <1>1 DEF AllEven, Even

LEMMA StartEven ==
  ASSUME Typed, Alone, AllEven, NEW p \in Procs, Start(p) PROVE AllEven'
<1>1. ASSUME NEW op, NEW pc, NEW todo, NEW node PROVE Begun(op, pc, todo, node).op = op
  BY DEF Begun
<1>2. ASSUME NEW op \in {"heartbeat", "health"}, Collect(p, op) PROVE AllEven'
  BY <1>1, <1>2, OtherEven DEF Collect, Continue
<1>3. CASE auto_balance(p)
  <2> DEFINE a == Averages
             U == {n \in On : Underloaded(a, n)}
             O == {n \in On : Overloaded(a, n)}
             b(h) == [a EXCEPT !.over = O, !.under = U, !.head = h]
             t == Begun("balance", "balance", {}, None)
  <2>1. PICK h \in Heads(a, U) : plan' = [plan EXCEPT ![p] = b(h)]
    BY <1>3 DEF auto_balance
  <2>2. /\ t.op = "balance" /\ t.pc = "balance" /\ t.to = home /\ t.todo = {}
        /\ t.held = {} /\ t.dirty = {}
    BY DEF Begun
  <2>3. /\ b(h).size = a.size /\ b(h).total = a.total /\ b(h).cnt = a.cnt
        /\ b(h).src = None /\ b(h).over = O /\ b(h).under = U
    BY DEF Averages
  <2>4. On \subseteq Nodes /\ None \notin Nodes
    BY RowsAssumption DEF On
  <2>7. ASSUME NEW n \in Nodes
        PROVE  /\ a.cnt[n] = Load(home, n) /\ Load(home, n) \in Nat
               /\ a.cnt[n] * a.size \in Int /\ a.size \in Nat /\ a.total \in Nat
    <3>1. a.cnt[n] = Load(home, n) /\ a.size \in Nat /\ a.total \in Nat
      BY AveragesOK
    <3>2. Load(home, n) \in Nat
      BY LoadNat
    <3> HIDE DEF a
    <3> QED BY <3>1, <3>2
  <2>5. ASSUME NEW n \in On
        PROVE  /\ Overloaded(a, n) => a.cnt[n] * a.size > a.total
               /\ Underloaded(a, n) => a.cnt[n] * a.size < a.total
    <3>1. a.cnt[n] * a.size \in Int /\ a.size \in Nat /\ a.total \in Nat
      BY <2>4, <2>7
    <3> HIDE DEF a
    <3> QED BY <3>1 DEF Overloaded, Underloaded
  <2>6. O \cap U = {}
    <3>1. ASSUME NEW n \in O \cap U PROVE FALSE
      <4>1. a.cnt[n] * a.size > a.total /\ a.cnt[n] * a.size < a.total
        BY <2>5
      <4>2. a.cnt[n] * a.size \in Int /\ a.total \in Int
        BY <2>4, <2>7
      <4> HIDE DEF a
      <4> QED BY <4>1, <4>2
    <3> QED BY <3>1
  <2> HIDE DEF b, t
  <2>8. Even(t, b(h))
    <3>1. b(h).src \notin O \cup U
      BY <2>3, <2>4
    <3>2. \A n \in Nodes : b(h).cnt[n] = Load(home, n) /\ Load(home, n) \in Nat
      BY <2>3, <2>7
    <3> HIDE DEF a
    <3>3. \A n \in O : b(h).cnt[n] * b(h).size > b(h).total
      BY <2>3, <2>5
    <3>4. \A n \in U : b(h).cnt[n] * b(h).size < b(h).total
      BY <2>3, <2>5
    <3> HIDE DEF O, U
    <3> QED BY <2>2, <2>3, <2>6, <3>1, <3>2, <3>3, <3>4 DEF Even, a
  <2> QED BY <1>3, <2>1, <2>8, OneEven DEF auto_balance, t
<1>4. ASSUME NEW n \in Nodes, node_health_check(p, n) PROVE AllEven'
  BY <1>1, <1>4, OtherEven DEF node_health_check, Continue
<1>5. ASSUME NEW n \in Nodes, receive_heartbeat(p, n) PROVE AllEven'
  <2> DEFINE t == [Begun("post", "commit", {}, None) EXCEPT
                     !.val[n] = 0, !.dirty = {n}, !.set = IF failed[n] = 0 THEN {} ELSE {n}]
  <2>1. tx' = [tx EXCEPT ![p] = t] /\ t.op = "post"
    BY <1>5 DEF receive_heartbeat, Continue, Begun
  <2> HIDE DEF t
  <2> QED BY <2>1, OtherEven
<1>6. ASSUME NEW n \in Nodes, add_cluster_node(p, n) PROVE AllEven'
  <2>1. tx' = [tx EXCEPT ![p] = tx[p]] /\ tx[p].pc = "idle"
    BY <1>6 DEF add_cluster_node, Starts, Typed, TypeOK
  <2>2. tx[p].op # "balance"
    BY <2>1 DEF AllEven, Even
  <2> QED BY <2>1, <2>2, OtherEven
<1>7. ASSUME NEW n \in Nodes, remove_cluster_node(p, n) PROVE AllEven'
  <2> DEFINE A  == {a \in Assignments : home[a] = n}
             pc == IF A = {} THEN "delete" ELSE "remove"
  <2>1. tx' = [tx EXCEPT ![p] = Begun("remove", pc, A, n)]
    BY <1>7 DEF remove_cluster_node, Continue
  <2>2. Begun("remove", pc, A, n).op = "remove"
    BY DEF Begun
  <2> HIDE DEF pc, A
  <2> QED BY <2>1, <2>2, OtherEven
<1>8. ASSUME NEW a \in Assignments, NEW m \in Nodes, migrate_resource(p, a, m)
      PROVE  AllEven'
  <2> DEFINE t == [Begun("migrate", "commit", {}, None) EXCEPT !.to[a] = m, !.dirty = {a}]
  <2>1. tx' = [tx EXCEPT ![p] = t] /\ t.op = "migrate"
    BY <1>8 DEF migrate_resource, Continue, Begun
  <2> HIDE DEF t
  <2> QED BY <2>1, OtherEven
<1> QED BY <1>2, <1>3, <1>4, <1>5, <1>6, <1>7, <1>8 DEF Start

\* A run takes the next source: not more of its assignments than it has too many.
LEMMA SourceEven ==
  ASSUME Typed, Alone, AllReasoned, AllEven, NEW p \in Procs, BalanceSource(p)
  PROVE  AllEven'
<1> DEFINE old == tx[p]
           b   == plan[p]
           A(s) == At(p, s)
           k(s) == IF Excess(b, s) < Cardinality(A(s)) THEN Excess(b, s) ELSE Cardinality(A(s))
           t(M) == [old EXCEPT !.todo = M]
           c(s) == [b EXCEPT !.over = b.over \ {s}, !.src = s]
<1>1. /\ old \in Tx /\ b \in Plan /\ Even(old, b) /\ old.pc = "balance"
      /\ old.todo = {} /\ old.dirty = {} /\ home' = home /\ state' = state
  BY DEF Typed, TypeOK, AllEven, BalanceSource
<1> DEFINE takes(s, M) == /\ M \in SUBSET A(s) /\ Cardinality(M) = k(s)
                          /\ tx' = [tx EXCEPT ![p] = t(M)]
                          /\ plan' = [plan EXCEPT ![p] = c(s)]
<1>2. PICK s, M : s \in b.over /\ takes(s, M)
  BY DEF BalanceSource
<1>3. /\ t(M).todo = M /\ t(M).op = old.op /\ t(M).pc = old.pc /\ t(M).to = old.to
      /\ t(M).held = old.held /\ t(M).dirty = old.dirty
      /\ c(s).size = b.size /\ c(s).total = b.total /\ c(s).cnt = b.cnt
      /\ c(s).under = b.under /\ c(s).over = b.over \ {s} /\ c(s).src = s
      /\ s \in Nodes
  BY <1>1, <1>2 DEF Tx, Plan
<1> HIDE DEF t, c
<1>4. CASE old.op # "balance"
  BY <1>2, <1>3, <1>4, OtherEven
<1>5. CASE old.op = "balance"
  <2>1. A(s) = {a \in Assignments : old.to[a] = s}
    BY <1>1, <1>5 DEF At, HomeSeen, Even
  <2>2. /\ b.cnt[s] = Load(old.to, s) /\ b.cnt[s] * b.size > b.total
        /\ b.size \in Nat /\ b.total \in Nat /\ b.cnt[s] \in Nat
    BY <1>1, <1>2, <1>3, <1>5, LoadNat DEF Even, Plan
  <2>3. b.size \in Nat \ {0}
    BY <2>2
  <2>4. (b.cnt[s] - Cardinality(M)) * b.size >= b.total
    <3>0. M \in SUBSET {a \in Assignments : old.to[a] = s}
      BY <1>2, <2>1
    <3>1. Cardinality(M) \in Nat
      BY <3>0, LoadNat
    <3>2. Cardinality(M) <= Excess(b, s)
      <4>1. Excess(b, s) \in Int /\ Cardinality(A(s)) \in Nat
        <5>1. Cardinality(A(s)) \in Nat
          BY <2>1, LoadNat
        <5>2. (b.cnt[s] * b.size - b.total) \in Int
          BY <2>2
        <5> QED BY <2>3, <5>1, <5>2 DEF Excess
      <4> HIDE DEF A
      <4> QED BY <1>2, <3>1, <4>1
    <3>3. Cardinality(M) * b.size <= b.cnt[s] * b.size - b.total
      BY <2>2, <2>3, <3>1, <3>2, QuotientBelow DEF Excess
    <3>4. (b.cnt[s] - Cardinality(M)) * b.size = b.cnt[s] * b.size - Cardinality(M) * b.size
      BY <2>2, <3>1, TimesMinus
    <3> QED BY <2>2, <3>1, <3>3, <3>4
  <2>5. Even(t(M), c(s))
    <3>1. s \notin b.under
      BY <1>1, <1>2, <1>5 DEF Even
    <3>2. M \subseteq {a \in Assignments : old.to[a] = s}
      BY <1>2, <2>1
    <3> HIDE DEF A, k
    <3> QED BY <1>1, <1>3, <1>5, <2>4, <3>1, <3>2 DEF Even
  <2> QED BY <1>1, <1>2, <2>5, OneEven
<1> QED BY <1>4, <1>5

\* A run moves an assignment from the source, which keeps the average, to the
\* target, which is below it.
LEMMA MoveEven ==
  ASSUME Typed, Alone, AllReasoned, AllEven, NEW p \in Procs, BalanceMove(p)
  PROVE  AllEven'
<1> DEFINE old == tx[p]
           b   == plan[p]
           c   == [b EXCEPT !.cnt = Moved(b)]
           U   == Remaining(c)
           less(M) == [old EXCEPT !.todo = M]
           t(a) == [old EXCEPT !.todo = old.todo \ {a}, !.to = [old.to EXCEPT ![a] = b.head],
                               !.dirty = old.dirty \cup {a}]
           d(h) == [c EXCEPT !.under = U, !.head = h]
<1>1. /\ old \in Tx /\ b \in Plan /\ Even(old, b) /\ old.pc = "balance" /\ old.todo # {}
      /\ home' = home /\ state' = state /\ Heading(b)
  BY DEF Typed, TypeOK, AllEven, AllReasoned, Reasoned, BalanceMove, Continue
<1>2. CASE old.op # "balance"
  <2>1. \A a : t(a).op = old.op /\ less(a).op = old.op
    BY <1>1 DEF Tx
  <2>2. \/ \E M : tx' = [tx EXCEPT ![p] = less(M)]
        \/ \E a : tx' = [tx EXCEPT ![p] = t(a)]
    BY DEF BalanceMove, Continue
  <2> HIDE DEF t, less
  <2> QED BY <1>2, <2>1, <2>2, OtherEven
<1>3. ASSUME old.op = "balance", NEW M \in SUBSET old.todo, Continue(p, less(M))
      PROVE  AllEven'
  <2>1. /\ less(M).todo = M /\ less(M).op = old.op /\ less(M).pc = old.pc
        /\ less(M).to = old.to /\ less(M).held = old.held /\ less(M).dirty = old.dirty
    BY <1>1 DEF Tx
  <2>2. old.todo \subseteq {a \in Assignments : old.to[a] = b.src}
    BY <1>1, <1>3 DEF Even
  <2>3. (b.cnt[b.src] - Cardinality(M)) * b.size >= b.total
    <3>1. IsFiniteSet(old.todo) /\ Cardinality(old.todo) \in Nat
      BY <2>2, LoadNat
    <3>2. Cardinality(M) \in Nat /\ Cardinality(M) <= Cardinality(old.todo)
      BY <3>1, FS_Subset, FS_CardinalityType
    <3>3. /\ b.cnt[b.src] \in Int /\ b.size \in Nat /\ b.total \in Nat
          /\ (b.cnt[b.src] - Cardinality(old.todo)) * b.size >= b.total
      BY <1>1, <1>3 DEF Even, Plan
    <3> DEFINE m == b.cnt[b.src] - Cardinality(old.todo)
               n == b.cnt[b.src] - Cardinality(M)
    <3>4. m \in Int /\ n \in Int /\ m <= n
      BY <3>1, <3>2, <3>3
    <3>5. m * b.size >= b.total
      BY <3>3
    <3> HIDE DEF m, n
    <3>6. m * b.size <= n * b.size /\ m * b.size \in Int /\ n * b.size \in Int
      BY <3>3, <3>4, TimesMonotone
    <3>7. n * b.size >= b.total
      BY <3>3, <3>5, <3>6
    <3> QED BY <3>7 DEF n
  <2> HIDE DEF less
  <2>4. Even(less(M), b)
    BY <1>1, <1>3, <2>1, <2>2, <2>3 DEF Even
  <2> QED BY <1>3, <2>4, KeptPlan, OneEven DEF Continue
<1>4. ASSUME old.op = "balance", b.under # {}, NEW a \in old.todo, NEW h,
             tx' = [tx EXCEPT ![p] = t(a)], plan' = [plan EXCEPT ![p] = d(h)]
      PROVE  AllEven'
  <2>1. /\ t(a).todo = old.todo \ {a} /\ t(a).op = old.op /\ t(a).pc = old.pc
        /\ t(a).to = [old.to EXCEPT ![a] = b.head] /\ t(a).held = old.held
        /\ t(a).dirty = old.dirty \cup {a}
        /\ old.to \in [Assignments -> Nodes \cup {Gone}]
    BY <1>1 DEF Tx
  <2>2. /\ d(h).size = b.size /\ d(h).total = b.total /\ d(h).cnt = Moved(b)
        /\ d(h).under = U /\ d(h).over = b.over /\ d(h).src = b.src
        /\ c.under = b.under /\ c.head = b.head /\ c.cnt = Moved(b)
        /\ c.size = b.size /\ c.total = b.total
    BY <1>1 DEF Plan
  <2>3. /\ b.head \in b.under /\ b.under \subseteq Nodes /\ b.over \subseteq Nodes
        /\ b.src \in Nodes /\ b.src # b.head /\ b.src \notin b.under \cup b.over
        /\ b.head \notin b.over
        /\ b.size \in Nat /\ b.total \in Nat /\ b.cnt \in [Nodes -> Int]
    BY <1>1, <1>4 DEF Even, Heading, Plan
  <2>4. a \in Assignments /\ old.to[a] = b.src
    BY <1>1, <1>4 DEF Even
  <2>5. \A n \in Nodes : Moved(b)[n] = IF n = b.src THEN b.cnt[n] - 1
                                       ELSE IF n = b.head THEN b.cnt[n] + 1 ELSE b.cnt[n]
    BY DEF Moved
  <2>6. ASSUME NEW n \in Nodes PROVE Moved(b)[n] = Load(t(a).to, n)
    <3>1. b.cnt[n] = Load(old.to, n)
      BY <1>1, <1>4 DEF Even
    <3>2. Load(t(a).to, n) = IF n = b.src THEN Load(old.to, n) - 1
                             ELSE IF n = b.head THEN Load(old.to, n) + 1 ELSE Load(old.to, n)
      BY <2>1, <2>3, <2>4, LoadMoves
    <3> QED BY <2>5, <3>1, <3>2
  <2> HIDE DEF c
  <2>7. /\ U \subseteq b.under
        /\ b.head \in U => Moved(b)[b.head] * b.size < b.total
    BY <2>2 DEF Remaining, Underloaded
  <2> HIDE DEF t, d, U
  <2>8. /\ \A n \in b.over : Moved(b)[n] * b.size > b.total
        /\ \A n \in U : Moved(b)[n] * b.size < b.total
    <3>1. ASSUME NEW n \in b.over PROVE Moved(b)[n] = b.cnt[n] /\ b.cnt[n] * b.size > b.total
      BY <1>1, <1>4, <2>3, <2>5 DEF Even
    <3>2. ASSUME NEW n \in U, n # b.head
          PROVE  Moved(b)[n] = b.cnt[n] /\ b.cnt[n] * b.size < b.total
      BY <1>1, <1>4, <2>3, <2>5, <2>7, <3>2 DEF Even
    <3> QED BY <2>7, <3>1, <3>2
  <2> DEFINE k == Cardinality(old.todo)
  <2>9. /\ k \in Nat /\ k >= 1 /\ Cardinality(old.todo \ {a}) = k - 1
        /\ (b.cnt[b.src] - k) * b.size >= b.total
    <3>1. /\ old.todo \subseteq {x \in Assignments : old.to[x] = b.src}
          /\ (b.cnt[b.src] - k) * b.size >= b.total
      BY <1>1, <1>4 DEF Even
    <3>2. IsFiniteSet(old.todo) /\ k \in Nat
      BY <3>1, LoadNat
    <3>3. Cardinality(old.todo \ {a}) = k - 1 /\ IsFiniteSet(old.todo \ {a})
      BY <1>4, <3>2, FS_RemoveElement
    <3>4. Cardinality(old.todo \ {a}) \in Nat
      BY <3>3, FS_CardinalityType
    <3> HIDE DEF k
    <3> QED BY <3>1, <3>2, <3>3, <3>4
  <2> HIDE DEF k
  <2>10. (Moved(b)[b.src] - Cardinality(old.todo \ {a})) * b.size >= b.total
    <3>1. Moved(b)[b.src] - Cardinality(old.todo \ {a}) = b.cnt[b.src] - k
      BY <2>3, <2>5, <2>9
    <3> QED BY <2>9, <3>1
  <2>11. (b.cnt[b.src] - 1) * b.size >= b.total
    <3> DEFINE m == b.cnt[b.src] - k
               n == b.cnt[b.src] - 1
    <3>1. m \in Int /\ n \in Int /\ m <= n
      BY <2>3, <2>9
    <3>2. m * b.size >= b.total
      BY <2>9
    <3> HIDE DEF m, n
    <3>3. m * b.size <= n * b.size /\ m * b.size \in Int /\ n * b.size \in Int
      BY <2>3, <3>1, TimesMonotone
    <3>4. n * b.size >= b.total
      BY <2>3, <3>2, <3>3
    <3> QED BY <3>4 DEF n
  <2>12. ASSUME NEW n \in Nodes
         PROVE  /\ Moved(b)[n] > Load(home, n) => (Moved(b)[n] - 1) * b.size < b.total
                /\ Moved(b)[n] < Load(home, n) => Moved(b)[n] * b.size >= b.total
    <3>1. /\ b.cnt[n] > Load(home, n) => (b.cnt[n] - 1) * b.size < b.total
          /\ b.cnt[n] < Load(home, n) => b.cnt[n] * b.size >= b.total
          /\ b.cnt[n] \in Int /\ Load(home, n) \in Nat
      BY <1>1, <1>4, <2>3, LoadNat DEF Even
    <3>2. CASE n = b.src
      <4>1. Moved(b)[n] = b.cnt[n] - 1 /\ (b.cnt[n] - 1) * b.size >= b.total
        BY <2>5, <2>11, <3>2
      <4>2. ~ (b.cnt[n] > Load(home, n))
        <5>1. (b.cnt[n] - 1) * b.size \in Int
          BY <2>3
        <5> QED BY <2>3, <3>1, <4>1, <5>1
      <4>3. ~ (Moved(b)[n] > Load(home, n))
        BY <3>1, <4>1, <4>2
      <4> QED BY <4>1, <4>3
    <3>3. CASE n = b.head
      <4>1. Moved(b)[n] = b.cnt[n] + 1 /\ b.cnt[n] * b.size < b.total
        BY <1>1, <1>4, <2>3, <2>5, <3>3 DEF Even
      <4>2. Moved(b)[n] - 1 = b.cnt[n]
        BY <3>1, <4>1
      <4>3. ~ (b.cnt[n] < Load(home, n))
        <5>1. b.cnt[n] * b.size \in Int
          BY <2>3
        <5> QED BY <2>3, <3>1, <4>1, <5>1
      <4>4. ~ (Moved(b)[n] < Load(home, n))
        BY <3>1, <4>1, <4>3
      <4> QED BY <4>1, <4>2, <4>4
    <3>4. CASE n # b.src /\ n # b.head
      BY <2>5, <3>1, <3>4
    <3> QED BY <3>2, <3>3, <3>4
  <2>13. \A x \in old.todo \ {a} : x \in Assignments /\ t(a).to[x] = b.src
    BY <1>1, <1>4, <2>1 DEF Even
  <2>14. Even(t(a), d(h))
    <3>1. /\ d(h).src \notin d(h).under \cup d(h).over /\ d(h).under \cap d(h).over = {}
      BY <1>1, <1>4, <2>2, <2>3, <2>7 DEF Even
    <3>2. /\ t(a).held \cup t(a).dirty \subseteq Assignments
          /\ \A x \in Assignments : t(a).to[x] # home[x] => x \in t(a).held \cup t(a).dirty
      BY <1>1, <1>4, <2>1, <2>4 DEF Even
    <3>3. t(a).pc \in {"balance", "commit"} /\ d(h).size = Averages.size /\ d(h).total = Averages.total
      BY <1>1, <1>4, <2>1, <2>2 DEF Even
    <3>4. t(a).todo \subseteq {x \in Assignments : t(a).to[x] = d(h).src}
      BY <2>1, <2>2, <2>13
    <3>5. /\ d(h).src \in Nodes
          /\ (d(h).cnt[d(h).src] - Cardinality(t(a).todo)) * d(h).size >= d(h).total
      BY <2>1, <2>2, <2>3, <2>10
    <3>6. /\ \A n \in Nodes : d(h).cnt[n] = Load(t(a).to, n)
          /\ \A n \in d(h).over : d(h).cnt[n] * d(h).size > d(h).total
          /\ \A n \in d(h).under : d(h).cnt[n] * d(h).size < d(h).total
          /\ \A n \in Nodes :
               /\ d(h).cnt[n] > Load(home, n) => (d(h).cnt[n] - 1) * d(h).size < d(h).total
               /\ d(h).cnt[n] < Load(home, n) => d(h).cnt[n] * d(h).size >= d(h).total
      BY <2>2, <2>6, <2>8, <2>12
    <3> QED BY <3>1, <3>2, <3>3, <3>4, <3>5, <3>6 DEF Even
  <2> QED BY <1>1, <1>4, <2>14, OneEven
<1>5. CASE old.op = "balance"
  <2>1. CASE b.under = {}
    <3>1. Continue(p, less({}))
      BY <2>1 DEF BalanceMove
    <3> QED BY <1>3, <1>5, <3>1
  <2>2. CASE b.under # {}
    <3>1. PICK a \in old.todo :
            \/ Continue(p, less(old.todo \ {a}))
            \/ /\ tx' = [tx EXCEPT ![p] = t(a)]
               /\ \E h : plan' = [plan EXCEPT ![p] = d(h)]
      BY <2>2 DEF BalanceMove
    <3>2. old.todo \ {a} \in SUBSET old.todo
      OBVIOUS
    <3> HIDE DEF less, t, d
    <3> QED BY <1>3, <1>4, <1>5, <2>2, <3>1, <3>2
  <2> QED BY <2>1, <2>2
<1> QED BY <1>2, <1>5

\* The steps that leave the new nodes and the plan as they are.
LEMMA AsideEven ==
  ASSUME Typed, Alone, AllReasoned, AllEven, NEW p \in Procs,
         \/ \E n \in Nodes, ok \in BOOLEAN : Contact(p, n, ok)
         \/ _perform_failover(p)
         \/ RemoveMove(p) \/ RemoveDelete(p)
         \/ BalanceEnd(p) \/ Flush(p)
  PROVE  AllEven'
<1> DEFINE old == tx[p]
<1>0. /\ old \in Tx /\ TxShape(old) /\ Even(old, plan[p])
      /\ old.pc \in {"remove", "delete"} => old.op = "remove"
  BY DEF Typed, TypeOK, Shape, AllEven, AllReasoned, Reasoned
<1>1. ASSUME NEW t, tx' = [tx EXCEPT ![p] = t], t.op = old.op, old.op # "balance"
      PROVE  AllEven'
  BY <1>1, OtherEven
<1>2. ASSUME NEW n \in Nodes, NEW ok \in BOOLEAN, Contact(p, n, ok) PROVE AllEven'
  <2>1. old.op # "balance"
    BY <1>0, <1>2 DEF Contact, ContactWith, TxShape, Contacts
  <2> DEFINE val  == IF ok THEN 0 ELSE Increment(old.val[n])
             over == old.op = "health" /\ ~ ok /\ val >= Threshold
             pc   == IF over THEN "failover" ELSE After(old.todo \ {n})
             node == IF over THEN n ELSE None
             set  == IF ok /\ old.val[n] = 0 THEN old.set ELSE old.set \cup {n}
             off  == IF over THEN old.off \cup {n} ELSE old.off
             t    == [old EXCEPT !.pc = pc, !.todo = old.todo \ {n}, !.node = node,
                                 !.val = [old.val EXCEPT ![n] = val],
                                 !.set = set, !.off = off, !.dirty = old.dirty \cup {n}]
  <2>2. tx' = [tx EXCEPT ![p] = t]
    BY <1>2 DEF Contact, ContactWith, Continue
  <2>3. t.op = old.op
    BY <1>0 DEF Tx
  <2> HIDE DEF t
  <2> QED BY <1>1, <2>1, <2>2, <2>3
<1>3. CASE _perform_failover(p)
  <2> DEFINE A == At(p, old.node)
             C == Candidates(p, old.node)
             t(f) == [old EXCEPT !.pc = After(old.todo), !.node = None,
                                 !.to = [a \in Assignments |->
                                           IF C # {} /\ a \in A THEN f[a] ELSE old.to[a]],
                                 !.dirty = IF C = {} THEN {} ELSE A]
  <2>1. PICK f : tx' = [tx EXCEPT ![p] = t(f)]
    BY <1>3 DEF _perform_failover, FailoverOf, Continue
  <2>2. old.op # "balance"
    BY <1>0, <1>3 DEF _perform_failover, FailoverOf, TxShape, Contacts
  <2>3. t(f).op = old.op
    BY <1>0 DEF Tx
  <2> HIDE DEF t
  <2> QED BY <1>1, <2>1, <2>2, <2>3
<1>4. CASE RemoveMove(p)
  <2> DEFINE t(a, m) == [old EXCEPT !.to = [old.to EXCEPT ![a] = m], !.dirty = {a},
                                    !.todo = old.todo \ {a},
                                    !.pc = IF old.todo = {a} THEN "delete" ELSE "remove"]
  <2>1. PICK a, m : tx' = [tx EXCEPT ![p] = t(a, m)]
    BY <1>4 DEF RemoveMove, RemoveMoveTo, Continue
  <2>2. old.op # "balance" /\ t(a, m).op = old.op
    BY <1>0, <1>4 DEF RemoveMove, RemoveMoveTo, Tx
  <2> HIDE DEF t
  <2> QED BY <1>1, <2>1, <2>2
<1>5. CASE RemoveDelete(p)
  <2> DEFINE A == At(p, old.node)
             t == [old EXCEPT !.pc = "commit", !.held = old.held \cup A \cup {old.node},
                              !.to = [a \in Assignments |-> IF a \in A THEN Gone ELSE old.to[a]]]
  <2>1. tx' = [tx EXCEPT ![p] = t]
    BY <1>5 DEF RemoveDelete, RemoveDeleteWith, Continue
  <2>2. old.op # "balance" /\ t.op = old.op
    BY <1>0, <1>5 DEF RemoveDelete, RemoveDeleteWith, Tx
  <2> HIDE DEF t
  <2> QED BY <1>1, <2>1, <2>2
<1>6. ASSUME NEW t, Continue(p, t), t.op = old.op, t.to = old.to, t.todo = old.todo,
             t.pc \in {old.pc, "commit"}, t.held \cup t.dirty = old.held \cup old.dirty
      PROVE  AllEven'
  <2>1. Even(t, plan[p])
    BY <1>0, <1>6 DEF Even
  <2> QED BY <1>6, <2>1, KeptPlan, OneEven DEF Continue
<1>7. CASE BalanceEnd(p)
  <2> DEFINE t == [old EXCEPT !.pc = "commit"]
  <2>1. /\ t.op = old.op /\ t.to = old.to /\ t.todo = old.todo /\ t.pc = "commit"
        /\ t.held = old.held /\ t.dirty = old.dirty
    BY <1>0 DEF Tx
  <2>2. Continue(p, t)
    BY <1>7 DEF BalanceEnd
  <2> HIDE DEF t
  <2> QED BY <1>6, <2>1, <2>2
<1>8. CASE Flush(p)
  <2> DEFINE t(r) == [old EXCEPT !.dirty = old.dirty \ {r}, !.held = old.held \cup {r}]
  <2>1. PICK r \in old.dirty : Rollback(p) \/ Continue(p, t(r))
    BY <1>8 DEF Flush
  <2>2. /\ t(r).op = old.op /\ t(r).to = old.to /\ t(r).todo = old.todo
        /\ t(r).pc = old.pc /\ t(r).held \cup t(r).dirty = old.held \cup old.dirty
    BY <1>0, <2>1 DEF Tx
  <2>3. Idle.op # "balance"
    BY DEF Idle
  <2> HIDE DEF t
  <2> QED BY <1>6, <2>1, <2>2, <2>3, OtherEven DEF Rollback
<1> QED BY <1>2, <1>3, <1>4, <1>5, <1>7, <1>8

LEMMA NextEven == Typed /\ Alone /\ AllReasoned /\ AllEven /\ [Next]_vars => AllEven'
<1> SUFFICES ASSUME Typed, Alone, AllReasoned, AllEven, [Next]_vars PROVE AllEven'
  OBVIOUS
<1>1. CASE UNCHANGED vars
  <2>1. UNCHANGED <<home, state, tx, plan>>
    BY <1>1 DEF vars
  <2>2. Averages' = Averages /\ \A n : Load(home, n)' = Load(home, n)
    BY <2>1 DEF Averages, Load, On
  <2>3. \A p \in Procs : \A n : Load(tx[p].to, n)' = Load(tx[p].to, n)
    BY <2>1 DEF Load
  <2> QED BY <2>1, <2>2, <2>3 DEF AllEven, Even
<1>2. CASE Next
  <2>1. PICK p \in Procs : Start(p) \/ Step(p) \/ Crash(p)
    BY <1>2 DEF Next
  <2>2. CASE Start(p)
    BY <2>2, StartEven
  <2>3. CASE Crash(p) \/ Deadlock(p) \/ Commit(p)
    <3>1. tx' = [tx EXCEPT ![p] = Idle] /\ Idle.op # "balance"
      BY <2>3 DEF Crash, Deadlock, Commit, Rollback, Idle
    <3> QED BY <3>1, OtherEven
  <2>4. CASE BalanceSource(p)
    BY <2>4, SourceEven
  <2>5. CASE BalanceMove(p)
    BY <2>5, MoveEven
  <2> QED BY <2>1, <2>2, <2>3, <2>4, <2>5, AsideEven DEF Step
<1> QED BY <1>1, <1>2

LEMMA InitEven == Init => AllEven
<1>1. Idle.op # "balance"
  BY DEF Idle
<1> QED BY <1>1 DEF Init, AllEven, Even

BalanceStep ==
    BalanceEnds =>
      \A n \in On :
        /\ Load(home', n) > Load(home, n) =>
              (Load(home', n) - 1) * Averages.size < Averages.total
        /\ Load(home', n) < Load(home, n) =>
              Load(home', n) * Averages.size >= Averages.total

\* cluster_auto_balance and POST /cluster/balance among transactions that follow
\* one another: no node above the average by more than the last assignment it got,
\* and none below it by what it gave.
THEOREM BalancingStopsAtAverage ==
  ASSUME Alone
  PROVE  Spec => BalanceStopsAtAverage
<1>1. ASSUME Typed, AllEven, [Next]_vars PROVE [BalanceStep]_vars
  <2> SUFFICES ASSUME BalanceEnds, NEW n \in On,
                      ~ (/\ Load(home', n) > Load(home, n) =>
                               (Load(home', n) - 1) * Averages.size < Averages.total
                         /\ Load(home', n) < Load(home, n) =>
                               Load(home', n) * Averages.size >= Averages.total)
               PROVE  FALSE
    BY DEF BalanceStep
  <2>1. Load(home, n) \in Nat /\ n \in Nodes
    BY LoadNat DEF On
  <2>2. PICK p \in Procs : tx[p].op = "balance" /\ tx[p].pc = "commit" /\ tx'[p].pc = "idle"
    BY DEF BalanceEnds
  <2>3. home' # home
    BY <2>1
  <2>4. Commit(p)
    <3>1. PICK q \in Procs : Start(q) \/ Step(q) \/ Crash(q)
      BY <1>1, <2>3 DEF Next, vars
    <3> QED BY <2>3, <3>1, OnlyCommits DEF Alone
  <2>5. \A a \in Assignments : home'[a] = tx[p].to[a]
    BY <1>1, <2>2, <2>4 DEF AllEven, Even, Commit
  <2>6. Load(home', n) = Load(tx[p].to, n)
    BY <2>5 DEF Load
  <2> QED BY <1>1, <2>1, <2>2, <2>6 DEF AllEven, Even
<1> QED BY <1>1, InitTyped, InitReasoned, InitEven, NextTyped, NextReasoned, NextEven, PTL
        DEF Spec, BalanceStopsAtAverage, BalanceStep

=============================================================================
