--------------------------- MODULE ClusterLockProofs ---------------------------
(***************************************************************************)
(* That no assignment refers to a node that is not in the table, for any   *)
(* number of nodes, assignments and processes, and whatever they run.      *)
(*                                                                         *)
(* A node is deleted by one transaction while others have decided to move  *)
(* assignments to it and not yet written that.  What stands between is the *)
(* order of the locks: a flushed assignment locks the node it refers to,   *)
(* and a deletion locks the node and all that refers to it.  Each holds    *)
(* before the commit that needs it, so the invariant is about what open    *)
(* transactions hold, and the property about what they leave.              *)
(***************************************************************************)
EXTENDS ClusterProofs

\* the assignments that p has sent to the database and not changed since
Sent(t) == (t.held \ t.dirty) \cap Assignments

\* the node a transaction is deleting, as in Deletes
Deleting(t) == IF t.op = "remove" /\ t.node \in t.held THEN {t.node} ELSE {}

\* No row is held by two transactions.
Apart == \A p, q \in Procs : p # q => tx[p].held \cap tx[q].held = {}

\* What a sent assignment refers to is there and nobody is deleting it.
Standing ==
    \A p, q \in Procs : \A a \in Sent(tx[p]) :
        tx[p].to[a] \in Nodes => Exists(tx[p].to[a]) /\ tx[p].to[a] \notin Deleting(tx[q])

\* Who deletes a node holds everything that refers to it.
Emptied ==
    \A p \in Procs : \A n \in Deleting(tx[p]), a \in Assignments : home[a] = n => a \in tx[p].held

\* A removal works on assignments only until the node is deleted, and then it has
\* nothing left to write.
Removal(t) ==
    /\ t.pc \in {"remove", "delete"} => t.op = "remove"
    /\ t.op = "remove" =>
         \/ t.pc \in {"remove", "delete"} /\ t.held \cup t.dirty \cup t.todo \subseteq Assignments
         \/ t.pc = "commit" /\ t.dirty = {}

Locked == /\ Apart /\ Standing /\ Emptied
          /\ \A p \in Procs : Removal(tx[p])

Housed == Typed /\ Locked /\ HomesExist

-----------------------------------------------------------------------------
(* One transaction changes and the assignments stay where they are.        *)

LEMMA NodesAreNotAssignments == Nodes \cap Assignments = {} /\ Gone \notin Nodes
<1>1. \A n \in Nodes : n \in Nat /\ ~ (n < n)
  BY RowsAssumption
<1>2. \A n \in Nodes : n \notin Assignments
  BY <1>1, RowsAssumption
<1> QED BY <1>2, RowsAssumption

LEMMA SameDeletes == \A p : Deletes(p) = Deleting(tx[p])
  BY DEF Deletes, Deleting

\* t is what p's transaction has become: it may hold more than before, as long as
\* nobody else holds or deletes it, and what it deletes is held with all that
\* refers to it.
LEMMA OneLocked ==
  ASSUME Housed, NEW p \in Procs, NEW t, tx' = [tx EXCEPT ![p] = t], home' = home,
         \A n \in Nodes : Exists(n) => Exists(n)',
         Removal(t),
         \A q \in Procs \ {p} : t.held \cap tx[q].held = {},
         \A a \in Sent(t) : t.to[a] \in Nodes =>
            /\ Exists(t.to[a])
            /\ t.to[a] \notin Deleting(t)
            /\ \A q \in Procs \ {p} : t.to[a] \notin Deleting(tx[q]),
         \A n \in Deleting(t) :
            /\ \A a \in Assignments : home[a] = n => a \in t.held
            /\ \A q \in Procs \ {p} : \A a \in Sent(tx[q]) : tx[q].to[a] # n
  PROVE  Locked' /\ HomesExist'
<1>1. \A q \in Procs : tx'[q] = IF q = p THEN t ELSE tx[q]
  BY DEF Housed, Typed, TypeOK
<1>2. Apart'
  BY <1>1 DEF Housed, Locked, Apart
<1>3. Standing'
  <2> SUFFICES ASSUME NEW u \in Procs, NEW q \in Procs, NEW a \in Sent(tx'[u]),
                      tx'[u].to[a] \in Nodes
               PROVE  Exists(tx[u].to[a])' /\ tx'[u].to[a] \notin Deleting(tx'[q])
    BY DEF Standing, Sent, Deleting
  <2>1. CASE u = p /\ q = p
    BY <1>1, <2>1 DEF Exists
  <2>2. CASE u = p /\ q # p
    BY <1>1, <2>2 DEF Exists
  <2>3. CASE u # p
    <3>1. tx'[u] = tx[u] /\ a \in Sent(tx[u]) /\ tx[u].to[a] \in Nodes
      BY <1>1, <2>3
    <3>2. Exists(tx[u].to[a]) /\ tx[u].to[a] \notin Deleting(tx[q])
      BY <3>1 DEF Housed, Locked, Standing
    <3>3. tx[u].to[a] \notin Deleting(t)
      BY <2>3, <3>1
    <3> QED BY <1>1, <3>1, <3>2, <3>3 DEF Exists
  <2> QED BY <2>1, <2>2, <2>3
<1>4. Emptied'
  <2> SUFFICES ASSUME NEW u \in Procs, NEW n \in Deleting(tx'[u]), NEW a \in Assignments,
                      home'[a] = n
               PROVE  a \in tx'[u].held
    BY DEF Emptied, Deleting
  <2>1. CASE u = p
    BY <1>1, <2>1
  <2>2. CASE u # p
    BY <1>1, <2>2 DEF Housed, Locked, Emptied
  <2> QED BY <2>1, <2>2
<1>5. \A q \in Procs : Removal(tx'[q])
  BY <1>1 DEF Housed, Locked
<1>6. HomesExist'
  <2>1. \A a \in Assignments : home[a] # Gone => home[a] \in Nodes
    BY DEF Housed, Typed, TypeOK
  <2> QED BY <2>1 DEF Housed, HomesExist
<1> QED BY <1>2, <1>3, <1>4, <1>5, <1>6 DEF Locked, Removal

\* A transaction that holds nothing yet, or nothing any more.
LEMMA EmptyLocked ==
  ASSUME Housed, NEW p \in Procs, NEW t, tx' = [tx EXCEPT ![p] = t], home' = home,
         \A n \in Nodes : Exists(n) => Exists(n)',
         Removal(t), t.held = {}
  PROVE  Locked' /\ HomesExist'
<1>1. Sent(t) = {} /\ Deleting(t) = {}
  BY DEF Sent, Deleting
<1> QED BY <1>1, OneLocked

\* A step in memory: rows are changed, which then have to be sent again.
LEMMA QuietLocked ==
  ASSUME Housed, NEW p \in Procs, NEW t, tx' = [tx EXCEPT ![p] = t],
         home' = home, \A n \in Nodes : Exists(n) => Exists(n)',
         Removal(t), t.held = tx[p].held, t.op = tx[p].op,
         t.op = "remove" => t.node = tx[p].node,
         \A a \in Sent(t) : a \in Sent(tx[p]) /\ t.to[a] = tx[p].to[a]
  PROVE  Locked' /\ HomesExist'
<1>1. Deleting(t) = Deleting(tx[p])
  BY DEF Deleting
<1>2. \A q \in Procs \ {p} : t.held \cap tx[q].held = {}
  BY DEF Housed, Locked, Apart
<1>3. \A a \in Sent(t) : t.to[a] \in Nodes =>
        /\ Exists(t.to[a])
        /\ t.to[a] \notin Deleting(t)
        /\ \A q \in Procs \ {p} : t.to[a] \notin Deleting(tx[q])
  BY <1>1 DEF Housed, Locked, Standing
<1>4. \A n \in Deleting(t) :
        /\ \A a \in Assignments : home[a] = n => a \in t.held
        /\ \A q \in Procs \ {p} : \A a \in Sent(tx[q]) : tx[q].to[a] # n
  <2>1. ASSUME NEW n \in Deleting(t) PROVE n \in Nodes
    <3>1. tx[p] \in Tx /\ n = tx[p].node /\ tx[p].op = "remove" /\ n \in tx[p].held
      BY <1>1, <2>1 DEF Deleting, Housed, Typed, TypeOK
    <3>2. None \notin Rows /\ tx[p].node \in Nodes \cup {None} /\ tx[p].held \subseteq Rows
      BY <3>1, RowsAssumption DEF Tx, Rows
    <3> QED BY <3>1, <3>2
  <2> QED BY <1>1, <2>1 DEF Housed, Locked, Standing, Emptied
<1> QED BY <1>2, <1>3, <1>4, OneLocked

-----------------------------------------------------------------------------
(* The steps.                                                              *)

LEMMA IdleLocked == Removal(Idle) /\ Idle.held = {}
  BY DEF Removal, Idle

LEMMA RollbackLocked ==
  ASSUME Housed, NEW p \in Procs, Rollback(p) PROVE Locked' /\ HomesExist'
<1>1. tx' = [tx EXCEPT ![p] = Idle] /\ home' = home /\ state' = state
  BY DEF Rollback
<1>2. \A n \in Nodes : Exists(n) => Exists(n)'
  BY <1>1 DEF Exists
<1> QED BY <1>1, <1>2, IdleLocked, EmptyLocked

LEMMA BegunLocked ==
  ASSUME NEW op, NEW pc, NEW todo, NEW node,
         op = "remove" => pc \in {"remove", "delete"} /\ todo \subseteq Assignments,
         pc \in {"remove", "delete"} => op = "remove"
  PROVE  Removal(Begun(op, pc, todo, node)) /\ Begun(op, pc, todo, node).held = {}
  BY DEF Removal, Begun

LEMMA StartLocked ==
  ASSUME Housed, NEW p \in Procs, Start(p) PROVE Locked' /\ HomesExist'
<1> DEFINE begins(t) == /\ tx' = [tx EXCEPT ![p] = t] /\ home' = home /\ state' = state
                        /\ Removal(t) /\ t.held = {}
<1>1. ASSUME NEW t, begins(t) PROVE Locked' /\ HomesExist'
  <2>1. \A n \in Nodes : Exists(n) => Exists(n)'
    BY <1>1 DEF Exists
  <2> QED BY <1>1, <2>1, EmptyLocked
<1>2. ASSUME NEW op \in {"heartbeat", "health"}, Collect(p, op) PROVE Locked' /\ HomesExist'
  <2>1. begins(Begun(op, "contact", On, None))
    BY <1>2, BegunLocked DEF Collect, Continue
  <2> QED BY <1>1, <2>1
<1>3. CASE auto_balance(p)
  <2>1. begins(Begun("balance", "balance", {}, None))
    BY <1>3, BegunLocked DEF auto_balance
  <2> QED BY <1>1, <2>1
<1>4. ASSUME NEW n \in Nodes, node_health_check(p, n) PROVE Locked' /\ HomesExist'
  <2>1. begins(Begun("check", "contact", {n}, None))
    BY <1>4, BegunLocked DEF node_health_check, Continue
  <2> QED BY <1>1, <2>1
<1>5. ASSUME NEW n \in Nodes, receive_heartbeat(p, n) PROVE Locked' /\ HomesExist'
  <2> DEFINE t == [Begun("post", "commit", {}, None) EXCEPT
                     !.val[n] = 0, !.dirty = {n}, !.set = IF failed[n] = 0 THEN {} ELSE {n}]
  <2>1. tx' = [tx EXCEPT ![p] = t] /\ home' = home /\ state' = state
    BY <1>5 DEF receive_heartbeat, Continue
  <2>2. Removal(t) /\ t.held = {}
    BY DEF Removal, Begun
  <2> HIDE DEF t
  <2> QED BY <1>1, <2>1, <2>2
<1>6. ASSUME NEW n \in Nodes, add_cluster_node(p, n) PROVE Locked' /\ HomesExist'
  <2>1. /\ tx' = [tx EXCEPT ![p] = tx[p]] /\ home' = home
        /\ \A m \in Nodes : Exists(m) => Exists(m)'
    BY <1>6 DEF add_cluster_node, Exists, Housed, Typed, TypeOK
  <2> QED BY <2>1, QuietLocked DEF Housed, Locked
<1>7. ASSUME NEW n \in Nodes, remove_cluster_node(p, n) PROVE Locked' /\ HomesExist'
  <2> DEFINE A == {a \in Assignments : home[a] = n}
             t == Begun("remove", IF A = {} THEN "delete" ELSE "remove", A, n)
  <2>1. begins(t)
    BY <1>7, BegunLocked DEF remove_cluster_node, Continue
  <2> QED BY <1>1, <2>1
<1>8. ASSUME NEW a \in Assignments, NEW m \in Nodes, migrate_resource(p, a, m)
      PROVE Locked' /\ HomesExist'
  <2> DEFINE t == [Begun("migrate", "commit", {}, None) EXCEPT !.to[a] = m, !.dirty = {a}]
  <2>1. tx' = [tx EXCEPT ![p] = t] /\ home' = home /\ state' = state
    BY <1>8 DEF migrate_resource, Continue
  <2>2. Removal(t) /\ t.held = {}
    BY DEF Removal, Begun
  <2> HIDE DEF t
  <2> QED BY <1>1, <2>1, <2>2
<1> QED BY <1>2, <1>3, <1>4, <1>5, <1>6, <1>7, <1>8 DEF Start

\* Contacts, moves in memory and the ends of loops.
LEMMA LoopLocked ==
  ASSUME Housed, NEW p \in Procs,
         \/ \E n \in Nodes, ok \in BOOLEAN : Contact(p, n, ok)
         \/ _perform_failover(p) \/ RemoveMove(p)
         \/ BalanceSource(p) \/ BalanceMove(p) \/ BalanceEnd(p)
  PROVE  Locked' /\ HomesExist'
<1> DEFINE old == tx[p]
           becomes(t) == /\ tx' = [tx EXCEPT ![p] = t] /\ home' = home /\ state' = state
                         /\ Removal(t) /\ t.held = old.held /\ t.op = old.op
                         /\ t.op = "remove" => t.node = old.node
                         /\ \A a \in Sent(t) : a \in Sent(old) /\ t.to[a] = old.to[a]
<1>0. old \in Tx /\ TxShape(old) /\ Removal(old) /\ PlanShape(plan[p])
  BY DEF Housed, Typed, TypeOK, Shape, Locked
<1>1. ASSUME NEW t, becomes(t) PROVE Locked' /\ HomesExist'
  <2>1. \A n \in Nodes : Exists(n) => Exists(n)'
    BY <1>1 DEF Exists
  <2> QED BY <1>1, <2>1, QuietLocked
<1>2. ASSUME NEW n \in Nodes, NEW ok \in BOOLEAN, Contact(p, n, ok)
      PROVE  Locked' /\ HomesExist'
  <2> DEFINE val  == IF ok THEN 0 ELSE Increment(old.val[n])
             over == old.op = "health" /\ ~ ok /\ val >= Threshold
             pc   == IF over THEN "failover" ELSE After(old.todo \ {n})
             node == IF over THEN n ELSE None
             set  == IF ok /\ old.val[n] = 0 THEN old.set ELSE old.set \cup {n}
             off  == IF over THEN old.off \cup {n} ELSE old.off
             t    == [old EXCEPT !.pc = pc, !.todo = old.todo \ {n}, !.node = node,
                                 !.val = [old.val EXCEPT ![n] = val],
                                 !.set = set, !.off = off, !.dirty = old.dirty \cup {n}]
  <2>1. tx' = [tx EXCEPT ![p] = t] /\ home' = home /\ state' = state
    BY <1>2 DEF Contact, ContactWith, Continue
  <2>5. pc \in {"failover", "commit", "contact"}
    BY DEF After
  <2>2. old.op # "remove"
    BY <1>0, <1>2 DEF Contact, ContactWith, TxShape, Contacts
  <2>3. /\ t.held = old.held /\ t.op = old.op /\ t.to = old.to /\ t.pc = pc
        /\ t.dirty = old.dirty \cup {n}
    BY <1>0 DEF Tx
  <2>4. becomes(t)
    <3> HIDE DEF t, pc
    <3> QED BY <2>1, <2>2, <2>3, <2>5 DEF Removal, Sent
  <2> QED BY <1>1, <2>4
<1>3. CASE _perform_failover(p)
  <2> DEFINE A == At(p, old.node)
             C == Candidates(p, old.node)
             t(f) == [old EXCEPT !.pc = After(old.todo), !.node = None,
                                 !.to = [a \in Assignments |->
                                           IF C # {} /\ a \in A THEN f[a] ELSE old.to[a]],
                                 !.dirty = IF C = {} THEN {} ELSE A]
  <2>1. PICK f : Continue(p, t(f))
    BY <1>3 DEF _perform_failover, FailoverOf
  <2>2. old.op # "remove" /\ old.dirty = {}
    BY <1>0, <1>3 DEF _perform_failover, FailoverOf, TxShape, Contacts
  <2>3. /\ t(f).held = old.held /\ t(f).op = old.op
        /\ t(f).to = [a \in Assignments |-> IF C # {} /\ a \in A THEN f[a] ELSE old.to[a]]
        /\ t(f).dirty = IF C = {} THEN {} ELSE A
        /\ t(f).pc \in {"commit", "contact"}
    BY <1>0 DEF Tx, After
  <2> HIDE DEF t, A, C
  <2>4. becomes(t(f))
    BY <2>1, <2>2, <2>3 DEF Removal, Sent, Continue
  <2> QED BY <1>1, <2>4
<1>4. CASE RemoveMove(p)
  <2> DEFINE t(a, m) == [old EXCEPT !.to = [old.to EXCEPT ![a] = m], !.dirty = {a},
                                    !.todo = old.todo \ {a},
                                    !.pc = IF old.todo = {a} THEN "delete" ELSE "remove"]
  <2>1. PICK a, m : a \in old.todo /\ Continue(p, t(a, m))
    BY <1>4 DEF RemoveMove, RemoveMoveTo
  <2>2. old.pc = "remove" /\ old.dirty = {}
    BY <1>4 DEF RemoveMove, RemoveMoveTo
  <2>3. /\ t(a, m).held = old.held /\ t(a, m).op = old.op /\ t(a, m).node = old.node
        /\ t(a, m).to = [old.to EXCEPT ![a] = m] /\ t(a, m).dirty = {a}
        /\ t(a, m).todo = old.todo \ {a} /\ t(a, m).pc \in {"delete", "remove"}
        /\ old.to \in [Assignments -> Nodes \cup {Gone}]
    BY <1>0 DEF Tx
  <2> HIDE DEF t
  <2>4. Removal(t(a, m))
    BY <1>0, <2>1, <2>2, <2>3 DEF Removal
  <2>5. becomes(t(a, m))
    BY <2>1, <2>2, <2>3, <2>4 DEF Sent, Continue
  <2> QED BY <1>1, <2>5
<1>5. ASSUME old.pc = "balance" PROVE old.op # "remove"
  BY <1>0, <1>5 DEF Removal
<1>6. CASE BalanceSource(p)
  <2>1. PICK M : tx' = [tx EXCEPT ![p] = [old EXCEPT !.todo = M]]
    BY <1>6 DEF BalanceSource
  <2>2. becomes([old EXCEPT !.todo = M])
    BY <1>0, <1>5, <1>6, <2>1 DEF BalanceSource, Tx, Removal, Sent
  <2> QED BY <1>1, <2>2
<1>7. CASE BalanceMove(p)
  <2>1. PICK a, M :
          \/ tx' = [tx EXCEPT ![p] = [old EXCEPT !.todo = M]]
          \/ tx' = [tx EXCEPT ![p] = [old EXCEPT !.todo = M,
                                          !.to = [old.to EXCEPT ![a] = plan[p].head],
                                          !.dirty = old.dirty \cup {a}]]
    BY <1>7 DEF BalanceMove, Continue
  <2>2. old.pc = "balance" /\ home' = home /\ state' = state
    BY <1>7 DEF BalanceMove, Continue
  <2>3. CASE tx' = [tx EXCEPT ![p] = [old EXCEPT !.todo = M]]
    <3>1. becomes([old EXCEPT !.todo = M])
      BY <1>0, <1>5, <2>2, <2>3 DEF Tx, Removal, Sent
    <3> QED BY <1>1, <3>1
  <2>4. CASE tx' = [tx EXCEPT ![p] = [old EXCEPT !.todo = M,
                                          !.to = [old.to EXCEPT ![a] = plan[p].head],
                                          !.dirty = old.dirty \cup {a}]]
    <3> DEFINE t == [old EXCEPT !.todo = M, !.to = [old.to EXCEPT ![a] = plan[p].head],
                                !.dirty = old.dirty \cup {a}]
    <3>1. /\ t.held = old.held /\ t.op = old.op /\ t.pc = old.pc
          /\ t.to = [old.to EXCEPT ![a] = plan[p].head] /\ t.dirty = old.dirty \cup {a}
          /\ old.to \in [Assignments -> Nodes \cup {Gone}]
      BY <1>0 DEF Tx
    <3> HIDE DEF t
    <3>2. becomes(t)
      BY <1>5, <2>2, <2>4, <3>1 DEF Removal, Sent, t
    <3> QED BY <1>1, <3>2
  <2> QED BY <2>1, <2>3, <2>4
<1>8. CASE BalanceEnd(p)
  <2>1. becomes([old EXCEPT !.pc = "commit"])
    BY <1>0, <1>5, <1>8 DEF BalanceEnd, Continue, Tx, Removal, Sent
  <2> QED BY <1>1, <2>1
<1> QED BY <1>2, <1>3, <1>4, <1>6, <1>7, <1>8

\* A statement waits until nobody else holds the row, nor deletes it or what it
\* refers to, and fails if what it refers to is gone.
LEMMA FlushLocked ==
  ASSUME Housed, NEW p \in Procs, Flush(p) PROVE Locked' /\ HomesExist'
<1> DEFINE old  == tx[p]
           t(r) == [old EXCEPT !.dirty = old.dirty \ {r}, !.held = old.held \cup {r}]
<1>1. PICK r \in old.dirty :
        /\ r = Least(old.dirty)
        /\ IF Fails(p, r) THEN Rollback(p) ELSE Continue(p, t(r)) /\ UNCHANGED seen
  BY DEF Flush
<1>2. CASE Fails(p, r)
  BY <1>1, <1>2, RollbackLocked
<1>3. CASE ~ Fails(p, r)
  <2> DEFINE new == t(r)
  <2>1. old \in Tx /\ Removal(old) /\ Flushes(p) /\ ~ Blocked(p)
    BY DEF Housed, Typed, TypeOK, Locked, Flush
  <2>2. /\ new.held = old.held \cup {r} /\ new.dirty = old.dirty \ {r}
        /\ new.to = old.to /\ new.op = old.op /\ new.pc = old.pc /\ new.todo = old.todo
        /\ new.node = old.node
    BY <2>1 DEF Tx
  <2>3. tx' = [tx EXCEPT ![p] = new] /\ home' = home /\ state' = state
    BY <1>1, <1>3 DEF Continue
  <2> HIDE DEF new
  <2>4. ASSUME NEW q \in Procs \ {p}
        PROVE  /\ r \notin tx[q].held
               /\ r \in Assignments /\ old.to[r] \in Nodes => old.to[r] \notin Deleting(tx[q])
    <3>1. ~ WaitsFor(p, q) /\ Statement(p) /\ old.dirty # {}
      BY <2>1 DEF Blocked, Statement, Flushes
    <3>2. {r} \cap tx[q].held = {} /\ Wants(p) \cap Deletes(q) = {}
      BY <1>1, <3>1 DEF WaitsFor
    <3>3. r \in Assignments /\ old.to[r] \in Nodes => old.to[r] \in Wants(p)
      BY <1>1, <3>1 DEF Wants
    <3> QED BY <3>2, <3>3, SameDeletes
  <2>5. Removal(new)
    BY <2>1, <2>2 DEF Removal
  <2>6. Deleting(new) = {}
    <3>1. CASE old.op = "remove"
      <4>1. new.held \subseteq Assignments /\ old.pc \in {"remove", "delete"}
        BY <2>1, <2>2, <3>1 DEF Removal
      <4>2. old.node \in Nodes
        BY <4>1 DEF Housed, Typed, Shape, TxShape
      <4> QED BY <2>2, <4>1, <4>2, NodesAreNotAssignments DEF Deleting
    <3>2. CASE old.op # "remove"
      BY <2>2, <3>2 DEF Deleting
    <3> QED BY <3>1, <3>2
  <2>7. \A q \in Procs \ {p} : new.held \cap tx[q].held = {}
    BY <2>2, <2>4 DEF Housed, Locked, Apart
  <2>8. ASSUME NEW a \in Sent(new), new.to[a] \in Nodes
        PROVE  /\ Exists(new.to[a])
               /\ \A q \in Procs \ {p} : new.to[a] \notin Deleting(tx[q])
    <3>1. CASE a = r
      BY <1>3, <2>2, <2>4, <2>8, <3>1 DEF Fails, Sent
    <3>2. CASE a # r
      <4>1. a \in Sent(old)
        BY <2>2, <2>8, <3>2 DEF Sent
      <4> QED BY <2>2, <2>8, <4>1 DEF Housed, Locked, Standing
    <3> QED BY <3>1, <3>2
  <2>9. \A n \in Nodes : Exists(n) => Exists(n)'
    BY <2>3 DEF Exists
  <2> QED BY <2>3, <2>5, <2>6, <2>7, <2>8, <2>9, OneLocked
<1> QED BY <1>2, <1>3

\* The deletion of a node waits for those that hold something that refers to it.
LEMMA DeleteLocked ==
  ASSUME Housed, NEW p \in Procs, RemoveDelete(p) PROVE Locked' /\ HomesExist'
<1> DEFINE old == tx[p]
           A   == At(p, old.node)
           new == [old EXCEPT !.pc = "commit", !.held = old.held \cup A \cup {old.node},
                              !.to = [a \in Assignments |-> IF a \in A THEN Gone ELSE old.to[a]]]
<1>1. /\ old \in Tx /\ Removal(old) /\ old.pc = "delete" /\ old.dirty = {} /\ ~ Blocked(p)
      /\ tx' = [tx EXCEPT ![p] = new] /\ home' = home /\ state' = state
  BY DEF Housed, Typed, TypeOK, Locked, RemoveDelete, RemoveDeleteWith, Continue
<1>2. /\ new.held = old.held \cup A \cup {old.node} /\ new.dirty = {} /\ new.pc = "commit"
      /\ new.to = [a \in Assignments |-> IF a \in A THEN Gone ELSE old.to[a]]
      /\ new.op = old.op /\ new.node = old.node
  BY <1>1 DEF Tx
<1>3. old.op = "remove" /\ old.held \subseteq Assignments /\ old.node \in Nodes
  BY <1>1 DEF Removal, Housed, Typed, Shape, TxShape
<1> HIDE DEF new
<1>4. ASSUME NEW q \in Procs \ {p}
      PROVE  /\ ({old.node} \cup A) \cap tx[q].held = {}
             /\ \A a \in Sent(tx[q]) : tx[q].to[a] # old.node
  <2>1. ~ WaitsFor(p, q) /\ Statement(p)
    BY <1>1 DEF Blocked, Statement
  <2>2. Wants(p) = {old.node} \cup A
    BY <1>1 DEF Wants
  <2>3. Wants(p) \cap tx[q].held = {} /\ old.node \notin Refers(q)
    BY <1>1, <2>1 DEF WaitsFor
  <2> QED BY <2>2, <2>3 DEF Refers, Sent
<1>5. Removal(new) /\ Deleting(new) = {old.node}
  BY <1>2, <1>3 DEF Removal, Deleting
<1>6. \A q \in Procs \ {p} : new.held \cap tx[q].held = {}
  BY <1>2, <1>4 DEF Housed, Locked, Apart
<1>7. ASSUME NEW a \in Sent(new), new.to[a] \in Nodes
      PROVE  /\ Exists(new.to[a]) /\ new.to[a] \notin Deleting(new)
             /\ \A q \in Procs \ {p} : new.to[a] \notin Deleting(tx[q])
  <2>1. a \in Assignments /\ a \notin A /\ new.to[a] = old.to[a]
    BY <1>2, <1>7, NodesAreNotAssignments DEF Sent
  <2>2. a \in Sent(old)
    BY <1>1, <1>2, <1>3, <1>7, <2>1, NodesAreNotAssignments DEF Sent
  <2>3. old.to[a] # old.node
    BY <2>1, <2>2 DEF At, HomeSeen, Sent
  <2> QED BY <1>5, <1>7, <2>1, <2>2, <2>3 DEF Housed, Locked, Standing
<1>8. \A a \in Assignments : home[a] = old.node => a \in new.held
  BY <1>2 DEF At, HomeSeen
<1>9. \A n \in Nodes : Exists(n) => Exists(n)'
  BY <1>1 DEF Exists
<1>10. \A n \in Deleting(new) :
         /\ \A a \in Assignments : home[a] = n => a \in new.held
         /\ \A q \in Procs \ {p} : \A a \in Sent(tx[q]) : tx[q].to[a] # n
  BY <1>4, <1>5, <1>8
<1>11. tx' = [tx EXCEPT ![p] = new] /\ home' = home /\ Removal(new)
  BY <1>1, <1>5
<1> HIDE DEF A, old
<1> QED BY <1>6, <1>7, <1>9, <1>10, <1>11, OneLocked

\* What is committed refers to nodes that stand, and what stayed behind on a
\* deleted node would have been held.
LEMMA CommitLocked ==
  ASSUME Housed, NEW p \in Procs, Commit(p) PROVE Locked' /\ HomesExist'
<1> DEFINE old == tx[p]
<1>1. \A q \in Procs : tx'[q] = IF q = p THEN Idle ELSE tx[q]
  BY DEF Commit, Housed, Typed, TypeOK
<1>2. Sent(Idle) = {} /\ Deleting(Idle) = {} /\ Removal(Idle) /\ Idle.held = {}
  BY IdleLocked DEF Sent, Deleting
<1>3. old.dirty = {} /\ old \in Tx
  BY DEF Commit, Housed, Typed, TypeOK
<1>4. \A n \in Nodes : Exists(n) /\ n \notin Deleting(old) => Exists(n)'
  BY SameDeletes DEF Commit, Exists
<1>5. \A a \in Assignments : home'[a] = IF a \in Sent(old) THEN old.to[a] ELSE home[a]
  BY <1>3 DEF Commit, Sent
<1>6. Apart'
  BY <1>1, <1>2 DEF Housed, Locked, Apart
<1>7. Standing'
  <2> SUFFICES ASSUME NEW u \in Procs, NEW q \in Procs, NEW a \in Sent(tx'[u]),
                      tx'[u].to[a] \in Nodes
               PROVE  Exists(tx[u].to[a])' /\ tx'[u].to[a] \notin Deleting(tx'[q])
    BY DEF Standing, Sent, Deleting
  <2>1. u # p /\ tx'[u] = tx[u]
    BY <1>1, <1>2
  <2>2. /\ Exists(tx[u].to[a]) /\ tx[u].to[a] \notin Deleting(tx[q])
        /\ tx[u].to[a] \notin Deleting(old)
    BY <2>1 DEF Housed, Locked, Standing
  <2> QED BY <1>1, <1>2, <1>4, <2>1, <2>2 DEF Exists
<1>8. Emptied'
  <2> SUFFICES ASSUME NEW u \in Procs, NEW n \in Deleting(tx'[u]), NEW a \in Assignments,
                      home'[a] = n
               PROVE  a \in tx'[u].held
    BY DEF Emptied, Deleting
  <2>1. u # p /\ tx'[u] = tx[u]
    BY <1>1, <1>2
  <2>2. n \in Nodes
    <3>1. n = tx[u].node /\ n \in tx[u].held /\ tx[u] \in Tx
      BY <2>1 DEF Deleting, Housed, Typed, TypeOK
    <3>2. None \notin Rows /\ tx[u].node \in Nodes \cup {None} /\ tx[u].held \subseteq Rows
      BY <3>1, RowsAssumption DEF Tx, Rows
    <3> QED BY <3>1, <3>2
  <2>3. a \notin Sent(old)
    BY <1>5, <2>1, <2>2 DEF Housed, Locked, Standing
  <2> QED BY <1>5, <2>1, <2>3 DEF Housed, Locked, Emptied
<1>9. \A q \in Procs : Removal(tx'[q])
  BY <1>1, <1>2 DEF Housed, Locked
<1>10. HomesExist'
  <2> SUFFICES ASSUME NEW a \in Assignments, home'[a] # Gone PROVE Exists(home[a])'
    BY DEF HomesExist
  <2>1. CASE a \in Sent(old)
    <3>1. old.to[a] \in Nodes /\ home'[a] = old.to[a]
      BY <1>3, <1>5, <2>1 DEF Tx
    <3> QED BY <1>4, <2>1, <3>1 DEF Housed, Locked, Standing, Exists
  <2>2. CASE a \notin Sent(old)
    <3>1. home'[a] = home[a] /\ home[a] \in Nodes /\ Exists(home[a])
      BY <1>5, <2>2 DEF Housed, Typed, TypeOK, HomesExist
    <3>2. home[a] \notin Deleting(old)
      BY <1>3, <2>2 DEF Housed, Locked, Emptied, Sent
    <3> QED BY <1>4, <3>1, <3>2 DEF Exists
  <2> QED BY <2>1, <2>2
<1> QED BY <1>6, <1>7, <1>8, <1>9, <1>10 DEF Locked, Removal

LEMMA NextHoused == Housed /\ [Next]_vars => Housed'
<1> SUFFICES ASSUME Housed, [Next]_vars PROVE Locked' /\ HomesExist'
  BY NextTyped DEF Housed
<1>1. CASE UNCHANGED vars
  BY <1>1 DEF vars, Housed, Locked, Apart, Standing, Emptied, Removal, Sent, Deleting,
              HomesExist, Exists
<1>2. CASE Next
  <2>1. PICK p \in Procs : Start(p) \/ Step(p) \/ Crash(p)
    BY <1>2 DEF Next
  <2>2. CASE Start(p)
    BY <2>2, StartLocked
  <2>3. CASE Crash(p)
    BY <2>3, RollbackLocked DEF Crash
  <2>4. CASE \/ \E n \in Nodes, ok \in BOOLEAN : Contact(p, n, ok)
             \/ _perform_failover(p) \/ RemoveMove(p)
             \/ BalanceSource(p) \/ BalanceMove(p) \/ BalanceEnd(p)
    BY <2>4, LoopLocked
  <2>5. CASE RemoveDelete(p)
    BY <2>5, DeleteLocked
  <2>6. CASE Flush(p)
    BY <2>6, FlushLocked
  <2>7. CASE Deadlock(p)
    BY <2>7, RollbackLocked DEF Deadlock
  <2>8. CASE Commit(p)
    BY <2>8, CommitLocked
  <2> QED BY <2>1, <2>2, <2>3, <2>4, <2>5, <2>6, <2>7, <2>8 DEF Step
<1> QED BY <1>1, <1>2

LEMMA InitHoused == Init => Housed
<1> SUFFICES ASSUME Init PROVE Locked /\ HomesExist
  BY InitTyped DEF Housed
<1>1. \A p \in Procs : tx[p] = Idle
  BY DEF Init
<1>2. Sent(Idle) = {} /\ Deleting(Idle) = {} /\ Removal(Idle) /\ Idle.held = {}
  BY IdleLocked DEF Sent, Deleting
<1>3. HomesExist
  BY NodesAssumption DEF Init, HomesExist, Exists
<1> QED BY <1>1, <1>2, <1>3 DEF Locked, Apart, Standing, Emptied

\* remove_cluster_node and whatever moves assignments meanwhile: no assignment is
\* left on a node that is not in the table.
THEOREM AssignmentsHaveNodes == Spec => []HomesExist
<1>1. Housed => HomesExist
  BY DEF Housed
<1> QED BY <1>1, InitHoused, NextHoused, PTL DEF Spec

=============================================================================
