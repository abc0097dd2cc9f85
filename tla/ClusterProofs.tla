----------------------------- MODULE ClusterProofs -----------------------------
(***************************************************************************)
(* That a node is deactivated only after at least _FAILOVER_THRESHOLD      *)
(* failed contacts, for any number of nodes, assignments and processes.    *)
(*                                                                         *)
(* failed_checks is written from memory: a task adds one to the value it   *)
(* loaded minutes ago and overwrites the row with the sum.  The invariant  *)
(* bounds every place such a value can be in (the rows and the objects of  *)
(* every open session) by the number of contacts that have really failed.  *)
(***************************************************************************)
EXTENDS Cluster, FiniteSetTheorems, TLAPS

TxBounded(t) == \A n \in Nodes : /\ t.val[n] <= seen[n]
                                 /\ n \in t.off => seen[n] >= Threshold

\* seen counts every failure (CountBy) and forgets none (ResetBy)
Bounded == /\ \A n \in Nodes : /\ failed[n] <= seen[n]
                               /\ state[n] = "off" => seen[n] >= Threshold
           /\ \A p \in Procs : TxBounded(tx[p])

\* What a transaction that is somewhere in its loop has besides its type.
TxShape(t) == /\ t.pc \in {"contact", "failover"} => t.op \in Contacts
              /\ t.pc \in {"remove", "delete"} => t.node \in Nodes
PlanShape(b) == b.under # {} => b.head \in Nodes

Shape == /\ \A p \in Procs : TxShape(tx[p])
         /\ \A p \in Procs : PlanShape(plan[p])

TxOK(t)   == t \in Tx /\ TxShape(t)
PlanOK(b) == b \in Plan /\ PlanShape(b)

Typed == TypeOK /\ Shape

-----------------------------------------------------------------------------
(* Transactions at rest and at their beginning.                            *)

LEMMA CountNat == Count \subseteq Nat /\ 0 \in Count /\ Threshold \in Count
  BY NodesAssumption DEF Count

LEMMA IdleOK == TxOK(Idle) /\ Idle.val = [n \in Nodes |-> 0] /\ Idle.off = {}
  BY CountNat DEF TxOK, TxShape, Idle, Tx

LEMMA NoPlanOK == PlanOK(NoPlan)
  BY DEF PlanOK, PlanShape, NoPlan, Plan

LEMMA BegunOK ==
  ASSUME TypeOK, NEW op \in AllOps, NEW pc \in {"contact", "commit", "remove", "delete", "balance"},
         NEW todo \in SUBSET Rows, NEW node \in Nodes \cup {None},
         pc = "contact" => op \in Contacts,
         pc \in {"remove", "delete"} => node \in Nodes
  PROVE  /\ TxOK(Begun(op, pc, todo, node))
         /\ Begun(op, pc, todo, node).val = failed
         /\ Begun(op, pc, todo, node).off = {}
<1>1. Begun(op, pc, todo, node) \in Tx
  BY DEF Begun, Tx, TypeOK
<1> QED BY <1>1 DEF Begun, TxOK, TxShape

\* One transaction changes, to one that is in order.
LEMMA OneTx ==
  ASSUME Typed, NEW p \in Procs, NEW t, TxOK(t), tx' = [tx EXCEPT ![p] = t]
  PROVE  tx' \in [Procs -> Tx] /\ \A q \in Procs : TxShape(tx[q])'
<1>1. \A q \in Procs : tx'[q] = IF q = p THEN t ELSE tx[q]
  BY DEF Typed, TypeOK
<1> QED BY <1>1 DEF Typed, TypeOK, Shape, TxOK, TxShape

LEMMA OnePlan ==
  ASSUME Typed, NEW p \in Procs, NEW b, PlanOK(b), plan' = [plan EXCEPT ![p] = b]
  PROVE  plan' \in [Procs -> Plan] /\ \A q \in Procs : PlanShape(plan[q])'
<1>1. \A q \in Procs : plan'[q] = IF q = p THEN b ELSE plan[q]
  BY DEF Typed, TypeOK
<1> QED BY <1>1 DEF Typed, TypeOK, Shape, PlanOK, PlanShape

-----------------------------------------------------------------------------
(* Type correctness.                                                       *)

LEMMA InitTyped == Init => Typed
<1> SUFFICES ASSUME Init PROVE Typed
  OBVIOUS
<1>1. tx \in [Procs -> Tx] /\ \A p \in Procs : TxShape(tx[p])
  BY IdleOK DEF Init, TxOK
<1>2. plan \in [Procs -> Plan] /\ \A p \in Procs : PlanShape(plan[p])
  BY NoPlanOK DEF Init, PlanOK
<1>3. home \in [Assignments -> Nodes \cup {Gone}]
  BY NodesAssumption DEF Init
<1> QED BY <1>1, <1>2, <1>3, CountNat DEF Init, Typed, TypeOK, Shape

LEMMA RollbackTyped == ASSUME Typed, NEW p \in Procs, Rollback(p) PROVE Typed'
<1>1. tx' \in [Procs -> Tx] /\ \A q \in Procs : TxShape(tx[q])'
  BY OneTx, IdleOK DEF Rollback
<1>2. plan' \in [Procs -> Plan] /\ \A q \in Procs : PlanShape(plan[q])'
  BY OnePlan, NoPlanOK DEF Rollback
<1> QED BY <1>1, <1>2 DEF Rollback, Typed, TypeOK, Shape

\* A step of p that changes nothing but its transaction (and what was seen).
LEMMA OnlyTx ==
  ASSUME Typed, NEW p \in Procs, NEW t, TxOK(t), tx' = [tx EXCEPT ![p] = t],
         seen' \in [Nodes -> Count], UNCHANGED <<state, failed, home, plan>>
  PROVE  Typed'
<1>1. tx' \in [Procs -> Tx] /\ \A q \in Procs : TxShape(tx[q])'
  BY OneTx
<1> QED BY <1>1 DEF Typed, TypeOK, Shape, PlanShape

LEMMA NoteTyped ==
  ASSUME Typed, NEW n \in Nodes, NEW kind, NEW ok \in BOOLEAN, Note(n, kind, ok)
  PROVE  seen' \in [Nodes -> Count]
<1> DEFINE k == IF ok /\ kind \in ResetBy THEN 0
                ELSE IF ~ ok /\ kind \in CountBy /\ seen[n] < Threshold THEN seen[n] + 1
                ELSE seen[n]
<1>1. seen' = [seen EXCEPT ![n] = k]
  BY DEF Note
<1>2. k \in Count
  BY NodesAssumption DEF Typed, TypeOK, Count
<1> HIDE DEF k
<1> QED BY <1>1, <1>2 DEF Typed, TypeOK

LEMMA StartTyped == ASSUME Typed, NEW p \in Procs, Start(p) PROVE Typed'
<1> DEFINE opens(t) == tx' = [tx EXCEPT ![p] = t] /\ UNCHANGED <<state, failed, home, plan>>
<1>0. TypeOK /\ seen \in [Nodes -> Count] /\ None \in Nodes \cup {None}
  BY DEF Typed, TypeOK
<1>1. ASSUME NEW op \in {"heartbeat", "health"}, Collect(p, op) PROVE Typed'
  <2>1. On \in SUBSET Rows /\ op \in AllOps /\ op \in Contacts
    BY DEF On, Rows, AllOps, Contacts
  <2>2. TxOK(Begun(op, "contact", On, None))
    BY <1>0, <2>1, BegunOK
  <2> QED BY <1>0, <1>1, <2>2, OnlyTx DEF Collect, Continue
<1>2. CASE auto_balance(p)
  <2>1. TxOK(Begun("balance", "balance", {}, None))
    BY <1>0, BegunOK DEF AllOps
  <2>2. tx' \in [Procs -> Tx] /\ \A q \in Procs : TxShape(tx[q])'
    BY <1>2, <2>1, OneTx DEF auto_balance
  <2> DEFINE b == Averages
             U == {n \in On : Underloaded(b, n)}
  <2>3. PICK h \in Heads(b, U) :
          plan' = [plan EXCEPT ![p] = [b EXCEPT !.over = {n \in On : Overloaded(b, n)},
                                                !.under = U, !.head = h]]
    BY <1>2 DEF auto_balance
  <2>4. b \in Plan
    <3>1. IsFiniteSet(Nodes) /\ IsFiniteSet(Assignments)
      BY RowsAssumption
    <3>2. Cardinality(On) \in Nat
      BY <3>1, FS_Subset, FS_CardinalityType DEF On
    <3>3. Cardinality({a \in Assignments : home[a] \in On}) \in Nat
      BY <3>1, FS_Subset, FS_CardinalityType
    <3>4. \A n \in Nodes : Load(home, n) \in Nat
      BY <3>1, FS_Subset, FS_CardinalityType DEF Load
    <3> QED BY <3>2, <3>3, <3>4 DEF Averages, Plan
  <2>5. {n \in On : Overloaded(b, n)} \subseteq Nodes /\ U \subseteq Nodes
    BY DEF On
  <2>6. h \in Nodes \cup {None} /\ (U # {} => h \in Nodes)
    BY <2>3, <2>5 DEF Heads
  <2> HIDE DEF b, U
  <2>7. PlanOK([b EXCEPT !.over = {n \in On : Overloaded(b, n)}, !.under = U, !.head = h])
    BY <2>4, <2>5, <2>6 DEF PlanOK, PlanShape, Plan
  <2>8. plan' \in [Procs -> Plan] /\ \A q \in Procs : PlanShape(plan[q])'
    BY <2>3, <2>7, OnePlan
  <2> QED BY <1>2, <2>2, <2>8 DEF auto_balance, Typed, TypeOK, Shape
<1>3. ASSUME NEW n \in Nodes, node_health_check(p, n) PROVE Typed'
  <2>1. "check" \in AllOps /\ "check" \in Contacts /\ {n} \in SUBSET Rows
    BY DEF Rows, AllOps, Contacts
  <2>2. TxOK(Begun("check", "contact", {n}, None))
    BY <1>0, <2>1, BegunOK
  <2> QED BY <1>0, <1>3, <2>2, OnlyTx DEF node_health_check, Continue
<1>4. ASSUME NEW n \in Nodes, receive_heartbeat(p, n) PROVE Typed'
  <2> DEFINE t == [Begun("post", "commit", {}, None) EXCEPT
                     !.val[n] = 0, !.dirty = {n}, !.set = IF failed[n] = 0 THEN {} ELSE {n}]
  <2>1. Begun("post", "commit", {}, None) \in Tx
    BY <1>0, BegunOK DEF AllOps, TxOK
  <2>2. TxOK(t)
    BY <2>1, CountNat DEF Begun, Tx, TxOK, TxShape, Rows
  <2>3. seen' \in [Nodes -> Count]
    BY <1>4, NoteTyped DEF receive_heartbeat
  <2>4. opens(t)
    BY <1>4 DEF receive_heartbeat, Continue
  <2> QED BY <2>2, <2>3, <2>4, OnlyTx
<1>5. ASSUME NEW n \in Nodes, add_cluster_node(p, n) PROVE Typed'
  BY <1>5 DEF add_cluster_node, Typed, TypeOK, Shape, TxShape, PlanShape
<1>6. ASSUME NEW n \in Nodes, remove_cluster_node(p, n) PROVE Typed'
  <2> DEFINE A == {a \in Assignments : home[a] = n}
             pc == IF A = {} THEN "delete" ELSE "remove"
  <2>1. TxOK(Begun("remove", pc, A, n))
    BY <1>0, BegunOK DEF Rows, AllOps
  <2>2. opens(Begun("remove", pc, A, n)) /\ seen' = seen
    BY <1>6 DEF remove_cluster_node, Continue
  <2> QED BY <1>0, <2>1, <2>2, OnlyTx
<1>7. ASSUME NEW a \in Assignments, NEW m \in Nodes, migrate_resource(p, a, m) PROVE Typed'
  <2> DEFINE t == [Begun("migrate", "commit", {}, None) EXCEPT !.to[a] = m, !.dirty = {a}]
  <2>1. Begun("migrate", "commit", {}, None) \in Tx
    BY <1>0, BegunOK DEF AllOps, TxOK
  <2>2. TxOK(t)
    BY <2>1 DEF Begun, Tx, TxOK, TxShape, Rows
  <2>3. opens(t) /\ seen' = seen
    BY <1>7 DEF migrate_resource, Continue
  <2> QED BY <1>0, <2>2, <2>3, OnlyTx
<1> QED BY <1>1, <1>2, <1>3, <1>4, <1>5, <1>6, <1>7 DEF Start

LEMMA ContactTyped ==
  ASSUME Typed, NEW p \in Procs, NEW n \in Nodes, NEW ok \in BOOLEAN, Contact(p, n, ok)
  PROVE  Typed'
<1> DEFINE t    == tx[p]
           val  == IF ok THEN 0 ELSE Increment(t.val[n])
           over == t.op = "health" /\ ~ ok /\ val >= Threshold
           pc   == IF over THEN "failover" ELSE After(t.todo \ {n})
           node == IF over THEN n ELSE None
           set  == IF ok /\ t.val[n] = 0 THEN t.set ELSE t.set \cup {n}
           off  == IF over THEN t.off \cup {n} ELSE t.off
           vals == [t.val EXCEPT ![n] = val]
           new  == [t EXCEPT !.pc = pc, !.todo = t.todo \ {n}, !.node = node, !.val = vals,
                             !.set = set, !.off = off, !.dirty = t.dirty \cup {n}]
<1>1. t \in Tx /\ TxShape(t) /\ t.pc = "contact"
  BY DEF Contact, ContactWith, Typed, TypeOK, Shape
<1>2. val \in Count
  BY <1>1, CountNat DEF Increment, Count, Tx
<1>3. tx' = [tx EXCEPT ![p] = new] /\ UNCHANGED <<state, failed, home, plan>>
  BY DEF Contact, ContactWith, Continue
<1>4. pc \in {"commit", "contact", "failover"} /\ node \in Nodes \cup {None}
  BY DEF After
<1>5. vals \in [Nodes -> Count] /\ set \in SUBSET Nodes /\ off \in SUBSET Nodes
  BY <1>1, <1>2 DEF Tx
<1>6. t.op \in Contacts
  BY <1>1 DEF TxShape
<1> HIDE DEF val, over, pc, node, set, off, vals
<1>7. TxOK(new)
  <2>1. new \in Tx
    BY <1>1, <1>4, <1>5 DEF Tx, Rows
  <2>2. new.op = t.op /\ new.pc = pc
    BY <1>1 DEF Tx
  <2> QED BY <1>4, <1>6, <2>1, <2>2 DEF TxOK, TxShape
<1>8. seen' \in [Nodes -> Count]
  BY NoteTyped DEF Contact, ContactWith
<1> HIDE DEF new
<1> QED BY <1>3, <1>7, <1>8, OnlyTx

LEMMA FailoverTyped == ASSUME Typed, NEW p \in Procs, _perform_failover(p) PROVE Typed'
<1> DEFINE t == tx[p]
           A == At(p, t.node)
           C == Candidates(p, t.node)
           to(f) == [a \in Assignments |-> IF C # {} /\ a \in A THEN f[a] ELSE t.to[a]]
           new(f) == [t EXCEPT !.pc = After(t.todo), !.node = None, !.to = to(f),
                               !.dirty = IF C = {} THEN {} ELSE A]
<1>1. t \in Tx /\ TxShape(t) /\ t.pc = "failover" /\ seen \in [Nodes -> Count]
  BY DEF _perform_failover, FailoverOf, Typed, TypeOK, Shape
<1>2. A \subseteq Assignments /\ C \subseteq Nodes
  BY DEF At, Candidates
<1>3. PICK f \in IF C = {} THEN {t.to} ELSE Spread(A, C) : Continue(p, new(f))
  BY DEF _perform_failover, FailoverOf
<1>4. to(f) \in [Assignments -> Nodes \cup {Gone}]
  <2>1. CASE C = {}
    BY <1>1, <2>1 DEF Tx
  <2>2. CASE C # {}
    <3>1. f \in [A -> C]
      BY <1>3, <2>2 DEF Spread
    <3> QED BY <1>1, <1>2, <2>2, <3>1 DEF Tx
  <2> QED BY <2>1, <2>2
<1>5. After(t.todo) \in {"commit", "contact"}
  BY DEF After
<1> HIDE DEF A, C, to
<1>6. new(f) \in Tx
  BY <1>1, <1>2, <1>4, <1>5 DEF Tx, Rows
<1>7. TxOK(new(f))
  BY <1>1, <1>5, <1>6 DEF Tx, TxOK, TxShape
<1>8. seen' = seen
  BY DEF _perform_failover, FailoverOf
<1> HIDE DEF new
<1> QED BY <1>1, <1>3, <1>7, <1>8, OnlyTx DEF Continue

LEMMA FlushTyped == ASSUME Typed, NEW p \in Procs, Flush(p) PROVE Typed'
<1> DEFINE t(r) == [tx[p] EXCEPT !.dirty = tx[p].dirty \ {r}, !.held = tx[p].held \cup {r}]
<1>1. PICK r \in tx[p].dirty : Rollback(p) \/ (Continue(p, t(r)) /\ UNCHANGED seen)
  BY DEF Flush
<1>2. CASE Rollback(p)
  BY <1>2, RollbackTyped
<1>3. CASE Continue(p, t(r)) /\ UNCHANGED seen
  <2>1. tx[p] \in Tx /\ TxShape(tx[p]) /\ seen \in [Nodes -> Count]
    BY DEF Typed, TypeOK, Shape
  <2>2. TxOK(t(r))
    BY <2>1 DEF Tx, TxOK, TxShape
  <2> HIDE DEF t
  <2> QED BY <1>3, <2>1, <2>2, OnlyTx DEF Continue
<1> QED BY <1>1, <1>2, <1>3

LEMMA RemoveTyped ==
  ASSUME Typed, NEW p \in Procs, RemoveMove(p) \/ RemoveDelete(p)
  PROVE  Typed'
<1>0. tx[p] \in Tx /\ TxShape(tx[p]) /\ seen \in [Nodes -> Count]
  BY DEF Typed, TypeOK, Shape
<1>1. CASE RemoveMove(p)
  <2> DEFINE C == Orphaned(Alternatives(p, tx[p].node))
             to(a, m) == [tx[p].to EXCEPT ![a] = m]
             pc(a) == IF tx[p].todo = {a} THEN "delete" ELSE "remove"
             new(a, m) == [tx[p] EXCEPT !.to = to(a, m), !.dirty = {a},
                              !.todo = tx[p].todo \ {a}, !.pc = pc(a)]
  <2>1. C \subseteq Nodes \cup {Gone}
    BY DEF Orphaned, Alternatives
  <2>2. PICK a \in tx[p].todo, m \in C : Continue(p, new(a, m))
    BY <1>1 DEF RemoveMove, RemoveMoveTo
  <2>3. tx[p].node \in Nodes /\ a \in Rows /\ pc(a) \in {"delete", "remove"}
    BY <1>0, <1>1, <2>2 DEF RemoveMove, RemoveMoveTo, TxShape, Tx
  <2>4. to(a, m) \in [Assignments -> Nodes \cup {Gone}]
    BY <1>0, <2>1, <2>2 DEF Tx
  <2> HIDE DEF to, pc, C
  <2>5. new(a, m) \in Tx
    BY <1>0, <2>2, <2>3, <2>4 DEF Tx
  <2>6. TxOK(new(a, m))
    BY <1>0, <2>3, <2>5 DEF TxOK, TxShape, Tx
  <2>7. seen' = seen
    BY <1>1 DEF RemoveMove, RemoveMoveTo
  <2> HIDE DEF new
  <2> QED BY <1>0, <2>2, <2>6, <2>7, OnlyTx DEF Continue
<1>2. CASE RemoveDelete(p)
  <2> DEFINE A == At(p, tx[p].node)
             to == [a \in Assignments |-> IF a \in A THEN Gone ELSE tx[p].to[a]]
             new == [tx[p] EXCEPT !.pc = "commit",
                        !.held = tx[p].held \cup A \cup {tx[p].node}, !.to = to]
  <2>1. tx[p].node \in Nodes /\ A \subseteq Assignments
    BY <1>0, <1>2 DEF RemoveDelete, RemoveDeleteWith, TxShape, At
  <2>2. Continue(p, new) /\ seen' = seen
    BY <1>2 DEF RemoveDelete, RemoveDeleteWith
  <2>3. to \in [Assignments -> Nodes \cup {Gone}]
    BY <1>0 DEF Tx
  <2> HIDE DEF A, to
  <2>4. new \in Tx
    BY <1>0, <2>1, <2>3 DEF Tx, Rows
  <2>5. TxOK(new)
    BY <1>0, <2>4 DEF TxOK, TxShape, Tx
  <2> HIDE DEF new
  <2> QED BY <1>0, <2>2, <2>5, OnlyTx DEF Continue
<1> QED BY <1>1, <1>2

LEMMA BalanceTyped ==
  ASSUME Typed, NEW p \in Procs, BalanceSource(p) \/ BalanceMove(p) \/ BalanceEnd(p)
  PROVE  Typed'
<1> DEFINE t == tx[p]
           b == plan[p]
<1>0. /\ t \in Tx /\ TxShape(t) /\ b \in Plan /\ PlanShape(b) /\ seen \in [Nodes -> Count]
      /\ t.pc = "balance"
  BY DEF Typed, TypeOK, Shape, BalanceSource, BalanceMove, BalanceEnd
\* a change of todo, node_ids, dirty or pc = "commit" keeps a transaction in order
<1>1. ASSUME NEW todo \in SUBSET Rows, NEW to \in [Assignments -> Nodes \cup {Gone}],
             NEW dirty \in SUBSET Rows
      PROVE  /\ TxOK([t EXCEPT !.todo = todo])
             /\ TxOK([t EXCEPT !.todo = todo, !.to = to, !.dirty = dirty])
             /\ TxOK([t EXCEPT !.pc = "commit"])
  <2>1. /\ [t EXCEPT !.todo = todo] \in Tx
        /\ [t EXCEPT !.todo = todo, !.to = to, !.dirty = dirty] \in Tx
        /\ [t EXCEPT !.pc = "commit"] \in Tx
    BY <1>0 DEF Tx
  <2> QED BY <1>0, <2>1 DEF Tx, TxOK, TxShape
<1>t. t.todo \in SUBSET Rows /\ t.to \in [Assignments -> Nodes \cup {Gone}] /\ t.dirty \in SUBSET Rows
  BY <1>0 DEF Tx
<1>2. CASE BalanceSource(p)
  <2>1. PICK s \in b.over :
          /\ \E M \in SUBSET At(p, s) : tx' = [tx EXCEPT ![p] = [t EXCEPT !.todo = M]]
          /\ plan' = [plan EXCEPT ![p] = [b EXCEPT !.over = b.over \ {s}, !.src = s]]
    BY <1>2 DEF BalanceSource
  <2>2. PICK M \in SUBSET At(p, s) : tx' = [tx EXCEPT ![p] = [t EXCEPT !.todo = M]]
    BY <2>1
  <2>3. M \in SUBSET Rows
    BY <2>2 DEF At, Rows
  <2>4. tx' \in [Procs -> Tx] /\ \A q \in Procs : TxShape(tx[q])'
    <3> DEFINE new == [t EXCEPT !.todo = M]
    <3>1. TxOK(new)
      BY <1>1, <1>t, <2>3
    <3>2. tx' = [tx EXCEPT ![p] = new]
      BY <2>2
    <3> HIDE DEF new
    <3> QED BY <3>1, <3>2, OneTx
  <2>5. PlanOK([b EXCEPT !.over = b.over \ {s}, !.src = s])
    BY <1>0, <2>1 DEF Plan, PlanOK, PlanShape
  <2>6. plan' \in [Procs -> Plan] /\ \A q \in Procs : PlanShape(plan[q])'
    BY <2>1, <2>5, OnePlan
  <2> QED BY <1>2, <2>4, <2>6 DEF BalanceSource, Typed, TypeOK, Shape
<1>3. CASE BalanceMove(p)
  <2> DEFINE c == [b EXCEPT !.cnt = Moved(b)]
             U == Remaining(c)
             new(a) == [t EXCEPT !.todo = t.todo \ {a}, !.to = [t.to EXCEPT ![a] = b.head],
                                 !.dirty = t.dirty \cup {a}]
  <2>1. CASE b.under = {}
    <3>1. Continue(p, [t EXCEPT !.todo = {}]) /\ seen' = seen
      BY <1>3, <2>1 DEF BalanceMove
    <3>2. TxOK([t EXCEPT !.todo = {}])
      BY <1>1, <1>t
    <3> QED BY <1>0, <3>1, <3>2, OnlyTx DEF Continue
  <2>2. CASE b.under # {}
    <3>1. PICK a \in t.todo :
            \/ Continue(p, [t EXCEPT !.todo = t.todo \ {a}])
            \/ /\ tx' = [tx EXCEPT ![p] = new(a)]
               /\ \E h \in IF U = b.under THEN {b.head} ELSE Heads(c, U) :
                     plan' = [plan EXCEPT ![p] = [c EXCEPT !.under = U, !.head = h]]
               /\ UNCHANGED <<state, failed, home>>
      BY <1>3, <2>2 DEF BalanceMove
    <3>2. CASE Continue(p, [t EXCEPT !.todo = t.todo \ {a}])
      <4>1. TxOK([t EXCEPT !.todo = t.todo \ {a}])
        BY <1>1, <1>t
      <4>2. seen' = seen
        BY <1>3 DEF BalanceMove
      <4> QED BY <1>0, <3>2, <4>1, <4>2, OnlyTx DEF Continue
    <3>3. CASE /\ tx' = [tx EXCEPT ![p] = new(a)]
               /\ \E h \in IF U = b.under THEN {b.head} ELSE Heads(c, U) :
                     plan' = [plan EXCEPT ![p] = [c EXCEPT !.under = U, !.head = h]]
               /\ UNCHANGED <<state, failed, home>>
      <4>1. b.head \in Nodes /\ a \in Rows
        BY <1>0, <1>t, <2>2 DEF PlanShape
      <4>2. [t.to EXCEPT ![a] = b.head] \in [Assignments -> Nodes \cup {Gone}]
        BY <1>t, <4>1
      <4>3. TxOK(new(a))
        BY <1>1, <1>t, <4>1, <4>2
      <4>4. tx' \in [Procs -> Tx] /\ \A q \in Procs : TxShape(tx[q])'
        <5> HIDE DEF new
        <5> QED BY <3>3, <4>3, OneTx
      <4>5. PICK h \in IF U = b.under THEN {b.head} ELSE Heads(c, U) :
               plan' = [plan EXCEPT ![p] = [c EXCEPT !.under = U, !.head = h]]
        BY <3>3
      <4>6. Moved(b) \in [Nodes -> Int]
        BY <1>0 DEF Moved, Plan
      <4>7. c \in Plan /\ c.under = b.under
        <5> HIDE DEF Moved
        <5> QED BY <1>0, <4>6 DEF Plan
      <4>8. U \subseteq Nodes
        BY <4>7 DEF Remaining, Plan
      <4> HIDE DEF c, U
      <4>9. h \in Nodes \cup {None} /\ (U # {} => h \in Nodes)
        BY <4>1, <4>5, <4>8 DEF Heads
      <4>10. PlanOK([c EXCEPT !.under = U, !.head = h])
        BY <4>7, <4>8, <4>9 DEF Plan, PlanOK, PlanShape
      <4>11. plan' \in [Procs -> Plan] /\ \A q \in Procs : PlanShape(plan[q])'
        BY <4>5, <4>10, OnePlan
      <4>12. seen' = seen
        BY <1>3 DEF BalanceMove
      <4> QED BY <3>3, <4>4, <4>11, <4>12 DEF Typed, TypeOK, Shape
    <3> QED BY <3>1, <3>2, <3>3
  <2> QED BY <2>1, <2>2
<1>4. CASE BalanceEnd(p)
  <2>1. Continue(p, [t EXCEPT !.pc = "commit"]) /\ seen' = seen
    BY <1>4 DEF BalanceEnd
  <2>2. TxOK([t EXCEPT !.pc = "commit"])
    BY <1>1, <1>t
  <2> QED BY <1>0, <2>1, <2>2, OnlyTx DEF Continue
<1> QED BY <1>2, <1>3, <1>4

LEMMA CommitTyped == ASSUME Typed, NEW p \in Procs, Commit(p) PROVE Typed'
<1>1. tx' \in [Procs -> Tx] /\ \A q \in Procs : TxShape(tx[q])'
  BY OneTx, IdleOK DEF Commit
<1>2. plan' \in [Procs -> Plan] /\ \A q \in Procs : PlanShape(plan[q])'
  BY OnePlan, NoPlanOK DEF Commit
<1>3. tx[p] \in Tx
  BY DEF Typed, TypeOK
<1>4. /\ state' \in [Nodes -> {"new", "on", "off", "gone"}]
      /\ failed' \in [Nodes -> Count]
      /\ home' \in [Assignments -> Nodes \cup {Gone}]
      /\ seen' \in [Nodes -> Count]
  BY <1>3, CountNat DEF Commit, Typed, TypeOK, Tx
<1> QED BY <1>1, <1>2, <1>4 DEF Typed, TypeOK, Shape

LEMMA NextTyped == Typed /\ [Next]_vars => Typed'
<1> SUFFICES ASSUME Typed, [Next]_vars PROVE Typed'
  OBVIOUS
<1>1. CASE UNCHANGED vars
  BY <1>1 DEF vars, Typed, TypeOK, Shape, TxShape, PlanShape
<1>2. CASE Next
  <2>1. PICK p \in Procs : Start(p) \/ Step(p) \/ Crash(p)
    BY <1>2 DEF Next
  <2>2. CASE Start(p)
    BY <2>2, StartTyped
  <2>3. CASE Crash(p)
    BY <2>3, RollbackTyped DEF Crash
  <2>4. CASE Step(p)
    <3>1. CASE \E n \in Nodes, ok \in BOOLEAN : Contact(p, n, ok)
      BY <3>1, ContactTyped
    <3>2. CASE _perform_failover(p)
      BY <3>2, FailoverTyped
    <3>3. CASE RemoveMove(p) \/ RemoveDelete(p)
      BY <3>3, RemoveTyped
    <3>4. CASE BalanceSource(p) \/ BalanceMove(p) \/ BalanceEnd(p)
      BY <3>4, BalanceTyped
    <3>5. CASE Flush(p)
      BY <3>5, FlushTyped
    <3>6. CASE Deadlock(p)
      BY <3>6, RollbackTyped DEF Deadlock
    <3>7. CASE Commit(p)
      BY <3>7, CommitTyped
    <3> QED BY <2>4, <3>1, <3>2, <3>3, <3>4, <3>5, <3>6, <3>7 DEF Step
  <2> QED BY <2>1, <2>2, <2>3, <2>4
<1> QED BY <1>1, <1>2

THEOREM TypedAlways == Spec => []Typed
  BY InitTyped, NextTyped, PTL DEF Spec

\* models/cluster.py and the sessions that work on it: every variable keeps its type.
THEOREM TypeCorrect == Spec => []TypeOK
  BY TypedAlways, PTL DEF Typed

-----------------------------------------------------------------------------
(* Counting.                                                               *)

\* Every failed contact is counted and none is forgotten.
CountsAll == CountBy = Contacts /\ ResetBy = {}

LEMMA Numbers ==
  ASSUME Typed, NEW n \in Nodes
  PROVE  /\ seen[n] \in Nat /\ failed[n] \in Nat /\ Threshold \in Nat
         /\ \A q \in Procs : tx[q].val[n] \in Nat
<1>1. \A q \in Procs : tx[q].val \in [Nodes -> Count]
  BY DEF Typed, TypeOK, Tx
<1>2. seen[n] \in Count /\ failed[n] \in Count
  BY DEF Typed, TypeOK
<1> QED BY <1>1, <1>2, CountNat

\* A step that writes nothing, and after which the transaction that took it is
\* still bounded.
LEMMA OneBounded ==
  ASSUME Typed, Bounded, NEW p \in Procs, NEW t, tx' = [tx EXCEPT ![p] = t],
         state' = state, failed' = failed,
         seen' \in [Nodes -> Count], \A n \in Nodes : seen'[n] >= seen[n],
         \A n \in Nodes : /\ t.val[n] <= seen'[n]
                          /\ n \in t.off => seen'[n] >= Threshold
  PROVE  Bounded'
<1>1. \A q \in Procs : tx'[q] = IF q = p THEN t ELSE tx[q]
  BY DEF Typed, TypeOK
<1>2. Count \subseteq Nat /\ Threshold \in Nat
  BY CountNat
<1>3. \A n \in Nodes : seen[n] \in Nat /\ seen'[n] \in Nat /\ failed[n] \in Nat
  BY <1>2 DEF Typed, TypeOK
<1>4. \A n \in Nodes : /\ failed'[n] <= seen'[n]
                       /\ state'[n] = "off" => seen'[n] >= Threshold
  BY <1>2, <1>3 DEF Bounded
<1>5. ASSUME NEW q \in Procs, NEW n \in Nodes
      PROVE  /\ tx'[q].val[n] <= seen'[n]
             /\ n \in tx'[q].off => seen'[n] >= Threshold
  <2>1. CASE q = p
    BY <1>1, <2>1
  <2>2. CASE q # p
    <3>1. tx'[q] = tx[q] /\ tx[q].val[n] \in Nat
      BY <1>1, <2>2, Numbers
    <3> QED BY <1>2, <1>3, <3>1 DEF Bounded, TxBounded
  <2> QED BY <2>1, <2>2
<1> QED BY <1>4, <1>5 DEF Bounded, TxBounded

\* The same, when nothing was contacted and the objects keep their attributes.
LEMMA SameBounded ==
  ASSUME Typed, Bounded, NEW p \in Procs, NEW t, tx' = [tx EXCEPT ![p] = t],
         state' = state, failed' = failed, seen' = seen,
         t.val = tx[p].val, t.off = tx[p].off
  PROVE  Bounded'
<1>1. seen' \in [Nodes -> Count] /\ \A n \in Nodes : seen'[n] >= seen[n]
  BY Numbers DEF Typed, TypeOK
<1>2. \A n \in Nodes : /\ t.val[n] <= seen'[n]
                       /\ n \in t.off => seen'[n] >= Threshold
  BY DEF Bounded, TxBounded
<1> QED BY <1>1, <1>2, OneBounded

\* A transaction that has just begun has the rows' own counts.
LEMMA BegunBounded ==
  ASSUME Typed, Bounded, NEW p \in Procs, NEW t, tx' = [tx EXCEPT ![p] = t],
         state' = state, failed' = failed, seen' = seen,
         \A n \in Nodes : t.val[n] \in {0, failed[n]}, t.off = {}
  PROVE  Bounded'
<1>1. seen' \in [Nodes -> Count] /\ \A n \in Nodes : seen'[n] >= seen[n]
  BY Numbers DEF Typed, TypeOK
<1>2. \A n \in Nodes : /\ t.val[n] <= seen'[n]
                       /\ n \in t.off => seen'[n] >= Threshold
  BY Numbers DEF Bounded
<1> QED BY <1>1, <1>2, OneBounded

LEMMA RollbackBounded == ASSUME Typed, Bounded, NEW p \in Procs, Rollback(p) PROVE Bounded'
<1>1. tx' = [tx EXCEPT ![p] = Idle] /\ UNCHANGED <<state, failed, seen>>
  BY DEF Rollback
<1>2. Idle.off = {} /\ \A n \in Nodes : Idle.val[n] \in {0, failed[n]}
  BY IdleOK
<1> HIDE DEF Idle
<1> QED BY <1>1, <1>2, BegunBounded

\* What a contact notes is never less than before, and one more after a failure.
LEMMA NoteCounts ==
  ASSUME Typed, CountsAll, NEW n \in Nodes, NEW kind \in Contacts, NEW ok \in BOOLEAN,
         Note(n, kind, ok)
  PROVE  /\ \A m \in Nodes : seen'[m] >= seen[m]
         /\ ~ ok => seen'[n] = IF seen[n] < Threshold THEN seen[n] + 1 ELSE seen[n]
         /\ \A m \in Nodes \ {n} : seen'[m] = seen[m]
  BY Numbers DEF Note, CountsAll, Typed, TypeOK

LEMMA ContactBounded ==
  ASSUME Typed, Bounded, CountsAll, NEW p \in Procs, NEW n \in Nodes, NEW ok \in BOOLEAN,
         Contact(p, n, ok)
  PROVE  Bounded'
<1> DEFINE t    == tx[p]
           val  == IF ok THEN 0 ELSE Increment(t.val[n])
           over == t.op = "health" /\ ~ ok /\ val >= Threshold
           pc   == IF over THEN "failover" ELSE After(t.todo \ {n})
           node == IF over THEN n ELSE None
           set  == IF ok /\ t.val[n] = 0 THEN t.set ELSE t.set \cup {n}
           off  == IF over THEN t.off \cup {n} ELSE t.off
           vals == [t.val EXCEPT ![n] = val]
           new  == [t EXCEPT !.pc = pc, !.todo = t.todo \ {n}, !.node = node, !.val = vals,
                             !.set = set, !.off = off, !.dirty = t.dirty \cup {n}]
<1>1. t \in Tx /\ t.op \in Contacts
  BY DEF Contact, ContactWith, Typed, TypeOK, Shape, TxShape
<1>2. tx' = [tx EXCEPT ![p] = new] /\ state' = state /\ failed' = failed
  BY DEF Contact, ContactWith, Continue
<1>3. Note(n, t.op, ok)
  BY DEF Contact, ContactWith
<1>4. seen' \in [Nodes -> Count]
  BY <1>3, NoteTyped
<1>5. /\ \A m \in Nodes : seen'[m] >= seen[m]
      /\ ~ ok => seen'[n] = IF seen[n] < Threshold THEN seen[n] + 1 ELSE seen[n]
      /\ \A m \in Nodes \ {n} : seen'[m] = seen[m]
  BY <1>1, <1>3, NoteCounts
<1>6. t.val[n] \in Nat /\ t.val[n] <= seen[n] /\ seen[n] \in Nat /\ Threshold \in Nat /\ seen'[n] \in Nat
  BY <1>4, Numbers, CountNat DEF Bounded, TxBounded
<1>7. val <= seen'[n] /\ (over => seen'[n] >= Threshold)
  BY <1>5, <1>6 DEF Increment
<1>8. ASSUME NEW m \in Nodes
      PROVE  vals[m] <= seen'[m] /\ (m \in off => seen'[m] >= Threshold)
  <2>1. CASE m = n
    <3>1. vals[m] = val
      BY <1>1, <2>1 DEF Tx
    <3>2. m \in off => over \/ m \in t.off
      OBVIOUS
    <3>3. m \in t.off => seen[n] >= Threshold
      BY <2>1 DEF Bounded, TxBounded
    <3>4. m \in t.off => seen'[n] >= Threshold
      BY <1>5, <1>6, <3>3
    <3> HIDE DEF val, over, off, vals
    <3> QED BY <1>7, <2>1, <3>1, <3>2, <3>4
  <2>2. CASE m # n
    <3>1. vals[m] = t.val[m] /\ (m \in off => m \in t.off)
      BY <1>1, <2>2 DEF Tx
    <3> QED BY <1>5, <2>2, <3>1 DEF Bounded, TxBounded
  <2> QED BY <2>1, <2>2
<1> HIDE DEF val, over, pc, node, set, off, vals
<1>9. new.val = vals /\ new.off = off
  BY <1>1 DEF Tx
<1> HIDE DEF new
<1> QED BY <1>2, <1>4, <1>5, <1>8, <1>9, OneBounded

LEMMA StartBounded ==
  ASSUME Typed, Bounded, CountsAll, NEW p \in Procs, Start(p) PROVE Bounded'
<1>0. TypeOK /\ failed \in [Nodes -> Count]
  BY DEF Typed, TypeOK
<1> DEFINE begins(t) == /\ tx' = [tx EXCEPT ![p] = t] /\ UNCHANGED <<state, failed, seen>>
                        /\ t.off = {} /\ \A n \in Nodes : t.val[n] \in {0, failed[n]}
<1>1. ASSUME NEW op, NEW pc, NEW todo, NEW node
      PROVE  /\ Begun(op, pc, todo, node).off = {}
             /\ Begun(op, pc, todo, node).val = failed
  BY DEF Begun
<1>2. ASSUME NEW t, begins(t) PROVE Bounded'
  BY <1>2, BegunBounded
<1>3. ASSUME NEW op \in {"heartbeat", "health"}, Collect(p, op) PROVE Bounded'
  <2>1. begins(Begun(op, "contact", On, None))
    BY <1>1, <1>3 DEF Collect, Continue
  <2> QED BY <1>2, <2>1
<1>4. CASE auto_balance(p)
  <2>1. begins(Begun("balance", "balance", {}, None))
    BY <1>1, <1>4 DEF auto_balance
  <2> QED BY <1>2, <2>1
<1>5. ASSUME NEW n \in Nodes, node_health_check(p, n) PROVE Bounded'
  <2>1. begins(Begun("check", "contact", {n}, None))
    BY <1>1, <1>5 DEF node_health_check, Continue
  <2> QED BY <1>2, <2>1
<1>6. ASSUME NEW n \in Nodes, receive_heartbeat(p, n) PROVE Bounded'
  <2> DEFINE t == [Begun("post", "commit", {}, None) EXCEPT
                     !.val[n] = 0, !.dirty = {n}, !.set = IF failed[n] = 0 THEN {} ELSE {n}]
  <2>1. tx' = [tx EXCEPT ![p] = t] /\ state' = state /\ failed' = failed /\ Note(n, "post", TRUE)
    BY <1>6 DEF receive_heartbeat, Continue
  <2>2. seen' = seen
    <3>1. seen' = [seen EXCEPT ![n] = seen[n]]
      BY <2>1 DEF Note, CountsAll
    <3> QED BY <3>1 DEF Typed, TypeOK
  <2>3. t.off = {} /\ \A m \in Nodes : t.val[m] \in {0, failed[m]}
    BY <1>0 DEF Begun
  <2> HIDE DEF t
  <2> QED BY <2>1, <2>2, <2>3, <1>2
<1>7. ASSUME NEW n \in Nodes, add_cluster_node(p, n) PROVE Bounded'
  BY <1>7 DEF add_cluster_node, Bounded, TxBounded, Typed, TypeOK
<1>8. ASSUME NEW n \in Nodes, remove_cluster_node(p, n) PROVE Bounded'
  <2> DEFINE A == {a \in Assignments : home[a] = n}
             t == Begun("remove", IF A = {} THEN "delete" ELSE "remove", A, n)
  <2>1. begins(t)
    BY <1>1, <1>8 DEF remove_cluster_node, Continue
  <2> QED BY <1>2, <2>1
<1>9. ASSUME NEW a \in Assignments, NEW m \in Nodes, migrate_resource(p, a, m) PROVE Bounded'
  <2> DEFINE t == [Begun("migrate", "commit", {}, None) EXCEPT !.to[a] = m, !.dirty = {a}]
  <2>1. tx' = [tx EXCEPT ![p] = t] /\ UNCHANGED <<state, failed, seen>>
    BY <1>9 DEF migrate_resource, Continue
  <2>2. t.off = {} /\ \A n \in Nodes : t.val[n] \in {0, failed[n]}
    BY DEF Begun
  <2> HIDE DEF t
  <2> QED BY <2>1, <2>2, <1>2
<1> QED BY <1>3, <1>4, <1>5, <1>6, <1>7, <1>8, <1>9 DEF Start

\* The steps that touch neither the counts nor is_active of a transaction.
LEMMA LoopBounded ==
  ASSUME Typed, Bounded, NEW p \in Procs,
         \/ _perform_failover(p)
         \/ RemoveMove(p) \/ RemoveDelete(p)
         \/ BalanceSource(p) \/ BalanceMove(p) \/ BalanceEnd(p)
  PROVE  Bounded'
<1>0. tx[p] \in Tx
  BY DEF Typed, TypeOK
<1>1. ASSUME NEW t, tx' = [tx EXCEPT ![p] = t], t.val = tx[p].val, t.off = tx[p].off,
             UNCHANGED <<state, failed, seen>>
      PROVE  Bounded'
  BY <1>1, SameBounded
<1>2. CASE _perform_failover(p)
  <2>1. PICK f :
          LET C == Candidates(p, tx[p].node)
              A == At(p, tx[p].node)
          IN Continue(p, [tx[p] EXCEPT !.pc = After(tx[p].todo), !.node = None,
                             !.to = [a \in Assignments |->
                                       IF C # {} /\ a \in A THEN f[a] ELSE tx[p].to[a]],
                             !.dirty = IF C = {} THEN {} ELSE A])
    BY <1>2 DEF _perform_failover, FailoverOf
  <2> QED BY <1>0, <1>1, <1>2, <2>1 DEF _perform_failover, FailoverOf, Continue, Tx
<1>3. CASE RemoveMove(p)
  BY <1>0, <1>1, <1>3 DEF RemoveMove, RemoveMoveTo, Continue, Tx
<1>4. CASE RemoveDelete(p)
  BY <1>0, <1>1, <1>4 DEF RemoveDelete, RemoveDeleteWith, Continue, Tx
<1>5. CASE BalanceSource(p)
  <2>1. PICK M : tx' = [tx EXCEPT ![p] = [tx[p] EXCEPT !.todo = M]]
    BY <1>5 DEF BalanceSource
  <2> QED BY <1>0, <1>1, <1>5, <2>1 DEF BalanceSource, Tx
<1>6. CASE BalanceMove(p)
  <2>1. CASE plan[p].under = {}
    BY <1>0, <1>1, <1>6, <2>1 DEF BalanceMove, Continue, Tx
  <2>2. CASE plan[p].under # {}
    <3>1. PICK a :
            \/ tx' = [tx EXCEPT ![p] = [tx[p] EXCEPT !.todo = tx[p].todo \ {a}]]
            \/ tx' = [tx EXCEPT ![p] = [tx[p] EXCEPT !.todo = tx[p].todo \ {a},
                                            !.to = [tx[p].to EXCEPT ![a] = plan[p].head],
                                            !.dirty = tx[p].dirty \cup {a}]]
      BY <1>6, <2>2 DEF BalanceMove, Continue
    <3>2. UNCHANGED <<state, failed, seen>>
      BY <1>6, <2>2 DEF BalanceMove, Continue
    <3> QED BY <1>0, <1>1, <3>1, <3>2 DEF Tx
  <2> QED BY <2>1, <2>2
<1>7. CASE BalanceEnd(p)
  BY <1>0, <1>1, <1>7 DEF BalanceEnd, Continue, Tx
<1> QED BY <1>2, <1>3, <1>4, <1>5, <1>6, <1>7

LEMMA FlushBounded == ASSUME Typed, Bounded, NEW p \in Procs, Flush(p) PROVE Bounded'
<1> DEFINE t(r) == [tx[p] EXCEPT !.dirty = tx[p].dirty \ {r}, !.held = tx[p].held \cup {r}]
<1>1. PICK r : Rollback(p) \/ (Continue(p, t(r)) /\ UNCHANGED seen)
  BY DEF Flush
<1>2. CASE Rollback(p)
  BY <1>2, RollbackBounded
<1>3. CASE Continue(p, t(r)) /\ UNCHANGED seen
  <2>1. t(r).val = tx[p].val /\ t(r).off = tx[p].off
    BY DEF Typed, TypeOK, Tx
  <2> HIDE DEF t
  <2> QED BY <1>3, <2>1, SameBounded DEF Continue
<1> QED BY <1>1, <1>2, <1>3

\* The commit writes the counts of the objects into the rows.
LEMMA CommitBounded == ASSUME Typed, Bounded, NEW p \in Procs, Commit(p) PROVE Bounded'
<1>1. seen' = seen
  BY DEF Commit
<1>2. ASSUME NEW n \in Nodes
      PROVE  /\ failed'[n] <= seen'[n]
             /\ state'[n] = "off" => seen'[n] >= Threshold
  <2>1. failed'[n] \in {0, tx[p].val[n], failed[n]}
    BY DEF Commit
  <2>2. state'[n] = "off" => state[n] = "off" \/ n \in tx[p].off
    BY DEF Commit
  <2> QED BY <1>1, <2>1, <2>2, Numbers DEF Bounded, TxBounded
<1>3. ASSUME NEW q \in Procs PROVE TxBounded(tx[q])'
  <2>1. tx'[q] = IF q = p THEN Idle ELSE tx[q]
    BY DEF Commit, Typed, TypeOK
  <2>2. CASE q = p
    <3>1. tx'[q].off = {} /\ \A n \in Nodes : tx'[q].val[n] = 0
      BY <2>1, <2>2, IdleOK
    <3> QED BY <1>1, <3>1, Numbers DEF TxBounded
  <2>3. CASE q # p
    BY <1>1, <2>1, <2>3 DEF Bounded, TxBounded
  <2> QED BY <2>2, <2>3
<1> QED BY <1>2, <1>3 DEF Bounded

LEMMA NextBounded == Typed /\ Bounded /\ CountsAll /\ [Next]_vars => Bounded'
<1> SUFFICES ASSUME Typed, Bounded, CountsAll, [Next]_vars PROVE Bounded'
  OBVIOUS
<1>1. CASE UNCHANGED vars
  BY <1>1 DEF vars, Bounded, TxBounded
<1>2. CASE Next
  <2>1. PICK p \in Procs : Start(p) \/ Step(p) \/ Crash(p)
    BY <1>2 DEF Next
  <2>2. CASE Start(p)
    BY <2>2, StartBounded
  <2>3. CASE Crash(p)
    BY <2>3, RollbackBounded DEF Crash
  <2>4. CASE \E n \in Nodes, ok \in BOOLEAN : Contact(p, n, ok)
    BY <2>4, ContactBounded
  <2>5. CASE \/ _perform_failover(p)
             \/ RemoveMove(p) \/ RemoveDelete(p)
             \/ BalanceSource(p) \/ BalanceMove(p) \/ BalanceEnd(p)
    BY <2>5, LoopBounded
  <2>6. CASE Flush(p)
    BY <2>6, FlushBounded
  <2>7. CASE Deadlock(p)
    BY <2>7, RollbackBounded DEF Deadlock
  <2>8. CASE Commit(p)
    BY <2>8, CommitBounded
  <2> QED BY <2>1, <2>2, <2>3, <2>4, <2>5, <2>6, <2>7, <2>8 DEF Step
<1> QED BY <1>1, <1>2

LEMMA InitBounded == Init => Bounded
<1> SUFFICES ASSUME Init PROVE Bounded
  OBVIOUS
<1>1. \A n \in Nodes : failed[n] = 0 /\ seen[n] = 0 /\ state[n] # "off"
  BY DEF Init
<1>2. \A p \in Procs : tx[p].off = {} /\ \A n \in Nodes : tx[p].val[n] = 0
  BY IdleOK DEF Init
<1> QED BY <1>1, <1>2 DEF Bounded, TxBounded

\* cluster_health_check and everything it races with: a node is deactivated only
\* when at least _FAILOVER_THRESHOLD contacts with it have failed.
THEOREM DeactivationIsEarned ==
  ASSUME CountsAll
  PROVE  Spec => []DeactivatedAfterFailures
<1>1. Init => Typed /\ Bounded
  BY InitTyped, InitBounded
<1>2. Typed /\ Bounded /\ [Next]_vars => (Typed /\ Bounded)'
  BY NextTyped, NextBounded
<1>3. Bounded => DeactivatedAfterFailures
  BY DEF Bounded, DeactivatedAfterFailures
<1> QED BY <1>1, <1>2, <1>3, PTL DEF Spec

=============================================================================
