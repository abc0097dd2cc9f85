------------------------------ MODULE Placement -------------------------------
(***************************************************************************)
(* What the cluster is for, told without processes and sessions: nodes     *)
(* join, fail, are given up and leave, and assignments follow.  Each task  *)
(* and request is a single step here.  Cluster implements this as long as  *)
(* its transactions follow one another (OneAtATime).                       *)
(***************************************************************************)
EXTENDS Naturals

CONSTANTS Nodes, Assignments, Type, Members, Threshold, Gone

VARIABLES state, failed, home

placement == <<state, failed, home>>

On == {n \in Nodes : state[n] = "on"}

Present(n) == state[n] \in {"on", "off"}

Fits(n, m) == Type[m] = Type[n] \/ "all" \in {Type[m], Type[n]}

Housed(n) == {a \in Assignments : home[a] = n}

\* Of the nodes S those in up answer.
Contacted(S, up) ==
    failed' = [n \in Nodes |-> IF n \in up THEN 0
                               ELSE IF n \in S /\ failed[n] < Threshold THEN failed[n] + 1
                               ELSE failed[n]]

\* No node that stays active, and was below the threshold throughout, fits n.
Alternativeless(n) ==
    \A m \in Nodes \ {n} :
        ~ (state'[m] = "on" /\ failed[m] < Threshold /\ failed'[m] < Threshold /\ Fits(n, m))

-----------------------------------------------------------------------------
Join(n) == /\ state[n] = "new"
           /\ state' = [state EXCEPT ![n] = "on"]
           /\ UNCHANGED <<failed, home>>

\* Every active node is contacted, or a single one.
Heartbeat == /\ \E up \in SUBSET On : Contacted(On, up)
             /\ UNCHANGED <<state, home>>

Visit(n) == /\ Present(n)
            /\ \E up \in SUBSET {n} : Contacted({n}, up)
            /\ UNCHANGED <<state, home>>

\* Those that have reached the threshold are given up, and what they had goes to
\* active nodes or, when none fits, stays where it is stranded.
HealthCheck ==
    \E up \in SUBSET On :
        LET down == {n \in On \ up : failed[n] + 1 >= Threshold} IN
        /\ Contacted(On, up)
        /\ state' = [n \in Nodes |-> IF n \in down THEN "off" ELSE state[n]]
        /\ \A a \in Assignments :
              IF home[a] \in down
              THEN home'[a] \in On /\ (home'[a] \in down => Alternativeless(home'[a]))
              ELSE home'[a] = home[a]

Migrate(a, m) == /\ home[a] # Gone /\ m \in On \ {home[a]}
                 /\ home' = [home EXCEPT ![a] = m]
                 /\ UNCHANGED <<state, failed>>

Balance == /\ \A a \in Assignments :
                 home'[a] # home[a] => /\ {home[a], home'[a]} \subseteq On
                                       /\ Fits(home[a], home'[a])
           /\ UNCHANGED <<state, failed>>

\* Its assignments move first, and only what fits nowhere goes with it.
Leave(n) ==
    LET others == {m \in On \ {n} : Fits(n, m)} IN
    /\ Present(n)
    /\ state' = [state EXCEPT ![n] = "gone"]
    /\ failed' = [failed EXCEPT ![n] = 0]
    /\ \A a \in Assignments :
          home'[a] \in IF a \notin Housed(n) THEN {home[a]}
                       ELSE IF others = {} THEN {Gone} ELSE others

Init == /\ state = [n \in Nodes |-> IF n \in Members THEN "on" ELSE "new"]
        /\ failed = [n \in Nodes |-> 0]
        /\ home \in [Assignments -> Members]

Next == \/ \E n \in Nodes : Join(n) \/ Visit(n) \/ Leave(n)
        \/ Heartbeat \/ HealthCheck \/ Balance
        \/ \E a \in Assignments, m \in Nodes : Migrate(a, m)

Spec == Init /\ [][Next]_placement

=============================================================================
