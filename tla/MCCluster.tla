------------------------------ MODULE MCCluster ------------------------------
(***************************************************************************)
(* Values for the constants of Cluster.                                    *)
(***************************************************************************)
EXTENDS Cluster, TLC

TwoNodes   == 1..2
ThreeNodes == 1..3
NoNodes    == {}
LastNode   == {2}
FirstTwo   == 1..2

\* On three active nodes four assignments are the fewest of which one node can have
\* more than max(avg * 1.5, avg + 2); their average is a fraction.
OneAssignment   == {11}
FourAssignments == 11..14

\* a web server and one that offers everything; three nodes
WebAll     == <<"web", "all">>
WebAllWeb  == <<"web", "all", "web">>

WebSites == [a \in Assignments |-> "web"]

\* p1 a worker and p2 the requests, or p1 alone
p1 == "p1"
p2 == "p2"
One == {p1}
Two == {p1, p2}

Everything    == [p \in One |-> AllOps]
Watching      == [p \in One |-> {"heartbeat", "health"}]
HealthAndRest == (p1 :> {"health", "crash"}) @@
                 (p2 :> {"heartbeat", "check", "post", "migrate", "remove"})

NoContacts   == {}
HealthChecks == {"health"}
=============================================================================
