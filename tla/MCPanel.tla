------------------------------- MODULE MCPanel -------------------------------
(***************************************************************************)
(* Panel with the handlers of HostHive, for TLC: one or two names, so that *)
(* one may get in the way of the other where they share a file.            *)
(***************************************************************************)
EXTENDS Promises

CONSTANTS k1, k2, k3, p1, p2, p3, a1, a2

MCNames ==
  LET some == [k \in Pairs |-> IF k = "keys" THEN {k1, k2, k3} ELSE {k1, k2}]
  IN All(some, {k1})

AllKinds == DOMAIN Handlers
\* Those that rely on a row's lock, or that check first and act later.
Contended == {"git", "keys", "mailboxes"}
\* Some whose requests send tasks, whose tasks send tasks or are retried,
\* and whose requests wait for each other.
Queued == {"antivirus", "workerbackups", "billing"}
OneZone == {"zones"}
OneMigration == {"migration"}
OneScanner == {"antivirus"}
NoTasks == {}

OneFailure == [overlap |-> 0, call |-> 1, crash |-> 1]
OneOverlap  == [overlap |-> 1, call |-> 0, crash |-> 0]
TwoOverlaps == [overlap |-> 2, call |-> 0, crash |-> 0]
NoFailure  == [overlap |-> 0, call |-> 0, crash |-> 0]
OneOfEach  == [overlap |-> 1, call |-> 1, crash |-> 1]

\* For runs in which both processes serve requests and run tasks.
Symm == Permutations(Web) \cup Permutations(Answers)
=============================================================================
