-------------------------------- MODULE Promises --------------------------------
(***************************************************************************)
(* What the handlers of HostHive promise about rows and the system.  No    *)
(* transaction spans both, so that each promise rests on the order of the  *)
(* steps, on what is undone when a step fails, or on a row's lock.  For    *)
(* which tables it holds is said next to it; README.md has the tables for  *)
(* which it does not, and why.                                             *)
(***************************************************************************)
EXTENDS Panel, HostHive

\* Nobody is at work on name k.
AtRest(k) == \A p \in Procs : Busy(p) => tx[p].key # k
Calm == mishaps["call"] = 0 /\ mishaps["crash"] = 0

Agree(t, k) == things[t][k] = Shown(rows[t][k])
There(t, k) == things[t][k] # None
-----------------------------------------------------------------------------
\* Tables whose things are made and removed with their rows.  Those that are
\* no column of a model have no row: their things are temporary files.
Followed ==
  All([databases   |-> {"database", "login"},
       dbdumps     |-> {"database", "login"},
       mailboxes   |-> {"password"},
       ratelimits  |-> {"ratelimit"},
       mailsettings |-> {"spam"},
       sieve       |-> {"away"},
       aliases     |-> {"alias", "catch_all"},
       aliaslines  |-> {"alias"},
       members     |-> {"member"},
       records     |-> {"record"},
       zones       |-> {"zone", "record"},
       dnssec      |-> {"record"},
       cloudflare  |-> {"record"},
       apache      |-> {"vhost"},
       ftp         |-> {"ftp"},
       docker      |-> {"container"},
       envs        |-> {"dbserver", "web", "php", "redis"},
       envweb      |-> {"web", "web_new"},
       envparts    |-> {"dbserver", "php81"},
       envcaches   |-> {"redis", "limits"},
       runtime     |-> {"unit", "running"},
       users       |-> {"user", "login"},
       remotes     |-> {"schedule", "download"},
       certs       |-> {"cert"},
       insights    |-> {"settings"},
       antivirus   |-> {"quarantine"},
       wordpress   |-> {"dump"},
       catalogue   |-> {"archive"},
       caches      |-> {"script", "web_script"},
       ssh         |-> {"candidate"},
       agent_wp    |-> {"dump"},
       agent_docker  |-> {"compose"},
       agent_backups |-> {"temp"}], {})

\* While nothing fails, the system is what the rows say whenever a request
\* is over, after any sequence of requests and tasks, and no temporary file
\* is left behind: create, update and delete undo and redo each other.
SystemFollowsRows ==
  NoMishap => \A t \in Followed[kind], k \in Names[kind] : AtRest(k) => Agree(t, k)

\* Tables whose things are made before their rows are committed, of kinds
\* whose handlers remove no thing before its row, or not at all.
Backed ==
  All([dbdumps   |-> {"database", "login"},
       backups   |-> {"archive"},
       remotes   |-> {"archive"},
       envcaches |-> {"redis"}], {})

\* A call to the system may fail at any step of these kinds, and there is no
\* row without the thing it describes: a handler that did not make it does
\* not return, and the exception rolls the row back.  (delete_database and
\* delete_user remove the thing first, and a failure behind that brings the
\* row back without it: their kinds are left out.)
RowsAreBacked ==
  mishaps["crash"] = 0 =>
    \A t \in Backed[kind], k \in Names[kind] : AtRest(k) /\ rows[t][k] # None => There(t, k)
-----------------------------------------------------------------------------
\* A thing that names another one, and the one it names.
Supports ==
  All([waf        |-> {<<"include", "waf">>, <<"include", "custom">>},
       agent_waf  |-> {<<"include", "waf">>, <<"include", "custom">>},
       agent_vhost |-> {<<"link", "vhost">>},
       agent_apps |-> {<<"link", "vhost">>, <<"service", "unit">>, <<"unit", "environment">>,
                       <<"app", "unit">>},
       dkim       |-> {<<"signing", "keytable">>, <<"keytable", "key">>},
       dnsnodes   |-> {<<"stanza", "zone">>},
       dnssec     |-> {<<"signed", "keys">>}], {})
\* Those that take it that the step before has not failed unnoticed.
CalmSupports ==
  All([apache  |-> {<<"link", "vhost">>},
       proxied |-> {<<"link", "vhost">>},
       envs    |-> {<<"web", "dbserver">>, <<"web", "php">>, <<"web", "network">>},
       runtime |-> {<<"running", "unit">>},
       php     |-> {<<"unit", "php">>}], {})

\* What is referred to is written first and removed last.  Between any two
\* steps, and after a failure or a crash at any of them, no configuration
\* refers to something that is not there (which nginx, BIND or systemd would
\* refuse, for all sites and not just this one).
ReferencesAreWrittenLast ==
  \A k \in Names[kind] :
    /\ \A ab \in Supports[kind] : There(ab[1], k) => There(ab[2], k)
    /\ Calm => \A ab \in CalmSupports[kind] : There(ab[1], k) => There(ab[2], k)

\* A file and what is made from it: what the daemon has loaded, a second
\* configuration, the server behind a proxy.
Twins ==
  All([waf        |-> {<<"served", "include">>},
       agent_waf  |-> {<<"served", "include">>},
       geo        |-> {<<"geo_conf", "geo">>, <<"geo_served", "geo_conf">>},
       wireguard  |-> {<<"interface", "peer">>},
       apache     |-> {<<"served", "vhost">>},
       proxied    |-> {<<"served", "vhost">>},
       envweb     |-> {<<"proxy", "web">>},
       agent_apps |-> {<<"served", "link">>},
       agent_limits |-> {<<"cpu", "limits">>, <<"memory", "limits">>},
       aisites    |-> {<<"served", "vhost">>}], {})

\* While nothing fails, no change of a configuration is left unloaded: when
\* a request is over, what runs is what the files say, for this name and for
\* the others in the same file.
ServedAsWritten ==
  NoMishap /\ (\A p \in Procs : ~Busy(p)) =>
    \A ab \in Twins[kind], k \in Names[kind] : things[ab[1]][k] = things[ab[2]][k]

\* The mode that was set is the mode of the rules of every application that
\* has its firewall on, however often it was switched off and on.
ModeIsApplied ==
  kind \in {"waf", "agent_waf"} /\ NoMishap =>
    \A k \in Names[kind] :
      AtRest(k) /\ There("meta", k) => things["waf_mode"][k] = things["mode"][k]
-----------------------------------------------------------------------------
\* The counter in a reseller's row is the number of its users, whatever
\* fails: it is changed in the transaction of the user's row.  (Two requests
\* at once may lose a count.)
Counted == [n \in 0 .. 3 |-> CASE n = 0 -> None [] n = 1 -> "one" [] n = 2 -> "two" [] n = 3 -> "three"]
UsersAreCounted ==
  kind = "resellers" =>
    LET reseller == CHOOSE k \in Names[kind] : TRUE IN
    rows["used"][reseller] = Counted[Cardinality({k \in Names[kind] : rows["member"][k] # None})]

\* sshd's configuration is one that sshd -t has accepted, whatever fails.
SshdIsTested == kind = "ssh" => \A k \in Names[kind] : things["sshd"][k] # "broken"

\* A scan is not left "running" by whatever fails: who has set it so is at
\* work on it still, or has told how it ended.  (A worker that dies in the
\* nightly scan leaves it: the task makes a new row when it runs again.)
ScansAreClosed ==
  kind = "antivirus" /\ mishaps["crash"] = 0 =>
    \A k \in Names[kind] : rows["scan"][k] = "running" => ~AtRest(k)
-----------------------------------------------------------------------------
\* The row of a deployment is locked from "deploying" to the end of the
\* request, whether it came from the button or the webhook: no two runs of
\* git and of the build commands are in one directory at once.
Deploys(p) == AtStep(p, Changes) /\ Here(p).on \in {"tree", "build", "hook"}
OneDeployAtATime ==
  kind = "git" =>
    \A p, q \in Procs : p # q /\ Deploys(p) /\ Deploys(q) => tx[p].key # tx[q].key

\* Requests that check a quota at once may exceed it with their active rows,
\* by one for each further request that is under way, and by no more.
Quotas == All([keys |-> {"key"}, mailboxes |-> {"mailbox"}], {})
QuotaIsNearlyKept ==
  \A t \in Quotas[kind] :
    Cardinality({k \in Names[kind] : Shown(rows[t][k]) # None}) <= Limit + mishaps["overlap"]
-----------------------------------------------------------------------------
\* Every request is answered, and every task that was sent to a queue that is
\* read has its turn and ends, although processes wait for each other's rows,
\* calls fail, and a worker may die and its task be delivered again.
RequestsEnd == \A p \in Procs : Busy(p) ~> ~Busy(p)
JobsAreDone == \A j \in Messages : j.name \notin Unserved => (j \in jobs ~> j \notin jobs)

\* A migration is executed: routers/migration.py says that it is started
\* asynchronously via Celery.
MigrationsStart ==
  \A k \in UNION {Names[m] : m \in Kinds} :
    kind = "migration" /\ things["migration"][k] = "pending" ~> things["migration"][k] # "pending"

\* A scan that was asked for is run: routers/antivirus.py says that it is
\* dispatched to a worker.
ScansAreRun ==
  \A k \in UNION {Names[m] : m \in Kinds} :
    kind = "antivirus" /\ rows["scan"][k] = "pending" ~> rows["scan"][k] # "pending"

\* The stanza of a zone in named.conf.local: bind_service says that one that
\* is there is replaced.
StanzaWellFormed ==
  kind = "zones" => \A k \in Names[kind] : things["stanza"][k] # "malformed"
=============================================================================
