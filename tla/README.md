# Verification of HostHive

TLA+ models of HostHive (a hosting control panel: FastAPI application, Celery tasks, a
root agent, PostgreSQL, Redis, and nginx, Apache, Exim, Dovecot, BIND, Docker on the
same host), the TLC configurations that check them on small instances, and proofs that
TLAPS checks for every instance.

    tlc -workers 2 -config PanelTogether.cfg MCPanel.tla
    tlapm PanelProofs.tla

Three models, by what makes the code hard:

| module | what it is |
|---|---|
| `SiteConfig`, `MCSiteConfig`, `SiteConfigProofs`, `VhostProofs` | domains: how nine writers render one vhost, and what nginx serves |
| `Cluster`, `MCCluster`, `ClusterProofs`, `ClusterLockProofs`, `ClusterAloneProofs` | the multi-server cluster: tasks and requests as transactions with row locks |
| `Placement` | what the cluster is for, each task and request a single step; `Cluster` refines it when transactions follow one another |
| `Script` | the steps all other handlers are made of |
| `Panel` | the machine that runs them: processes, sessions, commits, calls that fail, tasks, crashes |
| `Databases`, `Mail`, `Dns`, `Hosting`, `Apache`, `Applications`, `Agent`, `Network`, `Accounts`, `Storage`, `Jobs`, `Server` | the handlers, one definition per function of the code |
| `HostHive` | the handlers by kind, with the tables, columns, files and queues of each |
| `Promises`, `MCPanel` | the properties of rows and system; values for TLC |
| `PanelProofs` | types, and lemmas about locks and sessions, for any handlers |
| `Flows`, `MCFlows` | what is known at each step of a handler, computed from the handler alone; evaluated by TLC for all handlers of HostHive |
| `FlowProofs` | promises of `Promises`, from what `Flows` computes, for any number of names, values and requests |
| `OverlapProofs` | promises that hold of requests that overlap, for any number of them |

## 1. Inventory

Processes: `uvicorn --workers 2` runs the API (`config/hosthive-api.service`); each
request works in one database transaction (`api/core/database.py:get_db` commits when
the handler returns, rolls back when it raises). One Celery worker with two processes
runs tasks from Redis queues, started by beat or by `.delay` (`api/tasks/`). The agent
(`agent/`) runs commands as root for the API. nginx, Apache, Postfix, BIND and the
rest are driven by files and reloads.

| component | state | operations | interacts through | hard behaviours | right when |
|---|---|---|---|---|---|
| Domains, vhosts, certificates (`routers/domains, redirects, directory_privacy, ssl`, `services/nginx_service, apache_service`) | rows of domains, redirects, private directories, certificates; files in sites-available, links in sites-enabled, running configuration | create, update, delete of domains and subdomains; nine endpoints that re-render the vhost; four that obtain certificates | `nginx -t` reads the files of all domains at once; row and file have no common transaction | partial failure, swallowed errors, many writers of one file, requests at once | the linked files are what is served; no file names a missing certificate; the vhost says what the rows say |
| Cluster (`routers/cluster`, `tasks/cluster_tasks`) | nodes with `is_active`, `failed_checks`; assignments with `node_id` | heartbeat every 30 s, health check every 5 min with failover, daily balancing; add, remove, check, migrate, heartbeat post | row locks, foreign key with cascade, values remembered across pings | stale absolute writes, check-then-act, deadlock, worker crash, node gone meanwhile | a node is given up only when it failed, its resources move to a live node that fits, nothing is lost, every transaction ends |
| Certificate jobs (`tasks/ssl_tasks`) | the same rows and files | daily renewal, expiry check | with the endpoints above | two renewals at once, failure half-way | as above |
| Backups (`routers/backups`, `tasks/backup_tasks`, `backup_executor`) | backup rows, archives, quota | create, restore, delete, scheduled creation, cleanup | agent; row before file | quota is check-then-act, names of one second's resolution, retries, cleanup of running backups | a finished row has its file; quota and retention hold |
| Sessions (`routers/auth, totp`, `core/security`, `frontend/src/api/client.js`) | refresh tokens and failed-login counts in Redis, password time stamps | login, refresh, logout, change and reset of the password | Redis calls that are not atomic | two refreshes at once, single-flight queue in the browser | a session ends when it should and not before |
| Agent (`agent/agent.py, auth.py`, `core/agent_client`) | nonce cache, retries | dispatch, verify, purge | HTTP | bounded cache, timeouts after the work was done | a request is executed at most once |
| Task queues (`tasks/celeryconfig, __init__`, worker unit) | Redis lists, unacknowledged tasks | send, prefetch, acknowledge late, redeliver | all tasks | redelivery of what was already done; queues nobody consumes | every task sent is run |
| Monitoring, reseller limits | health checks, incidents, suspension | periodic checks, restart, bandwidth aggregation | agent, user rows | counts of consecutive failures, one-way suspension | restarts after N failures; suspension follows the limit |
| DNS and its cluster | zones, records, zone files, peers | record changes, serial, sync | BIND, peers | file behind the rows, serial order | peers converge |
| Databases, mail, FTP, cron, applications, runtimes, containers | a row and a thing on the system each | create, change, delete | agent or system tools | half-done operations, allocation of ports and names | row and thing agree |
| Git deployment, migration, billing, WireGuard, addresses | jobs, plans, address pools | jobs, webhooks, allocation | outside services | repeated webhooks, allocation by scan | no double allocation |
| WAF, antivirus, notifications, integrations, AI, metrics, audit, framework, browser client, installer | settings and logs | single calls | - | little of it is stateful | - |

`PROJECT.json` has the same list with files and the state of each, and under `hazards`
the places in the code where each difficulty bites.

## 2. Order of the work

`SiteConfig` and `Cluster` came first, because their handlers are the most entangled:
one vhost with many writers, one counter with many readers. Everything else is a row and
a thing on the system without a common transaction, some hundreds of them, each with its
own order of steps. Those are not hundreds of models but hundreds of programs for one
machine: `Panel` was written and proved once, and the handlers were added as data,
component by component, with the properties in `Promises` in mind. The proofs about
`Panel` hold for all of them, and for handlers to come.

What would come next: two handlers of nginx vhosts at once (`nginx -t` reads all files,
and validation puts a candidate in place for its duration); port numbers, serials and
other small arithmetic; and that `Cluster` refines `Placement`, as a theorem.

## 3. SiteConfig

**State.** `domains`/`row` are the domains table. `row[n].on` is the set of settings
away from their default: PHP version, cache, hotlink protection, error pages, and, as
rows of their own, redirects and private directories. `certRows` counts
ssl_certificates (0, 1, more: `scalar_one_or_none` tells them apart). `zones` and
`aRecords` are what the DNS tables hold because of domains. `nginx`, `enabled`, `live`,
`apache`, `certs` are the two file trees, the links, the running nginx and
/etc/letsencrypt with the uploaded certificates. A vhost is a record of what it was
rendered with; custom text is "none", "good" or "bad" (refused by `nginx -t`), a
certificate "le", "custom" or "junk" (an upload that is not a certificate).

**Actions.** One per endpoint, whole: row, file, link, `nginx -t`, reload, and the
early return or swallowed exception in between. `PassedBy` is the heart of the model:
the settings each of the eight writers passes to `render_vhost`, whose keyword
arguments default to off. `nginx_test` reads every linked file, so that a bad file of
one domain keeps all others from being reloaded. Certbot failing is either the 500
that rolls everything back (no step) or, for a subdomain, `ssl = FALSE`.

**Abstracted.** Ownership and permissions, quotas of packages, texts of pages and
redirects (on or off), cache parameters, document roots, Apache's own reload. A handler
runs without interruption.

**Runs.**

- `site_reload`: `TypeOK`, `CertsOnDisk`, `ServesTheFiles`, `OrphansLoseTheirParent`. A
  domain and a subdomain under nginx, custom text good enough or refused, uploads that
  are junk: 576,153 states. Two names are what the properties need: the effect of one
  domain's bad file on another, and a parent with a child. Settings do not matter to
  `nginx -t` and are left out; the other webservers touch none of this state more.
  `CertsOnDisk` speaks of the time between handlers: the order of writes within one of
  them, and a crash between two, are not in this model.
- `site_settings`: `NoStaleSetting` over all six settings of a domain behind nginx, Apache
  or both, with custom text and uploads that nginx refuses: 133,889 states. One
  name: that another domain's file may keep nginx from taking this one's is in the
  property (`Refusable`) and in the theorem, for any number. A setting that is switched
  off stays in the vhost only if nginx refuses the file without it, because then
  `_validate_custom_config` puts the old file back while the row is changed; and nothing
  brings it back later.
- `site_settings_applied` (violated): the converse, a setting in the row is in the
  vhost. Switching error pages on after directory privacy drops the password
  protection from the vhost; the row keeps it.

**Seen in the code and not run.** Custom text is validated by writing it to
sites-available and running `nginx -t`, which reads sites-enabled: a new domain has no
link yet, so that refused text is enabled by the next step (`nginx_service.py:263`,
"validate before applying"). PUT with another webserver changes the row alone
(`domains.py:272`): nginx goes on serving the domain, and a later deletion removes the
vhosts of the new webserver only. An update of a domain behind nginx and Apache renders
its Apache vhost for port 80 instead of 8080 (`domains.py:294`, `apache_service.py:274`).

Both bounds that hide something are constants: `SwitchWebserver` and `Uploads`.
There is no liveness here: nothing drives a request.

**Proved** (`SiteConfigProofs`, for every set of names, parent function and input
sets, `SwitchWebserver` TRUE included): `TypeCorrect`, `CertificatesAreOnDisk`,
`GoodFilesAreServed`. The inductive invariant `Inv` is the conjunction of the three
properties. `ServesTheFiles` alone is not inductive: enable-ssl on an Apache domain
adds a certificate without a reload, and could turn a refused configuration into an
accepted one if a file were waiting for that certificate; `CertsOnDisk` says that none
is. `Inv` is equivalent to `FilesOK /\ RowsOK`; lemmas say once what a write, a
regeneration, a creation and a deletion keep of `FilesOK`, and there is one lemma per
handler. Assumptions: `NamesAssumption`, `InputsAssumption` (the inputs are of the
kinds the schemas admit).

`VhostProofs` proves two action properties, for the same constants and without a
hypothesis: `OrphansLostTheirParent` (`OrphansLoseTheirParent`) and `OffMeansOff`
(`NoStaleSetting`). Every handler is about one name, and `Touches` says what it may do to
the row, the file and the link of that name (`LinkFrom`: a link is made with a row and
goes with one that nginx serves; `SettlesFrom`: the file agrees with the row, or stays
as it was while the row gains settings or nginx refuses) and that it leaves the other
names alone but for the children that go with a deleted row (`OthersStay`). One lemma per
handler shows `Touches`, and both properties follow. `RefusedIsRefusable` is the lemma
that says why nginx may refuse a file: for the row's own text or certificate, or for a
linked file of another name.

## 4. Cluster

**State.** `state[n]` is the row's existence and `is_active`; `failed[n]` is
`failed_checks`, saturated at the threshold (the code only compares it with that);
`home[a]` is `node_id`. `tx[p]` is the transaction of a process: what it loaded
(`val`), changed (`set`, `off`, `to`), has still to flush (`dirty`) and holds locked
(`held`); `plan[p]` is what a balancing run keeps in memory. `seen` is history and
exists in no table.

**Actions.** A task or request begins (`Collect`, `auto_balance`, `node_health_check`,
`receive_heartbeat`, `migrate_resource`, `remove_cluster_node`, `add_cluster_node`),
goes through its loop a step at a time (`Contact`, `_perform_failover`, `RemoveMove`,
`RemoveDelete`, `BalanceSource`, `BalanceMove`) and commits. In between the unit of
work flushes: one `UPDATE` per step, nodes before assignments, by primary key, each
waiting for the row's lock. An `UPDATE` without a row and a dangling foreign key roll
everything back (`Fails`), and so do PostgreSQL's deadlock detector (`Deadlock`) and a
process that dies (`Crash`). PostgreSQL and SQLAlchemy are not in the repository; they
are modelled from how the code uses them and marked external in `PROJECT.json`.

**Abstracted.** Load, CPU and memory: "order by current_load" is any order. Whether a
node answers is a choice of each contact, except for `Dead` nodes, which never do.
`is_primary` orders the assignments a balancing run takes: any order. What
`_execute_migration` sends to the nodes changes nothing but the answer's text. The
reads of a transaction between two flushes are taken at one instant. No code in `src/`
creates an assignment, so that `Init` takes every placement that fits the types.
Nothing sets `is_active` back to True.

**Runs.** Process and node counts are the smallest in which the case occurs; every run
names its threshold.

- `cluster_alone`: one process, every operation, three nodes (one joins later), four
  assignments from every placement, threshold 2, 2,282,283 states. `TypeOK`;
  `MovesToActiveNode`; `RemovalMovesFirst`; `BalanceStopsAtAverage`; and `OneAtATime`,
  which is `Placement!Spec`: each task and request, with its loops, its flushes and the
  queries that see them, does in one step what `Placement` says. The third node is there
  for "another node fits"; four assignments are the fewest of which one of three nodes can
  have more than `max(avg * 1.5, avg + 2)`, and their average, 4/3, is one that truncating
  the excess matters for.
- `cluster_ends`: a worker that runs health checks, and may die, beside a process that runs
  heartbeats, checks of a node, heartbeat posts, migrations and removals; two nodes, one
  of them dead, one assignment, threshold 2, 106,492 states. `HomesExist`;
  `TransactionsEnd`; and `DeadNodesAreDeactivated`: however counts are overwritten and
  lost, the dead node does not stay active if health checks go on. That its assignments
  find another node is not part of it (`Placement` says where they go, of transactions
  that follow one another).
- `cluster_failover` (violated): `DeactivatedAfterFailures`, of consecutive health checks
  (`CountBy` and `ResetBy` are {"health"}), as three comments have it, with the threshold
  3 of the code. Two failed heartbeats and one failed health check deactivate a node.

The cluster configurations say `CHECK_DEADLOCK FALSE` because the system really
may stop: when no active node is left, nothing can begin. The Site ones do not say so.

**Fairness.** `FairSpec`: WF of a process's own steps: a running handler goes on,
every ping has a timeout, PostgreSQL breaks deadlocks. SF of the statements that wait
for a lock: PostgreSQL queues waiters, so one that could go again and again does go.
Not assumed: that nodes answer, that anyone posts, migrates or removes, or that a
heartbeat or a health check is ever run. `DeadNodesAreDeactivated` says what follows *if*
health checks are done again and again. Nothing in the shipped installation does them:
the unit of the worker does not read the queue `cluster`
(`config/hosthive-worker.service:22`), so that whatever is said of the three tasks is
about an installation that adds a worker for it. Nor is it excluded that each health
check is the victim of a deadlock with heartbeats, migrations or removals, which
PostgreSQL may choose again and again: one that is rolled back is not done, and the
premise is about those that commit.

**Proved** (`ClusterProofs`, for any number of nodes, assignments and processes, any
threshold): `TypeCorrect`, and `DeactivationIsEarned`: if `seen` counts every failed
contact (`CountsAll`), a node is deactivated only after as many failed contacts as the
threshold (of any kind; that they are consecutive health checks is what
`cluster_failover` refutes). The property of the rows is not inductive, because a task writes
`failed_checks` from memory. The invariant `Bounded` therefore bounds the value in
every place where it can be, the rows and the objects of every open session, by the
failures seen. `Shape` is needed for the types: a transaction at pc "failover" is one
that contacts nodes, one at "remove" or "delete" has a node, and a non-empty
underloaded list has a head. Assumptions: `RowsAssumption`, `NodesAssumption`,
`ProcsAssumption`.

`AssignmentsHaveNodes` (`ClusterLockProofs`, same generality, nothing else assumed):
`HomesExist`. A node is deleted by one transaction while others have decided to move
assignments to it. What keeps the foreign key is the order of locks, and the invariant
`Locked` says it of open transactions: no row has two holders (`Apart`); what a sent
assignment refers to exists and is not being deleted (`Standing`); who deletes a node
holds all that refers to it (`Emptied`); a removal has nothing left to write once the
node is deleted (`Removal`). The first attempt failed and corrected the model: a
transaction locks the node an assignment refers to when its `UPDATE` is sent, not when
the change is still in memory (`Refers`).

`ClusterAloneProofs`, for any number of nodes and assignments, where transactions follow
one another (`Alone`, as in `cluster_alone`; the counterexamples below need two at once):
`MovesAreToActiveNodes` (`MovesToActiveNode` looks at nodes as they are when the step is
over, a node given up in the same transaction included), `RemovalsMoveFirst`, `BalancingStopsAtAverage`. All three are
about a commit whose reasons lie steps back. `AllReasoned` carries them along: an
assignment in the session stays, goes, or is aimed at an active node; a removal has
visited or has still to visit each assignment of its node; one goes with the node only
when nothing fits. `AllEven` is the arithmetic of balancing: the counts in memory are
those of the session, sources above the average stay at or above it, targets below it
reach at most the next whole number; a lemma bounds the quotient of
`cluster_tasks.py`'s average without dividing.

**Seen in the code and not run** (TLC finds each with a property that says so). A
removal loads the assignments of its node once and locks the node's row only when it
deletes it (`cluster.py:232`, `261`): one that a migration commits onto the node in
between is deleted with it, although another active node fits, against "Migrates
resources to other nodes first" (226); `RemovalMovesFirst` is claimed of transactions
that follow one another. A
health check overlooks a heartbeat that is posted while it pings, and fails over a node
whose last three contacts did not fail (`cluster_tasks.py:190`, against the comment at
198). A failover finds no candidate among nodes that had three failures and are to be
pinged next, and nobody visits an inactive node's assignments again (221, 259). An "all"
node hands its resources to nodes of any type, and `migrate_resource` asks for none. An
underloaded node of another type at the head of the list keeps a balancing run from
moving anything (`cluster_tasks.py:361-363`). `migrate_resource` may commit a move to a
node that a health check has deactivated meanwhile.

## 5. Script, Panel and the handlers

**Steps.** A handler works on one name. A table has a row per name, committed or not,
and the system has a thing per name. `Script` has a step for each way of touching them:
queries (`Need`, the 404, loads the row; `Fresh`, the 409; `Room`, the quota), flushed
changes of rows (`Insert`, `Add` where there is no unique index, `Update` which sends
nothing when nothing changed, `Rekey` for salted hashes), calls (`Make` for IF NOT
EXISTS, `New` for what fails on an existing thing, `Put`, `Change`, `Drop`), files that
are read and written as a whole (`Read`, `Save`), and Python's control flow (`Try`,
`OrUndo`, `TryElse`, `IfElse`; `Maybe` and `Either` for conditions on data that is left
out). `create_database` is, line by line with `routers/databases.py`,

    <<Fresh("database"), Insert("database", "there"), Rekey("login", Asked)>>
      \o direct_create

(the except clause there deletes the row and raises: what a failing call does anyway).

Each name in the modules of handlers is that of the function it stands for, and
`PROJECT.json` has its lines. A function that is called by several handlers is one
definition used by several.

**Machine.** `rows` and `things` are the committed database and the system. `tx[p]` is
the session of a process: where it is, what it loaded (`seen`), flushed (`mine`), read
from a file (`file`), and which loaded rows others have deleted (`gone`). A flush waits
for the row's lock; what is flushed is seen by its own session only; a handler that
returns commits all of it (`Return`, get_db line 40), an exception rolls all of it back
(`Abort`, 42), and what it has done to the system stays. A call that fails or times out
may have done its work or not (`CallFails`). A process may die anywhere (`Crash`): its
changes are rolled back, its task is delivered again. Reading a file and sending a task
may fail too (`AskFails`); queries of rows do not, and neither do looks at the system
whose outcome is a choice. `Reported` is a command whose return code is only reported: one
that fails goes on, and one that exceeds the timeout of `subprocess.run` raises. `Spawn`
is `.delay`, or `self.retry` when it names its own task. `Take` gives a worker any task
that is not acknowledged, one that another worker is at work on included: Redis delivers a
task again after an hour (the visibility timeout), and `acks_late` acknowledges it at its
end. `Beat` sends periodic tasks at any time;
`Unserved` are those whose queue no worker reads (`HostHive.UnreadTasks`, from the -Q
list of the unit and the routes). SQLAlchemy, PostgreSQL, Redis and Celery are not in
the repository; they are modelled from how it uses them, and marked external.

**Kinds.** Handlers that share tables are a kind; a behaviour is about one of
95 kinds, chosen by `Init`, so that a run checks each without multiplying them.
`GivenTables` are there from the start, `TableColumns` are columns with steps of their
own (a lock is one of the row), `SharedFiles` says which things are lines of one file,
`SingleTables` which belong to all names together.

**Abstracted.** The values of rows and things: a request asks for one of `Answers`, and
two of them are enough to tell "what I asked for" from "what somebody else did".
Contents of files, records, mails and archives; times, sizes, ports and serials;
permissions (who may call a handler); and activity log rows. Queued messages are a set,
so that two equal messages are one.

**Runs.** `Limit` is the quota. `Most` bounds the mishaps of a behaviour, which are of
one sort; `overlap` counts handlers that begin while another one runs.

- `panel_failures`: all kinds, one process that serves requests and runs tasks, one call
  that fails or one crash, two answers, one name (two or three where things share a file
  or a counter: `Pairs`), any number of requests one after the other. Two names are
  enough for "one got in the way of the other". One failure is what the code's except
  clauses are written for; a second failure inside one of those is not claimed to be
  survived. `SystemFollowsRows` and `ServedAsWritten` speak of behaviours without
  failures: of every sequence of requests. `RowsAreBacked` is about the handlers that make
  a thing before its row is committed and remove none before its row (dumps, backups and
  their copies, caches of environments); the table below says what is left out.
- `panel_together`: the kinds that rely on a lock or check before they act (`Contended`:
  deployments, API keys, mailboxes), three processes that serve and run tasks, two
  overlaps, no failures: `OneDeployAtATime`, `QuotaIsNearlyKept`. No state of theirs is a
  deadlock: TLC checks that too, and a cycle of waiting processes would be one.
- `panel_jobs`: kinds whose requests send tasks, whose tasks send tasks or retry, and
  whose requests wait for each other (`Queued`), a process that serves and a worker, one
  overlap, failure or crash: `RequestsEnd`, `JobsAreDone`. Its module is
  `MCFlows`, so that TLC also evaluates the assumptions of `Flows`, on every handler of
  HostHive whatever kinds the run is about.
- `panel_scans` (violated): a web process and a worker, nothing fails. The task of a scan
  is sent before its row is committed (`antivirus.py:104`); the worker finds no row and
  is done, and the scan stays pending.
- `panel_stanza` (violated): the second change of a zone leaves a malformed stanza.
- `panel_migration` (violated): a migration that was requested never starts.

**Fairness** (`FairSpec`). WF of a process's steps: every system command has a timeout,
and a lock is waited for until its holder ends. SF of taking a task, for each task: a
queue is a list in Redis, and a worker that is free again and again comes to each of its
messages. Not assumed: that requests arrive, that beat sends anything, that calls
succeed. Unread queues are excluded from `JobsAreDone` by name, which is the point of
`panel_migration`. `integrations` is not among the kinds of `panel_jobs`: the model
retries an upload whose file is gone without the code's `max_retries`, and such a
behaviour has no end.

**What the promises say, and of which tables.** Agreement is not claimed of everything:

| table | what breaks it, in the code |
|---|---|
| database users, remote access | the server is changed before the row is (against `databases.py:3`, "DB first"); no unique index |
| databases, users (`RowsAreBacked`) | `delete_database` and `delete_user` remove the thing first (`databases.py:584`); a failure behind that brings the row back. On a host without `useradd` no account is made and the row is kept (`users.py:98`); a timeout of `userdel` (170) raises when the account may be gone |
| quarantine (`RowsAreBacked`) | rows are made for every infected file, whatever `clamscan --move` did (`server_tasks.py:219`) |
| incremental backups | `_direct_delete_backup_file` removes regular files, and they are directories (`backups.py:335`): they stay without a row, and can be neither restored nor copied (254) |
| the agent's certificates (`ReferencesAreWrittenLast`) | `install_custom_cert` writes the certificate before its key (`ssl_executor.py:110`) |
| `mailbox`, `enabled` of FTP accounts | `update_mailbox` and `is_active` never reach the system |
| Sieve filters | filters and autoresponder take each other's link (`mail_ops.py:431`) |
| zone files after an import | `import_zone` and `cloudflare_import` do not sign again; `write_zone` resets the stanza to the unsigned file |
| cron of other users | an edit by the administrator writes the administrator's crontab |
| WordPress clones | search-replace runs on the original's database |
| migrated databases and mailboxes | `execute_migration` makes rows and nothing else |
| AI insights | `autofix_insight` marks as resolved what it has not fixed |
| remote copies | SFTP and rclone keys are stored where restore and delete ask only S3 (`backups.py:771`, `827`); retention of S3 counts all users' objects together; cleanups of SFTP and rclone look for another name than the upload gave (`backup_tasks.py:130`) |

For most of these TLC shows a violation as soon as the table is added to `Followed`.
That rows and system agree after two requests at once is not claimed at all: mail lines, records, firewall rules (deleted
by position) and environments are read and written without a lock, so that one of two
changes may be lost; and with three requests TLC finds, for databases, two deletions of
one name and a creation between them, of which the second drops what was just made
(`databases.py:584`). Quotas count what the code counts: active API keys
(`api_keys.py:113`), all mailboxes. `UsersAreCounted` is about one request at a time for
the same reason, and about the reseller's own routes: `users.delete_user` never lowers
the counter. `ScansAreClosed` excludes a worker that dies, and says of a scan that is
running only that it is not left so; that one is run at all is `panel_scans`.

**Proved** (`PanelProofs`, for any `Scripts` that satisfy `PanelAssumption`, that is any
handlers whose jumps stay inside them and whose tables exist; any names, processes,
answers and bounds):

- `TypeCorrect`. The interesting part is that control stays inside a handler: `Lands`
  is proved to lead to a step of the same handler or to its end.

That a row has one holder (`LocksExclude`) is PostgreSQL's doing and no result about this
code; it is proved as a lemma (`RowsAreLockedOnce`), inductive together with `TypeOK`, that
`DeploysExclude` rests on.

The handlers of HostHive meet `PanelAssumption`: TLC evaluates it on every Panel run.

**Proved of HostHive's handlers** (`FlowProofs`). What a promise says of a table depends
on every handler of the kind, and there are hundreds, which no proof should list. `Flows`
splits the matter in two. For a *concern*, some things and rows of a kind and what shall
hold of them at any time and between requests, it computes for each step of one handler
what can be known there (which thing is there, if any; which row, or two of them; what
has the session made of it; what is asked for; which line has the file that was read, if
no line of it has changed since), as a data flow analysis would: a fold over the steps,
from every state that is allowed between requests. `Keeps` then says that the result is closed under each step,
its failure and its end, and lies within the concern; it makes no use of how the result
was found. TLC evaluates `HandlersKeepConcerns`: every handler keeps every concern, one
finite computation that knows neither requests, names nor processes. A handler that
takes a name of its own making at once, before it has read anything, has nothing of
another row with it (`Blank`, in `Moves`). The proof is that
`Keeps` means what it should on the machine: whatever is asked, in whatever order, of
however many names, what is true of a name at rest or at a step is among what `Flows`
foresaw (`AllReady`), and what a session has loaded agrees with the rows (`Orderly`).
There is one lemma per step of `Script`, for the name the handler works on and for all
others.

- `NoRowWithoutItsThing` (`RowsAreBacked`), `NothingRefersToNothing`
  (`ReferencesAreWrittenLast`), `SshdIsNeverBroken` (`SshdIsTested`), from
  `ConcernsAreKept`, a lemma that says the same of any concern. Each concern says which mishaps
  it bears: calls that fail, crashes, or neither.
- `SystemIsWhatRowsSay` (`SystemFollowsRows`), `WhatRunsIsWhatIsWritten`
  (`ServedAsWritten`), `ModeOutlivesTheFirewall` (`ModeIsApplied`), from the same. These
  say that two values are equal, and a finite computation must stand for values of any
  number. A value counts as itself if the handlers name it (`words`: a state they set or
  ask for), and otherwise only as "this" or "other" (`Class`): a concern that watches is
  one for each value w that could be "this", and what it says of all w is equality
  (`SameClass`). The values of a behaviour enter the proof only there. Agreement is not
  inductive as it stands either: an update of a row that is "off" must leave the thing
  missing, a running unit needs its unit file, a proxy's new version its old one. What
  handlers leave of a name is therefore not guessed but computed (`Reached`: from the
  beginning on, in as many rounds as it takes, and `Keeps` confirms that it was enough);
  what follows from agreement (`c.follows`, `HandlersKeepTwins`) is then read off it.
- A file with a line per name is read, changed and written as a whole. That others'
  lines come out as they were is part of the proof, not of the computation: the lines of
  other names in a session are those of the file, or for a file that is made of the rows,
  what their rows say (`FreshOf`, `Lines`). For the last, the rows and things of *other*
  names must agree while it is written, which the induction has for every name at rest.
- The kind `zones` is one zone that is created and deleted, with one record: its file goes
  with all that is in it, so that a second name would be of the same zone. That is the
  hypothesis `ZonesAreAlone` of `SystemIsWhatRowsSay` (`alone` in `Flows`); there is none
  for the other kinds, among them `records`, the records of one zone.
- Hypothesis: `OneAtATime`, no request begins while another is at work
  (`Most["overlap"]` is 0, as in `panel_failures`). It is needed: with two at once TLC
  violates `ReferencesAreWrittenLast` and `SshdIsTested`.
- Assumptions: `PanelAssumption`; `WordsAssumption` (an answer is none of the handlers'
  own words); `KindsAssumption` (the kinds are HostHive's); `HandlersKeepConcerns`, which
  also says that an answer is no word of a concern that watches; `HandlersKeepTwins`.
- What the attempt corrected: a runtime application's unit is named by the new row's id
  (`runtime.py:140`), so that no leftover of an earlier application can have its name.
  `create_runtime_app` had it named by what was asked.

**Proved of requests that overlap** (`OverlapProofs`, any number of processes, names and
requests, failures and crashes included; no hypothesis). `OwnStep` says once what a step
of one process does to its session and to the others': a session changes by its own steps
only, but for rows that another has deleted (`Carried`). Two more computations of `Flows`
follow each handler alone, and TLC evaluates them for all of HostHive:

- `DeploysExclude` (`OneDeployAtATime`). A handler works on a deployment's directory only
  with its own "deploying" in the session (`DeploysAreMarked`), and that holds the row's
  lock, which only one process has (`RowsAreLockedOnce`). It is not enough that the update comes
  first: SQLAlchemy sends none when the loaded row already says "deploying", and nothing
  would be locked. The invariant `Hidden` says that this cannot be: the mark is taken
  back before each commit, so that no committed row and no loaded one ever has it. A
  mutant that commits the mark breaks the run's property and the assumption.
- `QuotasAreNearlyKept` (`QuotaIsNearlyKept`). `Within` counts the rows that are active
  together with the requests that have looked at the quota and are not done: that sum
  exceeds the limit by no more than the requests that began while others were at work.
  Looking at the quota adds one to it when there is room. A request that did not look
  must not add an active row when it commits, which is not obvious of one that updates or
  deletes the row: `AllCounted` says that the row it has loaded and still believes in is there,
  and that nobody else removes it meanwhile, because it is locked or because the session
  learns of it (`gone`). `QuotasAreCounted` is the assumption: a handler inserts only
  behind the query of the quota, and otherwise only switches a row off or deletes it.

**Seen in the code and not run.** `create_backup` sets FAILED and then raises, so that
the row is rolled back (`backups.py:524`). `sync_cloudflare_dns` ends with an
AttributeError (`integration_tasks.py:161`, `zone.name`). The cleanup after a failed
`create_user_environment` destroys what a concurrent winner has made.
`switch_db_version` removes the old server before the new one has started. The agent's
`enable_dnssec` refers to the signed file also when signing failed. `ssh_harden` uses one
temporary path for all requests (`security.py:654`). `set_user_limits` looks the row up
by the administrator's id (`resources.py:136`). Of two `verify_2fa` with a
`disable_2fa` between them the second leaves the factor on without a secret.
`_ensure_admin_user` resets the administrator's changed password at every start
(`main.py:26`). `create_scheduled_backups` sends its tasks before it commits that they
are not due (`backup_tasks.py:463`). Language files are read, extended by a model's
answer that takes seconds, and written back.

## 6. What is only model-checked, and what is not

Liveness (`TransactionsEnd`, `DeadNodesAreDeactivated`, `RequestsEnd`, `JobsAreDone`) is
out of the prover's reach, as are ENABLED and properties of recursive definitions (no
module declares a RECURSIVE operator; `Lands` is a recursive function, and of it only the
range is proved; what `Flows` computes are folds, and of them nothing need be proved).
Model-checked only: `UsersAreCounted` of `Promises`, whose counter has three numbers in
the model and a step for each, so that it says nothing of more members; `ScansAreClosed`;
and `OneAtATime` of `Cluster`, the refinement of `Placement`. The promises of `FlowProofs`
are neither proved nor claimed of two requests at once; `OneDeployAtATime` and
`QuotaIsNearlyKept` are.
