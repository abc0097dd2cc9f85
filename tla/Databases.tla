------------------------------ MODULE Databases ------------------------------
(***************************************************************************)
(* Databases, their logins, additional users and dumps (routers/databases, *)
(* agent/executors/database_executor).  A row "database" has the columns   *)
(* "login" (the password) and "remote" (the hosts that may connect).       *)
(***************************************************************************)
EXTENDS Script

\* IF NOT EXISTS: a login that is there keeps its password.
mysql_create == <<Make("database", "there"), Make("login", Asked)>>
psql_create  == <<Make("login", Asked), Make("database", "there")>>
mysql_delete == <<Drop("database"), Drop("login")>>
\* Mutant of psql_delete: the login stays.
Mutant_psql_delete == <<Drop("database")>>
psql_delete  == <<Drop("database"), Drop("login")>>
mysql_reset_password == <<Change("login", Asked)>>
psql_reset_password  == <<Change("login", Asked)>>
\* Mutant of direct_create: what mysql and psql answer is logged and that is all.
Mutant_direct_create == Try(Either(mysql_create, psql_create))
direct_create == Either(mysql_create, psql_create)
direct_delete == Either(mysql_delete, psql_delete)
direct_reset_password == Either(mysql_reset_password, psql_reset_password)

\* The row first, then the server; a failure rolls the row back.
create_database ==
  <<Fresh("database"), Insert("database", "there"), Rekey("login", Asked)>>
    \o direct_create

\* The additional users go with the row; on the server they stay.
delete_database ==
  <<Need("database")>> \o direct_delete \o <<Clear("dbuser"), Delete("database")>>

reset_database_password ==
  <<Need("database")>> \o direct_reset_password \o <<Rekey("login", Asked)>>

\* A password that cannot be decrypted is replaced by a new one.
database_sso ==
  <<Need("database")>> \o Maybe(direct_reset_password \o <<Rekey("login", Asked), Commit>>)
database_sso_pgsql == database_sso

\* Hosts that were granted before are not revoked.
mysql_grant_remote ==
  IfElse(Lacks("remote"), <<Put("remote", Asked)>>, <<Put("remote", "more")>>)
mysql_revoke_remote == Try(<<Drop("remote")>>)
\* pg_hba.conf is read and written as a whole.
psql_update_pg_hba(hosts) == <<Read("remote"), Save("remote", hosts)>>

update_remote_access ==
  <<Need("database")>>
    \o Either(Either(mysql_grant_remote, psql_update_pg_hba(Asked)) \o <<Update("remote", Asked)>>,
              Either(mysql_revoke_remote, psql_update_pg_hba(None)) \o <<Update("remote", None)>>)

mysql_create_user == <<Make("dbuser", Asked), Put("grant", "all")>>
psql_create_user  == <<Make("dbuser", Asked), Put("grant", "all")>>
create_database_user ==
  <<Need("database")>> \o Either(mysql_create_user, psql_create_user)
    \o <<Add("dbuser", Asked), Update("grant", "all")>>

delete_database_user ==
  <<Need("database"), Need("dbuser")>> \o Try(<<Drop("dbuser"), Drop("grant")>>)
    \o <<Delete("dbuser")>>

\* Everything is revoked first; PostgreSQL's GRANT ALL is not looked at.
mysql_update_user_perms == Try(<<Drop("grant")>>) \o <<Has("dbuser"), Put("grant", Asked)>>
psql_update_user_perms ==
  Try(<<Drop("grant")>>) \o Either(Try(<<Has("dbuser"), Put("grant", Asked)>>),
                                   <<Has("dbuser"), Put("grant", Asked)>>)
update_database_user_permissions ==
  <<Need("database"), Need("dbuser")>> \o Either(mysql_update_user_perms, psql_update_user_perms)
    \o <<Update("grant", Asked)>>

\* Dumps have no rows.  A restore needs the database on the server.
create_database_backup  == <<Need("database"), Has("database"), Put("dump", "dump")>>
restore_database_backup == <<Need("database"), Has("dump"), Has("database"), Put("content", "dump")>>
delete_backup           == <<Need("database"), Has("dump"), Drop("dump")>>
=============================================================================
