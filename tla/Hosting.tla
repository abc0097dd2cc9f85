------------------------------- MODULE Hosting -------------------------------
(***************************************************************************)
(* FTP accounts, cron jobs, containers and isolated environments           *)
(* (routers/ftp, cron, docker and environments,                            *)
(* agent/executors/docker_isolation).                                      *)
(***************************************************************************)
EXTENDS Script

(* FTP: ftpd.passwd has a line per account, which ftpasswd replaces. *)
_direct_create_ftp_user     == <<Put("ftp", Asked)>>
_direct_update_ftp_password == <<Put("ftp", Asked)>>
_direct_delete_ftp_user     == <<Read("ftp"), Save("ftp", None)>>

create_ftp_account == <<Fresh("ftp"), Insert("ftp", Asked)>> \o _direct_create_ftp_user
\* is_active is a column only.  The password goes to the server before the
\* row is sent to the database.
update_ftp_account ==
  <<Need("ftp")>> \o Either(_direct_update_ftp_password \o <<Rekey("ftp", Asked)>>,
                           <<Update("enabled", Asked)>>)
delete_ftp_account == <<Need("ftp")>> \o _direct_delete_ftp_user \o <<Delete("ftp")>>

(* Cron: the crontab of the caller, who need not own the job, is written   *)
(* as a whole from the rows of the active jobs.                            *)
_sync_crontab == Try(Maybe(<<Collect("job"), SaveAll("job")>>))
_sync_own_crontab == Try(<<Collect("job"), SaveAll("job")>>)
create_cron_job == <<Mint("job"), Insert("job", Asked)>> \o _sync_own_crontab
create_predefined_task == create_cron_job
update_cron_job ==
  <<Need("job")>> \o Either(<<Update("job", Asked)>>, <<Update("job", "off")>>) \o _sync_crontab
delete_cron_job == <<Need("job"), Delete("job")>> \o _sync_crontab
run_cron_now == <<Need("job"), Put("ran", Asked), Update("last_run", Asked)>>

(* Docker. *)
deploy_container  == <<New("container", "running"), Add("container", "running")>>
start_container   == <<Need("container"), Change("container", "running"), Update("container", "running")>>
stop_container    == <<Need("container"), Change("container", "stopped"), Update("container", "stopped")>>
restart_container == start_container
remove_container  == <<Need("container"), Drop("container"), Delete("container")>>
compose_deploy    == <<Put("project", "up")>>
compose_down      == <<Drop("project")>>

(* Isolated environments: a container per service of the customer, whose   *)
(* row has a column for each.  Docker's return codes are looked at where a *)
(* container is started, and hardly ever where one is removed.             *)
_create_network == <<Make("network", "there")>>
_update_reverse_proxy(web) == <<Copy("proxy", web)>>
removed(t) == Try(<<Drop(t)>>)
destroy_user_environment ==
  removed("web") \o removed("dbserver") \o removed("php") \o removed("redis")
    \o removed("network") \o <<Drop("proxy")>>
create_user_environment(caches) ==
  OrUndo(_create_network \o <<New("dbserver", Asked), New("php", "php83"), New("web", Asked)>>
           \o caches \o _update_reverse_proxy("web"),
         Try(destroy_user_environment))
create_environment ==
  LET columns == <<Insert("env", "there"), Update("dbserver", Asked), Update("web", Asked),
                   Update("php", "php83")>>
  IN <<Need("user"), Fresh("env")>>
       \o Either(create_user_environment(<<New("redis", "on")>>) \o columns \o <<Update("redis", "on")>>,
                 create_user_environment(<< >>) \o columns)
destroy_environment ==
  <<Need("user"), Need("env")>> \o destroy_user_environment \o <<Delete("env")>>

\* The new server takes the place and the name of the old one; whether
\* docker rename did so is not looked at, only whether it came to an end.
switch_webserver ==
  <<New("web_new", Asked)>>
    \o OrUndo(_update_reverse_proxy("web_new") \o removed("web")
                \o Either(Try(<<Move("web", "web_new")>>), <<Move("web", "web_new")>>),
              removed("web_new") \o _update_reverse_proxy("web"))
switch_environment_webserver ==
  <<Need("user"), Need("env")>> \o switch_webserver \o <<Update("web", Asked)>>
\* The old server is removed before the new one is known to start.
switch_db_version == <<Has("dbserver")>> \o removed("dbserver") \o <<New("dbserver", Asked)>>
switch_db == <<Need("user"), Need("env")>> \o switch_db_version \o <<Update("dbserver", Asked)>>

add_php_version    == <<New("php81", "on")>>
remove_php_version == <<Change("php81", None)>>
add_php    == <<Need("user"), Need("env")>> \o add_php_version \o <<Update("php81", "on")>>
remove_php == <<Need("user"), Need("env"), Is("php81", "on")>> \o remove_php_version
                \o <<Update("php81", None)>>
toggle_redis(on) == IF on THEN Unless(Has("redis"), <<New("redis", "on")>>) ELSE removed("redis")
toggle_environment_redis ==
  <<Need("user"), Need("env")>>
    \o Either(toggle_redis(TRUE) \o <<Update("redis", "on")>>,
              toggle_redis(FALSE) \o <<Update("redis", None)>>)
toggle_memcached == toggle_environment_redis
update_resource_limits == Try(<<Put("limits", Asked)>>)
update_resources ==
  <<Need("user"), Need("env")>> \o update_resource_limits \o <<Update("limits", Asked)>>
=============================================================================
