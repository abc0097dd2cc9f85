--------------------------------- MODULE Agent ---------------------------------
(***************************************************************************)
(* The executors of the root agent (agent/executors).  They have no rows:  *)
(* what they change are files, services and containers, and _exec answers  *)
(* with an error when one of them raises.  FastAPI runs them in a pool of  *)
(* threads, and no lock is taken.                                          *)
(***************************************************************************)
EXTENDS Script

\* A line that must not be there yet.
listed_anew(t) == <<Read(t)>> \o IfElse(Listed(t), <<Raise>>, <<Save(t, Asked)>>)
listed_line(t, v) == <<Read(t), Listed(t), Save(t, v)>>

(* Mail: /etc/dovecot/users and the virtual aliases. *)
create_mailbox == listed_anew("mailbox") \o <<Make("maildir", "there")>>
delete_mailbox == <<Read("mailbox"), Save("mailbox", None)>>
set_password   == listed_line("mailbox", Asked)
create_alias   == <<Read("alias"), Save("alias", Asked)>>
delete_alias   == <<Read("alias"), Save("alias", None)>>
configure_catch_all == <<Read("catch_all"), Save("catch_all", Asked)>>
remove_catch_all    == <<Read("catch_all"), Save("catch_all", None)>>
configure_autoresponder ==
  Either(<<Drop("away")>> \o When(Shows("active", "away"), <<Drop("active")>>),
         <<Put("away", Asked)>> \o Maybe(<<Drop("active"), Put("active", "away")>>))
write_sieve_script ==
  Either(<<Drop("filters")>> \o When(Shows("active", "filters"), <<Drop("active")>>),
         <<Put("filters", Asked), Drop("active"), Put("active", "filters")>>)

\* The preferences of SpamAssassin, and a rule for what it finds.
configure_spam_filter ==
  <<Put("spam", Asked)>> \o Either(<<Drop("spam_sieve")>>, <<Put("spam_sieve", "there")>>)

(* FTP. *)
create_ftp_user  == listed_anew("ftp") \o <<Make("home", "there")>>
delete_ftp_user  == listed_line("ftp", None)
set_ftp_password == listed_line("ftp", Asked)

(* BIND: the zone file with its records, the stanza that names the file,   *)
(* the signed file and the keys.                                           *)
_ensure_named_entry ==
  IfElse(Has("stanza"), <<Put("stanza", "malformed")>>, <<Put("stanza", "plain")>>)
_remove_named_entry == When(Has("stanza"), <<Put("stanza", "malformed")>>)
create_zone   == <<Put("zone", "there"), Wipe("record")>> \o _ensure_named_entry
delete_zone   == <<Drop("zone"), Wipe("record")>> \o _remove_named_entry
add_record    == <<Has("zone"), Read("record"), Save("record", Asked)>>
delete_record == <<Has("zone"), Read("record"), Listed("record"), Save("record", None)>>
_sign_zone_sync == Maybe(<<Copy("signed", "record")>>)
_update_named_conf_signed == When(Shows("stanza", "plain"), <<Put("stanza", "signed")>>)
_revert_named_conf_signed == When(Shows("stanza", "signed"), <<Put("stanza", "plain")>>)
\* The stanza names the signed file whether the signing succeeded or not.
enable_dnssec ==
  <<Has("zone"), Put("keys", "there"), Read("record"), SaveAll("record")>>
    \o _sign_zone_sync \o _update_named_conf_signed
disable_dnssec ==
  <<Drop("signed")>> \o When(Has("zone"), <<Read("record"), SaveAll("record")>>)
    \o <<Drop("keys")>> \o _revert_named_conf_signed
resign_zone == <<Has("zone")>> \o _sign_zone_sync

(* nginx: the configuration is written before it is linked, and unlinked   *)
(* before it is removed.                                                   *)
create_vhost == <<Put("vhost", Asked), Drop("link"), Put("link", "there")>>
enable_ssl   == <<Has("vhost"), Put("vhost", Asked)>>
\* Mutant of delete_vhost: in the order in which it was made.
Mutant_delete_vhost == <<Drop("vhost"), Drop("link")>>
delete_vhost == <<Drop("link"), Drop("vhost")>>

(* The firewall of an application: its rules are in a file that the vhost  *)
(* includes; "meta" (is it on) and "mode" are one file of JSON, which is   *)
(* read and written as a whole; "waf_mode" is the mode the rules were      *)
(* written with.  A test that fails raises, a reload that fails is        *)
(* reported.                                                               *)
_reload_nginx(t) == Reported(<<Copy("served", t)>>)
_generate_waf_conf(mode) == <<Put("waf", "there"), mode>>
_add_waf_to_vhost ==
  <<Has("vhost")>> \o Unless(Has("include"), <<Put("include", "there")>>)
_remove_waf_from_vhost ==
  <<Has("vhost")>> \o When(Has("include"), <<Drop("include")>>)
enable_waf ==
  <<Read("meta")>> \o _generate_waf_conf(Mirror("waf_mode", "mode"))
    \o Unless(Has("custom"), <<Put("custom", "there")>>)
    \o _add_waf_to_vhost \o <<Save("meta", "on")>> \o _reload_nginx("include")
disable_waf ==
  _remove_waf_from_vhost \o <<Read("meta"), Save("meta", None)>> \o _reload_nginx("include")
regenerated(mode) == When(Listed("meta"), _generate_waf_conf(mode) \o _reload_nginx("include"))
\* A rule goes by the number of lines there were when it was added.
add_custom_rule ==
  <<Make("custom", "there"), Put("rule", Asked), Read("meta")>>
    \o regenerated(Mirror("waf_mode", "mode"))
delete_custom_rule ==
  <<Has("custom"), Change("rule", None), Read("meta")>> \o regenerated(Mirror("waf_mode", "mode"))
set_waf_mode == <<Read("meta"), Save("mode", Asked)>> \o regenerated(Put("waf_mode", Asked))

(* Containers. *)
deploy_container  == <<New("container", "running")>>
start_container   == <<Change("container", "running")>>
stop_container    == <<Change("container", "stopped")>>
restart_container == <<Change("container", "running")>>
remove_container  == Try(<<Change("container", "stopped")>>) \o <<Change("container", None)>>
\* finally: the file is removed.
deploy_compose ==
  <<Put("compose", "there")>> \o OrUndo(Maybe(<<Raise>>) \o <<Put("project", "up")>>, Try(<<Drop("compose")>>))
    \o Try(<<Drop("compose")>>)
setup_nginx_proxy == <<Put("proxy", Asked)>>

(* Applications: an environment file, a unit of systemd, a vhost that      *)
(* forwards to it, the service itself and a description.                   *)
_create_systemd_unit == <<Put("unit", Asked)>>
_manage_service(state) == Reported(<<Put("service", state)>>)
forwarded == <<Put("vhost", Asked), Drop("link"), Put("link", "there")>>
deploy_nodejs_app ==
  <<Make("environment", "there")>> \o _create_systemd_unit \o forwarded \o _manage_service("running")
    \o _reload_nginx("link") \o <<Put("app", "running")>>
deploy_python_app ==
  <<Put("venv", "there"), Make("environment", "there")>> \o _create_systemd_unit \o forwarded
    \o _manage_service("running") \o _reload_nginx("link") \o <<Put("app", "running")>>
stop_app     == <<Has("app")>> \o _manage_service("stopped") \o <<Put("app", "stopped")>>
restart_app  == <<Has("app")>> \o _manage_service("running") \o <<Put("app", "running")>>
set_env_vars == <<Has("app"), Put("environment", Asked)>> \o _manage_service("running")

(* WordPress. *)
update_wp_core    == <<Has("config"), Put("core", Asked)>> \o Try(<<Put("schema", Asked)>>)
update_wp_plugins == <<Has("config"), Put("plugins", Asked)>>
clone_wordpress ==
  <<Has("config"), New("clone", "files")>>
    \o Maybe(<<Copy("dump", "content")>> \o Reported(<<Make("clone_database", "there")>>)
               \o Reported(<<Put("clone_config", "there")>>)
               \o <<Copy("clone_content", "dump")>> \o Try(<<Drop("dump")>>))
    \o Try(<<Put("clone_content", Asked)>>)
search_replace == <<Has("config")>> \o Try(<<Put("content", Asked)>>)

(* Certificates. *)
issue_letsencrypt   == Reported(<<Put("cert", "certbot")>>)
renew_certificate   == Reported(<<Change("cert", "certbot")>>)
revoke_certificate  == Reported(<<Change("cert", None)>>)
install_custom_cert == <<Put("custom_cert", Asked), Put("custom_key", Asked)>>

(* Backups: a file, or for an incremental one a directory, which is read   *)
(* where it is and which os.unlink refuses.  finally: the temporary        *)
(* directory is removed.                                                   *)
_dump_databases == Reported(<<Copy("dump", "database")>>)
_create_incremental_backup ==
  <<Put("archive", "partial")>> \o Maybe(_dump_databases) \o <<Put("archive", "snapshot")>>
create_backup ==
  Either(_create_incremental_backup,
         <<Put("temp", "there")>>
           \o OrUndo(Maybe(_dump_databases) \o <<Put("archive", "there")>>, Try(<<Drop("temp")>>))
           \o Try(<<Drop("temp")>>))
_restore_db_dumps == Reported(<<Copy("database", "dump")>>)
_restore_emails   == Reported(<<Put("mail", "restored")>>)
_restore_cron     == Reported(<<Put("crontab", "restored")>>)
contents_restored ==
  Maybe(<<Put("home", "restored")>>) \o Maybe(_restore_db_dumps) \o Maybe(_restore_emails)
    \o Maybe(_restore_cron)
restore_backup ==
  <<Has("archive")>>
    \o IfElse(Shows("archive", "there"),
              <<Put("temp", "there")>> \o OrUndo(contents_restored, Try(<<Drop("temp")>>))
                \o Try(<<Drop("temp")>>),
              contents_restored)
delete_backup == <<Shows("archive", "there"), Drop("archive")>>

(* Limits: the files of a cgroup, of which two stand for all, and a         *)
(* description of them.                                                    *)
_save_limit_meta == <<Put("limits", Asked)>>
set_user_limits    == <<Put("cpu", Asked), Put("memory", Asked)>> \o _save_limit_meta
remove_user_limits == When(Has("cpu"), <<Drop("cpu"), Drop("memory")>>) \o <<Drop("limits")>>
set_php_fpm_limits == <<Put("pool", Asked)>>

(* Databases. *)
create_mysql_db    == <<Make("database", "there"), Make("login", Asked)>>
delete_mysql_db    == <<Drop("database"), Drop("login")>>
create_postgres_db == <<Make("login", Asked)>> \o Unless(Has("database"), <<New("database", "there")>>)
delete_postgres_db == <<Drop("database"), Drop("login")>>
backup_database  == <<Has("database"), Put("dump", "there")>>
restore_database == <<Has("dump"), Has("database"), Put("database", "restored")>>
delete_database_backup == <<Has("dump"), Drop("dump")>>

(* The machine. *)
_systemctl(state) == Reported(<<Put("service", state)>>)
restart_service == _systemctl("running")
start_service   == _systemctl("running")
stop_service    == _systemctl("stopped")
add_firewall_rule     == Reported(<<Put("rule", Asked)>>)
delete_firewall_rule  == Reported(<<Change("rule", None)>>)
unban_ip              == Reported(<<Drop("ban")>>)
enable_fail2ban_jail  == Try(<<New("jail", "on")>>)
disable_fail2ban_jail == Try(<<Change("jail", None)>>)
make_directory  == <<Make("file", "directory")>>
rename_path     == <<Move("renamed", "file")>>
chmod_path      == Try(<<Has("file"), Put("mode", Asked)>>)
compress_paths  == Try(<<Put("archive", "empty"), Has("file"), Copy("archive", "file")>>)
extract_archive == Try(<<Has("archive"), Copy("file", "archive")>>)
=============================================================================
