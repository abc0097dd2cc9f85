-------------------------------- MODULE Server --------------------------------
(***************************************************************************)
(* The machine itself: services, the firewall, PHP, caches, limits, files, *)
(* secrets, translations and the helpers that ask a language model         *)
(* (routers/server, system, admin, php, cache, resources, files, branding, *)
(* translations, status, logs and ai, services/ai_installer and ai_nginx,  *)
(* tasks/ai_tasks).                                                        *)
(***************************************************************************)
EXTENDS Script

(* Services, ufw and fail2ban. *)
_direct_service_action(state) == <<Put("service", state)>>
restart_service == _direct_service_action("running")
start_service   == _direct_service_action("running")
stop_service    == _direct_service_action("stopped")
_direct_firewall_add_rule    == <<Put("rule", Asked)>>
_direct_firewall_delete_rule == <<Change("rule", None)>>
add_firewall_rule    == _direct_firewall_add_rule
delete_firewall_rule == _direct_firewall_delete_rule
_direct_fail2ban_unban == <<Drop("ban")>>
fail2ban_unban         == _direct_fail2ban_unban
\* A jail that does not start is reloaded.
_direct_fail2ban_enable_jail  == IfElse(New("jail", "on"), << >>, <<Put("jail", "on")>>)
_direct_fail2ban_disable_jail == <<Change("jail", None)>>
fail2ban_enable_jail  == _direct_fail2ban_enable_jail
fail2ban_disable_jail == _direct_fail2ban_disable_jail
reboot_server == <<Put("shutdown", "scheduled")>>
\* What happens to /etc/hosts is not looked at.
set_hostname ==
  <<Put("hostname", Asked)>> \o Try(<<Read("hosts"), Save("hosts", Asked)>>)
force_log_rotation == Try(<<Put("rotated", "there")>>) \o Try(<<Put("reopened", "there")>>)

(* PHP.  Restarts are reported. *)
_write_text_blocking(t, v) == <<Put(t, v)>>
update_php_config ==
  <<Has("ini"), Copy("ini_backup", "ini")>> \o _write_text_blocking("ini", Asked)
    \o Try(<<Copy("fpm", "ini")>>)
toggle_php_extension == <<Put("extension", Asked)>> \o Try(<<Put("fpm", "restarted")>>)
install_php_version ==
  <<Lacks("php")>> \o Unless(Has("repository"), <<Put("repository", "there")>>)
    \o <<Put("php", "there")>> \o Try(<<Put("unit", "enabled")>>) \o Try(<<Put("fpm", "there")>>)
uninstall_php_version ==
  <<Has("php"), Has("other_php")>> \o Try(<<Drop("fpm")>>) \o Try(<<Drop("unit")>>) \o <<Drop("php")>>

(* Caches.  The script for the reset is in two files that are removed. *)
redis_flush     == <<Wipe("redis")>>
redis_flush_db  == redis_flush
varnish_purge   == <<Wipe("varnish")>>
varnish_purge_url == <<Drop("varnish")>>
memcached_flush == <<Wipe("memcached")>>
opcache_reset ==
  <<Put("script", "there")>>
    \o OrUndo(Try(<<Drop("opcache_cli")>>)
                \o When(Put("web_script", "there"), Try(<<Drop("opcache")>>) \o Try(<<Drop("web_script")>>))
                \o Maybe(<<Raise>>),
              Try(<<Drop("script")>>))
    \o Try(<<Drop("script")>>)

(* Limits.  The row of the caller is looked for, the row of the user made. *)
set_user_limits ==
  Try(<<Put("slice", Asked)>>)
    \o IfElse(Need("own_limits"), <<Update("own_limits", Asked)>>,
              <<Need("user"), Insert("slice", Asked)>>)
set_domain_php_limits == <<Has("pool"), Put("pool", Asked)>> \o Try(<<Copy("fpm", "pool")>>)
set_domain_php_memory ==
  <<Has("pool"), Copy("pool_backup", "pool"), Put("pool", Asked)>> \o Try(<<Copy("fpm", "pool")>>)
set_disk_quota == <<Put("quota", Asked)>>
_write_limits_for_user_sync == <<Put("nproc", Asked)>>
set_process_limits == _write_limits_for_user_sync

(* Files of the users.  To write is to empty the file first. *)
_local_write_file == <<Put("file", "empty"), Put("file", Asked)>>
_local_mkdir      == <<Make("file", "directory")>>
_local_rename     == <<Has("file"), Move("renamed", "file")>>
_local_delete     == <<Has("file"), Drop("file")>>
_local_chmod      == <<Has("file"), Put("mode", Asked)>>
_local_compress   == <<Put("archive", "empty")>> \o When(Has("file"), <<Copy("archive", "file")>>)
\* A member that would leave the directory is refused before any is written.
_local_extract    == <<Has("archive")>> \o Maybe(<<Raise>>) \o <<Copy("file", "archive")>>
upload_file      == _local_write_file
create_directory == _local_mkdir
rename_file      == _local_rename
delete_file      == _local_delete
write_file       == _local_write_file
chmod_file       == _local_chmod
compress_files   == _local_compress
extract_archive  == _local_extract

(* Secrets are lines of one file; the processes know what they read when   *)
(* they were started.                                                      *)
rotate_secrets ==
  <<Read("secrets"), Save("secrets", Asked)>> \o Try(<<Wipe("refresh")>>)
toggle_maintenance_mode == Either(<<Put("maintenance", "on")>>, <<Drop("maintenance")>>)
system_update == Try(<<Put("checkout", Asked)>>) \o Try(<<Copy("frontend", "checkout")>>)

(* Pages and languages.  A translation is written as a whole, after the    *)
(* model has answered, from what was read before it was asked.             *)
update_branding     == <<Put("branding", Asked)>>
create_incident     == <<Mint("incident"), Insert("incident", Asked)>>
update_incident     == <<Need("incident"), Update("incident", Asked)>>
_write_locale       == <<Put("locale", Asked)>>
update_translations == <<Has("locale")>> \o _write_locale
add_language        == <<Lacks("locale"), Put("locale", "skeleton")>>
delete_language     == <<Has("locale"), Drop("locale")>>
import_language     == _write_locale
_check_translate_rate_limit ==
  <<Count("translations")>> \o When(Shows("translations", "full"), <<Raise>>)
auto_translate ==
  _check_translate_rate_limit \o <<Read("phrase")>> \o Maybe(<<Raise>>) \o <<Save("phrase", Asked)>>

(* The assistant. *)
_check_ai_rate_limit == <<Count("asked_for")>> \o When(Shows("asked_for", "full"), <<Raise>>)
\* What was asked is lost when there is no answer.
ai_chat ==
  _check_ai_rate_limit
    \o Unless(Need("conversation"), <<Insert("conversation", "there")>>)
    \o <<Add("question", "there")>> \o Maybe(<<Raise>>)
    \o <<Add("answer", "there"), Commit>>
delete_conversation ==
  <<Need("conversation"), Clear("question"), Clear("answer"), Delete("conversation"), Commit>>
\* An exception is logged; what was added before it is committed.
_execute_auto_fix         == <<Put("fix", "done")>>
_send_high_severity_alert == Maybe(Try(<<Put("alert", "sent")>>))
analyze_logs ==
  When(Need("settings"),
       Try(Maybe(<<Raise>>) \o <<Add("usage", "there")>> \o Maybe(<<Raise>>)
             \o <<Mint("insight"), Insert("insight", "open")>>
             \o Maybe(Try(_execute_auto_fix \o <<Update("insight", "resolved")>>))
             \o _send_high_severity_alert \o <<Commit>>))
analyze_logs_periodic == analyze_logs
resolve_insight == <<Need("insight"), Update("insight", "resolved")>>
\* The plan is returned to be read; the insight counts as resolved.
autofix_insight ==
  <<Need("insight")>> \o _check_ai_rate_limit \o Maybe(<<Raise>>)
    \o <<Update("insight", "resolved"), Commit>>
update_settings ==
  Unless(Need("settings"), <<Add("settings", Asked)>>)
    \o <<Update("settings", Asked), Commit>> \o Try(<<Put("settings", Asked)>>)
save_ai_config ==
  <<Put("settings", Asked)>>
    \o Try(Unless(Need("settings"), <<Add("settings", Asked)>>) \o <<Update("settings", Asked), Commit>>)
\* The candidate is tested alone; what is served is overwritten in place.
apply_nginx_config ==
  TryElse(<<Put("candidate", Asked)>>, << >>, Maybe(<<Raise>>))
    \o <<Put("vhost", Asked), Copy("served", "vhost")>>
nginx_apply == apply_nginx_config
security_scan_daily        == <<Need("settings"), Mint("insight"), Insert("insight", "open"), Commit>>
cleanup_ai_conversations   == <<Clear("question"), Clear("answer"), Delete("conversation"), Commit>>

(* The installer: one step after the other, and nothing is undone. *)
_local_create_database == <<Make("database", "there"), Make("login", Asked)>>
_local_issue_ssl       == <<Put("cert", "there")>>
_local_set_crontab     == <<Read("crontab"), Save("crontab", Asked)>>
_local_check_ssl       == <<Has("cert")>>
_step_create_database  == _local_create_database
_step_set_permissions  == <<Has("tree"), Put("owner", "there")>>
_step_setup_cron       == Try(_local_set_crontab)
_run_local_command(t)  == <<Put(t, Asked)>>
install_app ==
  Maybe(_step_create_database) \o _run_local_command("tree") \o _run_local_command("config")
    \o _step_set_permissions \o Try(_local_issue_ssl) \o Maybe(_step_setup_cron)
    \o Try(_local_check_ssl)
install_app_endpoint == _check_ai_rate_limit \o install_app
=============================================================================
