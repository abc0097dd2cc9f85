-------------------------------- MODULE HostHive --------------------------------
(***************************************************************************)
(* The handlers of HostHive by kind: those that share tables, so that they *)
(* can get in each other's way.  Two kinds may use the same handler; what  *)
(* a kind says of its tables is what the models of SQLAlchemy say of their *)
(* columns, and which files the system keeps them in.                      *)
(***************************************************************************)
EXTENDS Sequences, TLC

DB == INSTANCE Databases
ML == INSTANCE Mail
NS == INSTANCE Dns
HO == INSTANCE Hosting
AP == INSTANCE Applications
AG == INSTANCE Agent
NW == INSTANCE Network
AC == INSTANCE Accounts
JB == INSTANCE Jobs
SV == INSTANCE Server
AH == INSTANCE Apache

DatabasesHandlers ==
  [databases |-> [create_database |-> DB!create_database,
      delete_database |-> DB!delete_database,
      reset_database_password |-> DB!reset_database_password,
      database_sso |-> DB!database_sso,
      database_sso_pgsql |-> DB!database_sso_pgsql],
   dbusers |-> [create_database_user |-> DB!create_database_user,
      delete_database_user |-> DB!delete_database_user,
      update_database_user_permissions |-> DB!update_database_user_permissions],
   dbremote |-> [update_remote_access |-> DB!update_remote_access],
   dbdumps |-> [create_database |-> DB!create_database,
      create_database_backup |-> DB!create_database_backup,
      restore_database_backup |-> DB!restore_database_backup,
      delete_backup |-> DB!delete_backup]]

MailHandlers ==
  [mailboxes |-> [create_mailbox |-> ML!create_mailbox,
      change_password |-> ML!change_password,
      delete_mailbox |-> ML!delete_mailbox],
   ratelimits |-> [update_rate_limit |-> ML!update_rate_limit],
   mailsettings |-> [update_mailbox |-> ML!update_mailbox,
      get_quota |-> ML!get_quota, update_quota_usage |-> ML!update_quota_usage,
      update_spam_settings |-> ML!update_spam_settings],
   sieve |-> [save_sieve_filters |-> ML!save_sieve_filters,
      update_autoresponder |-> ML!update_autoresponder,
      disable_autoresponder |-> ML!disable_autoresponder],
   aliases |-> [create_alias |-> ML!create_alias,
      delete_alias |-> ML!delete_alias, set_catch_all |-> ML!set_catch_all,
      delete_catch_all |-> ML!delete_catch_all],
   aliaslines |-> [create_alias |-> ML!create_alias,
      delete_alias |-> ML!delete_alias],
   lists |-> [create_mailing_list |-> ML!create_mailing_list,
      update_mailing_list |-> ML!update_mailing_list,
      delete_mailing_list |-> ML!delete_mailing_list],
   members |-> [add_members |-> ML!add_members,
      remove_member |-> ML!remove_member],
   dkim |-> [setup_dkim |-> ML!setup_dkim, setup_rspamd |-> ML!setup_rspamd]]

DnsHandlers ==
  [records |-> [create_record |-> NS!create_record,
      update_record |-> NS!update_record, delete_record |-> NS!delete_record,
      import_zone |-> NS!import_zone],
   zones |-> [create_zone |-> NS!create_zone, delete_zone |-> NS!delete_zone,
      create_record |-> NS!create_record],
   dnssec |-> [create_record |-> NS!create_record,
      dnssec_enable |-> NS!dnssec_enable, dnssec_disable |-> NS!dnssec_disable],
   cloudflare |-> [delete_record |-> NS!delete_record,
      cloudflare_enable |-> NS!cloudflare_enable,
      cloudflare_disable |-> NS!cloudflare_disable,
      cloudflare_sync |-> NS!cloudflare_sync,
      cloudflare_import |-> NS!cloudflare_import,
      cloudflare_toggle_proxy |-> NS!cloudflare_toggle_proxy],
   dnsnodes |-> [add_cluster_node |-> NS!add_cluster_node,
      remove_cluster_node |-> NS!remove_cluster_node,
      trigger_cluster_sync |-> NS!trigger_cluster_sync,
      verify_cluster_sync |-> NS!verify_cluster_sync,
      receive_zone_from_cluster |-> NS!receive_zone_from_cluster]]

HostingHandlers ==
  [apache |-> [create_domain |-> AH!create_domain,
      update_domain |-> AH!update_domain, enable_ssl |-> AH!enable_ssl,
      delete_domain |-> AH!delete_domain],
   proxied |-> [create_proxied_domain |-> AH!create_proxied_domain,
      update_domain |-> AH!update_domain, delete_domain |-> AH!delete_domain],
   ftp |-> [create_ftp_account |-> HO!create_ftp_account,
      update_ftp_account |-> HO!update_ftp_account,
      delete_ftp_account |-> HO!delete_ftp_account],
   cron |-> [create_cron_job |-> HO!create_cron_job,
      update_cron_job |-> HO!update_cron_job,
      delete_cron_job |-> HO!delete_cron_job],
   docker |-> [deploy_container |-> HO!deploy_container,
      start_container |-> HO!start_container,
      stop_container |-> HO!stop_container,
      restart_container |-> HO!restart_container,
      remove_container |-> HO!remove_container,
      compose_deploy |-> HO!compose_deploy, compose_down |-> HO!compose_down],
   envs |-> [create_environment |-> HO!create_environment,
      destroy_environment |-> HO!destroy_environment],
   envweb |-> [switch_environment_webserver |-> HO!switch_environment_webserver],
   envparts |-> [switch_db |-> HO!switch_db, add_php |-> HO!add_php,
      remove_php |-> HO!remove_php],
   envcaches |-> [toggle_environment_redis |-> HO!toggle_environment_redis,
      toggle_memcached |-> HO!toggle_memcached,
      update_resources |-> HO!update_resources],
   cronruns |-> [create_predefined_task |-> HO!create_predefined_task,
      delete_cron_job |-> HO!delete_cron_job, run_cron_now |-> HO!run_cron_now]]

ApplicationsHandlers ==
  [runtime |-> [create_runtime_app |-> AP!create_runtime_app,
      update_runtime_app |-> AP!update_runtime_app,
      delete_runtime_app |-> AP!delete_runtime_app,
      start_runtime_app |-> AP!start_runtime_app,
      stop_runtime_app |-> AP!stop_runtime_app,
      restart_runtime_app |-> AP!restart_runtime_app,
      install_runtime_deps |-> AP!install_runtime_deps],
   catalogue |-> [install_catalog_app |-> AP!install_catalog_app],
   apps |-> [deploy_app |-> AP!deploy_app, stop_app |-> AP!stop_app,
      start_app |-> AP!start_app, restart_app |-> AP!restart_app,
      update_env_vars |-> AP!update_env_vars],
   wordpress |-> [wp_update_core |-> AP!wp_update_core,
      wp_update_plugins |-> AP!wp_update_plugins, wp_backup |-> AP!wp_backup,
      wp_clone |-> AP!wp_clone, wp_search_replace |-> AP!wp_search_replace],
   git |-> [setup_git_deploy |-> AP!setup_git_deploy,
      update_git_deploy |-> AP!update_git_deploy,
      trigger_deploy |-> AP!trigger_deploy,
      webhook_handler |-> AP!webhook_handler,
      remove_git_deploy |-> AP!remove_git_deploy]]

AgentHandlers ==
  [agent_mail |-> [create_mailbox |-> AG!create_mailbox,
      delete_mailbox |-> AG!delete_mailbox, set_password |-> AG!set_password,
      create_alias |-> AG!create_alias, delete_alias |-> AG!delete_alias,
      configure_catch_all |-> AG!configure_catch_all,
      remove_catch_all |-> AG!remove_catch_all],
   agent_sieve |-> [configure_autoresponder |-> AG!configure_autoresponder,
      write_sieve_script |-> AG!write_sieve_script],
   agent_spam |-> [configure_spam_filter |-> AG!configure_spam_filter],
   agent_ftp |-> [create_ftp_user |-> AG!create_ftp_user,
      delete_ftp_user |-> AG!delete_ftp_user,
      set_ftp_password |-> AG!set_ftp_password],
   agent_dns |-> [create_zone |-> AG!create_zone,
      delete_zone |-> AG!delete_zone, add_record |-> AG!add_record,
      delete_record |-> AG!delete_record],
   agent_dnssec |-> [add_record |-> AG!add_record,
      enable_dnssec |-> AG!enable_dnssec, disable_dnssec |-> AG!disable_dnssec,
      resign_zone |-> AG!resign_zone],
   agent_vhost |-> [create_vhost |-> AG!create_vhost,
      enable_ssl |-> AG!enable_ssl, delete_vhost |-> AG!delete_vhost],
   agent_waf |-> [enable_waf |-> AG!enable_waf, disable_waf |-> AG!disable_waf,
      add_custom_rule |-> AG!add_custom_rule,
      delete_custom_rule |-> AG!delete_custom_rule,
      set_waf_mode |-> AG!set_waf_mode],
   agent_docker |-> [deploy_container |-> AG!deploy_container,
      start_container |-> AG!start_container,
      stop_container |-> AG!stop_container,
      restart_container |-> AG!restart_container,
      remove_container |-> AG!remove_container,
      deploy_compose |-> AG!deploy_compose,
      setup_nginx_proxy |-> AG!setup_nginx_proxy],
   agent_apps |-> [deploy_nodejs_app |-> AG!deploy_nodejs_app,
      deploy_python_app |-> AG!deploy_python_app, stop_app |-> AG!stop_app,
      restart_app |-> AG!restart_app, set_env_vars |-> AG!set_env_vars],
   agent_wp |-> [update_wp_core |-> AG!update_wp_core,
      update_wp_plugins |-> AG!update_wp_plugins,
      clone_wordpress |-> AG!clone_wordpress,
      search_replace |-> AG!search_replace],
   agent_certs |-> [issue_letsencrypt |-> AG!issue_letsencrypt,
      renew_certificate |-> AG!renew_certificate,
      revoke_certificate |-> AG!revoke_certificate,
      install_custom_cert |-> AG!install_custom_cert],
   agent_backups |-> [create_backup |-> AG!create_backup,
      restore_backup |-> AG!restore_backup, delete_backup |-> AG!delete_backup],
   agent_limits |-> [set_user_limits |-> AG!set_user_limits,
      remove_user_limits |-> AG!remove_user_limits,
      set_php_fpm_limits |-> AG!set_php_fpm_limits],
   agent_db |-> [create_mysql_db |-> AG!create_mysql_db,
      delete_mysql_db |-> AG!delete_mysql_db,
      create_postgres_db |-> AG!create_postgres_db,
      delete_postgres_db |-> AG!delete_postgres_db],
   agent_dumps |-> [create_postgres_db |-> AG!create_postgres_db,
      backup_database |-> AG!backup_database,
      restore_database |-> AG!restore_database,
      delete_database_backup |-> AG!delete_database_backup],
   agent_machine |-> [restart_service |-> AG!restart_service,
      start_service |-> AG!start_service, stop_service |-> AG!stop_service,
      add_firewall_rule |-> AG!add_firewall_rule,
      delete_firewall_rule |-> AG!delete_firewall_rule,
      unban_ip |-> AG!unban_ip,
      enable_fail2ban_jail |-> AG!enable_fail2ban_jail,
      disable_fail2ban_jail |-> AG!disable_fail2ban_jail],
   agent_files |-> [make_directory |-> AG!make_directory,
      rename_path |-> AG!rename_path, chmod_path |-> AG!chmod_path,
      compress_paths |-> AG!compress_paths,
      extract_archive |-> AG!extract_archive]]

NetworkHandlers ==
  [waf |-> [_impl_enable |-> NW!_impl_enable,
      _impl_disable |-> NW!_impl_disable, _impl_add_rule |-> NW!_impl_add_rule,
      _impl_delete_rule |-> NW!_impl_delete_rule,
      _impl_set_mode |-> NW!_impl_set_mode],
   geo |-> [add_rule |-> NW!add_rule, remove_rule |-> NW!remove_rule,
      set_mode |-> NW!set_mode, update_database |-> NW!update_database,
      update_geoip_database |-> NW!update_geoip_database],
   addresses |-> [add_ip_address |-> NW!add_ip_address,
      remove_ip_address |-> NW!remove_ip_address, block_ip |-> NW!block_ip,
      unblock_ip |-> NW!unblock_ip, whitelist_ip |-> NW!whitelist_ip],
   wireguard |-> [create_peer |-> NW!create_peer,
      delete_peer |-> NW!delete_peer],
   ssh |-> [ssh_harden |-> NW!ssh_harden, apply_updates |-> NW!apply_updates]]

AccountsHandlers ==
  [users |-> [create_user |-> AC!create_user, update_user |-> AC!update_user,
      delete_user |-> AC!delete_user, suspend_user |-> AC!suspend_user,
      unsuspend_user |-> AC!unsuspend_user],
   packages |-> [create_package |-> AC!create_package,
      update_package |-> AC!update_package,
      delete_package |-> AC!delete_package],
   resellers |-> [create_reseller_user |-> AC!create_reseller_user,
      update_reseller_user |-> AC!update_reseller_user,
      delete_reseller_user |-> AC!delete_reseller_user,
      suspend_reseller_user |-> AC!suspend_reseller_user,
      unsuspend_reseller_user |-> AC!unsuspend_reseller_user],
   reseller_packages |-> [
      create_reseller_package |-> AC!create_reseller_package,
      update_reseller_package |-> AC!update_reseller_package,
      delete_reseller_package |-> AC!delete_reseller_package,
      update_branding |-> AC!update_branding,
      update_rate_limits |-> AC!update_rate_limits,
      _check_rate_limit |-> AC!_check_rate_limit,
      _check_bandwidth_from_token |-> AC!_check_bandwidth_from_token],
   billing |-> [provision_account |-> AC!provision_account,
      suspend_account |-> AC!suspend_account,
      terminate_account |-> AC!terminate_account,
      unsuspend_account |-> AC!unsuspend_account],
   stripe |-> [toggle_integration |-> JB!toggle_integration,
      stripe_webhook |-> AC!stripe_webhook,
      create_stripe_checkout |-> AC!create_stripe_checkout],
   startup |-> [_ensure_admin_user |-> AC!_ensure_admin_user,
      change_password |-> AC!change_password],
   sessions |-> [login |-> AC!login, refresh_token |-> AC!refresh_token,
      logout |-> AC!logout, forgot_password |-> AC!forgot_password,
      change_password |-> AC!change_password],
   twofactor |-> [login |-> AC!login, setup_2fa |-> AC!setup_2fa,
      verify_2fa |-> AC!verify_2fa, disable_2fa |-> AC!disable_2fa,
      login_2fa |-> AC!login_2fa, login_2fa_backup |-> AC!login_2fa_backup],
   passkeys |-> [registration_options |-> AC!registration_options,
      registration_verify |-> AC!registration_verify,
      authentication_options |-> AC!authentication_options,
      authentication_verify |-> AC!authentication_verify,
      delete_credential |-> AC!delete_credential],
   keys |-> [create_api_key |-> AC!create_api_key,
      revoke_api_key |-> AC!revoke_api_key]]

JobsHandlers ==
  [backups |-> [create_backup |-> JB!create_backup,
      create_backup_alias |-> JB!create_backup_alias,
      restore_backup |-> JB!restore_backup, delete_backup |-> JB!delete_backup],
   remotes |-> [upload_backup_to_sftp |-> JB!upload_backup_to_sftp,
      upload_backup_to_rclone |-> JB!upload_backup_to_rclone,
      upload_backup_now |-> JB!upload_backup_now,
      restore_remote_backup |-> JB!restore_remote_backup,
      delete_remote_backup |-> JB!delete_remote_backup,
      update_backup_schedule |-> JB!update_backup_schedule,
      create_backup |-> JB!create_backup],
   workerbackups |-> [create_user_backup |-> JB!create_user_backup,
      cleanup_old_backups |-> JB!cleanup_old_backups,
      create_scheduled_backups |-> JB!create_scheduled_backups],
   migration |-> [upload_backup |-> JB!upload_backup,
      analyze_backup |-> JB!analyze_backup,
      request_migration |-> JB!request_migration,
      execute_migration |-> JB!execute_migration],
   antivirus |-> [trigger_full_scan |-> JB!trigger_full_scan,
      trigger_path_scan |-> JB!trigger_path_scan,
      run_antivirus_scan |-> JB!run_antivirus_scan,
      scheduled_antivirus_scan |-> JB!scheduled_antivirus_scan],
   quarantine |-> [restore_quarantined_file |-> JB!restore_quarantined_file,
      delete_quarantined_file |-> JB!delete_quarantined_file,
      trigger_db_update |-> JB!trigger_db_update],
   health |-> [run_health_checks |-> JB!run_health_checks,
      cleanup_old_health_checks |-> JB!cleanup_old_health_checks],
   metrics |-> [acknowledge_anomaly |-> JB!acknowledge_anomaly,
      check_anomalies |-> JB!check_anomalies,
      collect_server_stats |-> JB!collect_server_stats,
      cleanup_old_stats |-> JB!cleanup_old_stats],
   traffic |-> [aggregate_domain_bandwidth |-> JB!aggregate_domain_bandwidth,
      aggregate_reseller_bandwidth |-> JB!aggregate_reseller_bandwidth],
   integrations |-> [update_integration |-> JB!update_integration,
      toggle_integration |-> JB!toggle_integration,
      upload_backup_to_s3 |-> JB!upload_backup_to_s3,
      sync_cloudflare_dns |-> JB!sync_cloudflare_dns,
      cleanup_s3_backups |-> JB!cleanup_s3_backups],
   alerts |-> [check_services_and_alert |-> JB!check_services_and_alert],
   certs |-> [auto_renew_expiring_certs |-> JB!auto_renew_expiring_certs,
      check_cert_expiry |-> JB!check_cert_expiry,
      send_expiry_alerts |-> JB!send_expiry_alerts,
      send_notification |-> JB!send_notification]]

ServerHandlers ==
  [services |-> [restart_service |-> SV!restart_service,
      start_service |-> SV!start_service, stop_service |-> SV!stop_service,
      add_firewall_rule |-> SV!add_firewall_rule,
      delete_firewall_rule |-> SV!delete_firewall_rule,
      fail2ban_unban |-> SV!fail2ban_unban],
   machine |-> [fail2ban_enable_jail |-> SV!fail2ban_enable_jail,
      fail2ban_disable_jail |-> SV!fail2ban_disable_jail,
      reboot_server |-> SV!reboot_server, set_hostname |-> SV!set_hostname,
      force_log_rotation |-> SV!force_log_rotation],
   php |-> [install_php_version |-> SV!install_php_version,
      uninstall_php_version |-> SV!uninstall_php_version,
      toggle_php_extension |-> SV!toggle_php_extension],
   phpini |-> [update_php_config |-> SV!update_php_config,
      set_domain_php_limits |-> SV!set_domain_php_limits,
      set_domain_php_memory |-> SV!set_domain_php_memory],
   caches |-> [redis_flush |-> SV!redis_flush,
      redis_flush_db |-> SV!redis_flush_db, varnish_purge |-> SV!varnish_purge,
      varnish_purge_url |-> SV!varnish_purge_url,
      memcached_flush |-> SV!memcached_flush,
      opcache_reset |-> SV!opcache_reset],
   limits |-> [set_user_limits |-> SV!set_user_limits,
      set_disk_quota |-> SV!set_disk_quota,
      set_process_limits |-> SV!set_process_limits],
   files |-> [upload_file |-> SV!upload_file,
      create_directory |-> SV!create_directory, rename_file |-> SV!rename_file,
      delete_file |-> SV!delete_file, write_file |-> SV!write_file,
      chmod_file |-> SV!chmod_file],
   archives |-> [write_file |-> SV!write_file,
      compress_files |-> SV!compress_files,
      extract_archive |-> SV!extract_archive],
   secrets |-> [rotate_secrets |-> SV!rotate_secrets,
      toggle_maintenance_mode |-> SV!toggle_maintenance_mode,
      system_update |-> SV!system_update],
   pages |-> [update_branding |-> SV!update_branding,
      create_incident |-> SV!create_incident,
      update_incident |-> SV!update_incident],
   languages |-> [update_translations |-> SV!update_translations,
      add_language |-> SV!add_language, delete_language |-> SV!delete_language,
      import_language |-> SV!import_language,
      auto_translate |-> SV!auto_translate],
   assistant |-> [ai_chat |-> SV!ai_chat,
      delete_conversation |-> SV!delete_conversation,
      cleanup_ai_conversations |-> SV!cleanup_ai_conversations],
   insights |-> [resolve_insight |-> SV!resolve_insight,
      autofix_insight |-> SV!autofix_insight,
      security_scan_daily |-> SV!security_scan_daily,
      update_settings |-> SV!update_settings,
      save_ai_config |-> SV!save_ai_config],
   loganalysis |-> [analyze_logs_periodic |-> SV!analyze_logs_periodic,
      resolve_insight |-> SV!resolve_insight],
   aisites |-> [nginx_apply |-> SV!nginx_apply],
   installer |-> [install_app_endpoint |-> SV!install_app_endpoint]]

\* (The LETs keep TLC's coverage from following the handlers into every step.)
Handlers ==
  LET byKind ==
        DatabasesHandlers @@ MailHandlers @@ DnsHandlers @@ HostingHandlers @@
        ApplicationsHandlers @@ AgentHandlers @@ NetworkHandlers @@
        AccountsHandlers @@ JobsHandlers @@ ServerHandlers
  IN byKind

\* A kind for which nothing is said has the default.
All(some, default) ==
  [k \in DOMAIN Handlers |-> IF k \in DOMAIN some THEN some[k] ELSE default]

\* What is there before a behaviour begins: rows and things.
GivenTables ==
  LET some == [dbusers |-> {"database"},
         dbremote |-> {"database"},
         ratelimits |-> {"mailbox"},
         mailsettings |-> {"mailbox"},
         sieve |-> {"mailbox"},
         aliases |-> {"domain"},
         lists |-> {"domain"},
         records |-> {"zone"},
         dnssec |-> {"zone"},
         cloudflare |-> {"zone"},
         dnsnodes |-> {"record"},
         envs |-> {"user"},
         envweb |-> {"user", "env", "web", "proxy"},
         envparts |-> {"user", "env", "dbserver"},
         envcaches |-> {"user", "env"},
         runtime |-> {"domain"},
         wordpress |-> {"config", "core", "content"},
         git |-> {"domain"},
         agent_dnssec |-> {"zone"},
         agent_waf |-> {"vhost"},
         agent_wp |-> {"config", "content"},
         agent_backups |-> {"database"},
         waf |-> {"vhost"},
         ssh |-> {"sshd"},
         users |-> {"package", "useradd"},
         packages |-> {"user"},
         resellers |-> {"limits"},
         reseller_packages |-> {"limits"},
         billing |-> {"package"},
         sessions |-> {"user"},
         twofactor |-> {"user"},
         passkeys |-> {"user"},
         keys |-> {"user"},
         backups |-> {"home"},
         remotes |-> {"home", "user"},
         workerbackups |-> {"user", "due"},
         antivirus |-> {"infected"},
         quarantine |-> {"quarantine"},
         traffic |-> {"domain", "limits", "user"},
         integrations |-> {"zone", "backup", "archive"},
         stripe |-> {"integration", "package"},
         loganalysis |-> {"settings"},
         certs |-> {"cert", "domain"},
         php |-> {"other_php"},
         phpini |-> {"ini", "pool"},
         limits |-> {"user"}]
  IN All(some, {})

\* The names of the kind are parts of one thing.
SingleTables ==
  LET some == [records |-> {"zone", "stanza", "keys", "dnssec", "cloudflare"},
         resellers |-> {"limits", "used"}]
  IN All(some, {})

\* Decorated with @shared_task or @app.task.
CeleryTasks ==
  LET some == [geo |-> {"update_geoip_database"},
         workerbackups |-> {"create_user_backup", "cleanup_old_backups", "create_scheduled_backups"},
         migration |-> {"execute_migration"},
         antivirus |-> {"run_antivirus_scan", "scheduled_antivirus_scan"},
         health |-> {"run_health_checks", "cleanup_old_health_checks"},
         metrics |-> {"check_anomalies", "collect_server_stats", "cleanup_old_stats"},
         traffic |-> {"aggregate_domain_bandwidth", "aggregate_reseller_bandwidth"},
         integrations |-> {"upload_backup_to_s3", "sync_cloudflare_dns", "cleanup_s3_backups"},
         alerts |-> {"check_services_and_alert"},
         loganalysis |-> {"analyze_logs_periodic"},
         mailsettings |-> {"update_quota_usage"},
         dnsnodes |-> {"verify_cluster_sync"},
         certs |-> {"auto_renew_expiring_certs", "check_cert_expiry", "send_expiry_alerts", "send_notification"},
         assistant |-> {"cleanup_ai_conversations"},
         insights |-> {"security_scan_daily"}]
  IN All(some, {})

\* What beat_schedule lists, and what another task or an operator sends.
BeatTasks ==
  LET some == [geo |-> {"update_geoip_database"},
         workerbackups |-> {"cleanup_old_backups", "create_scheduled_backups"},
         antivirus |-> {"scheduled_antivirus_scan"},
         health |-> {"run_health_checks", "cleanup_old_health_checks"},
         metrics |-> {"check_anomalies", "collect_server_stats", "cleanup_old_stats"},
         traffic |-> {"aggregate_domain_bandwidth", "aggregate_reseller_bandwidth"},
         integrations |-> {"upload_backup_to_s3", "sync_cloudflare_dns", "cleanup_s3_backups"},
         alerts |-> {"check_services_and_alert"},
         loganalysis |-> {"analyze_logs_periodic"},
         mailsettings |-> {"update_quota_usage"},
         dnsnodes |-> {"verify_cluster_sync"},
         certs |-> {"auto_renew_expiring_certs", "check_cert_expiry", "send_expiry_alerts"},
         assistant |-> {"cleanup_ai_conversations"},
         insights |-> {"security_scan_daily"}]
  IN All(some, {})

\* Columns with steps of their own, and the table they are in.
TableColumns ==
  LET some == [databases |-> [login |-> "database"],
         dbusers |-> [grant |-> "dbuser"],
         dbremote |-> [remote |-> "database"],
         dbdumps |-> [login |-> "database"],
         mailboxes |-> [password |-> "mailbox"],
         ratelimits |-> [ratelimit |-> "mailbox"],
         mailsettings |-> [spam |-> "mailbox", limits |-> "mailbox", usage |-> "mailbox"],
         sieve |-> [away |-> "mailbox"],
         aliases |-> [catch_all |-> "domain"],
         records |-> [dnssec |-> "zone", cloudflare |-> "zone"],
         zones |-> [dnssec |-> "zone", cloudflare |-> "zone"],
         dnssec |-> [dnssec |-> "zone", cloudflare |-> "zone"],
         cloudflare |-> [dnssec |-> "zone", cloudflare |-> "zone"],
         ftp |-> [enabled |-> "ftp"],
         cron |-> [last_run |-> "job"],
         envs |-> [dbserver |-> "env", web |-> "env", php |-> "env", redis |-> "env"],
         envweb |-> [web |-> "env"],
         envparts |-> [dbserver |-> "env", php81 |-> "env"],
         envcaches |-> [redis |-> "env", limits |-> "env"],
         runtime |-> [running |-> "unit"],
         git |-> [status |-> "deployment"],
         users |-> [login |-> "user", package_of |-> "user", suspended |-> "user"],
         packages |-> [shell |-> "package"],
         resellers |-> [used |-> "limits", package_of |-> "member", suspended |-> "member"],
         reseller_packages |-> [shell |-> "package", rate |-> "limits", bandwidth |-> "limits"],
         billing |-> [active |-> "user", suspended |-> "user"],
         startup |-> [password |-> "user", suspended |-> "user"],
         apache |-> [vhost |-> "domain"],
         proxied |-> [vhost |-> "domain"],
         sessions |-> [password |-> "user", totp |-> "user", suspended |-> "user"],
         twofactor |-> [password |-> "user", totp |-> "user", secret |-> "user", codes |-> "user", suspended |-> "user"],
         passkeys |-> [suspended |-> "user", password |-> "user", signs |-> "credential"],
         backups |-> [archive |-> "backup", remote |-> "backup"],
         remotes |-> [archive |-> "backup", remote |-> "backup", schedule |-> "user"],
         workerbackups |-> [archive |-> "backup", remote |-> "backup", due |-> "user"],
         health |-> [restarts |-> "incident", escalated |-> "incident"],
         traffic |-> [used |-> "limits", suspended |-> "user"],
         integrations |-> [config |-> "integration", archive |-> "backup"],
         cronruns |-> [last_run |-> "job"]]
  IN All(some, << >>)

Pairs == {"dbremote", "mailboxes", "ratelimits", "aliaslines", "members", "ftp", "cron", "agent_ftp", "wireguard", "resellers", "keys"}

\* Tables whose things are lines of one file.
SharedFiles ==
  [alias |-> "virtual_aliases", catch_all |-> "virtual_aliases", list |-> "virtual_aliases",
   meta |-> "waf_meta", mode |-> "waf_meta"]

\* The queues the shipped worker unit reads, and those that tasks go to by
\* task_routes or the options of beat_schedule.  One that is in no route goes
\* to Celery's own queue.
ReadQueues ==
  {"default", "emails", "backups", "dns", "monitoring", "ssl", "mail", "notifications",
   "maintenance", "ai"}
QueueOf ==
  [update_geoip_database |-> "security", scheduled_antivirus_scan |-> "security",
   execute_migration |-> "migration", upload_backup_to_s3 |-> "celery",
   sync_cloudflare_dns |-> "celery", cleanup_s3_backups |-> "celery",
   check_services_and_alert |-> "celery"]
UnreadTasks == {t \in DOMAIN QueueOf : QueueOf[t] \notin ReadQueues}
=============================================================================
