---------------------------------- MODULE Jobs ----------------------------------
(***************************************************************************)
(* Backups, migration, antivirus scans and the periodic tasks              *)
(* (routers/backups, migration, antivirus, monitoring and integrations,    *)
(* tasks/backup_tasks, migration_tasks, server_tasks, monitoring_tasks,    *)
(* integration_tasks, ssl_tasks and notification_tasks,                    *)
(* services/monitoring).                                                   *)
(*                                                                         *)
(* A row "backup" says "running", "completed" or "failed"; its column      *)
(* "archive" is the path of the thing "archive", which is a file or, for   *)
(* an incremental backup, a directory: a "snapshot", which can neither be  *)
(* restored, nor copied, nor deleted.  "remote" is the key of the copy     *)
(* elsewhere, wherever that is.                                            *)
(***************************************************************************)
EXTENDS Storage

(* Backups on request: the row is committed when the request is over, and  *)
(* an exception rolls it back together with the status "failed".           *)
_direct_create_full_backup == <<Has("home"), Put("archive", "there")>>
_direct_create_files_only_backup == _direct_create_full_backup
_direct_create_db_backup   == <<Put("archive", "there")>>
_direct_create_incremental_backup == <<Put("archive", "snapshot")>>
\* It returns the path, which the row is given.
_direct_create_backup ==
  Either(Either(_direct_create_full_backup, _direct_create_db_backup) \o <<Update("archive", "there")>>,
         _direct_create_incremental_backup \o <<Update("archive", "snapshot")>>)

create_backup ==
  <<Room("archive"), Mint("backup"), Insert("backup", "running")>>
    \o OrUndo(_direct_create_backup \o <<Update("backup", "completed")>>, <<Update("backup", "failed")>>)
create_backup_alias == create_backup

_direct_restore_backup ==
  <<Shows("archive", "there")>> \o Maybe(<<Put("home", "restored")>>) \o Maybe(Try(<<Put("content", "restored")>>))
restore_backup ==
  <<Need("backup"), Is("backup", "completed")>> \o _direct_restore_backup
_direct_delete_backup_file == Try(When(Shows("archive", "there"), <<Drop("archive")>>))
delete_backup == <<Need("backup")>> \o _direct_delete_backup_file \o <<Delete("backup")>>
update_backup_schedule ==
  <<Need("user"), Update("schedule", Asked)>> \o Try(<<Put("schedule", Asked)>>)

\* Whether a store is configured and on.
configured == Maybe(<<Raise>>)
_get_s3_service     == configured
_get_sftp_service   == configured
_get_rclone_service == configured
copied(upload) ==
  <<Need("backup"), Is("backup", "completed"), Shows("archive", "there")>> \o upload \o <<Update("remote", "there")>>
upload_backup_now       == copied(_get_s3_service \o s3_upload_backup)
upload_backup_to_sftp   == copied(_get_sftp_service \o sftp_upload_backup)
upload_backup_to_rclone == copied(_get_rclone_service \o rclone_upload_backup)
\* S3 is asked, whichever store the key is of.  finally: the downloaded copy
\* is removed.
restore_remote_backup ==
  _get_s3_service \o s3_download_backup
    \o OrUndo(<<Has("home"), Put("home", "restored")>>, Try(<<Drop("download")>>))
    \o Try(<<Drop("download")>>)
\* The row keeps the key.
delete_remote_backup == _get_s3_service \o s3_delete_backup

(* Backups by the worker.  Every step is committed.  A failure is noted    *)
(* and the task is sent again; what runs then makes a new row.             *)
\* The first store that is configured and takes it.
or_else(upload, next) ==
  TryElse(<<Choice>> \o upload \o <<Update("remote", "there"), Commit>>, next, << >>)
_auto_upload_to_remote ==
  or_else(s3_upload_backup, or_else(sftp_upload_backup_sync, or_else(rclone_upload_backup_sync, << >>)))
\* Mutant of create_user_backup: it is sent again also when it has succeeded.
Mutant_create_user_backup ==
  <<Mint("backup"), Insert("backup", "running"), Commit>>
    \o Try(<<Put("archive", "there"), Update("backup", "completed"), Commit>>)
    \o <<Spawn("create_user_backup")>>
create_user_backup ==
  <<Mint("backup"), Insert("backup", "running"), Commit>>
    \o OrUndo(Either(<<Put("archive", "there"), Update("archive", "there")>>,
                     <<Put("archive", "snapshot"), Update("archive", "snapshot")>>)
                \o <<Update("backup", "completed"), Commit>> \o _auto_upload_to_remote,
              <<Update("backup", "failed"), Commit, Spawn("create_user_backup")>>)
\* Whether the file was there, and whether it was deleted, is not looked at.
cleanup_old_backups ==
  <<Need("backup")>> \o Try(Maybe(<<Drop("archive")>>) \o <<Delete("backup")>>) \o <<Commit>>
\* The task is sent before the row says that the backup is not due any more.
create_scheduled_backups ==
  <<Need("user"), Is("due", "there"), Spawn("create_user_backup"), Update("due", None), Commit>>
    \o s3_cleanup_old_backups \o sftp_cleanup_old_backups_sync \o rclone_cleanup_old_backups_sync

(* Migration.  The thing "migration" is the state in Redis, "extracted"    *)
(* the directory with the files.                                           *)
upload_backup ==
  OrUndo(<<Put("uploaded", "there")>>, Try(<<Drop("uploaded")>>))
analyze_backup ==
  <<Has("uploaded"), Drop("extracted"), Put("extracted", "there"), Put("analysis", "there")>>
request_migration ==
  <<Has("analysis"), Has("extracted"), Put("migration", "pending"), Spawn("execute_migration")>>
_update_status(state) == <<Put("migration", state)>>
unless_there(t) == IfElse(Fresh(t), <<Insert(t, "there")>>, << >>)
_restore_mysql_dump == <<Has("extracted"), Put("content", "restored")>>
_restore_pgsql_dump == _restore_mysql_dump
\* Rows only: no account, vhost, database or mailbox is made on the system.
\* finally: the directory goes, whatever the outcome.
execute_migration ==
  LET imported == unless_there("user") \o unless_there("domain") \o unless_there("database")
                    \o Try(Either(_restore_mysql_dump, _restore_pgsql_dump))
                    \o Maybe(unless_there("mailbox")) \o <<Commit>>
      removed  == Try(<<Drop("extracted")>>)
  IN _update_status("running")
       \o TryElse(<<Has("extracted")>> \o imported, _update_status("failed"), _update_status("done"))
       \o removed

(* Antivirus.  A scan is "pending", "running" or over; the task is sent    *)
(* before the row is committed.  What clamscan reports as infected gets a  *)
(* row whether it could be moved to the quarantine or not.                 *)
trigger_full_scan ==
  <<Mint("scan"), Insert("scan", "pending"), Spawn("run_antivirus_scan")>>
trigger_path_scan == trigger_full_scan
clamscan == <<Put("log", "there")>>
moved == Reported(<<Move("quarantine", "infected")>>)
over(state) == <<Update("scan", state)>>
\* Mutant of run_antivirus_scan: a failure is logged and that is all.
Mutant_run_antivirus_scan ==
  <<Make("quarantine_dir", "there")>>
    \o When(Need("scan"),
            over("running") \o <<Commit>>
              \o Try(clamscan \o over("completed")
                       \o When(Has("infected"), moved \o <<Add("quarantine", "there")>>))
              \o <<Commit>>)
run_antivirus_scan ==
  <<Make("quarantine_dir", "there")>>
    \o When(Need("scan"),
            over("running") \o <<Commit>>
              \o TryElse(clamscan, over("failed"),
                   IfElse(Has("infected"),
                          TryElse(moved, over("failed"), over("completed") \o <<Add("quarantine", "there")>>),
                          over("completed")))
              \o <<Commit>>)
\* It runs the other task as a function, in the same process.
scheduled_antivirus_scan ==
  <<Mint("scan"), Insert("scan", "pending"), Commit>> \o run_antivirus_scan
restore_quarantined_file ==
  <<Need("quarantine"), Is("quarantine", "there"), Has("quarantine"), Move("infected", "quarantine"),
    Update("quarantine", "restored")>>
delete_quarantined_file ==
  <<Need("quarantine")>> \o When(Is("quarantine", "deleted"), <<Raise>>)
    \o <<Drop("quarantine"), Update("quarantine", "deleted")>>
trigger_db_update ==
  Try(<<Drop("freshclam")>>) \o OrUndo(Reported(<<Put("signatures", Asked)>>), <<Put("freshclam", "running")>>)
    \o Try(<<Put("freshclam", "running")>>)

(* Monitoring: an incident for a service that fails, with the number of    *)
(* restarts; after three, or one that fails, it is escalated.              *)
auto_restart_if_needed ==
  Unless(Need("incident"), <<Add("incident", "open")>>)
    \o IfElse(Put("service", "up"),
              IfElse(Is("restarts", None), <<Update("restarts", "one")>>,
                     <<Update("restarts", "more"), Update("escalated", "yes")>>),
              <<Update("escalated", "yes")>>)
run_health_checks ==
  <<Add("check", "there")>> \o When(Lacks("service"), auto_restart_if_needed) \o <<Commit>>
acknowledge_anomaly == <<Need("anomaly"), Update("anomaly", "known")>>
check_anomalies     == <<Mint("anomaly"), Insert("anomaly", "there"), Commit>>
aggregate_domain_bandwidth ==
  <<Need("domain")>>
    \o Try(IfElse(Need("bandwidth"), <<Update("bandwidth", Asked)>>, <<Add("bandwidth", Asked)>>))
    \o <<Commit>>
\* Users over the limit are suspended, and nobody unsuspends them.
aggregate_reseller_bandwidth ==
  <<Need("limits"), Update("used", Asked)>>
    \o When(Is("used", Asked), Maybe(<<Need("user"), Update("suspended", "on")>>)) \o <<Commit>>
cleanup_old_health_checks == <<Clear("check"), Clear("anomaly"), Commit>>
collect_server_stats ==
  OrUndo(<<Put("metrics", Asked)>>, <<Spawn("collect_server_stats")>>) \o <<Add("stat", "there"), Commit>>
cleanup_old_stats == <<Clear("stat"), Commit>>

(* Integrations. *)
update_integration ==
  Unless(Need("integration"), <<Insert("integration", "off")>>) \o <<Rekey("config", Asked)>>
toggle_integration ==
  <<Need("integration")>> \o Either(<<Update("integration", "on")>>, <<Update("integration", "off")>>)
upload_backup_to_s3 ==
  <<Need("integration"), Is("integration", "on"), Need("backup"), Is("archive", "there")>>
    \o OrUndo(<<Has("archive"), Put("remote", "there")>>, <<Spawn("upload_backup_to_s3")>>)
    \o Maybe(Try(<<Drop("archive")>>))
\* A zone has no attribute "name": the task ends before it has asked for
\* anything, and so does the except clause that would retry it.
sync_cloudflare_dns ==
  <<Need("integration"), Is("integration", "on"), Need("zone"), Raise>>
dispatch_alert ==
  Maybe(Try(<<Put("telegram", "sent")>>)) \o Maybe(Try(<<Put("slack", "sent")>>))
    \o Maybe(Try(<<Put("discord", "sent")>>))
check_services_and_alert == When(Lacks("service"), dispatch_alert)
cleanup_s3_backups == <<Need("integration"), Is("integration", "on"), Drop("remote")>>

(* Certificates and notifications. *)
auto_renew_expiring_certs ==
  <<Need("cert")>> \o Try(<<Change("cert", Asked), Update("cert", Asked)>>) \o <<Commit>>
check_cert_expiry  == <<Need("cert"), Need("domain"), Spawn("send_notification")>>
send_expiry_alerts == check_cert_expiry
send_notification  == <<Add("notification", "there"), Commit>>
=============================================================================
