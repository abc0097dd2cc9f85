-------------------------------- MODULE Storage --------------------------------
(***************************************************************************)
(* Where copies of backups go (services/s3_service, sftp_service and       *)
(* rclone_service): the things "s3", "sftp" and "rclone" are the copies of *)
(* a backup there, under the same key.  Only files are taken there.        *)
(***************************************************************************)
EXTENDS Script

uploaded(store) == <<Shows("archive", "there"), Put(store, "there")>>

s3_upload_backup   == uploaded("s3")
s3_download_backup == <<Has("s3"), Put("download", "there")>>
s3_delete_backup   == <<Drop("s3")>>
\* The oldest ones of the bucket, whosever they are.
s3_cleanup_old_backups == Maybe(Try(s3_delete_backup))

_ensure_remote_dir == Try(<<Make("sftp_dir", "there")>>)
sftp_upload_backup      == <<Shows("archive", "there")>> \o _ensure_remote_dir \o uploaded("sftp")
sftp_upload_backup_sync == sftp_upload_backup
rclone_upload_backup      == uploaded("rclone")
rclone_upload_backup_sync == rclone_upload_backup
\* Only files at the top are listed, and what the panel uploads is in
\* backups/<user>: these two never find a copy of a backup.
sftp_cleanup_old_backups_sync   == Maybe(Try(<<Drop("sftp_top")>>))
rclone_cleanup_old_backups_sync == Maybe(Try(<<Drop("rclone_top")>>))
=============================================================================
