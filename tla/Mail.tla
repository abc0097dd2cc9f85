--------------------------------- MODULE Mail ---------------------------------
(***************************************************************************)
(* Mailboxes, aliases, catch-all addresses, sieve scripts and mailing      *)
(* lists (routers/email, mailing_lists and email_auth, services/mail_ops,  *)
(* the list and DKIM functions of agent/executors/mail_executor).          *)
(*                                                                         *)
(* A row "mailbox" has the columns "password" (a line of virtual_users),   *)
(* "ratelimit" (a line of ratelimits), "spam" and "away" (files of the     *)
(* mailbox) and "limits".  Aliases, catch-all addresses and lists share    *)
(* the file virtual_aliases.  The thing "active" is the link to the one sieve script  *)
(* Dovecot runs.  The functions of mail_ops never raise, and the handlers  *)
(* log what they return: hence the Trys.                                   *)
(***************************************************************************)
EXTENDS Script

\* A line that is there keeps its password.
create_mailbox_direct ==
  <<Read("password")>>
    \o Unless(Listed("password"), <<Save("password", Asked), Make("maildir", "there")>>)
set_password_direct    == <<Read("password"), Listed("password"), Save("password", Asked)>>
delete_mailbox_direct  == <<Read("password"), Save("password", None)>>
configure_ratelimit_direct == <<Read("ratelimit"), Save("ratelimit", Asked)>>

create_mailbox ==
  <<Fresh("mailbox"), Room("mailbox"), Insert("mailbox", "there"), Rekey("password", Asked)>>
    \o Try(create_mailbox_direct)
change_password ==
  <<Need("mailbox"), Rekey("password", Asked)>> \o Try(set_password_direct)
\* remove_directory is False: the mail stays, and so do the other files.
delete_mailbox ==
  <<Need("mailbox"), Delete("mailbox")>> \o Try(delete_mailbox_direct)
\* The quota and is_active are columns only: the line is not rewritten.
update_mailbox == <<Need("mailbox"), Update("limits", Asked)>>
update_rate_limit ==
  <<Need("mailbox"), Update("ratelimit", Asked)>> \o Try(configure_ratelimit_direct)

get_quota          == <<Need("mailbox"), Update("usage", Found)>>
update_quota_usage == <<Need("mailbox"), Update("usage", Found), Commit>>

create_alias_direct == <<Read("alias"), Save("alias", Asked)>>
delete_alias_direct == <<Read("alias"), Save("alias", None)>>
configure_catch_all_direct == <<Read("catch_all"), Save("catch_all", Asked)>>
remove_catch_all_direct    == <<Read("catch_all"), Save("catch_all", None)>>

create_alias ==
  <<Fresh("alias"), Insert("alias", Asked)>> \o Try(create_alias_direct)
\* An alias may also be named that is in the file and has no row.
delete_alias ==
  When(Need("alias"), <<Delete("alias")>>) \o Try(delete_alias_direct)
set_catch_all ==
  <<Need("domain"), Update("catch_all", Asked)>> \o Try(configure_catch_all_direct)
delete_catch_all ==
  <<Need("domain"), Update("catch_all", None)>> \o Try(remove_catch_all_direct)

\* The filters and the autoresponder take the link from each other.
write_sieve_filters_direct ==
  Either(<<Drop("filters")>> \o When(Shows("active", "filters"), <<Drop("active")>>),
         <<Put("filters", Asked), Drop("active"), Put("active", "filters")>>)
disable_autoresponder_direct ==
  <<Drop("away")>> \o When(Shows("active", "away"), <<Drop("active")>>)
configure_autoresponder_direct ==
  <<Put("away", Asked), Drop("active"), Put("active", "away")>>

save_sieve_filters  == <<Need("mailbox")>> \o Try(write_sieve_filters_direct)
update_autoresponder ==
  <<Need("mailbox")>>
    \o Either(<<Update("away", Asked)>> \o Try(configure_autoresponder_direct),
              <<Update("away", None)>> \o Try(disable_autoresponder_direct))
disable_autoresponder ==
  <<Need("mailbox"), Update("away", None)>> \o Try(disable_autoresponder_direct)

configure_spam_filter_direct ==
  <<Put("spam", Asked)>> \o Either(<<Drop("spam_sieve")>>, <<Put("spam_sieve", "there")>>)
update_spam_settings ==
  <<Need("mailbox"), Update("spam", Asked)>> \o Try(configure_spam_filter_direct)

\* A list has a line while it is active.
_remove_alias_line == <<Read("list"), Save("list", None)>>
configure_mailing_list_aliases ==
  IfElse(Is("list", "off"), _remove_alias_line, <<Read("list"), Save("list", Kept)>>)
remove_mailing_list_aliases == _remove_alias_line

create_mailing_list ==
  <<Need("domain"), Fresh("list"), Insert("list", Asked)>> \o Try(configure_mailing_list_aliases)
update_mailing_list ==
  <<Need("list")>> \o Either(<<Update("list", Asked)>>, <<Update("list", "off")>>)
    \o Try(configure_mailing_list_aliases)
delete_mailing_list ==
  <<Need("list")>> \o Try(remove_mailing_list_aliases) \o <<Delete("list")>>

\* The members of a list are rows; its line is written from the members
\* that were loaded at the beginning, with the change made to them.
_sync_exim_aliases(member) == Try(<<Save("member", member)>>)
add_members ==
  <<Collect("member")>>
    \o Unless(Listed("member"), <<Add("member", "there")>> \o _sync_exim_aliases("there"))
remove_member ==
  <<Collect("member"), Need("member"), Delete("member")>> \o _sync_exim_aliases(None)

\* The three tables of opendkim are written one after the other; the key is
\* a new one each time.
enlist(t)  == <<Read(t)>> \o Unless(Listed(t), <<Save(t, "there")>>)
setup_dkim == <<Put("key", Asked)>> \o enlist("keytable") \o enlist("signing") \o enlist("trusted")
setup_rspamd == enlist("rspamd")
=============================================================================
