---------------------------------- MODULE Dns ----------------------------------
(***************************************************************************)
(* Zones, their records, DNSSEC, Cloudflare and the DNS cluster            *)
(* (routers/dns, services/bind_service and cloudflare_service,             *)
(* tasks/dns_cluster_tasks).  The names are the records of one zone; the   *)
(* thing of a record is its line in the zone file.  A row "zone" has the   *)
(* columns "dnssec" and "cloudflare".  Only on the system there are the    *)
(* "stanza" of the zone in named.conf.local, its "keys", the "signed"      *)
(* zone and the "mirror" that another name server has of it.               *)
(***************************************************************************)
EXTENDS Script

\* The expression that is to find the old stanza stops at the "};" of
\* allow-transfer, and with cluster addresses it finds nothing: what the
\* second write and the removal leave does not parse.
_ensure_named_conf_entry_sync ==
  IfElse(Has("stanza"), <<Put("stanza", "malformed")>>, <<Put("stanza", "plain")>>)
_remove_named_conf_entry_sync == When(Has("stanza"), <<Put("stanza", "malformed")>>)
_update_named_conf_for_signed_zone == When(Shows("stanza", "plain"), <<Put("stanza", "signed")>>)
_revert_named_conf_from_signed_zone == When(Shows("stanza", "signed"), <<Put("stanza", "plain")>>)

\* A reload that fails is reported and nothing else.
write_zone  == <<Put("zone", "there"), SaveAll("record")>> \o _ensure_named_conf_entry_sync
remove_zone == <<Drop("zone"), Wipe("record")>> \o _remove_named_conf_entry_sync
resign_zone == <<Has("zone"), Has("keys"), Copy("signed", "record")>>
enable_dnssec ==
  <<Has("zone"), Put("keys", "there"), Copy("signed", "record")>>
    \o _update_named_conf_for_signed_zone
disable_dnssec == <<Drop("signed"), Drop("keys")>> \o _revert_named_conf_from_signed_zone

_fetch_zone_records  == <<Collect("record")>>
_sync_zone_to_bind   == Try(write_zone)
_sync_signed_to_bind == IfElse(Is("dnssec", "on"), Try(write_zone \o resign_zone), Try(write_zone))
sync_dns_zone        == <<Mirror("cloud", "record")>>
_try_cf_sync         == When(Is("cloudflare", "on"), Try(sync_dns_zone))

create_zone ==
  <<Fresh("zone"), Room("zone"), Insert("zone", "there")>>
    \o _sync_zone_to_bind
\* The records go with the zone.
delete_zone ==
  <<Need("zone"), Clear("record"), Delete("zone")>> \o Try(remove_zone)

create_record ==
  <<Need("zone"), Add("record", Asked)>> \o _fetch_zone_records \o _sync_signed_to_bind \o _try_cf_sync
update_record ==
  <<Need("zone"), Need("record"), Update("record", Asked)>>
    \o _fetch_zone_records \o _sync_signed_to_bind \o _try_cf_sync
delete_record ==
  <<Need("zone"), Need("record"), Delete("record")>>
    \o _fetch_zone_records \o _sync_signed_to_bind \o _try_cf_sync

\* Neither is told that the zone is signed.
import_zone ==
  <<Need("zone"), Add("record", Asked)>> \o _fetch_zone_records \o _sync_zone_to_bind
cloudflare_import ==
  <<Need("zone"), Is("cloudflare", "on"), Add("record", Asked)>>
    \o _fetch_zone_records \o _sync_zone_to_bind

dnssec_enable ==
  <<Need("zone")>> \o Unless(Is("dnssec", None), <<Raise>>)
    \o _fetch_zone_records \o _sync_zone_to_bind \o enable_dnssec \o <<Update("dnssec", "on")>>
dnssec_disable ==
  <<Need("zone"), Is("dnssec", "on")>> \o disable_dnssec \o <<Update("dnssec", None)>>

cloudflare_enable  == <<Need("zone"), Rekey("cloudflare", "on")>>
cloudflare_disable == <<Need("zone"), Update("cloudflare", None)>>
cloudflare_sync ==
  <<Need("zone"), Is("cloudflare", "on")>> \o _fetch_zone_records \o sync_dns_zone
cloudflare_toggle_proxy ==
  <<Need("zone"), Need("record"), Is("cloudflare", "on"), Has("cloud"), Put("proxied", Asked)>>

add_cluster_node    == <<Fresh("node"), Insert("node", "there")>>
remove_cluster_node == <<Need("node"), Delete("node")>>
\* A node that does not answer is noted; the next run tries again.
push_zone_to_all_nodes == Try(<<Need("node"), Mirror("mirror", "record"), Commit>>)
trigger_cluster_sync   == _fetch_zone_records \o push_zone_to_all_nodes
verify_cluster_sync    == _fetch_zone_records \o Try(<<Need("node"), Mirror("mirror", "record")>>) \o <<Commit>>
\* The file and the stanza of a zone for which there may be no row.
receive_zone_from_cluster ==
  <<Put("zone", "there"), Put("record", Asked)>> \o _ensure_named_conf_entry_sync
=============================================================================
