-------------------------------- MODULE Network --------------------------------
(***************************************************************************)
(* The web application firewall, blocking by country, IP addresses,        *)
(* WireGuard and the hardening of sshd (routers/waf, ip_manager, wireguard *)
(* and security, services/geo_service and wireguard_service,               *)
(* tasks/waf_tasks).  They have no rows: what they keep are files.         *)
(***************************************************************************)
EXTENDS Script

(* The firewall of a domain.  "meta" (is it on) and "mode" are one file of *)
(* JSON, which is read first and written later; "waf" is the configuration *)
(* that the vhost includes, "waf_mode" the mode it was written with, and   *)
(* "served" what nginx has loaded.                                         *)
_generate_waf_conf(mode) == <<Put("waf", "there"), mode>>
_nginx_test_and_reload  == <<Copy("served", "include")>>
_add_waf_to_vhost ==
  <<Has("vhost")>> \o Unless(Has("include"), <<Put("include", "there")>>)
_remove_waf_from_vhost ==
  <<Has("vhost")>> \o When(Has("include"), <<Drop("include")>>)

\* Nothing is undone when nginx refuses the configuration.
_impl_enable ==
  <<Read("meta")>> \o _generate_waf_conf(Mirror("waf_mode", "mode"))
    \o Unless(Has("custom"), <<Put("custom", "there")>>)
    \o _add_waf_to_vhost \o <<Save("meta", "on")>> \o _nginx_test_and_reload
\* Mutant of _impl_disable: nginx is not reloaded.
Mutant_impl_disable == _remove_waf_from_vhost \o <<Read("meta"), Save("meta", None)>>
_impl_disable ==
  _remove_waf_from_vhost \o <<Read("meta"), Save("meta", None)>> \o _nginx_test_and_reload
_impl_add_rule ==
  <<Make("custom", "there"), Put("rule", Asked), Read("meta")>>
    \o When(Listed("meta"), _generate_waf_conf(Mirror("waf_mode", "mode")) \o _nginx_test_and_reload)
_impl_delete_rule ==
  <<Has("custom"), Change("rule", None), Read("meta")>>
    \o When(Listed("meta"), _generate_waf_conf(Mirror("waf_mode", "mode")) \o _nginx_test_and_reload)
\* Mutant of _impl_set_mode: the rules are written when it is next enabled.
Mutant_impl_set_mode == <<Read("meta"), Save("mode", Asked)>>
_impl_set_mode ==
  <<Read("meta"), Save("mode", Asked)>>
    \o When(Listed("meta"), _generate_waf_conf(Put("waf_mode", Asked)) \o _nginx_test_and_reload)

(* Countries.  The state has a line per country; the configuration of      *)
(* nginx is written from the state that is in memory, or removed when no   *)
(* rule is left, and removed again when nginx refuses it.                  *)
_write_and_reload ==
  OrUndo(<<Mirror("geo_conf", "geo"), Copy("geo_served", "geo_conf")>>,
         <<Wipe("geo_conf"), Copy("geo_served", "geo_conf")>>)
add_rule    == <<Read("geo"), Save("geo", Asked)>> \o _write_and_reload
remove_rule == <<Read("geo"), Listed("geo"), Save("geo", None)>> \o _write_and_reload
set_mode ==
  <<Read("geo")>> \o IfElse(Listed("geo"), <<SaveAll("geo")>> \o _write_and_reload,
                                           <<SaveAll("geo")>>)
update_database       == <<Put("geodb", Asked), Copy("geo_served", "geo_conf")>>
\* A run that fails is retried; the reload is reported.
update_geoip_database ==
  OrUndo(<<Put("geodb", Asked)>>, <<Spawn("update_geoip_database")>>)
    \o Try(<<Copy("geo_served", "geo_conf")>>)

(* Addresses and rules of ufw. *)
add_ip_address    == <<New("address", "there")>>
remove_ip_address == <<Change("address", None)>>
block_ip          == <<Put("deny", "there")>>
unblock_ip        == <<Change("deny", None)>>
whitelist_ip      == <<Put("allow", "there")>>

(* WireGuard: wg syncconf makes the interface what the file says.  A peer  *)
(* is appended to the file; to delete one the file is written as a whole.  *)
_reload_interface == <<Read("peer"), Mirror("interface", "peer")>>
create_peer == <<Put("peer", "there")>> \o _reload_interface
delete_peer ==
  <<Has("interface"), Read("peer")>>
    \o When(Listed("peer"), <<Save("peer", None)>> \o _reload_interface)

(* sshd: the candidate is a fixed name in /tmp, tested before it is moved  *)
(* over the configuration; the restart is reported.                        *)
\* Mutant of ssh_harden: the candidate is not tested.
Mutant_ssh_harden ==
  <<Has("sshd")>> \o Try(<<Copy("sshd_backup", "sshd")>>)
    \o Either(<<Put("candidate", "valid")>>, <<Put("candidate", "broken")>>)
    \o <<Move("sshd", "candidate")>> \o Try(<<Copy("sshd_running", "sshd")>>)
ssh_harden ==
  <<Has("sshd")>> \o Try(<<Copy("sshd_backup", "sshd")>>)
    \o Either(<<Put("candidate", "valid")>>, <<Put("candidate", "broken")>>)
    \o When(Shows("candidate", "broken"), <<Drop("candidate"), Raise>>)
    \o <<Move("sshd", "candidate")>> \o Try(<<Copy("sshd_running", "sshd")>>)
apply_updates == <<Put("packages", Asked)>>
=============================================================================
