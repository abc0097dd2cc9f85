-------------------------------- MODULE Apache --------------------------------
(***************************************************************************)
(* Domains behind Apache (services/apache_service and what routers/domains *)
(* makes of it).  SiteConfig has their rows beside those of nginx; here    *)
(* are the steps.  The row "vhost" is what the columns of the domain ask   *)
(* for, the thing the file in sites-available, "link" the one in           *)
(* sites-enabled, "served" what Apache has loaded.                         *)
(***************************************************************************)
EXTENDS Script

_build_http_vhost       == "plain"
_build_http_vhost_proxy == "proxy"
_build_ssl_vhost        == "ssl"

\* What goes wrong in these three is a warning.
_ensure_modules     == Try(<<Make("modules", "there")>>)
_ensure_listen_port == Try(<<Make("listen", "there")>>)
\* configtest refuses a link to nothing.
_apache_test_and_reload ==
  Try(IfElse(Has("link"), <<Has("vhost"), Copy("served", "vhost")>>, <<Drop("served")>>))

enabled(config) ==
  <<Put("vhost", config)>> \o Try(<<Put("link", "there")>>) \o _apache_test_and_reload
create_vhost ==
  _ensure_modules \o Try(<<Make("docroot", "there")>>) \o Try(<<Make("index", "there")>>)
    \o enabled(_build_http_vhost)
create_vhost_proxy_mode ==
  _ensure_modules \o _ensure_listen_port \o Try(<<Make("docroot", "there")>>)
    \o enabled(_build_http_vhost_proxy)
\* A vhost for the port behind nginx is replaced by one for port 80.
update_vhost_php ==
  <<Has("vhost")>>
    \o IfElse(Is("vhost", "ssl"), <<Put("vhost", _build_ssl_vhost)>>, <<Put("vhost", _build_http_vhost)>>)
    \o _apache_test_and_reload
delete_vhost == Try(<<Drop("link")>>) \o Try(<<Drop("vhost")>>) \o _apache_test_and_reload
issue_letsencrypt == <<Put("cert", "there")>>
apply_ssl == _ensure_modules \o <<Put("vhost", _build_ssl_vhost)>> \o _apache_test_and_reload

create_domain ==
  <<Fresh("domain"), Insert("domain", "there"), Update("vhost", "plain")>> \o Try(create_vhost)
create_proxied_domain ==
  <<Fresh("domain"), Insert("domain", "there"), Update("vhost", "proxy")>> \o Try(create_vhost_proxy_mode)
\* Only a new version of PHP, template or text is written to the file.
update_domain == <<Need("domain")>> \o Maybe(<<Rekey("domain", "there")>> \o Try(update_vhost_php))
enable_ssl    == <<Need("domain")>> \o issue_letsencrypt \o apply_ssl \o <<Update("vhost", "ssl")>>
delete_domain == <<Need("domain")>> \o delete_vhost \o <<Delete("domain")>>
=============================================================================
