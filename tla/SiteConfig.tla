----------------------------- MODULE SiteConfig -----------------------------
(***************************************************************************)
(* The domains of the panel: the rows of the domains table and of the      *)
(* tables that hang off it (redirects, directory privacy, certificates,    *)
(* DNS zone and A records), the vhost files under sites-available and      *)
(* their links in sites-enabled, the Apache vhosts, and the configuration  *)
(* nginx is running.                                                       *)
(*                                                                         *)
(* Every endpoint of api/routers/domains.py, redirects.py,                 *)
(* directory_privacy.py and ssl.py that changes one of these is an action. *)
(* A handler runs alone from its first query to its commit here: two       *)
(* handlers of domains at once are not modelled.                           *)
(***************************************************************************)
EXTENDS Naturals, FiniteSets

CONSTANTS
    Names,            \* domain names
    NoName,           \* not a name
    Parent,           \* the name a subdomain is created under, or NoName
    Webservers,       \* webservers a request may ask for
    Templates,        \* nginx templates a request may ask for
    Customs,          \* custom_nginx_config a request may carry
    Uploads,          \* kinds of certificate text a request may upload
    Features,         \* settings a request may switch
    SwitchWebserver   \* whether a PUT may change Domain.webserver

ASSUME NamesAssumption == /\ NoName \notin Names
                          /\ Parent \in [Names -> Names \cup {NoName}]
ASSUME InputsAssumption ==
    /\ Webservers \subseteq {"nginx", "apache", "nginx_apache"}
    /\ Templates \subseteq {"default", "wordpress", "static", "proxy"}
    /\ Customs \subseteq {"none", "good", "bad"}
    /\ Uploads \subseteq {"custom", "junk"}
    /\ Features \subseteq {"php", "cache", "hotlink", "errors", "redirect", "auth"}
    /\ SwitchWebserver \in BOOLEAN

VARIABLES
    domains,    \* names that have a row in the domains table
    row,        \* the columns of those rows
    certRows,   \* rows of ssl_certificates of a domain: 0, 1 or 2 for more
    zones,      \* names that have a DNS zone
    aRecords,   \* subdomain names with an A record in their parent's zone
    certs,      \* certificates on disk
    nginx,      \* sites-available: the vhost file of a name, or Absent
    enabled,    \* names linked in sites-enabled
    live,       \* what the running nginx has loaded for a name, or Absent
    apache      \* the Apache vhost of a name

db   == <<domains, row, certRows, zones, aRecords>>
disk == <<certs, nginx, enabled, live, apache>>
vars == <<domains, row, certRows, zones, aRecords, certs, nginx, enabled, live, apache>>

-----------------------------------------------------------------------------
(* Types.                                                                  *)

Webserver == {"nginx", "apache", "nginx_apache"}
Template  == {"default", "wordpress", "static", "proxy"}
Custom    == {"none", "good", "bad"}   \* "bad": nginx -t refuses it
Feature   == {"php", "cache", "hotlink", "errors", "redirect", "auth"}
Cert      == {"le", "custom", "junk"}  \* "junk": uploaded, not a certificate
CertRef   == Cert \cup {"none"}

\* on: the settings that are not at their default.  "redirect" and "auth" stand
\* for an active row of redirects and for an active directory-privacy rule with
\* a user; they are rows of their own that die with the domain row.
Row == [webserver : Webserver, template : Template, custom : Custom,
        ssl : BOOLEAN, cert : CertRef, on : SUBSET Feature, sub : BOOLEAN]

Vhost  == [template : Template, custom : Custom, cert : CertRef, on : SUBSET Feature]
Absent == [template |-> "default", custom |-> "none", cert |-> "none",
           on |-> {"absent"}]

NewRow(ws, tpl, cust, cert, sub) ==
    [webserver |-> ws, template |-> tpl, custom |-> cust,
     ssl |-> cert # "none", cert |-> cert, on |-> {}, sub |-> sub]

\* the row with other ssl_enabled and ssl_cert_path columns
WithCert(r, ssl, cert) ==
    [webserver |-> r.webserver, template |-> r.template, custom |-> r.custom,
     ssl |-> ssl, cert |-> cert, on |-> r.on, sub |-> r.sub]

-----------------------------------------------------------------------------
(* What each writer of a vhost hands to render_vhost.                      *)

\* The settings of the row that a call passes; all others take the default of
\* the keyword argument, that is, they are rendered as switched off.
PassedBy == [update_domain      |-> {"php"},
             update_subdomain   |-> {"php"},
             apply_ssl          |-> {"php"},
             update_cache       |-> {"php", "cache"},
             update_hotlink     |-> {"php", "cache", "hotlink"},
             update_error_pages |-> {"php", "cache", "errors"},
             redirects          |-> {"php", "cache", "redirect"},
             directory_privacy  |-> {"php", "cache", "auth"}]

\* The settings a template has a place for.
Renders(tpl) ==
    IF tpl \in {"default", "wordpress"} THEN Feature
                                        ELSE {"errors", "redirect", "auth"}

render_vhost(tpl, cust, cert, on) ==
    [template |-> tpl, custom |-> cust, cert |-> cert, on |-> on \cap Renders(tpl)]

TemplateOf(r) == IF r.webserver = "nginx" THEN r.template ELSE "proxy"
\* ssl=ssl_enabled and bool(cert_path and key_path)
CertOf(r)     == IF r.ssl THEN r.cert ELSE "none"

\* The vhost a writer renders from a row.
VhostFor(r, writer) ==
    render_vhost(TemplateOf(r), r.custom, CertOf(r), r.on \cap PassedBy[writer])

-----------------------------------------------------------------------------
(* nginx_service: nginx -t reads what sites-enabled links to, and only a   *)
(* reload that follows a passing test changes what is served.              *)

Loads(file, n, ondisk) ==
    /\ file # Absent
    /\ file.custom # "bad"
    /\ file.cert # "junk"
    /\ file.cert = "none" \/ <<n, file.cert>> \in ondisk

nginx_test(files, links, ondisk) == \A n \in links : Loads(files[n], n, ondisk)

Loaded(files, links) == [n \in Names |-> IF n \in links THEN files[n] ELSE Absent]

\* _nginx_test_and_reload on the state a handler leaves behind
Reload == live' = IF nginx_test(nginx', enabled', certs')
                  THEN Loaded(nginx', enabled') ELSE live

WriteVhost(n, v) == /\ nginx' = [nginx EXCEPT ![n] = v]
                    /\ Reload

\* _validate_custom_config puts the candidate in place, runs nginx -t, and
\* restores the file; it is only called when there is custom text to check.
Rejected(n, v) ==
    /\ v.custom # "none" \/ "redirect" \in v.on
    /\ ~ nginx_test([nginx EXCEPT ![n] = v], enabled, certs)

\* update_vhost raises when there is no file or the candidate is rejected;
\* the callers swallow that.
Raises(n, v) == nginx[n] = Absent \/ Rejected(n, v)

update_vhost(n, v) ==
    IF Raises(n, v) THEN UNCHANGED <<nginx, live>> ELSE WriteVhost(n, v)

create_vhost(n, v) ==
    IF Rejected(n, v)
    THEN UNCHANGED <<nginx, enabled, live>>
    ELSE /\ enabled' = enabled \cup {n}
         /\ WriteVhost(n, v)

\* Mutants of delete_vhost: the configuration is not reloaded; only the file is
\* removed, and its link stays.
Mutant_delete_vhost(n) == /\ enabled' = enabled \ {n}
                          /\ nginx' = [nginx EXCEPT ![n] = Absent]
                          /\ UNCHANGED live
Mutant_delete_vhost_link(n) == UNCHANGED enabled /\ WriteVhost(n, Absent)

delete_vhost(n) == /\ enabled' = enabled \ {n}
                   /\ WriteVhost(n, Absent)

\* The "if ws in ("nginx", "nginx_apache")" that guards most regenerations.
HasNginx(r)  == r.webserver \in {"nginx", "nginx_apache"}
HasApache(r) == r.webserver \in {"apache", "nginx_apache"}

Regenerate(n, r, writer) ==
    IF HasNginx(r) THEN update_vhost(n, VhostFor(r, writer))
                   ELSE UNCHANGED <<nginx, live>>

-----------------------------------------------------------------------------
Init ==
    /\ domains = {} /\ zones = {} /\ aRecords = {} /\ certs = {} /\ enabled = {}
    /\ row = [n \in Names |-> NewRow("nginx", "default", "none", "none", FALSE)]
    /\ certRows = [n \in Names |-> 0]
    /\ nginx = [n \in Names |-> Absent]
    /\ live = [n \in Names |-> Absent]
    /\ apache = [n \in Names |-> "none"]

\* POST /domains
create_domain(n, ws, tpl, cust) ==
    LET r == NewRow(ws, tpl, cust, "none", FALSE) IN
    /\ n \notin domains
    /\ domains' = domains \cup {n}
    /\ row' = [row EXCEPT ![n] = r]
    /\ zones' = zones \cup {n}
    /\ apache' = CASE ws = "nginx"        -> apache
                   [] ws = "apache"       -> [apache EXCEPT ![n] = "plain"]
                   [] ws = "nginx_apache" -> [apache EXCEPT ![n] = "proxy"]
    /\ UNCHANGED <<certRows, aRecords, certs>>
    /\ IF HasNginx(r)
       THEN create_vhost(n, VhostFor(r, "update_domain"))
       ELSE UNCHANGED <<nginx, enabled, live>>

\* POST /domains/{id}/subdomains.  ssl: enable_ssl was asked for and certbot
\* succeeded; apply_ssl_to_nginx then runs whatever the parent's webserver is.
create_subdomain(n, ssl) ==
    LET p == Parent[n]
        r == NewRow(row[p].webserver, row[p].template, "none",
                    IF ssl THEN "le" ELSE "none", TRUE)
    IN
    /\ p \in domains
    /\ n \notin domains
    /\ domains' = domains \cup {n}
    /\ row' = [row EXCEPT ![n] = r]
    /\ aRecords' = IF p \in zones THEN aRecords \cup {n} ELSE aRecords
    /\ certs' = IF ssl THEN certs \cup {<<n, "le">>} ELSE certs
    /\ apache' = IF r.webserver = "apache" THEN [apache EXCEPT ![n] = "plain"] ELSE apache
    /\ enabled' = IF HasNginx(r) THEN enabled \cup {n} ELSE enabled
    /\ IF HasNginx(r) \/ ssl
       THEN WriteVhost(n, VhostFor(r, "apply_ssl"))
       ELSE UNCHANGED <<nginx, live>>
    /\ UNCHANGED <<certRows, zones>>

\* PUT /domains/{id}: every column of DomainUpdate, any of them in one request.
\* The vhosts are rewritten only for a new php version, template or custom text.
update_domain(n, new) ==
    LET old   == row[n]
        regen == \/ ("php" \in new.on) # ("php" \in old.on)
                 \/ new.template # old.template
                 \/ new.custom # old.custom
        v     == VhostFor(new, "update_domain")
        \* one try block: an exception from nginx skips the Apache call
        reachesApache == regen /\ HasApache(new) /\ (HasNginx(new) => ~ Raises(n, v))
    IN
    /\ n \in domains
    /\ new.webserver = old.webserver \/ SwitchWebserver
    /\ row' = [row EXCEPT ![n] = new]
    /\ UNCHANGED <<domains, certRows, zones, aRecords, certs, enabled>>
    /\ IF regen THEN Regenerate(n, new, "update_domain") ELSE UNCHANGED <<nginx, live>>
    /\ apache' = IF reachesApache /\ apache[n] # "none"
                 THEN [apache EXCEPT ![n] =
                         IF new.webserver = "apache" /\ CertOf(new) # "none"
                         THEN "ssl" ELSE "plain"]
                 ELSE apache

\* PUT /domains/{id}/subdomains/{sub_id}; document_root alone also regenerates,
\* and custom_nginx_config is not passed.
update_subdomain(n, php) ==
    LET on == IF php THEN row[n].on \cup {"php"} ELSE row[n].on \ {"php"} IN
    /\ n \in domains /\ row[n].sub
    /\ row' = [row EXCEPT ![n] = [row[n] EXCEPT !.on = on]]
    /\ UNCHANGED <<domains, certRows, zones, aRecords, certs, enabled, apache>>
    /\ Regenerate(n, [row[n] EXCEPT !.on = on, !.custom = "none"], "update_subdomain")

\* The rows that go with a row: subdomains cascades, and so do theirs.
Children(S)  == {m \in domains : row[m].sub /\ Parent[m] \in S}
Cascade(n)   == {m \in domains :
                   \A S \in SUBSET domains : (n \in S /\ Children(S) \subseteq S) => m \in S}

DeleteRows(n) == /\ domains' = domains \ Cascade(n)
                 /\ certRows' = [m \in Names |-> IF m \in Cascade(n) THEN 0 ELSE certRows[m]]

\* Only the vhosts of the row's present webserver are removed.
DeleteVhosts(n) ==
    /\ apache' = IF HasApache(row[n]) THEN [apache EXCEPT ![n] = "none"] ELSE apache
    /\ IF HasNginx(row[n]) THEN delete_vhost(n) ELSE UNCHANGED <<nginx, enabled, live>>

\* DELETE /domains/{id}; the zone survives (domain_id is set to NULL)
delete_domain(n) ==
    /\ n \in domains
    /\ UNCHANGED <<row, zones, aRecords, certs>>
    /\ DeleteVhosts(n)
    /\ DeleteRows(n)

\* DELETE /domains/{id}/subdomains/{sub_id}
delete_subdomain(n) ==
    /\ n \in domains /\ row[n].sub
    /\ UNCHANGED <<row, zones, certs>>
    /\ DeleteVhosts(n)
    /\ DeleteRows(n)
    /\ aRecords' = IF Parent[n] \in zones THEN aRecords \ {n} ELSE aRecords

\* POST /domains/{id}/enable-ssl, certbot having left the given files on disk.
\* The write does not ask whether the vhost is there, validates nothing and
\* creates no link.
EnableSslWith(n, cert, ondisk) ==
    LET r == WithCert(row[n], TRUE, cert) IN
    /\ n \in domains
    /\ certs' = certs \cup ondisk
    /\ row' = [row EXCEPT ![n] = r]
    /\ UNCHANGED <<domains, certRows, zones, aRecords, enabled>>
    /\ IF r.webserver = "apache"
       THEN apache' = [apache EXCEPT ![n] = "ssl"] /\ UNCHANGED <<nginx, live>>
       ELSE UNCHANGED apache /\ WriteVhost(n, VhostFor(r, "apply_ssl"))

\* Mutants of enable_ssl: a failed certbot goes unnoticed; the paths are read back
\* from the row instead of from certbot's answer.
Mutant_enable_ssl_unchecked(n) == EnableSslWith(n, "le", {})
Mutant_enable_ssl_row_path(n)  == EnableSslWith(n, row[n].cert, {<<n, row[n].cert>>})

\* A certbot failure is an HTTP 500 before anything changed.
enable_ssl(n) == EnableSslWith(n, "le", {<<n, "le">>})

\* ssl.py calls apply_ssl_to_nginx with the template and custom text defaulted,
\* and for every webserver.
InstallCert(n, cert) ==
    /\ n \in domains
    /\ certs' = certs \cup {<<n, cert>>}
    /\ UNCHANGED <<domains, zones, aRecords, enabled, apache>>
    /\ WriteVhost(n, render_vhost("default", "none", cert, row[n].on \cap {"php"}))

AddCertRow(n) == certRows' = [certRows EXCEPT ![n] = IF @ = 0 THEN 1 ELSE 2]

\* POST /ssl/issue/{id} (a certbot failure rolls the request back)
issue_certificate(n) ==
    /\ InstallCert(n, "le")
    /\ row' = [row EXCEPT ![n] = WithCert(row[n], TRUE, "le")]
    /\ AddCertRow(n)

\* POST /ssl/install/{id}: the text is written out as it came
install_custom_certificate(n, cert) ==
    /\ InstallCert(n, cert)
    /\ row' = [row EXCEPT ![n] = WithCert(row[n], TRUE, cert)]
    /\ AddCertRow(n)

\* POST /ssl/renew/{id}: scalar_one_or_none, so 404 without a row and an
\* exception with more than one; ssl_enabled is left as it is.
renew_certificate(n) ==
    /\ certRows[n] = 1
    /\ InstallCert(n, "le")
    /\ row' = [row EXCEPT ![n] = WithCert(row[n], row[n].ssl, "le")]
    /\ UNCHANGED certRows

\* The endpoints that switch one setting and regenerate the vhost with the
\* settings that writer passes.
Switch(n, f, b, writer) ==
    LET on == IF b THEN row[n].on \cup {f} ELSE row[n].on \ {f} IN
    /\ n \in domains
    /\ row' = [row EXCEPT ![n] = [row[n] EXCEPT !.on = on]]
    /\ UNCHANGED <<domains, certRows, zones, aRecords, certs, enabled, apache>>
    /\ Regenerate(n, [row[n] EXCEPT !.on = on], writer)

update_cache(n, b)       == Switch(n, "cache", b, "update_cache")
update_hotlink(n, b)     == Switch(n, "hotlink", b, "update_hotlink")
\* Mutant of update_error_pages: an empty mapping does not regenerate.
Mutant_update_error_pages(n, b) ==
    IF b THEN Switch(n, "errors", b, "update_error_pages")
    ELSE /\ n \in domains
         /\ row' = [row EXCEPT ![n].on = @ \ {"errors"}]
         /\ UNCHANGED <<domains, certRows, zones, aRecords, disk>>

update_error_pages(n, b) == Switch(n, "errors", b, "update_error_pages")

\* POST, PUT and DELETE /domains/{id}/redirects: the row, then
\* _regenerate_nginx_for_domain
redirects(n, b)          == Switch(n, "redirect", b, "redirects")

\* The directory-privacy endpoints that call _sync_htpasswd_and_nginx:
\* sync_directory_privacy writes without validating.
directory_privacy(n, b) ==
    LET on == IF b THEN row[n].on \cup {"auth"} ELSE row[n].on \ {"auth"}
        r  == [row[n] EXCEPT !.on = on]
    IN
    /\ n \in domains
    /\ row' = [row EXCEPT ![n] = r]
    /\ UNCHANGED <<domains, certRows, zones, aRecords, certs, enabled, apache>>
    /\ IF HasNginx(r) /\ nginx[n] # Absent
       THEN WriteVhost(n, VhostFor(r, "directory_privacy"))
       ELSE UNCHANGED <<nginx, live>>

\* POST /domains/{id}/cache/purge ends in a reload
purge_cache(n) ==
    /\ n \in domains /\ "cache" \in row[n].on
    /\ UNCHANGED <<domains, row, certRows, zones, aRecords, certs, nginx, enabled, apache>>
    /\ Reload

-----------------------------------------------------------------------------
\* The rows a PUT /domains/{id} can leave: the cache columns are among
\* DomainUpdate's, those of the other endpoints are not.
Updated(r) ==
    {[webserver |-> ws, template |-> tpl, custom |-> cust,
      ssl |-> ssl, cert |-> r.cert, on |-> on, sub |-> r.sub] :
        ws \in Webservers \cup {r.webserver}, tpl \in Templates \cup {r.template},
        cust \in Customs \cup {r.custom}, ssl \in BOOLEAN,
        on \in {o \in SUBSET (r.on \cup (Features \cap {"php", "cache"})) :
                    r.on \ {"php", "cache"} \subseteq o}}

CreateNext(n) ==
    \/ \E ws \in Webservers, tpl \in Templates, cust \in Customs :
          create_domain(n, ws, tpl, cust)
    \/ \E ssl \in BOOLEAN : create_subdomain(n, ssl)

UpdateNext(n) ==
    \/ \E new \in Updated(row[n]) : update_domain(n, new)
    \/ \E b \in BOOLEAN :
          \/ /\ b = ("php" \in row[n].on) \/ "php" \in Features
             /\ update_subdomain(n, b)
          \/ "cache" \in Features /\ update_cache(n, b)
          \/ "hotlink" \in Features /\ update_hotlink(n, b)
          \/ "errors" \in Features /\ update_error_pages(n, b)
          \/ "redirect" \in Features /\ redirects(n, b)
          \/ "auth" \in Features /\ directory_privacy(n, b)
    \/ purge_cache(n)

SslNext(n) == \/ enable_ssl(n)
              \/ issue_certificate(n)
              \/ \E cert \in Uploads : install_custom_certificate(n, cert)
              \/ renew_certificate(n)

DeleteNext(n) == delete_domain(n) \/ delete_subdomain(n)

Next == \E n \in Names : CreateNext(n) \/ UpdateNext(n) \/ SslNext(n) \/ DeleteNext(n)

Spec == Init /\ [][Next]_vars

-----------------------------------------------------------------------------
(* Properties.                                                             *)

\* Every variable has its type (models/domains.py and the two file trees).
TypeOK ==
    /\ domains \subseteq Names
    /\ row \in [Names -> Row]
    /\ certRows \in [Names -> 0..2]
    /\ zones \subseteq Names
    /\ aRecords \subseteq Names
    /\ certs \subseteq Names \X Cert
    /\ nginx \in [Names -> Vhost \cup {Absent}]
    /\ enabled \subseteq Names
    /\ live \in [Names -> Vhost \cup {Absent}]
    /\ apache \in [Names -> {"none", "plain", "proxy", "ssl"}]

\* No vhost file, no served vhost and no row names a certificate that is not on
\* disk: nginx -t refuses such a file, and with it every later reload of every
\* domain.  Four writers put certificates into vhosts and five others copy
\* ssl_cert_path out of the row.
CertsOnDisk ==
    \A n \in Names :
        /\ nginx[n].cert # "none" => <<n, nginx[n].cert>> \in certs
        /\ live[n].cert # "none" => <<n, live[n].cert>> \in certs
        /\ row[n].cert # "none" => <<n, row[n].cert>> \in certs

\* Whenever the files linked in sites-enabled would pass nginx -t, nginx is
\* serving exactly them: no handler leaves a good file behind that is not loaded
\* (also after a bad file of another domain has been repaired or deleted).
ServesTheFiles == nginx_test(nginx, enabled, certs) => live = Loaded(nginx, enabled)

\* nginx -t may refuse whatever is written for n: for n's own text or certificate,
\* or for a file of another name.
Refusable(n) == \/ row'[n].custom = "bad" \/ row'[n].cert = "junk"
                \/ ~ nginx_test(nginx, enabled \ {n}, certs)

\* A vhost comes to apply hotlink protection, error pages, redirects or a password
\* that the database does not ask for only when the setting is switched off while
\* nginx refuses the file that would drop it: each writer drops what it does not
\* pass, and none brings back, at any later request, a setting that was switched
\* off.
NoStaleSetting ==
    [][\A n \in domains \cap domains', f \in {"hotlink", "errors", "redirect", "auth"} :
          HasNginx(row'[n]) /\ f \in nginx'[n].on \ row'[n].on =>
              \/ f \in nginx[n].on \ row[n].on
              \/ f \in nginx[n].on \cap row[n].on /\ Refusable(n)]_vars

\* A name comes to be linked without a row only when its row goes with that of its
\* parent, whose deletion forgets its vhost, or when its row was one that nginx does
\* not serve: neither a creation nor a deletion of its own leaves such a link.
OrphansLoseTheirParent ==
    [][\A n \in enabled' \ domains' :
          \/ n \in enabled \ domains
          \/ n \in domains /\ (HasNginx(row[n]) => Parent[n] \in domains \ domains')]_vars

-----------------------------------------------------------------------------
(* What comments, docstrings and tests of the repository claim, and the    *)
(* code does not keep.                                                     *)

\* "DB record is source of truth": hotlink protection, error pages, redirects and
\* password protection that the database asks for are in the domain's vhost (where
\* its template has a place for them), also after another setting was changed.
SettingsStayApplied ==
    \A n \in domains : HasNginx(row[n]) /\ nginx[n] # Absent =>
        row[n].on \cap {"hotlink", "errors", "redirect", "auth"}
            \cap Renders(nginx[n].template) \subseteq nginx[n].on

=============================================================================
