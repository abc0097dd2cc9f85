-------------------------- MODULE SiteConfigProofs --------------------------
(***************************************************************************)
(* For every set of names, every parent function and every choice of what  *)
(* requests may ask for: the types are respected, no vhost names a missing *)
(* certificate, and nginx serves the linked files whenever it would accept *)
(* them.                                                                   *)
(*                                                                         *)
(* The three are proved together.  ServesTheFiles alone is not inductive:  *)
(* a handler that only adds a certificate (enable-ssl on an Apache domain) *)
(* could turn a refused configuration into an accepted one without a       *)
(* reload, were it not that no file waits for a certificate (CertsOnDisk). *)
(***************************************************************************)
EXTENDS SiteConfig, TLAPS

Inv == TypeOK /\ CertsOnDisk /\ ServesTheFiles

\* What the file tree owes the properties, and what the row table does.
FilesOK == /\ certs \subseteq Names \X Cert
           /\ nginx \in [Names -> Vhost \cup {Absent}]
           /\ enabled \subseteq Names
           /\ live \in [Names -> Vhost \cup {Absent}]
           /\ \A n \in Names :
                /\ nginx[n].cert # "none" => <<n, nginx[n].cert>> \in certs
                /\ live[n].cert # "none" => <<n, live[n].cert>> \in certs
           /\ ServesTheFiles

RowsOK == /\ domains \subseteq Names
          /\ row \in [Names -> Row]
          /\ certRows \in [Names -> 0..2]
          /\ zones \subseteq Names
          /\ aRecords \subseteq Names
          /\ apache \in [Names -> {"none", "plain", "proxy", "ssl"}]
          /\ \A n \in Names : row[n].cert # "none" => <<n, row[n].cert>> \in certs

LEMMA InvParts == Inv <=> FilesOK /\ RowsOK
  BY DEF Inv, FilesOK, RowsOK, TypeOK, CertsOnDisk

-----------------------------------------------------------------------------
(* What rendering returns.                                                 *)

\* A vhost rendered from well-typed arguments is one.
LEMMA RenderType ==
  ASSUME NEW tpl \in Template, NEW cust \in Custom, NEW cert \in CertRef,
         NEW on \in SUBSET Feature
  PROVE  /\ render_vhost(tpl, cust, cert, on) \in Vhost
         /\ render_vhost(tpl, cust, cert, on).cert = cert
  BY DEF render_vhost, Vhost

\* A vhost rendered from a row is one, and carries the row's certificate or none.
LEMMA VhostForType ==
  ASSUME NEW r \in Row, NEW writer
  PROVE  /\ VhostFor(r, writer) \in Vhost
         /\ VhostFor(r, writer).cert = CertOf(r)
<1>1. /\ TemplateOf(r) \in Template
      /\ CertOf(r) \in CertRef
      /\ r.custom \in Custom
      /\ r.on \cap PassedBy[writer] \in SUBSET Feature
  BY DEF TemplateOf, CertOf, Row, Template, CertRef
<1> QED
  BY <1>1, RenderType DEF VhostFor

LEMMA AbsentCert == Absent.cert = "none"
  BY DEF Absent

-----------------------------------------------------------------------------
(* What a write followed by the test and reload establishes.               *)

\* Writing a file whose certificate is on disk and reloading keeps FilesOK,
\* whatever is linked or unlinked on the way.
LEMMA WriteKeepsFiles ==
  ASSUME FilesOK, NEW n \in Names, NEW v \in Vhost \cup {Absent},
         WriteVhost(n, v),
         certs \subseteq certs', certs' \subseteq Names \X Cert,
         enabled' \subseteq Names,
         v.cert # "none" => <<n, v.cert>> \in certs'
  PROVE  FilesOK'
<1>1. nginx' \in [Names -> Vhost \cup {Absent}]
  BY DEF WriteVhost, FilesOK
<1>2. \A m \in Names : nginx'[m].cert # "none" => <<m, nginx'[m].cert>> \in certs'
  <2> TAKE m \in Names
  <2>1. CASE m = n
    BY <2>1 DEF WriteVhost, FilesOK
  <2>2. CASE m # n
    BY <2>2 DEF WriteVhost, FilesOK
  <2> QED BY <2>1, <2>2
<1>3. \/ live' = Loaded(nginx', enabled') 
      \/ live' = live /\ ~ nginx_test(nginx', enabled', certs')
  BY DEF WriteVhost, Reload
<1>4. CASE live' = Loaded(nginx', enabled')
  <2>1. live' \in [Names -> Vhost \cup {Absent}]
    BY <1>1, <1>4 DEF Loaded
  <2>2. \A m \in Names : live'[m].cert # "none" => <<m, live'[m].cert>> \in certs'
    BY <1>2, <1>4, AbsentCert DEF Loaded
  <2> QED BY <1>1, <1>2, <1>4, <2>1, <2>2 DEF FilesOK, ServesTheFiles
<1>5. CASE live' = live /\ ~ nginx_test(nginx', enabled', certs')
  BY <1>1, <1>2, <1>5 DEF FilesOK, ServesTheFiles
<1> QED BY <1>3, <1>4, <1>5

\* A handler that leaves the files alone keeps FilesOK, also if it adds
\* certificates: no file was waiting for one.
LEMMA NoWriteKeepsFiles ==
  ASSUME FilesOK, UNCHANGED <<nginx, enabled, live>>,
         certs \subseteq certs', certs' \subseteq Names \X Cert
  PROVE  FilesOK'
<1>1. nginx_test(nginx, enabled, certs') => nginx_test(nginx, enabled, certs)
  BY DEF nginx_test, Loads, FilesOK
<1> QED BY <1>1 DEF FilesOK, ServesTheFiles

-----------------------------------------------------------------------------
(* The calls of nginx_service and the deletion of rows.                    *)

\* The certificate of a row is on disk, so a file rendered from it may be written.
LEMMA RegenerateKeepsFiles ==
  ASSUME FilesOK, NEW n \in Names, NEW r \in Row, NEW writer,
         Regenerate(n, r, writer), UNCHANGED <<certs, enabled>>,
         r.cert # "none" => <<n, r.cert>> \in certs
  PROVE  FilesOK'
<1> DEFINE v == VhostFor(r, writer)
<1>1. /\ v \in Vhost
      /\ v.cert # "none" => <<n, v.cert>> \in certs'
  BY VhostForType DEF CertOf
<1>2. CASE UNCHANGED <<nginx, live>>
  BY <1>2, NoWriteKeepsFiles DEF FilesOK
<1>3. CASE WriteVhost(n, v)
  <2> HIDE DEF v
  <2> QED BY <1>1, <1>3, WriteKeepsFiles DEF FilesOK
<1> QED BY <1>2, <1>3 DEF Regenerate, update_vhost

LEMMA CreateVhostKeepsFiles ==
  ASSUME FilesOK, NEW n \in Names, NEW v \in Vhost, v.cert = "none",
         create_vhost(n, v), UNCHANGED certs
  PROVE  FilesOK'
<1>1. CASE UNCHANGED <<nginx, enabled, live>>
  BY <1>1, NoWriteKeepsFiles DEF FilesOK
<1>2. CASE enabled' = enabled \cup {n} /\ WriteVhost(n, v)
  BY <1>2, WriteKeepsFiles DEF FilesOK
<1> QED BY <1>1, <1>2 DEF create_vhost

LEMMA DeleteVhostsKeepsFiles ==
  ASSUME FilesOK, NEW n \in Names, DeleteVhosts(n), UNCHANGED certs
  PROVE  FilesOK'
<1>1. CASE UNCHANGED <<nginx, enabled, live>>
  BY <1>1, NoWriteKeepsFiles DEF FilesOK
<1>2. CASE delete_vhost(n)
  BY <1>2, WriteKeepsFiles, AbsentCert DEF FilesOK, delete_vhost
<1> QED BY <1>1, <1>2 DEF DeleteVhosts

\* Deleting rows, with or without their A record, keeps the tables well formed.
LEMMA DeleteKeepsRows ==
  ASSUME RowsOK, NEW n \in Names, DeleteRows(n), DeleteVhosts(n),
         UNCHANGED <<row, zones, certs>>, aRecords' \subseteq aRecords
  PROVE  RowsOK'
<1>1. domains' \subseteq Names /\ certRows' \in [Names -> 0..2]
  BY DEF DeleteRows, RowsOK
<1>2. apache' \in [Names -> {"none", "plain", "proxy", "ssl"}]
  BY DEF DeleteVhosts, RowsOK
<1> QED BY <1>1, <1>2 DEF RowsOK

-----------------------------------------------------------------------------
(* One lemma per handler.                                                  *)

LEMMA InitInv == Init => Inv
<1> SUFFICES ASSUME Init PROVE Inv
  OBVIOUS
<1>1. NewRow("nginx", "default", "none", "none", FALSE) \in Row
  BY DEF NewRow, Row, Webserver, Template, Custom, CertRef
<1>2. NewRow("nginx", "default", "none", "none", FALSE).cert = "none"
  BY DEF NewRow
<1>3. TypeOK
  <2>1. row \in [Names -> Row]
    BY <1>1 DEF Init
  <2>2. certRows \in [Names -> 0..2] /\ apache \in [Names -> {"none", "plain", "proxy", "ssl"}]
    BY DEF Init
  <2>3. nginx \in [Names -> Vhost \cup {Absent}] /\ live \in [Names -> Vhost \cup {Absent}]
    BY DEF Init
  <2> QED BY <2>1, <2>2, <2>3 DEF Init, TypeOK
<1>4. CertsOnDisk
  BY <1>2, AbsentCert DEF Init, CertsOnDisk
<1>5. ServesTheFiles
  BY DEF Init, ServesTheFiles, Loaded
<1> QED BY <1>3, <1>4, <1>5 DEF Inv

LEMMA create_domain_Inv ==
  ASSUME FilesOK, RowsOK, NEW n \in Names, NEW ws \in Webservers,
         NEW tpl \in Templates, NEW cust \in Customs, create_domain(n, ws, tpl, cust)
  PROVE  FilesOK' /\ RowsOK'
<1> DEFINE r == NewRow(ws, tpl, cust, "none", FALSE)
<1>1. r \in Row /\ r.cert = "none" /\ r.ssl = FALSE
  BY InputsAssumption DEF NewRow, Row, Webserver, Template, Custom, CertRef
<1>2. row' = [row EXCEPT ![n] = r] /\ certs' = certs
  BY DEF create_domain
<1>3. /\ domains' \subseteq Names /\ zones' \subseteq Names
      /\ UNCHANGED <<certRows, aRecords>>
  BY DEF create_domain, RowsOK
<1>4. apache' \in [Names -> {"none", "plain", "proxy", "ssl"}]
  <2>1. ws \in {"nginx", "apache", "nginx_apache"}
    BY InputsAssumption
  <2> QED BY <2>1 DEF create_domain, RowsOK
<1>5. VhostFor(r, "update_domain") \in Vhost /\ VhostFor(r, "update_domain").cert = "none"
  <2> HIDE DEF r
  <2> QED BY <1>1, VhostForType DEF CertOf
<1>6. \/ create_vhost(n, VhostFor(r, "update_domain"))
      \/ UNCHANGED <<nginx, enabled, live>>
  BY DEF create_domain
<1> HIDE DEF r
<1>7. FilesOK'
  <2>1. CASE create_vhost(n, VhostFor(r, "update_domain"))
    BY <1>2, <1>5, <2>1, CreateVhostKeepsFiles
  <2>2. CASE UNCHANGED <<nginx, enabled, live>>
    BY <1>2, <2>2, NoWriteKeepsFiles DEF FilesOK
  <2> QED BY <1>6, <2>1, <2>2
<1>8. RowsOK'
  BY <1>1, <1>2, <1>3, <1>4 DEF RowsOK
<1> QED BY <1>7, <1>8

LEMMA create_subdomain_Inv ==
  ASSUME FilesOK, RowsOK, NEW n \in Names, NEW ssl \in BOOLEAN, create_subdomain(n, ssl)
  PROVE  FilesOK' /\ RowsOK'
<1> DEFINE r == NewRow(row[Parent[n]].webserver, row[Parent[n]].template, "none",
                       IF ssl THEN "le" ELSE "none", TRUE)
<1>1. row[Parent[n]] \in Row
  BY DEF create_subdomain, RowsOK
<1>3. r \in Row /\ (r.cert # "none" => ssl /\ r.cert = "le")
  BY <1>1 DEF NewRow, Row, Custom, CertRef, Cert
<1>4. /\ row' = [row EXCEPT ![n] = r]
      /\ certs' = IF ssl THEN certs \cup {<<n, "le">>} ELSE certs
      /\ domains' = domains \cup {n}
      /\ UNCHANGED <<certRows, zones>>
      /\ aRecords' \in {aRecords, aRecords \cup {n}}
      /\ apache' \in {apache, [apache EXCEPT ![n] = "plain"]}
      /\ enabled' \in {enabled, enabled \cup {n}}
  BY DEF create_subdomain
<1>5. \/ WriteVhost(n, VhostFor(r, "apply_ssl"))
      \/ UNCHANGED <<nginx, live>> /\ enabled' = enabled
  BY DEF create_subdomain
<1> HIDE DEF r
<1>6. /\ VhostFor(r, "apply_ssl") \in Vhost
      /\ VhostFor(r, "apply_ssl").cert # "none" => <<n, VhostFor(r, "apply_ssl").cert>> \in certs'
  BY <1>3, <1>4, VhostForType DEF CertOf
<1>7. certs \subseteq certs' /\ certs' \subseteq Names \X Cert /\ enabled' \subseteq Names
  BY <1>4 DEF FilesOK, Cert
<1>8. FilesOK'
  <2>1. CASE WriteVhost(n, VhostFor(r, "apply_ssl"))
    BY <1>6, <1>7, <2>1, WriteKeepsFiles
  <2>2. CASE UNCHANGED <<nginx, live>> /\ enabled' = enabled
    BY <1>7, <2>2, NoWriteKeepsFiles
  <2> QED BY <1>5, <2>1, <2>2
<1>9. RowsOK'
  <2>1. row' \in [Names -> Row]
    BY <1>3, <1>4 DEF RowsOK
  <2>2. \A m \in Names : row'[m].cert # "none" => <<m, row'[m].cert>> \in certs'
    BY <1>3, <1>4 DEF RowsOK
  <2>3. apache' \in [Names -> {"none", "plain", "proxy", "ssl"}]
    BY <1>4 DEF RowsOK
  <2> QED BY <1>4, <2>1, <2>2, <2>3 DEF RowsOK
<1> QED BY <1>8, <1>9

LEMMA update_domain_Inv ==
  ASSUME FilesOK, RowsOK, NEW n \in Names, NEW new \in Updated(row[n]),
         update_domain(n, new)
  PROVE  FilesOK' /\ RowsOK'
<1>1. new \in Row /\ new.cert = row[n].cert
  <2>1. row[n] \in Row
    BY DEF RowsOK
  <2>2. PICK ws \in Webservers \cup {row[n].webserver}, tpl \in Templates \cup {row[n].template},
             cust \in Customs \cup {row[n].custom}, ssl \in BOOLEAN,
             on \in SUBSET (row[n].on \cup (Features \cap {"php", "cache"})) :
             new = [webserver |-> ws, template |-> tpl, custom |-> cust, ssl |-> ssl,
                    cert |-> row[n].cert, on |-> on, sub |-> row[n].sub]
    BY DEF Updated
  <2>3. /\ ws \in Webserver /\ tpl \in Template /\ cust \in Custom
        /\ on \in SUBSET Feature
    BY <2>1, InputsAssumption DEF Row, Webserver, Template, Custom, Feature
  <2> QED BY <2>1, <2>2, <2>3 DEF Row
<1>2. /\ UNCHANGED <<domains, certRows, zones, aRecords, certs, enabled>>
      /\ row' = [row EXCEPT ![n] = new]
      /\ \/ Regenerate(n, new, "update_domain")
         \/ UNCHANGED <<nginx, live>>
      /\ apache' \in {apache, [apache EXCEPT ![n] = "ssl"], [apache EXCEPT ![n] = "plain"]}
  BY DEF update_domain
<1>3. FilesOK'
  <2>1. CASE Regenerate(n, new, "update_domain")
    BY <1>1, <1>2, <2>1, RegenerateKeepsFiles DEF RowsOK
  <2>2. CASE UNCHANGED <<nginx, live>>
    BY <1>2, <2>2, NoWriteKeepsFiles DEF FilesOK
  <2> QED BY <1>2, <2>1, <2>2
<1>4. RowsOK'
  BY <1>1, <1>2 DEF RowsOK
<1> QED BY <1>3, <1>4

\* The endpoints that change one setting of a row and regenerate its vhost.
LEMMA SettingKeepsInv ==
  ASSUME FilesOK, RowsOK, NEW n \in Names, NEW on \in SUBSET Feature,
         row' = [row EXCEPT ![n] = [row[n] EXCEPT !.on = on]],
         UNCHANGED <<domains, certRows, zones, aRecords, certs, enabled, apache>>,
         NEW r \in Row, r.cert = row[n].cert, NEW writer,
         Regenerate(n, r, writer)
  PROVE  FilesOK' /\ RowsOK'
<1>1. FilesOK'
  BY RegenerateKeepsFiles DEF RowsOK
<1>2. row[n] \in Row /\ [row[n] EXCEPT !.on = on] \in Row
      /\ [row[n] EXCEPT !.on = on].cert = row[n].cert
  BY DEF RowsOK, Row
<1>3. RowsOK'
  BY <1>2 DEF RowsOK
<1> QED BY <1>1, <1>3

LEMMA update_subdomain_Inv ==
  ASSUME FilesOK, RowsOK, NEW n \in Names, NEW php \in BOOLEAN, update_subdomain(n, php)
  PROVE  FilesOK' /\ RowsOK'
<1> DEFINE on == IF php THEN row[n].on \cup {"php"} ELSE row[n].on \ {"php"}
           r  == [row[n] EXCEPT !.on = on, !.custom = "none"]
<1>1. row[n] \in Row /\ on \in SUBSET Feature
  BY DEF RowsOK, Row, Feature
<1>2. r \in Row /\ r.cert = row[n].cert
  BY <1>1 DEF Row, Custom
<1>3. /\ row' = [row EXCEPT ![n] = [row[n] EXCEPT !.on = on]]
      /\ UNCHANGED <<domains, certRows, zones, aRecords, certs, enabled, apache>>
      /\ Regenerate(n, r, "update_subdomain")
  BY DEF update_subdomain
<1> HIDE DEF on, r
<1> QED BY <1>1, <1>2, <1>3, SettingKeepsInv

LEMMA Switch_Inv ==
  ASSUME FilesOK, RowsOK, NEW n \in Names, NEW f \in Feature, NEW b \in BOOLEAN,
         NEW writer, Switch(n, f, b, writer)
  PROVE  FilesOK' /\ RowsOK'
<1> DEFINE on == IF b THEN row[n].on \cup {f} ELSE row[n].on \ {f}
           r  == [row[n] EXCEPT !.on = on]
<1>1. row[n] \in Row /\ on \in SUBSET Feature
  BY DEF RowsOK, Row
<1>2. r \in Row /\ r.cert = row[n].cert
  BY <1>1 DEF Row
<1>3. /\ row' = [row EXCEPT ![n] = [row[n] EXCEPT !.on = on]]
      /\ UNCHANGED <<domains, certRows, zones, aRecords, certs, enabled, apache>>
      /\ Regenerate(n, r, writer)
  BY DEF Switch
<1> HIDE DEF on, r
<1> QED BY <1>1, <1>2, <1>3, SettingKeepsInv

LEMMA directory_privacy_Inv ==
  ASSUME FilesOK, RowsOK, NEW n \in Names, NEW b \in BOOLEAN, directory_privacy(n, b)
  PROVE  FilesOK' /\ RowsOK'
<1> DEFINE on == IF b THEN row[n].on \cup {"auth"} ELSE row[n].on \ {"auth"}
           r  == [row[n] EXCEPT !.on = on]
<1>1. row[n] \in Row /\ on \in SUBSET Feature
  BY DEF RowsOK, Row, Feature
<1>2. r \in Row /\ r.cert = row[n].cert
  BY <1>1 DEF Row
<1>3. /\ row' = [row EXCEPT ![n] = r]
      /\ UNCHANGED <<domains, certRows, zones, aRecords, certs, enabled, apache>>
      /\ \/ WriteVhost(n, VhostFor(r, "directory_privacy"))
         \/ UNCHANGED <<nginx, live>>
  BY DEF directory_privacy
<1> HIDE DEF on, r
<1>4. FilesOK'
  <2>1. /\ VhostFor(r, "directory_privacy") \in Vhost
        /\ VhostFor(r, "directory_privacy").cert # "none" =>
             <<n, VhostFor(r, "directory_privacy").cert>> \in certs'
    BY <1>2, <1>3, VhostForType DEF CertOf, RowsOK
  <2>2. CASE WriteVhost(n, VhostFor(r, "directory_privacy"))
    BY <1>3, <2>1, <2>2, WriteKeepsFiles DEF FilesOK
  <2>3. CASE UNCHANGED <<nginx, live>>
    BY <1>3, <2>3, NoWriteKeepsFiles DEF FilesOK
  <2> QED BY <1>3, <2>2, <2>3
<1>5. RowsOK'
  BY <1>2, <1>3 DEF RowsOK
<1> QED BY <1>4, <1>5

LEMMA purge_cache_Inv ==
  ASSUME FilesOK, RowsOK, NEW n \in Names, purge_cache(n)
  PROVE  FilesOK' /\ RowsOK'
<1>1. nginx' = [nginx EXCEPT ![n] = nginx[n]] /\ nginx[n] \in Vhost \cup {Absent}
  BY DEF purge_cache, FilesOK
<1>2. UNCHANGED <<domains, row, certRows, zones, aRecords, certs, enabled, apache>> /\ Reload
  BY DEF purge_cache
<1>3. WriteVhost(n, nginx[n])
  BY <1>1, <1>2 DEF WriteVhost
<1>4. FilesOK'
  BY <1>1, <1>2, <1>3, WriteKeepsFiles DEF FilesOK
<1> QED BY <1>2, <1>4 DEF RowsOK

\* Giving a row the certificate it was just issued keeps the tables well formed.
LEMMA CertKeepsRows ==
  ASSUME RowsOK, NEW n \in Names, NEW ssl \in BOOLEAN, NEW cert \in Cert,
         row' = [row EXCEPT ![n] = WithCert(row[n], ssl, cert)],
         certs' = certs \cup {<<n, cert>>},
         UNCHANGED <<domains, zones, aRecords>>, certRows' \in [Names -> 0..2],
         apache' \in {apache, [apache EXCEPT ![n] = "ssl"]}
  PROVE  RowsOK'
<1>1. /\ WithCert(row[n], ssl, cert) \in Row
      /\ WithCert(row[n], ssl, cert).cert = cert
  BY DEF RowsOK, Row, WithCert, CertRef
<1>2. row' \in [Names -> Row]
  BY <1>1 DEF RowsOK
<1>3. \A m \in Names : row'[m].cert # "none" => <<m, row'[m].cert>> \in certs'
  BY <1>1 DEF RowsOK
<1>4. apache' \in [Names -> {"none", "plain", "proxy", "ssl"}]
  BY DEF RowsOK
<1> QED BY <1>2, <1>3, <1>4 DEF RowsOK

LEMMA enable_ssl_Inv ==
  ASSUME FilesOK, RowsOK, NEW n \in Names, enable_ssl(n)
  PROVE  FilesOK' /\ RowsOK'
<1> DEFINE r == WithCert(row[n], TRUE, "le")
<1>1. r \in Row /\ r.cert = "le"
  BY DEF RowsOK, Row, WithCert, CertRef, Cert
<1>2. /\ row' = [row EXCEPT ![n] = r]
      /\ certs' = certs \cup {<<n, "le">>}
      /\ UNCHANGED <<domains, certRows, zones, aRecords, enabled>>
      /\ \/ apache' = [apache EXCEPT ![n] = "ssl"] /\ UNCHANGED <<nginx, live>>
         \/ UNCHANGED apache /\ WriteVhost(n, VhostFor(r, "apply_ssl"))
  BY DEF enable_ssl, EnableSslWith
<1>3. RowsOK'
  <2>1. "le" \in Cert /\ certRows \in [Names -> 0..2]
    BY DEF Cert, RowsOK
  <2> QED BY <1>2, <2>1, CertKeepsRows
<1> HIDE DEF r
<1>4. certs \subseteq certs' /\ certs' \subseteq Names \X Cert
  BY <1>2 DEF FilesOK, Cert
<1>5. FilesOK'
  <2>1. CASE UNCHANGED <<nginx, live>>
    BY <1>2, <1>4, <2>1, NoWriteKeepsFiles
  <2>2. CASE WriteVhost(n, VhostFor(r, "apply_ssl"))
    <3>1. /\ VhostFor(r, "apply_ssl") \in Vhost
          /\ VhostFor(r, "apply_ssl").cert # "none" =>
               <<n, VhostFor(r, "apply_ssl").cert>> \in certs'
      BY <1>1, <1>2, VhostForType DEF CertOf
    <3>2. enabled' \subseteq Names
      BY <1>2 DEF FilesOK
    <3> QED BY <1>4, <2>2, <3>1, <3>2, WriteKeepsFiles
  <2> QED BY <1>2, <2>1, <2>2
<1> QED BY <1>3, <1>5

LEMMA InstallCert_Files ==
  ASSUME FilesOK, RowsOK, NEW n \in Names, NEW cert \in Cert, InstallCert(n, cert)
  PROVE  FilesOK'
<1> DEFINE v == render_vhost("default", "none", cert, row[n].on \cap {"php"})
<1>1. v \in Vhost /\ v.cert = cert
  <2>1. row[n].on \cap {"php"} \in SUBSET Feature
    BY DEF RowsOK, Row
  <2>2. "default" \in Template /\ "none" \in Custom /\ cert \in CertRef
    BY DEF Template, Custom, CertRef
  <2> QED BY <2>1, <2>2, RenderType
<1>2. /\ WriteVhost(n, v)
      /\ certs' = certs \cup {<<n, cert>>}
      /\ enabled' = enabled
  BY DEF InstallCert
<1> HIDE DEF v
<1>3. certs \subseteq certs' /\ certs' \subseteq Names \X Cert /\ <<n, v.cert>> \in certs'
  BY <1>1, <1>2 DEF FilesOK
<1>4. enabled' \subseteq Names
  BY <1>2 DEF FilesOK
<1> QED BY <1>1, <1>2, <1>3, <1>4, WriteKeepsFiles

\* issue, install and renew, which differ in the columns they set
LEMMA SslNext_Inv ==
  ASSUME FilesOK, RowsOK, NEW n \in Names, SslNext(n)
  PROVE  FilesOK' /\ RowsOK'
<1>1. CASE enable_ssl(n)
  BY <1>1, enable_ssl_Inv
<1>2. CASE issue_certificate(n)
  <2>1. /\ InstallCert(n, "le") /\ AddCertRow(n) /\ "le" \in Cert
        /\ row' = [row EXCEPT ![n] = WithCert(row[n], TRUE, "le")]
    BY <1>2 DEF issue_certificate, Cert
  <2>2. certRows' \in [Names -> 0..2]
    BY <2>1 DEF AddCertRow, RowsOK
  <2> QED BY <2>1, <2>2, InstallCert_Files, CertKeepsRows DEF InstallCert
<1>3. CASE \E cert \in Uploads : install_custom_certificate(n, cert)
  <2>1. PICK cert \in Uploads : install_custom_certificate(n, cert)
    BY <1>3
  <2>2. /\ InstallCert(n, cert) /\ AddCertRow(n) /\ cert \in Cert
        /\ row' = [row EXCEPT ![n] = WithCert(row[n], TRUE, cert)]
    BY <2>1, InputsAssumption DEF install_custom_certificate, Cert
  <2>3. certRows' \in [Names -> 0..2]
    BY <2>2 DEF AddCertRow, RowsOK
  <2> QED BY <2>2, <2>3, InstallCert_Files, CertKeepsRows DEF InstallCert
<1>4. CASE renew_certificate(n)
  <2>1. /\ InstallCert(n, "le") /\ UNCHANGED certRows /\ "le" \in Cert
        /\ row' = [row EXCEPT ![n] = WithCert(row[n], row[n].ssl, "le")]
    BY <1>4 DEF renew_certificate, Cert
  <2>2. certRows' \in [Names -> 0..2] /\ row[n].ssl \in BOOLEAN
    BY <2>1 DEF RowsOK, Row
  <2> QED BY <2>1, <2>2, InstallCert_Files, CertKeepsRows DEF InstallCert
<1> QED BY <1>1, <1>2, <1>3, <1>4 DEF SslNext

LEMMA DeleteNext_Inv ==
  ASSUME FilesOK, RowsOK, NEW n \in Names, DeleteNext(n)
  PROVE  FilesOK' /\ RowsOK'
<1>1. /\ DeleteVhosts(n) /\ DeleteRows(n)
      /\ UNCHANGED <<row, zones, certs>> /\ aRecords' \subseteq aRecords
  BY DEF DeleteNext, delete_domain, delete_subdomain
<1> QED BY <1>1, DeleteVhostsKeepsFiles, DeleteKeepsRows

LEMMA UpdateNext_Inv ==
  ASSUME FilesOK, RowsOK, NEW n \in Names, UpdateNext(n)
  PROVE  FilesOK' /\ RowsOK'
<1>1. CASE \E new \in Updated(row[n]) : update_domain(n, new)
  BY <1>1, update_domain_Inv
<1>2. ASSUME NEW b \in BOOLEAN, update_subdomain(n, b)
      PROVE  FilesOK' /\ RowsOK'
  BY <1>2, update_subdomain_Inv
<1>3. ASSUME NEW b \in BOOLEAN,
             \/ update_cache(n, b)
             \/ update_hotlink(n, b)
             \/ update_error_pages(n, b)
             \/ redirects(n, b)
      PROVE  FilesOK' /\ RowsOK'
  <2>1. \E f \in Feature, writer \in DOMAIN PassedBy : Switch(n, f, b, writer)
    BY <1>3 DEF update_cache, update_hotlink, update_error_pages, redirects, Feature, PassedBy
  <2> QED BY <2>1, Switch_Inv
<1>4. ASSUME NEW b \in BOOLEAN, directory_privacy(n, b)
      PROVE  FilesOK' /\ RowsOK'
  BY <1>4, directory_privacy_Inv
<1>5. CASE purge_cache(n)
  BY <1>5, purge_cache_Inv
<1> QED BY <1>1, <1>2, <1>3, <1>4, <1>5 DEF UpdateNext

LEMMA NextInv == Inv /\ [Next]_vars => Inv'
<1> SUFFICES ASSUME Inv, [Next]_vars PROVE Inv'
  OBVIOUS
<1>1. FilesOK /\ RowsOK
  BY InvParts
<1>2. CASE UNCHANGED vars
  BY <1>2 DEF vars, Inv, TypeOK, CertsOnDisk, ServesTheFiles
<1>3. CASE Next
  <2>1. PICK n \in Names : CreateNext(n) \/ UpdateNext(n) \/ SslNext(n) \/ DeleteNext(n)
    BY <1>3 DEF Next
  <2> SUFFICES FilesOK' /\ RowsOK'
    BY DEF Inv, FilesOK, RowsOK, TypeOK, CertsOnDisk
  <2>2. CASE CreateNext(n)
    <3>1. CASE \E ssl \in BOOLEAN : create_subdomain(n, ssl)
      BY <1>1, <3>1, create_subdomain_Inv
    <3>2. ASSUME NEW ws \in Webservers, NEW tpl \in Templates, NEW cust \in Customs,
                 create_domain(n, ws, tpl, cust)
          PROVE  FilesOK' /\ RowsOK'
      BY <1>1, <3>2, create_domain_Inv
    <3> QED BY <2>2, <3>1, <3>2 DEF CreateNext
  <2>3. CASE UpdateNext(n)
    BY <1>1, <2>3, UpdateNext_Inv
  <2>4. CASE SslNext(n)
    BY <1>1, <2>4, SslNext_Inv
  <2>5. CASE DeleteNext(n)
    BY <1>1, <2>5, DeleteNext_Inv
  <2> QED BY <2>1, <2>2, <2>3, <2>4, <2>5
<1> QED BY <1>2, <1>3

-----------------------------------------------------------------------------
(* Theorems.                                                               *)

THEOREM InvAlways == Spec => []Inv
  BY InitInv, NextInv, PTL DEF Spec

\* models/domains.py, sites-available, sites-enabled: every variable keeps its type.
THEOREM TypeCorrect == Spec => []TypeOK
  BY InvAlways, PTL DEF Inv

\* No vhost file, row or running server refers to a certificate that is not on disk
\* (enable_ssl, issue, install, renew, and every writer that copies ssl_cert_path).
THEOREM CertificatesAreOnDisk == Spec => []CertsOnDisk
  BY InvAlways, PTL DEF Inv

\* nginx serves exactly the linked files whenever nginx -t would accept them
\* (_nginx_test_and_reload at the end of every handler).
THEOREM GoodFilesAreServed == Spec => []ServesTheFiles
  BY InvAlways, PTL DEF Inv

=============================================================================
