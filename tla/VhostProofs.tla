------------------------------ MODULE VhostProofs ------------------------------
(***************************************************************************)
(* Two action properties of SiteConfig, for every set of names, every      *)
(* parent function and every kind of request: how a name comes to be       *)
(* linked without a row, and how a vhost comes to apply a setting the row  *)
(* does not have.                                                          *)
(*                                                                         *)
(* Every handler is about one name.  What it may do to the row, the file   *)
(* and the link of that name, and that it leaves the others alone, is said *)
(* once (Touches) and shown of each handler; both properties follow.       *)
(***************************************************************************)
EXTENDS SiteConfigProofs

Kept == {"hotlink", "errors", "redirect", "auth"}

\* v is rendered from no more than what the row r says.
Made(v, r) == /\ v \in Vhost
              /\ v.on \subseteq r.on
              /\ v.custom \in {"none", r.custom} /\ v.cert \in {"none", r.cert}

OthersStay(n) ==
  \A m \in Names \ {n} :
    /\ row'[m] = row[m] /\ nginx'[m] = nginx[m]
    /\ m \in enabled' <=> m \in enabled
    /\ m \in domains' => m \in domains
    /\ m \in domains \ domains' => Parent[m] \in domains \ domains'

\* A link is made with a row, and one of a row that nginx serves goes with it.
LinkFrom(n) ==
  /\ n \in enabled' \ enabled => n \in domains'
  /\ n \in domains \ domains' /\ HasNginx(row[n]) => n \notin enabled'

\* The file agrees with the row, or stays what it was while the row gains settings
\* or nginx refuses the new one.
SettlesFrom(n) ==
  n \in domains \cap domains' /\ HasNginx(row'[n]) =>
    \/ nginx'[n].on \cap Kept \subseteq row'[n].on
    \/ /\ nginx'[n] = nginx[n]
       /\ row[n].on \cap Kept \subseteq row'[n].on \/ Refusable(n)

Touches(n) == OthersStay(n) /\ LinkFrom(n) /\ SettlesFrom(n)

-----------------------------------------------------------------------------
(* What is rendered, what is refused, and which rows go with a row.        *)

LEMMA RendersTheRow ==
  ASSUME NEW r \in Row, NEW writer
  PROVE  Made(VhostFor(r, writer), r)
<1>1. VhostFor(r, writer) \in Vhost /\ VhostFor(r, writer).cert = CertOf(r)
  BY VhostForType
<1>2. /\ VhostFor(r, writer).on \subseteq r.on
      /\ VhostFor(r, writer).custom = r.custom
  BY DEF VhostFor, render_vhost
<1> QED BY <1>1, <1>2 DEF Made, CertOf

LEMMA MadeIsNotAbsent == ASSUME NEW r, NEW v, Made(v, r) PROVE v # Absent
<1>1. v.on \subseteq Feature
  BY DEF Made, Vhost
<1> QED BY <1>1 DEF Absent, Feature

\* What nginx refuses is refused for the row's own text or certificate or for a file
\* of another name.
LEMMA RefusedIsRefusable ==
  ASSUME NEW n \in Names, nginx \in [Names -> Vhost \cup {Absent}], enabled \subseteq Names,
         NEW v, Made(v, row'[n]), row'[n].cert # "none" => <<n, row'[n].cert>> \in certs,
         Rejected(n, v)
  PROVE  Refusable(n)
<1> SUFFICES ASSUME row'[n].custom # "bad", row'[n].cert # "junk",
                    nginx_test(nginx, enabled \ {n}, certs)
             PROVE  FALSE
  BY DEF Refusable
<1>1. Loads(v, n, certs)
  BY MadeIsNotAbsent DEF Loads, Made
<1>2. ASSUME NEW m \in enabled PROVE Loads([nginx EXCEPT ![n] = v][m], m, certs)
  BY <1>1 DEF nginx_test
<1> QED BY <1>2 DEF Rejected, nginx_test

\* A row that goes with another goes with its parent's.
LEMMA CascadeOfChildren ==
  ASSUME NEW n \in domains
  PROVE  /\ n \in Cascade(n) /\ Cascade(n) \subseteq domains
         /\ \A m \in Cascade(n) \ {n} : Parent[m] \in Cascade(n)
<1>1. n \in Cascade(n) /\ Cascade(n) \subseteq domains
  BY DEF Cascade
<1>2. ASSUME NEW m \in Cascade(n), m # n PROVE Parent[m] \in Cascade(n)
  <2> DEFINE S == {k \in Cascade(n) : k = n \/ Parent[k] \in Cascade(n)}
  <2>1. S \in SUBSET domains /\ n \in S
    BY <1>1
  <2>2. ASSUME NEW k \in Children(S) PROVE k \in S
    <3>1. k \in domains /\ Parent[k] \in Cascade(n) /\ row[k].sub
      BY DEF Children
    <3>2. ASSUME NEW R \in SUBSET domains, n \in R, Children(R) \subseteq R PROVE k \in R
      <4>1. Parent[k] \in R
        BY <3>1, <3>2 DEF Cascade
      <4> QED BY <3>1, <3>2, <4>1 DEF Children
    <3> QED BY <3>1, <3>2 DEF Cascade
  <2>3. m \in S
    BY <2>1, <2>2 DEF Cascade
  <2> QED BY <1>2, <2>3
<1> QED BY <1>1, <1>2

-----------------------------------------------------------------------------
(* Handlers that change one row and write its file or leave it.            *)

OneRow(n, r) == row' = [row EXCEPT ![n] = r]

LEMMA ChangeTouches ==
  ASSUME FilesOK, RowsOK, NEW n \in domains, NEW r \in Row, OneRow(n, r),
         UNCHANGED <<domains, enabled>>, NEW v, Made(v, r),
         \/ nginx' = [nginx EXCEPT ![n] = v]
         \/ /\ nginx' = nginx
            /\ \/ row[n].on \cap Kept \subseteq r.on
               \/ ~ HasNginx(r) \/ nginx[n] = Absent \/ Refusable(n)
  PROVE  Touches(n)
<1>1. n \in Names /\ row \in [Names -> Row] /\ nginx \in [Names -> Vhost \cup {Absent}]
  BY DEF RowsOK, FilesOK
<1>2. row'[n] = r /\ \A m \in Names \ {n} : row'[m] = row[m]
  BY <1>1 DEF OneRow
<1>3. OthersStay(n) /\ LinkFrom(n)
  BY <1>1, <1>2 DEF OthersStay, LinkFrom
<1>4. Absent.on \cap Kept = {}
  BY DEF Absent, Kept
<1>5. SettlesFrom(n)
  BY <1>1, <1>2, <1>4 DEF SettlesFrom, Made
<1> QED BY <1>3, <1>5 DEF Touches

\* update_vhost writes the file, or there is none, or it is refused.
LEMMA RegenerateTouches ==
  ASSUME FilesOK, RowsOK, enabled \subseteq Names, NEW n \in domains, NEW r \in Row,
         NEW r2 \in Row, NEW writer,
         UNCHANGED <<domains, enabled>>, OneRow(n, r2),
         r.on = r2.on, r.cert = r2.cert, r.webserver = r2.webserver,
         r.custom \in {"none", r2.custom}, r2.cert = row[n].cert,
         \/ Regenerate(n, r, writer)
         \/ UNCHANGED <<nginx, live>> /\ row[n].on \cap Kept \subseteq r2.on
  PROVE  Touches(n)
<1> DEFINE v == VhostFor(r, writer)
<1>0. n \in Names /\ row'[n] = r2
  BY DEF RowsOK, OneRow
<1>1. Made(v, r2)
  BY RendersTheRow DEF Made
<1> HIDE DEF v
<1>2. r2.cert # "none" => <<n, r2.cert>> \in certs
  BY <1>0 DEF RowsOK
<1>3. Rejected(n, v) => Refusable(n)
  BY <1>0, <1>1, <1>2, RefusedIsRefusable DEF FilesOK
<1>4. \/ nginx' = [nginx EXCEPT ![n] = v]
      \/ /\ nginx' = nginx
         /\ \/ row[n].on \cap Kept \subseteq r2.on
            \/ ~ HasNginx(r2) \/ nginx[n] = Absent \/ Refusable(n)
  BY <1>3 DEF Regenerate, update_vhost, WriteVhost, Raises, HasNginx, v
<1> QED BY <1>1, <1>4, ChangeTouches

LEMMA UpdateNext_Touches ==
  ASSUME FilesOK, RowsOK, enabled \subseteq Names, NEW n \in Names, UpdateNext(n)
  PROVE  Touches(n)
<1>0. row \in [Names -> Row] /\ row[n] \in Row
  BY DEF RowsOK
<1>1. ASSUME NEW new \in Updated(row[n]), update_domain(n, new)
      PROVE  Touches(n)
  <2>1. PICK ws \in Webservers \cup {row[n].webserver}, tpl \in Templates \cup {row[n].template},
             cust \in Customs \cup {row[n].custom}, ssl \in BOOLEAN,
             on \in {o \in SUBSET (row[n].on \cup (Features \cap {"php", "cache"})) :
                       row[n].on \ {"php", "cache"} \subseteq o} :
             new = [webserver |-> ws, template |-> tpl, custom |-> cust, ssl |-> ssl,
                    cert |-> row[n].cert, on |-> on, sub |-> row[n].sub]
    BY <1>1 DEF Updated
  <2>2. new \in Row
    BY <1>0, <2>1, InputsAssumption DEF Row, Webserver, Template, Custom, Feature
  <2>3. row[n].on \cap Kept \subseteq new.on
    BY <2>1 DEF Kept
  <2>4. /\ n \in domains /\ OneRow(n, new) /\ row'[n] = new
        /\ UNCHANGED <<domains, certs, enabled>>
        /\ Regenerate(n, new, "update_domain") \/ UNCHANGED <<nginx, live>>
    BY <1>0, <1>1 DEF update_domain, OneRow
  <2>5. new.cert = row[n].cert /\ new.custom \in {"none", new.custom}
    BY <2>1
  <2> QED BY <2>2, <2>3, <2>4, <2>5, RegenerateTouches
\* one setting is switched
<1>2. ASSUME NEW on \in SUBSET Feature, OneRow(n, [row[n] EXCEPT !.on = on]), n \in domains
      PROVE  /\ [row[n] EXCEPT !.on = on] \in Row
             /\ row'[n] = [row[n] EXCEPT !.on = on]
  BY <1>0, <1>2 DEF Row, OneRow
<1>3. ASSUME NEW b \in BOOLEAN, update_subdomain(n, b)
      PROVE  Touches(n)
  <2> DEFINE on == IF b THEN row[n].on \cup {"php"} ELSE row[n].on \ {"php"}
             r  == [row[n] EXCEPT !.on = on, !.custom = "none"]
             r2 == [row[n] EXCEPT !.on = on]
  <2>1. /\ n \in domains /\ OneRow(n, r2) /\ UNCHANGED <<domains, certs, enabled>>
        /\ Regenerate(n, r, "update_subdomain")
    BY <1>3 DEF update_subdomain, OneRow
  <2>2. on \in SUBSET Feature
    BY <1>0 DEF Row, Feature
  <2>3. r2 \in Row
    BY <1>2, <2>1, <2>2
  <2>4. /\ r \in Row /\ r.on = r2.on /\ r.cert = r2.cert /\ r.webserver = r2.webserver
        /\ r.custom = "none" /\ r2.cert = row[n].cert
    BY <1>0, <2>2 DEF Row, Custom
  <2> HIDE DEF on, r, r2
  <2> QED BY <2>1, <2>3, <2>4, RegenerateTouches
<1>4. ASSUME NEW b \in BOOLEAN, NEW f \in Feature, NEW writer, Switch(n, f, b, writer)
      PROVE  Touches(n)
  <2> DEFINE on == IF b THEN row[n].on \cup {f} ELSE row[n].on \ {f}
             r  == [row[n] EXCEPT !.on = on]
  <2>1. /\ n \in domains /\ OneRow(n, r) /\ UNCHANGED <<domains, certs, enabled>>
        /\ Regenerate(n, r, writer)
    BY <1>4 DEF Switch, OneRow
  <2>2. on \in SUBSET Feature
    BY <1>0 DEF Row
  <2>3. r \in Row
    BY <1>2, <2>1, <2>2
  <2>4. r.cert = row[n].cert /\ r.custom \in {"none", r.custom}
    BY <1>0 DEF Row
  <2> HIDE DEF on, r
  <2> QED BY <2>1, <2>3, <2>4, RegenerateTouches
<1>5. ASSUME NEW b \in BOOLEAN,
             \/ update_cache(n, b)
             \/ update_hotlink(n, b)
             \/ update_error_pages(n, b)
             \/ redirects(n, b)
      PROVE  Touches(n)
  <2>1. \E f \in Feature, writer \in DOMAIN PassedBy : Switch(n, f, b, writer)
    BY <1>5 DEF update_cache, update_hotlink, update_error_pages, redirects, Feature, PassedBy
  <2> QED BY <1>4, <2>1
<1>6. ASSUME NEW b \in BOOLEAN, directory_privacy(n, b) PROVE Touches(n)
  <2> DEFINE on == IF b THEN row[n].on \cup {"auth"} ELSE row[n].on \ {"auth"}
             r  == [row[n] EXCEPT !.on = on]
             v  == VhostFor(r, "directory_privacy")
  <2>1. /\ n \in domains /\ OneRow(n, r) /\ UNCHANGED <<domains, certs, enabled>>
        /\ IF HasNginx(r) /\ nginx[n] # Absent THEN WriteVhost(n, v) ELSE UNCHANGED <<nginx, live>>
    BY <1>6 DEF directory_privacy, OneRow
  <2>2. on \in SUBSET Feature
    BY <1>0 DEF Row, Feature
  <2>3. r \in Row
    BY <1>2, <2>1, <2>2
  <2> HIDE DEF on, r
  <2>4. Made(v, r)
    BY <2>3, RendersTheRow
  <2> HIDE DEF v
  <2> QED BY <2>1, <2>3, <2>4, ChangeTouches DEF WriteVhost
<1>7. CASE purge_cache(n)
  <2>1. /\ n \in domains /\ OneRow(n, row[n]) /\ UNCHANGED <<domains, row, nginx, enabled>>
    BY <1>0, <1>7 DEF purge_cache, OneRow
  <2>2. Made(VhostFor(row[n], "redirects"), row[n])
    BY <1>0, RendersTheRow
  <2> QED BY <1>0, <2>1, <2>2, ChangeTouches
<1> QED BY <1>1, <1>3, <1>5, <1>6, <1>7 DEF UpdateNext

LEMMA SslNext_Touches ==
  ASSUME FilesOK, RowsOK, NEW n \in Names, SslNext(n)
  PROVE  Touches(n)
<1>0. row \in [Names -> Row] /\ row[n] \in Row
  BY DEF RowsOK
<1>1. ASSUME NEW ssl \in BOOLEAN, NEW cert \in {"le"} \cup Uploads, n \in domains,
             row' = [row EXCEPT ![n] = WithCert(row[n], ssl, cert)]
      PROVE  /\ WithCert(row[n], ssl, cert) \in Row
             /\ OneRow(n, WithCert(row[n], ssl, cert))
             /\ WithCert(row[n], ssl, cert).on = row[n].on
             /\ WithCert(row[n], ssl, cert).cert = cert
  <2>1. WithCert(row[n], ssl, cert) \in Row
    BY <1>0, InputsAssumption DEF WithCert, Row, CertRef, Cert
  <2> QED BY <1>1, <2>1 DEF WithCert, OneRow
<1>2. CASE enable_ssl(n)
  <2> DEFINE r == WithCert(row[n], TRUE, "le")
             v == VhostFor(r, "apply_ssl")
  <2>1. /\ n \in domains /\ row' = [row EXCEPT ![n] = r] /\ UNCHANGED <<domains, enabled>>
        /\ nginx' = nginx \/ nginx' = [nginx EXCEPT ![n] = v]
    BY <1>2 DEF enable_ssl, EnableSslWith, WriteVhost
  <2>2. r \in Row /\ OneRow(n, r) /\ r.on = row[n].on
    BY <1>1, <2>1
  <2> HIDE DEF r
  <2>3. Made(v, r)
    BY <2>2, RendersTheRow
  <2> QED BY <2>1, <2>2, <2>3, ChangeTouches
<1>3. ASSUME NEW ssl \in BOOLEAN, NEW cert \in {"le"} \cup Uploads, InstallCert(n, cert),
             row' = [row EXCEPT ![n] = WithCert(row[n], ssl, cert)]
      PROVE  Touches(n)
  <2> DEFINE r == WithCert(row[n], ssl, cert)
             v == render_vhost("default", "none", cert, row[n].on \cap {"php"})
  <2>1. /\ n \in domains /\ UNCHANGED <<domains, enabled>>
        /\ nginx' = [nginx EXCEPT ![n] = v]
    BY <1>3 DEF InstallCert, WriteVhost
  <2>2. r \in Row /\ OneRow(n, r) /\ r.on = row[n].on /\ r.cert = cert
    BY <1>1, <1>3, <2>1
  <2>3. v \in Vhost
    <3>1. row[n].on \cap {"php"} \in SUBSET Feature /\ cert \in CertRef
      BY <1>0, InputsAssumption DEF Row, CertRef, Cert
    <3> QED BY <3>1, RenderType DEF Template, Custom
  <2>4. Made(v, r)
    BY <2>2, <2>3 DEF Made, render_vhost
  <2> HIDE DEF r, v
  <2> QED BY <2>1, <2>2, <2>4, ChangeTouches
<1>4. CASE issue_certificate(n)
  BY <1>3, <1>4 DEF issue_certificate
<1>5. CASE \E cert \in Uploads : install_custom_certificate(n, cert)
  BY <1>3, <1>5 DEF install_custom_certificate
<1>6. CASE renew_certificate(n)
  <2>1. row[n].ssl \in BOOLEAN
    BY <1>0 DEF Row
  <2> QED BY <1>3, <1>6, <2>1 DEF renew_certificate
<1> QED BY <1>2, <1>4, <1>5, <1>6 DEF SslNext

-----------------------------------------------------------------------------
(* Handlers that make or remove a row.                                     *)

LEMMA create_domain_Touches ==
  ASSUME FilesOK, RowsOK, NEW n \in Names, NEW ws \in Webservers, NEW tpl \in Templates,
         NEW cust \in Customs, create_domain(n, ws, tpl, cust)
  PROVE  Touches(n)
<1> DEFINE r == NewRow(ws, tpl, cust, "none", FALSE)
           v == VhostFor(r, "update_domain")
<1>1. /\ r \in Row /\ r.on = {} /\ r.cert = "none" /\ r.custom = cust /\ r.webserver = ws
  BY InputsAssumption DEF NewRow, Row, Webserver, Template, Custom, CertRef
<1>2. /\ n \notin domains /\ domains' = domains \cup {n} /\ row' = [row EXCEPT ![n] = r]
      /\ IF HasNginx(r) THEN create_vhost(n, v) ELSE UNCHANGED <<nginx, enabled, live>>
  BY DEF create_domain
<1>3. row \in [Names -> Row] /\ nginx \in [Names -> Vhost \cup {Absent}] /\ row'[n] = r
  BY <1>2 DEF RowsOK, FilesOK
<1> HIDE DEF r
<1>4. Made(v, r)
  BY <1>1, RendersTheRow
<1> HIDE DEF v
<1>5. \/ enabled' = enabled \cup {n} /\ nginx' = [nginx EXCEPT ![n] = v]
      \/ UNCHANGED <<nginx, enabled>>
  BY <1>2 DEF create_vhost, WriteVhost
<1>6. OthersStay(n)
  BY <1>2, <1>3, <1>5 DEF OthersStay
<1>7. LinkFrom(n) /\ SettlesFrom(n)
  BY <1>2 DEF LinkFrom, SettlesFrom
<1> QED BY <1>6, <1>7 DEF Touches

LEMMA create_subdomain_Touches ==
  ASSUME FilesOK, RowsOK, NEW n \in Names, NEW ssl \in BOOLEAN, create_subdomain(n, ssl)
  PROVE  Touches(n)
<1> DEFINE p == Parent[n]
           r == NewRow(row[p].webserver, row[p].template, "none",
                       IF ssl THEN "le" ELSE "none", TRUE)
           v == VhostFor(r, "apply_ssl")
<1>1. p \in Names /\ row[p] \in Row
  BY DEF create_subdomain, RowsOK
<1>2. /\ r \in Row /\ r.cert \in {"none", "le"} /\ r.custom = "none"
      /\ r.webserver = row[p].webserver
  BY <1>1 DEF NewRow, Row, Custom, CertRef, Cert
<1>3. /\ n \notin domains /\ domains' = domains \cup {n} /\ row' = [row EXCEPT ![n] = r]
      /\ enabled' = IF HasNginx(r) THEN enabled \cup {n} ELSE enabled
      /\ IF HasNginx(r) \/ ssl THEN WriteVhost(n, v) ELSE UNCHANGED <<nginx, live>>
  BY DEF create_subdomain
<1>4. row \in [Names -> Row] /\ nginx \in [Names -> Vhost \cup {Absent}] /\ row'[n] = r
  BY <1>3 DEF RowsOK, FilesOK
<1> HIDE DEF r
<1>5. Made(v, r)
  BY <1>2, RendersTheRow
<1> HIDE DEF v
<1>6. \/ nginx' = [nginx EXCEPT ![n] = v]
      \/ nginx' = nginx /\ ~HasNginx(r)
  BY <1>3 DEF WriteVhost
<1>7. OthersStay(n)
  BY <1>3, <1>4, <1>6 DEF OthersStay
<1>8. LinkFrom(n) /\ SettlesFrom(n)
  BY <1>3 DEF LinkFrom, SettlesFrom
<1> QED BY <1>7, <1>8 DEF Touches

LEMMA DeleteNext_Touches ==
  ASSUME FilesOK, RowsOK, NEW n \in Names, DeleteNext(n)
  PROVE  Touches(n)
<1>1. /\ n \in domains /\ row' = row /\ domains' = domains \ Cascade(n)
      /\ \/ /\ HasNginx(row[n]) /\ enabled' = enabled \ {n}
            /\ nginx' = [nginx EXCEPT ![n] = Absent]
         \/ ~HasNginx(row[n]) /\ UNCHANGED <<nginx, enabled>>
  BY DEF DeleteNext, delete_domain, delete_subdomain, DeleteRows, DeleteVhosts, delete_vhost,
         WriteVhost
<1>2. row \in [Names -> Row] /\ nginx \in [Names -> Vhost \cup {Absent}]
  BY DEF RowsOK, FilesOK
<1>3. /\ n \in Cascade(n) /\ Cascade(n) \subseteq domains
      /\ \A m \in Cascade(n) \ {n} : Parent[m] \in Cascade(n)
  BY <1>1, CascadeOfChildren
<1>4. OthersStay(n)
  BY <1>1, <1>2, <1>3 DEF OthersStay
<1>5. LinkFrom(n) /\ SettlesFrom(n)
  BY <1>1, <1>3 DEF LinkFrom, SettlesFrom
<1> QED BY <1>4, <1>5 DEF Touches

-----------------------------------------------------------------------------
(* The theorems.                                                           *)

LEMMA NextTouches ==
  ASSUME FilesOK, RowsOK, enabled \subseteq Names, Next
  PROVE  \E n \in Names : Touches(n)
<1>1. PICK n \in Names : CreateNext(n) \/ UpdateNext(n) \/ SslNext(n) \/ DeleteNext(n)
  BY DEF Next
<1>2. CASE \E ssl \in BOOLEAN : create_subdomain(n, ssl)
  BY <1>2, create_subdomain_Touches
<1>3. CASE \E ws \in Webservers, tpl \in Templates, cust \in Customs : create_domain(n, ws, tpl, cust)
  BY <1>3, create_domain_Touches
<1>4. CASE UpdateNext(n)
  BY <1>4, UpdateNext_Touches
<1>5. CASE SslNext(n)
  BY <1>5, SslNext_Touches
<1>6. CASE DeleteNext(n)
  BY <1>6, DeleteNext_Touches
<1> QED BY <1>1, <1>2, <1>3, <1>4, <1>5, <1>6 DEF CreateNext

OrphansStep ==
    \A n \in enabled' \ domains' :
        \/ n \in enabled \ domains
        \/ n \in domains /\ (HasNginx(row[n]) => Parent[n] \in domains \ domains')

SettingsStep ==
    \A n \in domains \cap domains', f \in {"hotlink", "errors", "redirect", "auth"} :
        HasNginx(row'[n]) /\ f \in nginx'[n].on \ row'[n].on =>
            \/ f \in nginx[n].on \ row[n].on
            \/ f \in nginx[n].on \cap row[n].on /\ Refusable(n)

\* create_domain, create_subdomain, delete_domain and delete_subdomain: a name comes
\* to be linked without a row only with its parent's deletion, or when nginx did not
\* serve its row.
THEOREM OrphansLostTheirParent == Spec => OrphansLoseTheirParent
<1>1. ASSUME Inv, Inv', Next PROVE OrphansStep
  <2>1. FilesOK /\ RowsOK /\ enabled \subseteq Names /\ enabled' \subseteq Names
    BY <1>1, InvParts DEF Inv, TypeOK
  <2>2. PICK n \in Names : Touches(n)
    BY <1>1, <2>1, NextTouches
  <2> SUFFICES ASSUME NEW m \in enabled' \ domains', m \notin enabled \ domains
               PROVE  m \in domains /\ (HasNginx(row[m]) => Parent[m] \in domains \ domains')
    BY DEF OrphansStep
  <2>3. CASE m # n
    BY <2>1, <2>2, <2>3 DEF Touches, OthersStay
  <2>4. CASE m = n
    BY <2>2, <2>4 DEF Touches, LinkFrom
  <2> QED BY <2>3, <2>4
<1>2. Inv /\ Inv' /\ [Next]_vars => [OrphansStep]_vars
  BY <1>1
<1> QED BY <1>2, InvAlways, PTL DEF Spec, OrphansLoseTheirParent, OrphansStep

\* The eight writers of vhosts: a vhost comes to apply a setting its row does not
\* have only when the setting is switched off and nginx refuses the new file.
THEOREM OffMeansOff == Spec => NoStaleSetting
<1>1. ASSUME Inv, Inv', Next PROVE SettingsStep
  <2>1. FilesOK /\ RowsOK /\ enabled \subseteq Names /\ domains \subseteq Names
    BY <1>1, InvParts DEF Inv, TypeOK
  <2>2. PICK n \in Names : Touches(n)
    BY <1>1, <2>1, NextTouches
  <2> SUFFICES ASSUME NEW m \in domains \cap domains', NEW f \in Kept, HasNginx(row'[m]),
                      f \in nginx'[m].on \ row'[m].on
               PROVE  \/ f \in nginx[m].on \ row[m].on
                      \/ f \in nginx[m].on \cap row[m].on /\ Refusable(m)
    BY DEF SettingsStep, Kept
  <2>3. CASE m # n
    BY <2>1, <2>2, <2>3 DEF Touches, OthersStay
  <2>4. CASE m = n
    BY <2>2, <2>4 DEF Touches, SettlesFrom
  <2> QED BY <2>3, <2>4
<1>2. Inv /\ Inv' /\ [Next]_vars => [SettingsStep]_vars
  BY <1>1
<1> QED BY <1>2, InvAlways, PTL DEF Spec, NoStaleSetting, SettingsStep

=============================================================================
