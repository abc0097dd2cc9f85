---------------------------- MODULE MCSiteConfig ----------------------------
(* Instances of SiteConfig for TLC: a domain d and its subdomain s.          *)
EXTENDS SiteConfig, TLC

CONSTANTS d, s

OneName      == {d}
TwoNames     == {d, s}
OneParent    == [n \in OneName |-> NoName]
TwoParents   == d :> NoName @@ s :> d
=============================================================================
