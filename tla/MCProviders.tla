---------------------------- MODULE MCProviders ----------------------------
(* An account with a domain, which may be reported under another name or none
   at all, and a website; one request to a tick. *)
EXTENDS Providers, TLC

CONSTANTS kim, lee, domain, site, shop, store

Kind == domain :> "DOMAIN" @@ site :> "WEBSITE"
Reported == domain :> {shop, store, None} @@ site :> {shop}
SiteRows == {[username |-> u, account |-> a] : u, a \in {kim, None}}
=============================================================================
