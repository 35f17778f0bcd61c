------------------------------- MODULE Access -------------------------------
(***************************************************************************)
(* Who may do what: the catalogue of permissions, the roles seeded from    *)
(* it, the routes of the API with what each demands, the two guards every  *)
(* request passes, the tenant's scope, and the trail of what was done.     *)
(*                                                                         *)
(* A permission is <<module, verb>>; a route is its controller, the        *)
(* operation it calls, its realm and the one permission it demands.        *)
(* A request is looked up and guarded in one step and served in a later    *)
(* one, on what was read in the first.  What a handler does to the         *)
(* resource itself is in the module of that component.                     *)
(***************************************************************************)
EXTENDS Naturals, Sequences, FiniteSets

CONSTANTS
  Tenants,   \* customer accounts
  Users,     \* people who sign in
  Nowhere,   \* the tenant of staff, and of a row that has none
  RoleOf,    \* [Users -> Roles]
  TenantOf,  \* [Users -> Tenants \cup {Nowhere}]
  Clients,   \* requests being served at one time
  MaxTrail,  \* bound: rows of the trail
  MaxAmiss   \* bound: accounts blocked and roles empty at one time

Under(module, verbs) == {module} \X verbs

(* permissions.catalog.ts *)
CustomerKeys ==
  UNION {Under("dashboard", {"view"}),
         Under("websites", {"view", "create", "update", "delete"}),
         Under("files", {"view", "download", "upload", "create", "edit",
                         "rename", "move", "delete"}),
         Under("database", {"view", "create", "update", "delete"}),
         Under("domains", {"view", "create", "update", "delete",
                           "nameservers"}),
         Under("dns", {"view", "create", "update", "delete"}),
         Under("ssl", {"view", "manage"}),
         Under("storage", {"view"}),
         Under("backup", {"view", "create", "restore", "delete"}),
         Under("email", {"view", "create", "update", "delete",
                         "password_change"}),
         Under("billing", {"view", "purchase", "renew", "invoice"}),
         Under("support", {"view", "create", "reply"}),
         Under("activity", {"view"}),
         Under("settings", {"view", "update"})}
AdminKeys ==
  UNION {Under("admin", {"customers", "hosting_services", "plans",
                         "providers", "resource_mapping", "permissions",
                         "billing", "logs", "security_logs",
                         "system_settings", "impersonate", "search"}),
         Under("admin.customers", {"suspend"}),
         Under("admin.providers", {"credentials"}),
         Under("admin.support", {"view", "reply", "assign", "close"}),
         Under("admin.billing", {"refund"})}
Keys(realm) == IF realm = "ADMIN" THEN AdminKeys ELSE CustomerKeys

Roles == {"SUPER_ADMIN", "ADMIN", "SUPPORT_STAFF", "CUSTOMER"}
RealmOf(role) == IF role = "CUSTOMER" THEN "CUSTOMER" ELSE "ADMIN"

\* What a role is meant to hold, and what seeding gives it: the keys of its
\* own realm among them.
Composition(role) ==
  CASE role = "SUPER_ADMIN" -> AdminKeys
    [] role = "ADMIN" ->
         AdminKeys \ {<<"admin", "permissions">>, <<"admin", "impersonate">>,
                      <<"admin.providers", "credentials">>}
    [] role = "SUPPORT_STAFF" ->
         Under("admin", {"customers", "hosting_services", "logs", "search"})
           \cup Under("admin.support", {"view", "reply", "assign", "close"})
    [] role = "CUSTOMER" -> CustomerKeys
Seeded(role) == Composition(role) \cap Keys(RealmOf(role))

\* Customers' people have a tenant, staff have none.
ASSUME PeopleAssumption ==
  /\ RoleOf \in [Users -> Roles]
  /\ Nowhere \notin Users
  /\ TenantOf \in [Users -> Tenants \cup {Nowhere}]
  /\ \A u \in Users : TenantOf[u] = Nowhere <=> RealmOf(RoleOf[u]) = "ADMIN"

(* The controllers. *)
Public == "public"
Routes(controller, realm, operations, key) ==
  [controller : {controller}, operation : operations, realm : {realm},
   needs : {key}]
Admin(controller, operations, key) == Routes(controller, "ADMIN", operations, key)
Portal(controller, operations, key) ==
  Routes(controller, "CUSTOMER", operations, key)

AuthRoutes ==
  Routes("auth", Public, {"customerLogin", "adminLogin", "refresh", "logout"},
         <<Public, Public>>)
PlanRoutes ==
  Admin("plans", {"list", "get", "create", "update", "setActive"},
        <<"admin", "plans">>)
SubscriptionRoutes ==
  Admin("subscriptions", {"subscribe", "cancel"},
        <<"admin", "hosting_services">>)
    \cup Admin("subscriptions", {"renew", "changePlan"},
               <<"admin", "billing">>)
RenewalRoutes ==
  Admin("renewals", {"due", "run"}, <<"admin", "billing">>)
CustomerPlanRoutes ==
  Portal("plans", {"list"}, <<"billing", "view">>)
CustomerRoutes ==
  Admin("customers", {"list", "get", "create", "addUser", "setUserStatus"},
        <<"admin", "customers">>)
    \cup Admin("customers", {"setStatus"}, <<"admin.customers", "suspend">>)
    \cup Admin("customers", {"subscribe"}, <<"admin", "hosting_services">>)
BillingRoutes ==
  Admin("billing", {"list", "get", "issue", "void", "sequence"},
        <<"admin", "billing">>)
    \cup Admin("billing", {"creditNote"}, <<"admin.billing", "refund">>)
InvoiceRoutes ==
  Portal("invoices", {"list", "get"}, <<"billing", "invoice">>)
ActivityRoutes ==
  Admin("activity", {"list"}, <<"admin", "logs">>)
    \cup Admin("activity", {"listSecurity"}, <<"admin", "security_logs">>)
OwnActivityRoutes ==
  Portal("activity", {"list"}, <<"activity", "view">>)
ProviderRoutes ==
  Admin("providers", {"list", "capabilities", "create", "setStatus"},
        <<"admin", "providers">>)
    \cup Admin("providers", {"verify", "sync", "addCredential",
                             "revokeCredential"},
               <<"admin.providers", "credentials">>)
DomainRoutes ==
  Admin("domains", {"list", "claim", "create", "detach"},
        <<"admin", "hosting_services">>)
AdminDnsRoutes ==
  Admin("dns", {"list", "create", "update", "remove"},
        <<"admin", "hosting_services">>)
HostingRoutes ==
  Admin("hosting", {"listDatabases", "createDatabase", "deleteDatabase",
                    "changePassword", "phpMyAdmin", "listMailboxes",
                    "createMailbox", "deleteMailbox", "publish"},
        <<"admin", "hosting_services">>)
PortalRoutes ==
  Portal("portal", {"dashboard", "notifications"}, <<"dashboard", "view">>)
    \cup Portal("portal", {"websites", "website"}, <<"websites", "view">>)
    \cup Portal("portal", {"subscription"}, <<"billing", "view">>)
    \cup Portal("portal", {"domains"}, <<"domains", "view">>)
SslRoutes == Portal("ssl", {"inspect"}, <<"ssl", "view">>)
DnsRoutes ==
  UNION {Portal("dns", {verb[1]}, <<"dns", verb[2]>>) :
           verb \in {<<"list", "view">>, <<"create", "create">>,
                     <<"update", "update">>, <<"remove", "delete">>}}
FileRoutes ==
  (UNION {Portal("files", {verb[1]}, <<"files", verb[2]>>) :
            verb \in {<<"list", "view">>, <<"read", "view">>,
                      <<"write", "edit">>, <<"createFolder", "create">>,
                      <<"rename", "rename">>, <<"remove", "delete">>}})
    \cup Admin("sftp", {"setCredentials"}, <<"admin", "resource_mapping">>)
MailRoutesSlip ==  \* a key nobody catalogued
  Portal("mail", {"setPassword"}, <<"email", "password">>)
MailRoutes ==
  UNION {Portal("mail", verb[1], <<"email", verb[2]>>) :
           verb \in {<<{"listDomains", "getDomain", "listMailboxes",
                        "listAliases", "trace"}, "view">>,
                     <<{"addDomain", "verifyDomain", "createMailbox",
                        "createAlias"}, "create">>,
                     <<{"updateMailbox", "updateAlias"}, "update">>,
                     <<{"setPassword"}, "password_change">>,
                     <<{"removeDomain", "removeMailbox", "removeAlias"},
                       "delete">>}}

AllRoutes ==
  UNION {AuthRoutes, PlanRoutes, SubscriptionRoutes, RenewalRoutes,
         CustomerPlanRoutes, CustomerRoutes, BillingRoutes, InvoiceRoutes,
         ActivityRoutes, OwnActivityRoutes, ProviderRoutes, DomainRoutes,
         AdminDnsRoutes, HostingRoutes, PortalRoutes, SslRoutes, DnsRoutes,
         FileRoutes, MailRoutes}

---------------------------------------------------------------------------
VARIABLES
  granted,  \* the permissions each role holds in the database
  blocked,  \* users and tenants that are not ACTIVE
  request,  \* what each request has been admitted with
  trail,    \* activity_logs
  answer    \* what somebody was last shown, and who

vars == <<granted, blocked, request, trail, answer>>

Idle == [at |-> "idle"]

Init ==
  /\ granted = [r \in Roles |-> Seeded(r)]
  /\ blocked = {}
  /\ request = [c \in Clients |-> Idle]
  /\ trail = <<>>
  /\ answer = [reader |-> Nowhere, rows |-> {}]

\* JwtAuthGuard, loadPrincipal: the user and the tenant are looked up again.
Known(u) == u \notin blocked /\ TenantOf[u] \notin blocked

PermittedSlip(u, r) ==  \* no realm asked for, no permission named
  r.realm = "CUSTOMER" \/ r.needs \in granted[RoleOf[u]]
\* PermissionsGuard: what demands nothing is refused.
Permitted(u, r) ==
  /\ RealmOf(RoleOf[u]) = r.realm
  /\ r.needs \in granted[RoleOf[u]]

Admit(c, u, r) ==
  /\ request[c] = Idle
  /\ Known(u)
  /\ Permitted(u, r)
  /\ request' = [request EXCEPT ![c] = [at |-> "admitted", user |-> u,
                                        route |-> r]]
  /\ UNCHANGED <<granted, blocked, trail, answer>>

\* The route a request is on.
Serving(c, realm) ==
  request[c] # Idle /\ request[c].route.realm = realm
Done(c) == request' = [request EXCEPT ![c] = Idle]

\* ActivityService.record: the caller names the tenant and says whether the
\* tenant may see the row; a row that cannot be written is lost.
Write(row) ==
  \/ Len(trail) < MaxTrail /\ trail' = Append(trail, row)
  \/ UNCHANGED trail

\* isSecurityAction: what the name of an action says of credentials, passwords,
\* sessions and roles goes to the security trail.
Row(tenant, by, visible, security) ==
  [tenant |-> tenant, by |-> by, visible |-> visible, security |-> security]
ServeStaff(c, t, visible, security) ==
  /\ Serving(c, "ADMIN")
  /\ request[c].route \notin ActivityRoutes
  /\ Write(Row(t, request[c].user, visible, security))
  /\ Done(c)
  /\ UNCHANGED <<granted, blocked, answer>>

\* ActivityReadService.listForStaff and listSecurityForStaff: of one tenant, or
\* of all; the two trails share no row.
ForStaff(t, security) ==
  {trail[i] : i \in {i \in DOMAIN trail :
     /\ t \in {Nowhere, trail[i].tenant}
     /\ trail[i].security = security}}

ServeTrail(c, t) ==
  /\ Serving(c, "ADMIN")
  /\ request[c].route \in ActivityRoutes
  /\ answer' = [reader |-> request[c].user,
                rows |-> ForStaff(t, request[c].route.operation # "list")]
  /\ Done(c)
  /\ UNCHANGED <<granted, blocked, trail>>

FindOwnedSlip(u, owner) == {Row(owner, u, TRUE, FALSE)}
\* TenantScope: a row is found by its id and the caller's tenant together.
FindOwned(u, owner) ==
  IF owner = TenantOf[u] THEN {Row(owner, u, TRUE, FALSE)} ELSE {}

ServeCustomer(c, owner, security) ==
  /\ Serving(c, "CUSTOMER")
  /\ request[c].route \notin OwnActivityRoutes
  /\ LET u == request[c].user IN
     /\ answer' = [reader |-> u, rows |-> FindOwned(u, owner)]
     /\ IF answer'.rows = {} THEN UNCHANGED trail
        ELSE Write(Row(TenantOf[u], u, TRUE, security))
  /\ Done(c)
  /\ UNCHANGED <<granted, blocked>>

\* ActivityReadService.listForCustomer and actorFor: a customer reads who of its
\* own did it, and of staff or a timer only that it was support or automatic.
ActorFor(row) ==
  IF row.by = Nowhere \/ TenantOf[row.by] = Nowhere THEN Nowhere ELSE row.by
OwnTrail(u) ==
  {[trail[i] EXCEPT !.by = ActorFor(trail[i])] :
     i \in {i \in DOMAIN trail : trail[i].tenant = TenantOf[u]
                                   /\ trail[i].visible}}

ServeOwnActivity(c) ==
  /\ Serving(c, "CUSTOMER")
  /\ request[c].route \in OwnActivityRoutes
  /\ answer' = [reader |-> request[c].user,
                rows |-> OwnTrail(request[c].user)]
  /\ Done(c)
  /\ UNCHANGED <<granted, blocked, trail>>

\* A renewal or an expiry is recorded with no principal.
Timer(t, visible) ==
  /\ Write(Row(t, Nowhere, visible, FALSE))
  /\ UNCHANGED <<granted, blocked, request, answer>>

Amiss == Cardinality(blocked) + Cardinality({r \in Roles : granted[r] = {}})

Block(x) ==
  /\ Amiss < MaxAmiss \/ x \in blocked
  /\ blocked' = IF x \in blocked THEN blocked \ {x} ELSE blocked \cup {x}
  /\ UNCHANGED <<granted, request, trail, answer>>

\* Seeding runs again on each release: it empties a role and fills it again,
\* in two statements, while requests are served.
Empty(r) ==
  /\ Amiss < MaxAmiss
  /\ granted' = [granted EXCEPT ![r] = {}]
  /\ UNCHANGED <<blocked, request, trail, answer>>
Fill(r) ==
  /\ granted[r] = {}
  /\ granted' = [granted EXCEPT ![r] = Seeded(r)]
  /\ UNCHANGED <<blocked, request, trail, answer>>

Next ==
  \/ \E c \in Clients :
        \/ \E u \in Users, r \in AllRoutes : Admit(c, u, r)
        \/ \E t \in Tenants \cup {Nowhere} :
             \/ \E v, s \in BOOLEAN : ServeStaff(c, t, v, s)
             \/ ServeTrail(c, t)
        \/ \E t \in Tenants, s \in BOOLEAN : ServeCustomer(c, t, s)
        \/ ServeOwnActivity(c)
  \/ \E t \in Tenants, v \in BOOLEAN : Timer(t, v)
  \/ \E x \in Users \cup Tenants : Block(x)
  \/ \E r \in Roles : Empty(r) \/ Fill(r)

Spec == Init /\ [][Next]_vars

---------------------------------------------------------------------------
(* Properties.                                                             *)

\* Every route but the public ones is one that some role of its own realm is
\* admitted to, whenever the roles hold what seeding gives them: a permission
\* that is misspelt in a controller or left out of the catalogue would close
\* its route to everybody (permissions.catalog.ts:148).
EveryRouteOpens ==
  (\A role \in Roles : granted[role] # {}) =>
     \A r \in AllRoutes \ AuthRoutes :
        \E role \in Roles :
           RealmOf(role) = r.realm /\ r.needs \in granted[role]

\* The roles stay apart, whatever is reseeded and whoever is blocked: nobody
\* is admitted to a route of the other realm; an operational administrator
\* runs the business "but not the keys to it" (permissions.catalog.ts:152);
\* support staff reach neither money, nor plans, nor providers, and cannot
\* suspend a customer.
RolesApart ==
  \A c \in Clients :
     request[c] # Idle =>
        LET role == RoleOf[request[c].user]
            r == request[c].route
        IN /\ r.realm = RealmOf(role)
           /\ role = "ADMIN" =>
                r.operation \notin {"verify", "sync", "addCredential",
                                   "revokeCredential"}
           /\ role = "SUPPORT_STAFF" =>
                /\ r.controller \notin {"billing", "renewals", "plans",
                                       "providers", "sftp"}
                /\ r.operation \notin {"setStatus", "renew", "changePlan"}

\* Nobody is shown another's rows.  A customer sees resources of its own by
\* their id, and rows of the trail that were made visible to it and name nobody
\* but its own people, although staff and timers write into the same trail
\* (TenantScope, listForCustomer).  Staff see a row of the security trail only
\* when their role was given admin.security_logs, on whichever route they read
\* (activity-read.service.ts:76).
AnswersStayHome ==
  LET u == answer.reader IN
  \A row \in answer.rows :
     IF RealmOf(RoleOf[u]) = "CUSTOMER"
     THEN /\ row.tenant = TenantOf[u] /\ row.visible
          /\ row.by # Nowhere => TenantOf[row.by] = TenantOf[u]
     ELSE row.security =>
            <<"admin", "security_logs">> \in Composition(RoleOf[u])
=============================================================================
