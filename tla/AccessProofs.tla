---------------------------- MODULE AccessProofs ----------------------------
(***************************************************************************)
(* Who is shown what, for any people, tenants and number of requests.  A   *)
(* request is served some time after it was admitted, and a role may be    *)
(* emptied and filled meanwhile, so the argument follows what the request  *)
(* was admitted with, and what the rows of the trail say of their author.  *)
(***************************************************************************)
EXTENDS Access, SequenceTheorems, TLAPS

Rows == [tenant : Tenants \cup {Nowhere}, by : Users \cup {Nowhere},
         visible : BOOLEAN, security : BOOLEAN]

\* A role never holds more than it is meant to.
GrantsOK ==
  /\ DOMAIN granted = Roles
  /\ \A r \in Roles : granted[r] \subseteq Composition(r)

\* A request is on a route of its user's realm, which the role may take.
AdmittedOK(q) ==
  q # Idle =>
    /\ q.user \in Users /\ q.route \in AllRoutes
    /\ q.route.realm = RealmOf(RoleOf[q.user])
    /\ q.route.needs \in Composition(RoleOf[q.user])

\* A row by one of a customer's people is that customer's.
RowOK(row) ==
  /\ row \in Rows
  /\ row.by \in Users /\ TenantOf[row.by] # Nowhere =>
       row.tenant = TenantOf[row.by]

AccessInv ==
  /\ GrantsOK
  /\ DOMAIN request = Clients
  /\ \A c \in Clients : AdmittedOK(request[c])
  /\ trail \in Seq(Rows)
  /\ \A i \in 1..Len(trail) : RowOK(trail[i])
  /\ AnswersStayHome

---------------------------------------------------------------------------
LEMMA InitAccess == Init => AccessInv
BY DEF Init, AccessInv, GrantsOK, AdmittedOK, AnswersStayHome, Seeded

\* Staff have no tenant, and a customer's people have one.
LEMMA Belongs ==
  ASSUME NEW u \in Users
  PROVE  /\ RoleOf[u] \in Roles /\ RealmOf(RoleOf[u]) \in {"ADMIN", "CUSTOMER"}
         /\ TenantOf[u] \in Tenants \cup {Nowhere}
         /\ TenantOf[u] = Nowhere <=> RealmOf(RoleOf[u]) = "ADMIN"
BY PeopleAssumption DEF RealmOf

\* A request is admitted with what its role holds at that moment.
LEMMA AdmitKeeps ==
  ASSUME AccessInv, NEW c \in Clients, NEW u \in Users, NEW r \in AllRoutes,
         Admit(c, u, r)
  PROVE  AccessInv'
<1> DEFINE q == [at |-> "admitted", user |-> u, route |-> r]
<1>1. /\ request' = [request EXCEPT ![c] = q]
      /\ UNCHANGED <<granted, trail, answer>>
  BY DEF Admit
<1>2. AdmittedOK(q)
  BY Belongs DEF Admit, Permitted, AccessInv, GrantsOK, AdmittedOK
<1> HIDE DEF q
<1>3. DOMAIN request' = Clients /\ \A d \in Clients : AdmittedOK(request'[d])
  BY <1>1, <1>2 DEF AccessInv
<1> QED
  BY <1>1, <1>3 DEF AccessInv, GrantsOK, AdmittedOK, AnswersStayHome, RowOK

\* A served request leaves a row of its author, or none.
LEMMA WriteKeeps ==
  ASSUME AccessInv, NEW row, RowOK(row), Write(row)
  PROVE  trail' \in Seq(Rows) /\ \A i \in 1..Len(trail') : RowOK(trail'[i])
<1>1. CASE UNCHANGED trail
  BY <1>1 DEF AccessInv
<1>2. CASE trail' = Append(trail, row)
  <2>1. trail \in Seq(Rows) /\ row \in Rows
    BY DEF AccessInv, RowOK
  <2>2. /\ trail' \in Seq(Rows) /\ Len(trail') = Len(trail) + 1
        /\ trail'[Len(trail) + 1] = row
        /\ \A i \in 1..Len(trail) : trail'[i] = trail[i]
    BY <1>2, <2>1
  <2>3. Len(trail) \in Nat
    BY <2>1
  <2> QED
    BY <2>2, <2>3 DEF AccessInv
<1> QED
  BY <1>1, <1>2 DEF Write

\* A request that has been served is gone, and its role is what it was.
LEMMA DoneKeeps ==
  ASSUME AccessInv, NEW c \in Clients, Done(c), UNCHANGED granted,
         trail' \in Seq(Rows), \A i \in 1..Len(trail') : RowOK(trail'[i]),
         AnswersStayHome'
  PROVE  AccessInv'
<1>1. DOMAIN request' = Clients /\ \A d \in Clients : AdmittedOK(request'[d])
  BY DEF Done, AccessInv, AdmittedOK
<1> QED
  BY <1>1 DEF AccessInv, GrantsOK, RowOK, AdmittedOK

LEMMA StaffKeeps ==
  ASSUME AccessInv, NEW c \in Clients, NEW t \in Tenants \cup {Nowhere},
         NEW v \in BOOLEAN, NEW s \in BOOLEAN, ServeStaff(c, t, v, s)
  PROVE  AccessInv'
<1> DEFINE u == request[c].user
<1>1. u \in Users /\ RealmOf(RoleOf[u]) = "ADMIN"
  BY DEF ServeStaff, Serving, AccessInv, AdmittedOK
<1>2. TenantOf[u] = Nowhere
  BY <1>1, Belongs
<1>3. RowOK(Row(t, u, v, s))
  BY <1>1, <1>2 DEF RowOK, Row, Rows
<1>4. AnswersStayHome'
  BY DEF ServeStaff, AccessInv, AnswersStayHome
<1> QED
  BY <1>3, <1>4, WriteKeeps, DoneKeeps DEF ServeStaff

\* Staff read one of the two trails, and the security trail on its own route.
LEMMA TrailKeeps ==
  ASSUME AccessInv, NEW c \in Clients, NEW t \in Tenants \cup {Nowhere},
         ServeTrail(c, t)
  PROVE  AccessInv'
<1> DEFINE u == request[c].user
           r == request[c].route
<1>1. /\ u \in Users /\ RealmOf(RoleOf[u]) = "ADMIN"
      /\ r \in ActivityRoutes /\ r.needs \in Composition(RoleOf[u])
  BY DEF ServeTrail, Serving, AccessInv, AdmittedOK
<1>2. r.operation # "list" => r.needs = <<"admin", "security_logs">>
  BY <1>1 DEF ActivityRoutes, Admin, Routes
<1>3. answer' = [reader |-> u, rows |-> ForStaff(t, r.operation # "list")]
  BY DEF ServeTrail
<1>4. \A row \in ForStaff(t, r.operation # "list") :
        row.security => r.operation # "list"
  BY DEF ForStaff
<1>5. AnswersStayHome'
  BY <1>1, <1>2, <1>3, <1>4 DEF AnswersStayHome
<1> QED
  BY <1>5, DoneKeeps DEF ServeTrail, AccessInv

LEMMA CustomerKeeps ==
  ASSUME AccessInv, NEW c \in Clients, NEW t \in Tenants, NEW s \in BOOLEAN,
         ServeCustomer(c, t, s)
  PROVE  AccessInv'
<1> DEFINE u == request[c].user
<1>1. u \in Users /\ RealmOf(RoleOf[u]) = "CUSTOMER"
  BY DEF ServeCustomer, Serving, AccessInv, AdmittedOK
<1>2. RowOK(Row(TenantOf[u], u, TRUE, s))
  BY <1>1, Belongs DEF RowOK, Row, Rows
<1>3. answer' = [reader |-> u, rows |-> FindOwned(u, t)]
  BY DEF ServeCustomer
<1>4. \A row \in FindOwned(u, t) :
        row.tenant = TenantOf[u] /\ row.visible /\ row.by = u
  BY DEF FindOwned, Row
<1>5. AnswersStayHome'
  BY <1>1, <1>3, <1>4 DEF AnswersStayHome
<1>6. trail' \in Seq(Rows) /\ \A i \in 1..Len(trail') : RowOK(trail'[i])
  <2>1. CASE UNCHANGED trail
    BY <2>1 DEF AccessInv
  <2>2. CASE Write(Row(TenantOf[u], u, TRUE, s))
    BY <2>2, <1>2, WriteKeeps
  <2> QED
    BY <2>1, <2>2 DEF ServeCustomer
<1> QED
  BY <1>5, <1>6, DoneKeeps DEF ServeCustomer

\* A customer reads its own trail: whoever it names is one of its own people.
LEMMA OwnTrailKeeps ==
  ASSUME AccessInv, NEW c \in Clients, ServeOwnActivity(c)
  PROVE  AccessInv'
<1> DEFINE u == request[c].user
<1>1. u \in Users /\ RealmOf(RoleOf[u]) = "CUSTOMER"
  BY DEF ServeOwnActivity, Serving, AccessInv, AdmittedOK
<1>2. answer' = [reader |-> u, rows |-> OwnTrail(u)]
  BY DEF ServeOwnActivity
<1>3. ASSUME NEW row \in OwnTrail(u)
      PROVE  /\ row.tenant = TenantOf[u] /\ row.visible
             /\ row.by # Nowhere => TenantOf[row.by] = TenantOf[u]
  <2>1. PICK i \in 1..Len(trail) :
          /\ trail[i].tenant = TenantOf[u] /\ trail[i].visible
          /\ row = [trail[i] EXCEPT !.by = ActorFor(trail[i])]
    BY DEF OwnTrail, AccessInv
  <2>2. RowOK(trail[i])
    BY DEF AccessInv
  <2>3. /\ row.tenant = trail[i].tenant /\ row.visible = trail[i].visible
        /\ row.by = ActorFor(trail[i])
    BY <2>1, <2>2 DEF RowOK, Rows
  <2>4. ActorFor(trail[i]) # Nowhere =>
          TenantOf[ActorFor(trail[i])] = trail[i].tenant
    BY <2>2 DEF ActorFor, RowOK, Rows
  <2> QED
    BY <2>1, <2>3, <2>4
<1>4. AnswersStayHome'
  BY <1>1, <1>2, <1>3 DEF AnswersStayHome
<1> QED
  BY <1>4, DoneKeeps DEF ServeOwnActivity, AccessInv

LEMMA TimerKeeps ==
  ASSUME AccessInv, NEW t \in Tenants, NEW v \in BOOLEAN, Timer(t, v)
  PROVE  AccessInv'
<1>1. RowOK(Row(t, Nowhere, v, FALSE))
  BY PeopleAssumption DEF RowOK, Row, Rows
<1>2. trail' \in Seq(Rows) /\ \A i \in 1..Len(trail') : RowOK(trail'[i])
  BY <1>1, WriteKeeps DEF Timer
<1> QED
  BY <1>2 DEF Timer, AccessInv, GrantsOK, AdmittedOK, AnswersStayHome, RowOK

\* Accounts are blocked and roles reseeded under the requests being served.
LEMMA AmissKeeps ==
  ASSUME AccessInv,
         \/ \E x : Block(x)
         \/ \E r \in Roles : Empty(r) \/ Fill(r)
  PROVE  AccessInv'
<1>1. GrantsOK'
  BY DEF AccessInv, GrantsOK, Block, Empty, Fill, Seeded
<1>2. UNCHANGED <<request, trail, answer>>
  BY DEF Block, Empty, Fill
<1> QED
  BY <1>1, <1>2 DEF AccessInv, AdmittedOK, AnswersStayHome, RowOK

LEMMA NextAccess == AccessInv /\ [Next]_vars => AccessInv'
<1> SUFFICES ASSUME AccessInv, [Next]_vars PROVE AccessInv'
  OBVIOUS
<1>1. ASSUME NEW c \in Clients, NEW u \in Users, NEW r \in AllRoutes, Admit(c, u, r)
      PROVE  AccessInv'
  BY <1>1, AdmitKeeps
<1>2. ASSUME NEW c \in Clients, NEW t \in Tenants \cup {Nowhere},
             NEW v \in BOOLEAN, NEW s \in BOOLEAN, ServeStaff(c, t, v, s)
      PROVE  AccessInv'
  BY <1>2, StaffKeeps
<1>3. ASSUME NEW c \in Clients, NEW t \in Tenants \cup {Nowhere}, ServeTrail(c, t)
      PROVE  AccessInv'
  BY <1>3, TrailKeeps
<1>4. ASSUME NEW c \in Clients, NEW t \in Tenants, NEW s \in BOOLEAN,
             ServeCustomer(c, t, s)
      PROVE  AccessInv'
  BY <1>4, CustomerKeeps
<1>5. ASSUME NEW c \in Clients, ServeOwnActivity(c) PROVE AccessInv'
  BY <1>5, OwnTrailKeeps
<1>6. ASSUME NEW t \in Tenants, NEW v \in BOOLEAN, Timer(t, v) PROVE AccessInv'
  BY <1>6, TimerKeeps
<1>7. CASE \/ \E x \in Users \cup Tenants : Block(x)
           \/ \E r \in Roles : Empty(r) \/ Fill(r)
  BY <1>7, AmissKeeps
<1>8. CASE UNCHANGED vars
  BY <1>8 DEF vars, AccessInv, GrantsOK, AdmittedOK, AnswersStayHome, RowOK
<1> QED
  BY <1>1, <1>2, <1>3, <1>4, <1>5, <1>6, <1>7, <1>8 DEF Next

\* The inductive invariant: what a role holds, what a request was admitted with
\* and what the trail was written by agree at every moment (permissions.catalog.ts, the guards,
\* ActivityService.record).
THEOREM AccessInvariant == Spec => []AccessInv
BY InitAccess, NextAccess, PTL DEF Spec

\* A customer is shown its own rows and its own people, and staff no row of the
\* security trail that their role was not given, whatever is written, blocked and
\* reseeded between a request's admission and its answer (TenantScope,
\* listForCustomer, listForStaff).
THEOREM AnswersHold == Spec => []AnswersStayHome
BY AccessInvariant, PTL DEF AccessInv

\* What the administrator's and the support staff's roles leave out, and the
\* routes that ask for it.
Credentials == {"verify", "sync", "addCredential", "revokeCredential"}
Business == {"billing", "renewals", "plans", "providers", "sftp"}
Decisions == {"setStatus", "renew", "changePlan"}

\* Each route of the staff's that hands out the keys to the business, or runs
\* it, asks for a permission of its own.
GuardedOK(r) ==
  r.realm = "ADMIN" =>
    /\ r.operation \in Credentials =>
         r.needs = <<"admin.providers", "credentials">>
    /\ r.controller \in Business \/ r.operation \in Decisions =>
         r.needs \in Under("admin", {"plans", "billing", "providers",
                                     "resource_mapping"})
           \cup {<<"admin.billing", "refund">>, <<"admin.customers", "suspend">>,
                 <<"admin.providers", "credentials">>}

\* The routes outside the back office, and those of the operations in it.
LEMMA PortalGuarded ==
  ASSUME NEW r \in UNION {AuthRoutes, CustomerPlanRoutes, InvoiceRoutes,
                          OwnActivityRoutes, PortalRoutes, SslRoutes, DnsRoutes,
                          MailRoutes}
  PROVE  r.realm # "ADMIN"
<1>1. r \in AuthRoutes => r.realm = Public
  BY DEF AuthRoutes, Routes
<1>2. r \in CustomerPlanRoutes \cup InvoiceRoutes \cup OwnActivityRoutes =>
        r.realm = "CUSTOMER"
  BY DEF CustomerPlanRoutes, InvoiceRoutes, OwnActivityRoutes, Portal, Routes
<1>3. r \in PortalRoutes \cup SslRoutes => r.realm = "CUSTOMER"
  BY DEF PortalRoutes, SslRoutes, Portal, Routes
<1>4. r \in DnsRoutes => r.realm = "CUSTOMER"
  BY DEF DnsRoutes, Portal, Routes
<1>5. r \in MailRoutes => r.realm = "CUSTOMER"
  BY DEF MailRoutes, Portal, Routes
<1> QED
  BY <1>1, <1>2, <1>3, <1>4, <1>5 DEF Public

LEMMA OfficeGuarded ==
  ASSUME NEW r \in UNION {PlanRoutes, SubscriptionRoutes, RenewalRoutes,
                          CustomerRoutes, BillingRoutes, ActivityRoutes,
                          ProviderRoutes, DomainRoutes, AdminDnsRoutes,
                          HostingRoutes, FileRoutes}
  PROVE  GuardedOK(r)
<1> USE DEF GuardedOK, Credentials, Business, Decisions, Under
<1>1. CASE r \in PlanRoutes
  BY <1>1 DEF PlanRoutes, Admin, Routes
<1>2. CASE r \in SubscriptionRoutes
  BY <1>2 DEF SubscriptionRoutes, Admin, Routes
<1>3. CASE r \in RenewalRoutes
  BY <1>3 DEF RenewalRoutes, Admin, Routes
<1>4. CASE r \in CustomerRoutes
  BY <1>4 DEF CustomerRoutes, Admin, Routes
<1>5. CASE r \in BillingRoutes
  BY <1>5 DEF BillingRoutes, Admin, Routes
<1>6. CASE r \in ActivityRoutes
  BY <1>6 DEF ActivityRoutes, Admin, Routes
<1>7. CASE r \in ProviderRoutes
  BY <1>7 DEF ProviderRoutes, Admin, Routes
<1>8. CASE r \in DomainRoutes
  BY <1>8 DEF DomainRoutes, Admin, Routes
<1>9. CASE r \in AdminDnsRoutes
  BY <1>9 DEF AdminDnsRoutes, Admin, Routes
<1>10. CASE r \in HostingRoutes
  BY <1>10 DEF HostingRoutes, Admin, Routes
<1>11. CASE r \in FileRoutes
  <2>1. CASE r \in Admin("sftp", {"setCredentials"},
                         <<"admin", "resource_mapping">>)
    BY <2>1 DEF Admin, Routes
  <2>2. ASSUME NEW verb, r \in Portal("files", {verb[1]}, <<"files", verb[2]>>)
        PROVE  GuardedOK(r)
    BY <2>2 DEF Portal, Routes
  <2> HIDE DEF GuardedOK
  <2>3. \/ r \in Admin("sftp", {"setCredentials"}, <<"admin", "resource_mapping">>)
        \/ \E verb : r \in Portal("files", {verb[1]}, <<"files", verb[2]>>)
    BY <1>11 DEF FileRoutes
  <2> QED
    BY <2>1, <2>2, <2>3
<1> QED
  BY <1>1, <1>2, <1>3, <1>4, <1>5, <1>6, <1>7, <1>8, <1>9, <1>10, <1>11

LEMMA AllGuarded == \A r \in AllRoutes : GuardedOK(r)
BY PortalGuarded, OfficeGuarded DEF AllRoutes, GuardedOK

\* The two roles do without those permissions.
LEMMA LeftOut ==
  /\ <<"admin.providers", "credentials">> \notin Composition("ADMIN")
  /\ \A key \in Composition("SUPPORT_STAFF") :
       key \notin Under("admin", {"plans", "billing", "providers",
                                  "resource_mapping"})
         \cup {<<"admin.billing", "refund">>, <<"admin.customers", "suspend">>,
               <<"admin.providers", "credentials">>}
<1>1. <<"admin.providers", "credentials">> \notin Composition("ADMIN")
  BY DEF Composition
<1>2. ASSUME NEW key \in Composition("SUPPORT_STAFF")
      PROVE  \/ key \in Under("admin", {"customers", "hosting_services", "logs",
                                        "search"})
             \/ key \in Under("admin.support", {"view", "reply", "assign", "close"})
  BY DEF Composition
<1> QED
  BY <1>1, <1>2 DEF Under

\* Nobody is on a route of the other realm, no operational administrator on one
\* that takes the keys to the business, no support staff on one that runs it,
\* whatever is reseeded and whoever is blocked (PermissionsGuard and the
\* decorators of every controller).
THEOREM RolesHold == Spec => []RolesApart
<1>1. AccessInv => RolesApart
  <2> SUFFICES ASSUME AccessInv, NEW c \in Clients, request[c] # Idle
               PROVE  LET role == RoleOf[request[c].user]
                          r == request[c].route
                      IN /\ r.realm = RealmOf(role)
                         /\ role = "ADMIN" => r.operation \notin Credentials
                         /\ role = "SUPPORT_STAFF" =>
                              /\ r.controller \notin Business
                              /\ r.operation \notin Decisions
    BY DEF RolesApart, Credentials, Business, Decisions
  <2> DEFINE role == RoleOf[request[c].user]
             r == request[c].route
  <2>1. /\ r \in AllRoutes /\ r.realm = RealmOf(role)
        /\ r.needs \in Composition(role)
    BY DEF AccessInv, AdmittedOK
  <2>2. GuardedOK(r)
    BY <2>1, AllGuarded
  <2> HIDE DEF r, role
  <2>3. role \in {"ADMIN", "SUPPORT_STAFF"} => r.realm = "ADMIN"
    BY <2>1 DEF RealmOf
  <2>4. role = "ADMIN" => r.operation \notin Credentials
    BY <2>1, <2>2, <2>3, LeftOut DEF GuardedOK
  <2>5. role = "SUPPORT_STAFF" =>
          r.controller \notin Business /\ r.operation \notin Decisions
    BY <2>1, <2>2, <2>3, LeftOut DEF GuardedOK
  <2> QED
    BY <2>1, <2>4, <2>5 DEF r, role
<1> QED
  BY <1>1, AccessInvariant, PTL

---------------------------------------------------------------------------
(* Every route opens.                                                      *)

\* A role holds what it is seeded with, or nothing.
GrantsWhole == \A r \in Roles : granted[r] \in {{}, Seeded(r)}

\* What a route demands is in the catalogue of its realm.
Catalogued(r) ==
  \/ r.realm = "ADMIN" /\ r.needs \in AdminKeys
  \/ r.realm = "CUSTOMER" /\ r.needs \in CustomerKeys

LEMMA OfficeCatalogued ==
  ASSUME NEW r \in UNION {PlanRoutes, SubscriptionRoutes, RenewalRoutes,
                          CustomerRoutes, BillingRoutes, ActivityRoutes,
                          ProviderRoutes, DomainRoutes, AdminDnsRoutes,
                          HostingRoutes}
  PROVE  Catalogued(r)
<1> USE DEF Catalogued, Admin, Routes
<1>0. {<<"admin", "plans">>, <<"admin", "hosting_services">>, <<"admin", "billing">>,
       <<"admin", "customers">>, <<"admin.customers", "suspend">>,
       <<"admin.billing", "refund">>, <<"admin", "logs">>,
       <<"admin", "security_logs">>, <<"admin", "providers">>,
       <<"admin.providers", "credentials">>} \subseteq AdminKeys
  BY DEF AdminKeys, Under
<1>1. CASE r \in PlanRoutes
  BY <1>0, <1>1 DEF PlanRoutes
<1>2. CASE r \in SubscriptionRoutes
  BY <1>0, <1>2 DEF SubscriptionRoutes
<1>3. CASE r \in RenewalRoutes
  BY <1>0, <1>3 DEF RenewalRoutes
<1>4. CASE r \in CustomerRoutes
  BY <1>0, <1>4 DEF CustomerRoutes
<1>5. CASE r \in BillingRoutes
  BY <1>0, <1>5 DEF BillingRoutes
<1>6. CASE r \in ActivityRoutes
  BY <1>0, <1>6 DEF ActivityRoutes
<1>7. CASE r \in ProviderRoutes
  BY <1>0, <1>7 DEF ProviderRoutes
<1>8. CASE r \in DomainRoutes
  BY <1>0, <1>8 DEF DomainRoutes
<1>9. CASE r \in AdminDnsRoutes
  BY <1>0, <1>9 DEF AdminDnsRoutes
<1>10. CASE r \in HostingRoutes
  BY <1>0, <1>10 DEF HostingRoutes
<1> QED
  BY <1>1, <1>2, <1>3, <1>4, <1>5, <1>6, <1>7, <1>8, <1>9, <1>10

LEMMA PortalCatalogued ==
  ASSUME NEW r \in UNION {CustomerPlanRoutes, InvoiceRoutes, OwnActivityRoutes,
                          PortalRoutes, SslRoutes, DnsRoutes, MailRoutes}
  PROVE  Catalogued(r)
<1> USE DEF Catalogued, Portal, Routes
<1>0. {<<"billing", "view">>, <<"billing", "invoice">>, <<"activity", "view">>,
       <<"dashboard", "view">>, <<"websites", "view">>, <<"domains", "view">>,
       <<"ssl", "view">>, <<"dns", "view">>, <<"dns", "create">>,
       <<"dns", "update">>, <<"dns", "delete">>, <<"email", "view">>,
       <<"email", "create">>, <<"email", "update">>,
       <<"email", "password_change">>, <<"email", "delete">>} \subseteq CustomerKeys
  BY DEF CustomerKeys, Under
<1>1. CASE r \in CustomerPlanRoutes
  BY <1>0, <1>1 DEF CustomerPlanRoutes
<1>2. CASE r \in InvoiceRoutes
  BY <1>0, <1>2 DEF InvoiceRoutes
<1>3. CASE r \in OwnActivityRoutes
  BY <1>0, <1>3 DEF OwnActivityRoutes
<1>4. CASE r \in PortalRoutes
  BY <1>0, <1>4 DEF PortalRoutes
<1>5. CASE r \in SslRoutes
  BY <1>0, <1>5 DEF SslRoutes
<1>6. CASE r \in DnsRoutes
  BY <1>0, <1>6 DEF DnsRoutes
<1>7. CASE r \in MailRoutes
  BY <1>0, <1>7 DEF MailRoutes
<1> QED
  BY <1>1, <1>2, <1>3, <1>4, <1>5, <1>6, <1>7

LEMMA FilesCatalogued ==
  ASSUME NEW r \in FileRoutes
  PROVE  Catalogued(r)
<1> USE DEF Catalogued, Routes
<1>1. CASE r \in Admin("sftp", {"setCredentials"}, <<"admin", "resource_mapping">>)
  <2>1. <<"admin", "resource_mapping">> \in AdminKeys
    BY DEF AdminKeys, Under
  <2> QED
    BY <1>1, <2>1 DEF Admin
<1>2. ASSUME NEW verb \in {<<"list", "view">>, <<"read", "view">>,
                           <<"write", "edit">>, <<"createFolder", "create">>,
                           <<"rename", "rename">>, <<"remove", "delete">>},
             r \in Portal("files", {verb[1]}, <<"files", verb[2]>>)
      PROVE  Catalogued(r)
  <2>1. verb[2] \in {"view", "edit", "create", "rename", "delete"}
    OBVIOUS
  <2>2. Under("files", {"view", "download", "upload", "create", "edit",
                        "rename", "move", "delete"}) \subseteq CustomerKeys
    BY DEF CustomerKeys
  <2>3. <<"files", verb[2]>> \in CustomerKeys
    BY <2>1, <2>2 DEF Under
  <2> QED
    BY <1>2, <2>3 DEF Portal
<1> HIDE DEF Catalogued
<1> QED
  BY <1>1, <1>2 DEF FileRoutes

LEMMA EveryRouteCatalogued == \A r \in AllRoutes \ AuthRoutes : Catalogued(r)
BY OfficeCatalogued, PortalCatalogued, FilesCatalogued DEF AllRoutes

\* Whenever no role is empty, every route but the public ones is one that a role
\* of its own realm is admitted to: no decorator names a permission that the
\* catalogue or the roles leave out (permissions.catalog.ts, the controllers).
THEOREM RoutesHold == Spec => []EveryRouteOpens
<1>1. Init => DOMAIN granted = Roles /\ GrantsWhole
  BY DEF Init, GrantsWhole
<1>2. DOMAIN granted = Roles /\ GrantsWhole /\ [Next]_vars
        => (DOMAIN granted = Roles /\ GrantsWhole)'
  <2> SUFFICES ASSUME DOMAIN granted = Roles, GrantsWhole, [Next]_vars
               PROVE  (DOMAIN granted = Roles /\ GrantsWhole)'
    OBVIOUS
  <2>1. CASE UNCHANGED granted
    BY <2>1 DEF GrantsWhole
  <2>2. ASSUME NEW r \in Roles, Empty(r) \/ Fill(r)
        PROVE  (DOMAIN granted = Roles /\ GrantsWhole)'
    BY <2>2 DEF Empty, Fill, GrantsWhole
  <2> QED
    BY <2>1, <2>2
       DEF Next, vars, Admit, ServeStaff, ServeTrail, ServeCustomer,
           ServeOwnActivity, Timer, Block
<1>3. GrantsWhole => EveryRouteOpens
  <2> SUFFICES ASSUME GrantsWhole, \A role \in Roles : granted[role] # {},
                      NEW r \in AllRoutes \ AuthRoutes
               PROVE  \E role \in Roles :
                        RealmOf(role) = r.realm /\ r.needs \in granted[role]
    BY DEF EveryRouteOpens
  <2>1. /\ granted["SUPER_ADMIN"] = Seeded("SUPER_ADMIN")
        /\ granted["CUSTOMER"] = Seeded("CUSTOMER")
        /\ {"SUPER_ADMIN", "CUSTOMER"} \subseteq Roles
    BY DEF GrantsWhole, Roles
  <2>2. /\ Seeded("SUPER_ADMIN") = AdminKeys /\ RealmOf("SUPER_ADMIN") = "ADMIN"
        /\ Seeded("CUSTOMER") = CustomerKeys /\ RealmOf("CUSTOMER") = "CUSTOMER"
    BY DEF Seeded, Composition, Keys, RealmOf
  <2>3. Catalogued(r)
    BY EveryRouteCatalogued
  <2> QED
    BY <2>1, <2>2, <2>3 DEF Catalogued
<1> QED
  BY <1>1, <1>2, <1>3, PTL DEF Spec
=============================================================================
