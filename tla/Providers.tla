----------------------------- MODULE Providers -----------------------------
(***************************************************************************)
(* One account at the hosting provider: its credentials, what is read from *)
(* it and what is sold to customers from that, and the budget of requests  *)
(* everything shares.                                                      *)
(*                                                                         *)
(* A handler is a flow: each action is the code between two awaits.  Every *)
(* request to the provider may be refused or get no answer, and every flow *)
(* may die.  Reads of the provider's lists, tests of a credential and      *)
(* changes on the provider (databases, mailboxes, zones) take a token of   *)
(* one bucket first.                                                       *)
(*                                                                         *)
(* Abstractions.  A row the provider lists is its key, which has a kind,   *)
(* and the name it bears this time, None where none could be read; what    *)
(* else is stored with it is left out.  The sources of a synchronisation are    *)
(* taken in any order, and the two of websites are one.  Time is in ticks, *)
(* Window of them to WINDOW_MS.  A request may give up waiting for a token *)
(* at any moment there is none, where the code polls for a minute first.   *)
(***************************************************************************)
EXTENDS Integers, Sequences, FiniteSets

CONSTANTS
  Customers,   \* customer accounts
  Keys,        \* the provider's rows
  KindOf,      \* [Keys -> {"DOMAIN", "WEBSITE"}]
  NamesOf,     \* [Keys -> SUBSET (Names \cup {None})], what may be reported
  Names,       \* domain names
  None,        \* SQL NULL
  Clients,     \* requests being served at one time
  Limit,       \* LIMITS.default, requests to a window
  Window,      \* WINDOW_MS in ticks; it divides Limit
  Sites,       \* websites: [username, account], None where not recorded
  Exempt,      \* production, or an account marked as staging
  MaxTime,     \* bound: the last tick
  MaxOrders    \* bound: requests served, and restarts

ASSUME BudgetAssumption ==
  /\ Limit \in Nat \ {0} /\ Window \in Nat \ {0}
  /\ Limit % Window = 0
  /\ IsFiniteSet(Clients) /\ MaxTime \in Nat \ {0}

Kinds == {"DOMAIN", "WEBSITE"}

VARIABLES
  clock,
  bucket,      \* tokens left, and the tick of the last refill
  calls,       \* history: requests this process sent up to the end of each tick
  credential,  \* the credentials ever added, oldest first
  account,     \* its status, websiteSlotsUsed, whether the last contact failed
  found,       \* discovered_resources: key -> its name, the customer it is
               \* claimed for; history: a name it bore has been replaced
  sold,        \* domains: name -> owner, row id, the key it was sold from
  flow,        \* what each request holds between two awaits
  orders       \* bound: requests begun

vars == <<clock, bucket, calls, credential, account, found, sold, flow, orders>>

Idle == [op |-> "none", at |-> "idle"]

Init ==
  /\ clock = 1
  /\ bucket = [tokens |-> Limit, last |-> 1]
  /\ calls = [t \in 0..MaxTime |-> 0]
  /\ credential = <<[revoked |-> FALSE, verified |-> FALSE]>>
  /\ account = [status |-> "ACTIVE", slots |-> 0, failing |-> FALSE]
  /\ found = <<>>
  /\ sold = <<>>
  /\ flow = [c \in Clients |-> Idle]
  /\ orders = 0

Step(c, f) == flow' = [flow EXCEPT ![c] = f]
Finish(c) == Step(c, Idle)
Begin(c, f) ==  \* f is Idle for a request served in one go
  /\ flow[c] = Idle /\ orders < MaxOrders
  /\ orders' = orders + 1
  /\ Step(c, f)
Put(f, x, y) == [z \in DOMAIN f \cup {x} |-> IF z = x THEN y ELSE f[z]]

\* activeToken: the newest credential that has not been revoked.
Active == {i \in DOMAIN credential : ~credential[i].revoked}
Newest == CHOOSE i \in Active : \A j \in Active : j <= i

---------------------------------------------------------------------------
(* rate-limiter.service.ts and hostinger.client.ts                         *)

RefilledSlip ==  \* an idle hour is saved up
  [tokens |-> bucket.tokens + (clock - bucket.last) * (Limit \div Window),
   last |-> clock]
Refilled ==
  LET more == bucket.tokens + (clock - bucket.last) * (Limit \div Window)
  IN [tokens |-> IF more < Limit THEN more ELSE Limit, last |-> clock]

\* acquire, and the request the token is for, which follows at once.
Send ==
  calls' = [t \in DOMAIN calls |-> calls[t] + IF t < clock THEN 0 ELSE 1]
Acquire(c) ==
  /\ flow[c].at = "acquire"
  /\ Refilled.tokens > 0
  /\ bucket' = [Refilled EXCEPT !.tokens = @ - 1]
  /\ Send
  /\ Step(c, [flow[c] EXCEPT !.at = "sent"])
  /\ UNCHANGED <<clock, credential, account, found, sold, orders>>

\* The accounts page shows what is left of the budget, and refills to know it.
Remaining ==
  /\ bucket' = Refilled
  /\ UNCHANGED <<clock, calls, credential, account, found, sold, flow, orders>>

---------------------------------------------------------------------------
(* provider-sync.service.ts                                                *)

Sync(c) ==
  /\ Active # {}
  /\ Begin(c, [op |-> "sync", at |-> "acquire", left |-> Kinds,
               rows |-> {}, slots |-> 0, read |-> FALSE])
  /\ UNCHANGED <<clock, bucket, calls, credential, account, found, sold>>

\* fetchRows asks again, without a token of its own; it may get rows, no answer
\* or nothing list-shaped, and the source counts as read all the same.
Fetch(c) ==
  /\ flow[c].op = "sync" /\ flow[c].at = "sent"
  /\ Send
  /\ Step(c, [flow[c] EXCEPT !.at = "fetched", !.read = TRUE])
  /\ UNCHANGED <<clock, bucket, credential, account, found, sold, orders>>

\* The rows of one source, or none when the probe failed.
Answer(c, kind, rows) ==
  /\ flow[c].op = "sync" /\ kind \in flow[c].left
  /\ \/ flow[c].at = "fetched" /\ rows \subseteq {k \in Keys : KindOf[k] = kind}
     \/ flow[c].at = "sent" /\ rows = {}
  /\ Step(c, [flow[c] EXCEPT !.at = "store", !.left = @ \ {kind}, !.rows = rows,
               !.slots = @ + IF kind = "WEBSITE" THEN Cardinality(rows) ELSE 0])
  /\ UNCHANGED <<clock, bucket, calls, credential, account, found, sold,
                 orders>>

UpsertSlip(k, name) ==  \* writes every column
  found' = Put(found, k, [name |-> name, claimed |-> None, renamed |-> FALSE])
\* One upsert at a time.  It writes the name and leaves a claim as it is.
Upsert(k, name) ==
  found' = Put(found, k,
    IF k \in DOMAIN found
    THEN [found[k] EXCEPT !.name = name,
                          !.renamed = @ \/ found[k].name \notin {name, None}]
    ELSE [name |-> name, claimed |-> None, renamed |-> FALSE])

Store(c, k) ==
  /\ flow[c].at = "store" /\ k \in flow[c].rows
  /\ \E name \in NamesOf[k] : Upsert(k, name)
  /\ Step(c, [flow[c] EXCEPT !.rows = @ \ {k}])
  /\ UNCHANGED <<clock, bucket, calls, credential, account, sold, orders>>

\* The last row is stored: on to the next source, or to the report.
Stored(c) ==
  /\ flow[c].at = "store" /\ flow[c].rows = {}
  /\ IF flow[c].left # {}
     THEN Step(c, [flow[c] EXCEPT !.at = "acquire"]) /\ UNCHANGED account
     ELSE /\ Finish(c)
          /\ account' = [account EXCEPT !.slots = flow[c].slots,
                                        !.failing = ~flow[c].read]
  /\ UNCHANGED <<clock, bucket, calls, credential, found, sold, orders>>

---------------------------------------------------------------------------
(* provider-accounts.service.ts and provider-verification.service.ts       *)

\* The status is a mark: synchronisation and verification do not look at it.
SetStatus(c, status) ==
  /\ Begin(c, Idle)
  /\ account' = [account EXCEPT !.status = status]
  /\ UNCHANGED <<clock, bucket, calls, credential, found, sold>>

AddCredential(c) ==
  /\ Begin(c, Idle)
  /\ credential' = Append(credential, [revoked |-> FALSE, verified |-> FALSE])
  /\ UNCHANGED <<clock, bucket, calls, account, found, sold>>

Revoke(c, i) ==
  /\ i \in Active /\ Begin(c, Idle)
  /\ credential' = [credential EXCEPT ![i].revoked = TRUE]
  /\ UNCHANGED <<clock, bucket, calls, account, found, sold>>

\* The row to be marked is read first, and activeToken then looks for itself.
Verify(c) ==
  /\ Active # {}
  /\ Begin(c, [op |-> "verify", at |-> "chosen", id |-> Newest,
               left |-> Kinds, read |-> FALSE])
  /\ UNCHANGED <<clock, bucket, calls, credential, account, found, sold>>

TokenRead(c) ==
  /\ flow[c].at = "chosen" /\ Active # {}
  /\ Step(c, [flow[c] EXCEPT !.at = "acquire"])
  /\ UNCHANGED <<clock, bucket, calls, credential, account, found, sold,
                 orders>>

Probed(c, ok) ==
  /\ flow[c].op = "verify" /\ flow[c].at = "sent"
  /\ \E kind \in flow[c].left :
       Step(c, [flow[c] EXCEPT !.left = @ \ {kind}, !.read = @ \/ ok,
                 !.at = IF flow[c].left = {kind} THEN "report" ELSE "acquire"])
  /\ UNCHANGED <<clock, bucket, calls, credential, account, found, sold,
                 orders>>

Report(c) ==
  /\ flow[c].at = "report"
  /\ account' = [account EXCEPT !.failing = ~flow[c].read]
  /\ Step(c, IF flow[c].read THEN [flow[c] EXCEPT !.at = "mark"] ELSE Idle)
  /\ UNCHANGED <<clock, bucket, calls, credential, found, sold, orders>>

Mark(c) ==
  /\ flow[c].at = "mark"
  /\ credential' = [credential EXCEPT ![flow[c].id].verified = TRUE]
  /\ Finish(c)
  /\ UNCHANGED <<clock, bucket, calls, account, found, sold, orders>>

---------------------------------------------------------------------------
(* provider-hosting.service.ts: databases, mailboxes and zones at the      *)
(* provider, read or changed.                                              *)

WriteAllowed(disposable) == Exempt \/ disposable
Ask(c) ==
  /\ Active # {}
  /\ Begin(c, [op |-> "call", at |-> "acquire"])
  /\ UNCHANGED <<clock, bucket, calls, credential, account, found, sold>>

Addressed(site) == site.username # None /\ site.account # None

ListDatabases(c, site) == Addressed(site) /\ Ask(c)
ChangeDatabase(c, site, disposable) ==
  Addressed(site) /\ WriteAllowed(disposable) /\ Ask(c)
PhpMyAdminLink(c, site) == Addressed(site) /\ Ask(c)
ListMailboxes(c) == Ask(c)
ChangeMailbox(c, disposable) == WriteAllowed(disposable) /\ Ask(c)
PushZone(c, disposable) ==
  account.status = "ACTIVE" /\ WriteAllowed(disposable) /\ Ask(c)

Called(c) ==
  /\ flow[c].op = "call" /\ flow[c].at = "sent"
  /\ Finish(c)
  /\ UNCHANGED <<clock, bucket, calls, credential, account, found, sold,
                 orders>>

---------------------------------------------------------------------------
(* admin-domains.write.ts                                                  *)

\* The rows of a domain, matched by name.
Bearing(n) == {k \in DOMAIN found : KindOf[k] = "DOMAIN" /\ found[k].name = n}

\* Whether the row is claimed is not asked.
Claim(c, k, t) ==
  /\ k \in DOMAIN found /\ KindOf[k] = "DOMAIN" /\ found[k].name # None
  /\ found[k].name \notin DOMAIN sold
  /\ Begin(c, [op |-> "claim", at |-> "write", name |-> found[k].name, key |-> k,
               for |-> t, id |-> orders])
  /\ UNCHANGED <<clock, bucket, calls, credential, account, found, sold>>

Create(c, n, t) ==
  /\ n \notin DOMAIN sold
  /\ Bearing(n) = {}
  /\ Begin(c, [op |-> "create", at |-> "write", name |-> n, key |-> None,
               for |-> t, id |-> orders])
  /\ UNCHANGED <<clock, bucket, calls, credential, account, found, sold>>

\* Domain.name is unique; a claim marks its row in the same transaction, whatever
\* name that has by now.
Sell(c) ==
  LET f == flow[c] IN
  /\ f.op \in {"claim", "create"} /\ f.name \notin DOMAIN sold
  /\ sold' = Put(sold, f.name, [owner |-> f.for, id |-> f.id, key |-> f.key])
  /\ found' = IF f.op = "claim" THEN [found EXCEPT ![f.key].claimed = f.for]
              ELSE found
  /\ Finish(c)
  /\ UNCHANGED <<clock, bucket, calls, credential, account, orders>>

\* A domain that has records of its own is refused.
Detach(c, n) ==
  /\ n \in DOMAIN sold
  /\ Begin(c, [op |-> "detach", at |-> "write", name |-> n, id |-> sold[n].id])
  /\ UNCHANGED <<clock, bucket, calls, credential, account, found, sold>>

Detached(c) ==
  LET n == flow[c].name IN
  /\ flow[c].op = "detach"
  /\ n \in DOMAIN sold /\ sold[n].id = flow[c].id
  /\ sold' = [m \in DOMAIN sold \ {n} |-> sold[m]]
  /\ found' = [k \in DOMAIN found |->
       IF k \in Bearing(n) THEN [found[k] EXCEPT !.claimed = None] ELSE found[k]]
  /\ Finish(c)
  /\ UNCHANGED <<clock, bucket, calls, credential, account, orders>>

\* admin-domains.service.ts: one row to a name, sold or found or both; what is
\* found without a name is not listed.  Of several rows found it shows one.
Listed ==
  [n \in DOMAIN sold
        \cup ({found[k].name : k \in {k \in DOMAIN found : KindOf[k] = "DOMAIN"}}
                \ {None})
     |-> [customer |-> IF n \in DOMAIN sold THEN sold[n].owner ELSE None,
          discovered |-> Bearing(n)]]
Unassigned == {n \in DOMAIN Listed : Listed[n].customer = None}

---------------------------------------------------------------------------
(* A request that fails, a process that restarts, and time.                *)

Fail(c) ==
  /\ flow[c] # Idle
  /\ flow[c].at = "acquire" => Refilled.tokens = 0
  /\ Finish(c)
  /\ UNCHANGED <<clock, bucket, calls, credential, account, found, sold,
                 orders>>

\* The buckets are in memory: a new process starts with a full budget.
Restart ==
  /\ orders < MaxOrders /\ orders' = orders + 1
  /\ bucket' = [tokens |-> Limit, last |-> clock]
  /\ calls' = [t \in DOMAIN calls |-> 0]
  /\ flow' = [c \in Clients |-> Idle]
  /\ UNCHANGED <<clock, credential, account, found, sold>>

Tick ==
  /\ clock < MaxTime /\ clock' = clock + 1
  /\ UNCHANGED <<bucket, calls, credential, account, found, sold, flow, orders>>

Next ==
  \/ Restart \/ Tick \/ Remaining
  \/ \E c \in Clients :
       \/ Acquire(c) \/ Sync(c) \/ Fetch(c) \/ Stored(c)
       \/ \E kind \in Kinds, rows \in SUBSET Keys : Answer(c, kind, rows)
       \/ \E k \in Keys : Store(c, k)
       \/ AddCredential(c) \/ \E i \in DOMAIN credential : Revoke(c, i)
       \/ Verify(c) \/ TokenRead(c) \/ \E ok \in BOOLEAN : Probed(c, ok)
       \/ Report(c) \/ Mark(c)
       \/ \E status \in {"ACTIVE", "DISABLED", "DEGRADED"} : SetStatus(c, status)
       \/ \E site \in Sites : ListDatabases(c, site) \/ PhpMyAdminLink(c, site)
       \/ \E site \in Sites, disposable \in BOOLEAN :
            ChangeDatabase(c, site, disposable)
       \/ ListMailboxes(c)
       \/ \E disposable \in BOOLEAN :
            ChangeMailbox(c, disposable) \/ PushZone(c, disposable)
       \/ Called(c)
       \/ \E t \in Customers, k \in Keys : Claim(c, k, t)
       \/ \E t \in Customers, n \in Names : Create(c, n, t)
       \/ Sell(c) \/ Detached(c) \/ \E n \in Names : Detach(c, n)
       \/ Fail(c)

Spec == Init /\ [][Next]_vars

---------------------------------------------------------------------------
(* Properties                                                              *)

\* What is sold and what was found tell one story, whatever synchronisations,
\* claims and detachments overlap: a domain sold from a row is claimed there for
\* the same customer, and listed with that row; a claim stands only while the
\* domain is sold to the customer it was claimed for; and the queue of unassigned
\* domains shows none that is claimed.  All this for the rows whose name no
\* synchronisation has replaced: list and detach match by name, and the upsert of
\* syncSource writes it (claim, detach, list and syncSource).
ClaimsAgree ==
  /\ \A n \in DOMAIN sold :
       LET s == sold[n] IN
       s.key # None /\ ~found[s.key].renamed =>
         found[s.key].claimed = s.owner /\ s.key \in Listed[n].discovered
  /\ \A k \in DOMAIN found :
       LET row == found[k] IN
       row.claimed # None /\ ~row.renamed =>
         row.name \in DOMAIN sold /\ sold[row.name].owner = row.claimed
  /\ \A n \in Unassigned :
       \A k \in Listed[n].discovered : found[k].claimed # None => found[k].renamed

\* In any window one process sends the provider at most twice what the bucket
\* holds and refills, and what was under way: an idle account saves nothing up.
\* Twice, because fetchRows repeats the request of a probe without a token.
WithinBudget ==
  \A t, u \in 1..clock :
    u \in t..t + Window - 1 =>
      calls[u] - calls[t - 1]
        <= 2 * (Limit + (Window - 1) * (Limit \div Window))
             + Cardinality(Clients)
=============================================================================
