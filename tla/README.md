# Webedge: a TLA+ development

Webedge is a control panel for web hosting: customers, hosting plans,
subscriptions, GST invoices, domains, DNS, mail, files, and provider accounts
behind them. It is one NestJS process (or several) over one PostgreSQL
database, with a Next.js front end. This directory holds TLA+ modules of its
back end, the TLC configurations that check them on small instances, and TLAPS
proofs of what matters most for every instance.

Paths below are relative to `src/backend/src/` unless they say otherwise.

## 1. The system

| Component | State it keeps | Operations | Talks to | Module |
| --- | --- | --- | --- | --- |
| Subscriptions (`plans/subscriptions.service.ts`) | `subscriptions` rows: status, plan, startsAt, renewsAt, autoRenew, cancelledAt | subscribe, renew, cancel, changePlan, dueForRenewal | invoices, calendar, activity | `Renewals` |
| Renewal sweep (`plans/renewals.service.ts`, `renewals.scheduler.ts`) | a `running` flag per process | expire, renew what is due, reassess arrears; a timer, and `POST /admin/renewals/run` | subscriptions, invoices | `Renewals` |
| Invoices (`billing/invoice.service.ts`) | `invoices`, `invoice_sequences` | issue, voidInvoice, creditNoteFor, forPeriod, auditSequence | GST, activity | `InvoiceLedger` |
| GST, calendar (`billing/gst.ts`, `billing-period.ts`) | none, pure | calculateInvoice, prorate; addMonths, nextRenewal, renewalAfter | – | `BillingDesk` |
| Sessions (`auth/`) | `refresh_tokens`, failed sign-in counters | login, refresh (rotation), logout | customers | `Sessions` |
| Customers (`customers/`) | `customers`, `customer_users` | create, addUser, setStatus, setUserStatus | sessions | `Sessions` |
| Roles, guards, scope (`rbac/`, `common/`, `src/backend/prisma/seed.ts`) | `roles`, `role_permissions` | seeding; the guards of every request | every controller | `Access` |
| Activity (`activity/`) | append-only `activity_logs` | record (never throws), three reads | everybody calls it | `Access` |
| Mail (`mail/`) | `mail_domains`, `mailboxes`, `mail_aliases` | add, verify, create, update, remove, trace | limits; Postfix reads the tables | `Mail` |
| Plan limits (`plans/plan-limits.service.ts`) | none | assertCanCreate | subscriptions, mail | `Mail` |
| Providers (`providers/`) | accounts, credentials, `discovered_resources`, rate-limit buckets in memory | verify, sync, credentials, status | the provider's API | `Providers` |
| Domains (`domains/`) | `domains` | claim, create, detach, list | the discovered inventory | `Providers` |
| Hosting (`hosting/`) | remote | databases, mailboxes, publishing a zone | write guard, budget | `Providers`, `Zone` |
| DNS (`dns/`) | `dns_records` | create, update, remove, by the customer or by staff | publishing | `Zone` |
| Installer (`installer/`) | `.env`, lock and token files | six steps, then the lock | database, seeding | `Installer` |
| Files (`files/`) | remote | SFTP | – | – |

**What is hard.** Every handler is a sequence of awaits, each a round trip to
the database or to the provider, and nothing but unique indexes,
compare-and-swap updates and a handful of transactions keeps concurrent handlers
apart. What a handler read before an await may be stale when it acts on it.
Several API instances sweep at once and an operator may start another sweep by
hand, because the timer's guard is per process. Calls fail and processes die
between any two steps, and nothing but the next sweep, sync or installation
takes the work up again. The migrations run in a process that may outlive who
waits for it. Requests to the provider may be refused, go unanswered,
or be served after their client gave up. The money is integer arithmetic with
four different roundings, and the dates have months of four lengths.

**What makes each part correct.**

- Subscriptions and sweep: no period is charged twice, none is entered
  uncharged, none is charged in advance by a sweep; what is due is renewed in
  the end and what is cancelled ends; a row that has ended stays ended;
  `PAST_DUE` means there is an overdue invoice.
- Invoices: the numbers of a financial year are 1, 2, 3, ... without a gap or a
  repetition whatever fails or races, and a period has one document.
- GST and calendar: a document adds up, a credit note mirrors its invoice,
  renewals keep to the anniversary.
- Sessions and customers: a token is good once; a suspension keeps people out.
- Access: every route is open to somebody of its realm, the roles stay apart,
  nobody is shown another's rows.
- Mail: a loop is seen where there is one and only a catch-all brings one about;
  a plan is exceeded by no more than the simultaneous requests; mail is carried
  only for who proved the domain.
- Providers and domains: what is sold and what was found tell one story, as long
  as the provider does not rename it; the provider is sent no more than twice the
  budget.
- DNS: the rules of a zone break only between edits side by side; published
  means published.
- Installer: a lock stands over what the installation was asked for; trying again
  ends in one, once a migration that failed has been resolved.

The hazards each of these is exposed to are listed, line by line, in
`PROJECT.json`.

## 2. The modules

| Module | Models |
| --- | --- |
| `BillingContract` | what the renewal code promises one customer: a period is charged once, then entered |
| `Renewals`, `MCRenewals` | subscriptions, sweeps and administrator requests, step by step, under interleaving, crashes and failed calls; implements `BillingContract` |
| `SerialBook` | the register the law asks for |
| `InvoiceLedger` | the issuing transaction under concurrency, rollback and the turn of the financial year; implements `SerialBook` |
| `Gst`, `BillingPeriod` | the arithmetic, as operators |
| `BillingDesk`, `MCBillingDesk` | one customer's invoices and renewals, with amounts and dates, one request at a time |
| `Sessions`, `MCSessions` | sign-in, refresh tokens, and what staff do to accounts |
| `Access`, `MCAccess` | permissions, roles, routes, guards, the tenant's scope and the trail |
| `Mail`, `MCMail` | mail domains, mailboxes, aliases, the walk that resolves them, the limit of a plan |
| `Providers`, `MCProviders` | one provider account: credentials, inventory, budget, the domains sold from it |
| `Zone`, `MCZone` | the records of one domain and their copy at the provider |
| `Installer`, `MCInstaller` | the setup wizard |
| `RenewalsProofs`, `InvoiceLedgerProofs`, `BillingDeskProofs`, `SessionsProofs`, `AccessProofs`, `ProvidersProofs`, `InstallerProofs`, and `DomainProofs` for `Mail` and `Zone` | the theorems |

The split follows the data. Interleavings multiply states, and amounts, dates
and routes multiply them again, so each module keeps only what its code
branches on. The modules meet where one component calls another:
`Renewals!Issue` is one atomic step, which is what `InvoiceLedger` shows of the
transaction that implements it (one document per period, or the one that was
there); `Renewals!RenewalAfter` is strictly later than the date it is given,
which is what `BillingDesk!RenewsOnAnniversary` shows of the calendar. `Access`
says who reaches a handler, and the other modules take every request that
reaches one. `Sessions` keeps no access tokens because `Access!Known` looks the
user up on every request. `Providers` spends the budget of a publication and
`Zone` says what it does to the zone.

### Renewals and the code

`subs` and `invoices` are the two tables. `flow[f]` is what one handler holds
in its local variables between two awaits: `pc` is the await it is at, `now`
the sweep's `now`, `todo` the rows it listed (as it listed them), `job` what
`renew`, `cancel`, `changePlan` or `subscribe` has read, `owing` the set
`inArrears`. A sweep goes

    idle -StartSweep-> expire -ExpireOne*, ListDue-> due
      -RenewListed-> issue -Issue-> advance -Advance-> due ...
      -ListOverdue-> overdue -ListLive-> arrears -ReassessOne*, FinishSweep-> idle

and an administrator's request goes idle - pressed - issue - advance, or
through `cancel`, `planInvoice` and `planWrite`, or `subscribe`. Each action
has the code's condition in its `where` clause as its guard or as an `IF`:
`StillRunOut`, `Unmoved` and `SameStatus` are the three compare-and-swaps,
`Pinned` is `expectedPeriodStart`, `Invoiced` is the unique index on
`(subscriptionId, periodStart)`. A query is atomic and returns any `Batch` rows
it matches, or the earliest ones where the code orders them (`Earliest`).

`Crash` ends any handler at any step (the process dies, or a call fails where
nothing catches it); `FailItem` is the `catch` around one renewal of a sweep,
which goes on with the rest. `Tick` is time passing between any two steps.
`PayInvoice` has no code behind it yet (`renewals.service.ts:35-37`): it stands
for the gateway the arrears step is written for.

### InvoiceLedger and the code

`counter` and `book` are committed state; an open transaction's own writes are
in `call[c]` until `Commit`, and `Fail` drops them. `Allocate` waits while
another transaction holds the year's row (`Holders`), as an upsert does;
`Create` waits while another holds the period's key uncommitted (`HeldUp`) and
is refused if it is committed (`ForPeriod`), as an insert into a unique index
does under READ COMMITTED, PostgreSQL's and Prisma's default. `Recover` is the
`catch` of `renew`. `voidInvoice` is a read and a write; `creditNoteFor` is a
read and then an issue of its own.

### BillingDesk and the code

`CalculateInvoice`, `Shares`, `TaxLine`, `Round`, `SplitHalves` and `Prorate`
are the functions of `gst.ts` line by line, in integers: every quotient the code rounds
is of integers far below 2^53 with a denominator for which a half is exact, so
floating point adds no case. `AddMonths` and `RenewalAfter` are those of
`billing-period.ts` over dates with a day and a quarter of a day, which is what
the rounding of a difference to whole days can tell apart. The guard of 120
steps in `renewalAfter` is a choice among three, and the proof of
`RenewsOnAnniversary` is that two are always enough. `Move` is a customer's state
changed between an invoice and the credit note against it, `Reprice` a plan whose
price is changed while somebody is on it (`plans/plans.service.ts:143`).

### Sessions and the code

`token` is the table of refresh tokens in the order of issue, each with the one
it replaced. `flow[c]` is a request between two awaits: idle - verify - issue
for a sign-in (the hash of the password is the long await), idle - issue -
retire for a rotation, idle - punish for the replay of a token already retired.
`LoginWrong` writes the count that was read plus one, whatever it is by now.
`rotate` looks at the token only, neither at its user's status nor at the
tenant's (`auth/token.service.ts:145`), and `setUserStatus` revokes nothing
(`customers/customers.service.ts:281`); `SetStatus` is one transaction that
revokes the tokens it sees. An administrator's tenant is `Staff`.

### Access and the code

`Composition` is `DEFAULT_ROLE_PERMISSIONS`, `Seeded` what `seedRole` makes of
it, and one set of routes stands for each controller, with the realm and the
permission its decorators name. `Admit` is the two guards of a request; it is
served later, when the role may have been emptied by a seeding in progress
(`Empty`, `Fill`). `ServeCustomer` reads through `TenantScope.findOwned`;
`ServeTrail` and `ServeOwnActivity` are the two readings of the trail by staff
and the one by a customer, with the names that `actorFor` hides. `impersonating`
is never set anywhere, and is left out.

### Mail and the code

`Visit` is one call of `walk` inside `resolveAddress`, on a stack of the calls
still to be made, and `Walk` as many of them as there can be: an address is
expanded once, so there are no more than pairs of addresses (`MaxCalls`), and
`DomainProofs` proves that the stack is empty by then. `LoopFrom` is whether it reports a loop,
`WouldLoop` what `wouldCreateLoop` asks of the tables as they would be. A
mailbox is made in three awaits (the clash, `assertCanCreate`, the insert), an
alias in three (the clash, `assertNoLoop`, the insert or update), a domain is
verified in two, around a DNS lookup. A write to a row that has gone fails.
`raced` is a history variable: some write came between another request's reads
and its write.

### Providers and the code

A synchronisation goes acquire - sent - fetched - store for each source, then
stores its report; a verification goes chosen - acquire - sent for each area,
then report and mark; a call to the provider acquires and is sent. `Refilled` is
the token bucket; `Fetch` is the second request of a source, which takes no
token (`providers/provider-sync.service.ts:179`). `Upsert` is the upsert that
writes the name reported this time, if any, and leaves `claimedByCustomerId` alone;
a row is the same by its provider key, and any of `NamesOf` may be reported with it.
`Bearing` is the match by name that the list, `create` and `detach` make. The
history `renamed` marks a row of which some name has been replaced by another or by
none. `Claim` and `Sell`, `Detach` and `Detached`
are the read and the transaction of the two; `Create` is checked against the
inventory, and its write is not. `Remaining` is the accounts page, which refills
the bucket in order to show it. An account's status is looked at only when a
zone is published. `penalize` and the background priority of the limiter are
never used by any caller, and are left out.

### Zone and the code

An edit is one read and validation (`Edit`, of both services) and one write
(`Insert`, `Replace`); `saw` is a history variable, the records it was validated
against. A publication reads the zone (`PublishZone`), replaces the provider's
(`Push`), marks every record of the domain (`Mark`), or fails (`Refuse`), or
gets no answer (`TimeOut`) and may `Land` at any later time. `Sent` is what
`pushZone` makes of a record: its name, type and value.

### Installer and the code

A wizard starts, writes its token, serves and stops (`cli.ts`, `lock.ts`,
`server.ts`). An installation is a `job` that goes through the steps of
`Installer.run`: assert - database - configuration - migrations - deploying -
roles - firstadmin - administrator - revoke - lock. The two steps of the seed
script are separate, for a failure may come between. `trouble` counts what goes
wrong or is done otherwise than the wizard's own instructions say.

`RunMigrations` starts `prisma migrate deploy` (or skips it, unticked) and
`deploy[d]` is that process at work on a database: it applies the `Migrations` one
by one (`Apply`) and ends the step when it is through (`DeployEnds`). It may be
interrupted between two migrations, which the next deployment carries on, or in
one, which then stands as failed (`Interrupt`, `broken`); it may go on alone after
the step's time-out of five minutes (`StepFails`) or the death of its wizard
(`Die`). Prisma holds a lock on the database meanwhile and refuses one with a
failed migration (`Impossible`) until somebody runs `prisma migrate resolve`
(`Resolve`). None of prisma's code is in the repository: what it does is modelled
as external, from its documented behaviour. `StepFails` ends an installation with
what the failing step may already have written. The tables of the seed and of the
administrator are all in the first of the migrations under `src/backend/prisma`,
which is why those steps ask for `schema > 0` only.

## 3. The runs

| Run | Instance | Shows |
| --- | --- | --- |
| `core` | 1 subscription, 2 sweeps, 2 administrators, 2 requests or payments of renew, cancel, pay, void, 1 fault, 3 ticks (cycle 2); 1.2 M states | safety of renewal, expiry and arrears under every interleaving; refinement of `BillingContract` |
| `plans` | 2 rows of one customer (one yet to be), 2 plans, plan changes and new subscriptions; 0.56 M states | the inductive invariant, and that dates only move past an invoiced period |
| `live` | 1 subscription, 2 sweeps, 1 administrator, 2 requests, 1 fault, fair; 0.2 M states | everything due is renewed, everything cancelled ends, `PAST_DUE` settles |
| `ledger` | 3 callers, 1 period, 2 years, 4 calls, 1 failed transaction, fair; 68 k states | numbering, one document per period, refinement of `SerialBook`, no request waits for ever |
| `desk` | every invoice of up to 3 of 7 lines, 4 discounts, 3 states; 5 start dates, 3 cycles, 2 prices that change under a subscription, 3 periods; 95 k states | the arithmetic |
| `sessions` | 2 login names, 1 tenant, 2 requests, 4 tokens, 2 orders of the staff, 1 death, 2 ticks; 7.1 M states | a token is spent once, a suspended tenant stays out |
| `access` | 1 person of each role, 2 tenants, every route, 1 request, 1 row of the trail, 1 blocked account or empty role; 0.67 M states | every route opens, roles stay apart, answers stay home |
| `mail` | 1 domain, 3 local parts and the catch-all, 2 sets of destinations, 2 customers with a limit of 0 and of 1, 2 requests, 2 rows of the domain; 0.63 M states | loops, limits, proved domains |
| `providers` | a domain reported under 2 names or none, and a website; 2 customers, 2 requests, budget of 1 a tick, 3 ticks, 3 orders; 1.5 M states | claims agree on rows that were not renamed, no more than twice the budget is sent |
| `zone` | 10 records that break every rule with one another, 3 requests, 4 orders; 0.91 M states | rules, publishing |
| `installer` | 2 wizards, 2 installations at once, 2 databases, 2 migrations, 3 troubles, fair; 2.5 M states | locked is whole, trying again ends locked once failed migrations are resolved |
| `two_live` | the smallest that shows it | a place where the code does not do what its comment says (section 6) |

**Why these bounds.** A lost update takes two handlers; the recovery of an
interrupted renewal takes a third, and two sweeps beside two administrators on
one row is the most that can contend for it. Three ticks with a cycle of two
make one period due, renew it late, and leave the next one ahead of the clock,
which is where billing in advance shows. One fault is enough to interrupt any
step; a second interruption finds a state the first could have left. Two
requests allow cancel-then-renew and renew-twice. Rows of different
subscriptions meet only in `subscribe` and in the arrears of a customer, and
`plans` has two of one customer. In `ledger` three callers are two that race
and one that waits for both, and the fourth call voids or credits what the
others issued. In `desk` the prices 1, 3, 105 and 25 x 3 at 5% put a half,
an odd paisa and a round-off of each sign within reach, 0, 2 and -3 the edges
of the discount, and the dates are ends of month before a February of either
length and the turn of the year. Plans are changed twenty days before a period
is entered, for a renewal may be early, on its first days, at its end, and after
it ran out.

In `sessions` four tokens are a sign-in, two rotations of it at once and one
after a death, and two orders suspend and reinstate, or create and suspend. In
`access` the person reading the trail is another than the one who wrote it, so
one row is enough to be shown to the wrong reader; a second tenant owns what a
customer asks for and must not see. In `mail` two aliases and a catch-all make
every shape of loop that the check treats differently, a third alias makes two
branches that meet again without one, and the second row of the domain is the one a
late verification could hit by mistake. A customer with a limit of one may come to
have two mailboxes when two requests are counted at once, so the bound is reached;
with three local parts it could be passed, with two it would hold of itself. In
`providers` a budget of one makes every second request wait. Three orders hold a
synchronisation with a claim and a detachment inside it, or a row that is found,
claimed and reported under another name. Rows of different accounts do not meet: the
key of an upsert holds the account.
In `zone` four orders are two edits and two publications, or an edit, its
change and a publication that a third overtakes; two requests would not have the
time-out land between the two steps of a third. In `installer` three troubles
are a failed step, an incomplete retry and a second wizard, or a step that timed
out, a deployment left behind that is interrupted, and a retry that is not to
migrate; two migrations are the least of which there is a part.

Deadlock is not checked in `ledger`, `desk`, `sessions`, `mail`, `providers`,
`zone` and `installer`, where a bounded system really stops; in the others every
state has a successor. Symmetry of requests (and of unused login names) is used
where no property is temporal with fairness.

**Fairness.** `Renewals!Fairness` is weak fairness of each sweep's steps, of
each request's steps once it is accepted, and of time. The timer starts a sweep
at every interval (`renewals.scheduler.ts:50`) and catches whatever a sweep
throws (`:93`), so a crashed sweep is followed by another; the event loop runs
a handler on whose await has resolved. Nothing obliges anybody to make or to
stop making a request, and faults, like requests, are bounded by
`MaxFaults` and `MaxRequests`: liveness is what holds once they cease.
`InvoiceLedger!FairSpec` has strong fairness of each caller's steps, because a
wait for a lock is enabled and disabled as others take it: PostgreSQL queues
the waiters of a row and grants it to each in turn. `Installer!FairSpec` has
weak fairness of the steps of an installation, and of an administrator who keeps
trying: starts a wizard when none is up, stops one whose token is gone, and
submits the whole installation again when nothing is under way. That is what
the wizard's screens tell the administrator to do, and troubles are bounded. That
much is the code's and its reader's; prisma's process runs on as any does (`Apply`,
`DeployEnds`). It also assumes that somebody resolves a failed migration
(`Resolve`), which nothing in the code or its messages asks for: without that last
fairness TLC refutes `EndsLocked` in a few steps (section 6).

**Mutants.** Operators named `...Slip` are plausible mistakes (a dropped
condition, a missing compare-and-swap, a retry that never gives up, rounding
half up); `PROJECT.json` pairs each property with one that breaks it, so that
every property is known to say something about the code.

## 4. The proofs

`RenewalsProofs` proves about `Renewals`, for any customers, subscriptions,
plans, cycles, sweeps, administrators, batch and bounds satisfying
`RenewalsAssumption`:

| Theorem | States |
| --- | --- |
| `HandlersAgree` | `Spec => []RenewalInv` |
| `TypeCorrect` | `Spec => []TypeOK` |
| `NeverInvoicedTwice` | `Spec => []OneInvoicePerPeriod` |
| `SweepStaysInStep` | `Spec => []SweepNeverBillsAhead` |
| `NoPeriodSkipped` | `Spec => RenewsAtFollowsInvoice` |

The argument. `SweepNeverBillsAhead` is not inductive: it speaks of invoices,
and what an invoice will be keyed by is decided several steps earlier, from a
row somebody else may move. `RenewalInv` therefore says of every handler what
it carries (`Sound`): whatever a sweep has listed or is about to invoice lies at
or before the sweep's own `now`, which lies at or before the clock; the date a
renewal will write is later than the period it read; and a handler about to
advance has its invoice in the table. The pin makes the first hold when a row is read
again, `RenewalAfter` the second, and the unique index with the recovery the
third. The last two give `NoPeriodSkipped`, for the compare-and-swap makes the
period read the current one. The proof has a step for each action, and lemmas for
what several actions share: appending an invoice keeps every key, changing the
status of one keeps them all, and time passing or a table growing keeps what a handler
holds sound. Assumed of the constants: cycles are positive, sweeps and
administrators are different handlers, `SubIds` is finite, `None` is not an
integer.

It proves of what the code promises a customer, under the same assumptions:

| Theorem | States |
| --- | --- |
| `BilledHolds` | `Spec => []BilledOnlyOnAutoRenew` |
| `ExpiryHolds` | `Spec => ExpiresOnlyWhenRunOut` |
| `EndedHolds` | `Spec => EndedStaysEnded`, if `"changePlan"` is not in `Requests` |
| `ImplementsContract` | `Spec => BilledAsPromised`, the refinement of `BillingContract`, under the same condition |

The argument. `RowsAgree` adds to `RenewalInv` what a handler knows of the rows
themselves, as they are by now and not as it read them: a listed row still
exists, and may still be ended (`Endable`) or billed (`Billable`). It holds
because of what nobody does: no row is deleted, no cancellation is taken back,
and one is stamped with the time it is written, which is no earlier than the
start of any sweep under way (`RowKept`). A row is then ended only if it also
has run out, which is what the update's `where` clause looks at again, and the
arrears step writes over a live status only. For the refinement `JobsCurrent`
says of a renewal about to invoice that its period is where the row is, or was
invoiced by somebody else since: whoever moves the date has found its invoice
(`NoPeriodSkipped`), so an invoice that is written is a `Charge` of the current
period, and a date that is moved an `Enter` of the next. The condition is
necessary: `changePlan` moves the date of a row that others are renewing, and
writes `ACTIVE` over any status.

`InvoiceLedgerProofs` proves about `InvoiceLedger`, for any callers, periods,
years and bounds satisfying `LedgerAssumption`:

| Theorem | States |
| --- | --- |
| `LedgerSound` | `Spec => []LedgerInv` |
| `AuditAlwaysClean` | `Spec => []AuditClean` |
| `PeriodBilledOnce` | `Spec => []OneDocumentPerPeriod` |
| `WinnerAlwaysFound` | `Spec => []WinnerFound` |
| `LedgerIsASerialBook` | `Spec => NumberedInOrder`, the refinement of `SerialBook` |

The argument. What is promised of the book is decided before the commit, in
transactions nobody else can see, so `LedgerInv` says what an open transaction
holds: the number after the counter (`HoldsNext`), alone in its year
(`OneHolder`, from the row lock), and, once it has inserted, a period that no
document and no other open transaction has (`InsertedOnce`, from the unique
index). A commit then appends number `Len + 1` and the first document of its
period. Three lemmas carry the three steps of a transaction; every other step
leaves each document its place, number and period and opens no transaction, and
one lemma (`QuietStep`) carries them all, a payment, a void and a failure among
them. `AuditClean` follows from `Numbering` alone; the refinement maps a commit
to `Enter` and everything else to a stutter. Assumed of the constants: `None`
is neither a period nor a document's identity, and there is a first year.

`BillingDeskProofs` proves about `BillingDesk`, and so about `Gst` and
`BillingPeriod`, for any lines, discounts, prices, start dates, cycles and number
of renewals satisfying `DeskAssumption` (quantities are positive, discounts and
prices are not negative, and starts are dates of the calendar; amounts on the
lines of an invoice may have either sign):

| Theorem | States |
| --- | --- |
| `DeskInvariant` | `Spec => []DeskInv` |
| `DatesHold` | `Spec => []TypeOK` |
| `TotalsHold` | `Spec => []TotalsReconcile` |
| `CreditsHold` | `Spec => []CreditMirrors` |
| `DiscountsHold` | `Spec => []DiscountNearlyShared` |
| `AnniversaryHolds` | `Spec => []RenewsOnAnniversary` |
| `LeftPeriodHolds` | `Spec => []LeavesThePaidPeriod` |
| `CreditShrinkHolds` | `Spec => []CreditShrinks` |

The argument. `DeskInv` says that every document is what `CalculateInvoice` makes
of its lines (`IsInvoice`, `IsCredit`) and that a subscription is `SubOK`: its
renewal date is `periods` cycles after its anchor, and the date before that one
cycle less. The rest are facts about the functions.

Sums over the lines of an invoice are folds over a finite set, which the prover
can neither unfold nor induct over. What is needed of them (a sum is an integer,
the negatives add up to the negative, sums of ordered terms are ordered) is
proved without induction on a formula: the sets on which a claim holds are a family of
subsets, which has every set that it has less any one element, and such a
family has them all, because strict inclusion of finite sets is well founded
(`TakingOut`). The paise a discount leaves over are then counted line by line:
each line but the last gives up less than one.

The calendar is counted in months from year 0 (`MonthIndex`), which is what
`addMonths` adds to, with the days before each month as a function of that count:
a later month begins after every day of an earlier one, a year has the days of its
months, and therefore a date is before another when its month is. `renewalAfter`
then needs at most one step past its first guess, and lands `periods + 1` cycles
from the anchor; and the clamp costs a date at most three days, which is the
bound of `LeavesThePaidPeriod`. `CreditShrinks` follows from a period having at
least a day and from rounding being monotonic.

`ProvidersProofs` proves about `Providers`, for any inventory, customers,
requests and budget satisfying `BudgetAssumption`:

| Theorem | States |
| --- | --- |
| `ClaimsHold` | `Spec => []ClaimsAgree` |
| `BudgetHolds` | `Spec => []WithinBudget` |

For `ClaimsHold` the invariant adds what a claim in flight knows: the row it read
is still in the inventory (rows are never deleted) and bears the name it will
sell, unless a synchronisation has replaced that, and `renamed` then says so for
ever. A synchronisation leaves claims as they are, a sale claims the row it was
made from in the same transaction, and a detachment clears every row that bears the
name, so that the two tables change together but for what was renamed. Nothing is
assumed of the names that may be reported. For `BudgetHolds` the model counts
the calls sent up to each tick, so that a window is a difference of two counts, and
`BudgetInv` bounds, from any tick on, what was sent since (`Spent`), with two for
every token left and one for each request that has taken its token and may send
once more: a refill adds to the bound what it adds to the bucket, a request under way
exchanges what it holds for what it sends, and a restart, which fills the bucket,
starts the count anew.

`DomainProofs` proves about `Mail`, for any customers, plans, domains, addresses,
destinations and requests satisfying `MailAssumption` (limits and `MAX_DEPTH`
are natural numbers; requests, domains, local parts and destinations are finite
sets):

| Theorem | States |
| --- | --- |
| `MailInvariant` | `Spec => []MailInv` |
| `WalkHolds` | `Spec => []WalkFindsLoops` |
| `LoopsHold` | `Spec => []LoopsNeedCatchAll` |
| `OversellHolds` | `Spec => []OversellBounded` |
| `ProvedHolds` | `Spec => []CarriesOnlyProved` |

The argument. A loop is refused because a walk found it, so the first half is about
the walk: where it reports none, what it has visited is `Closed`, a set that has
the start in it, and everything its addresses lead to, which is never the start
again (`NoLoopFound`, for any tables). What is visited leads only to what is
visited or is still to be called, a call that would close the way back sees the start in
its chain, and `MaxCalls` steps leave nothing to be called: each address is
expanded once and asks for no more calls than there are addresses.

The second half (`WalkIsRight`) is about what a loop that is reported means. The
walk stands on one path from the start, off which every call still to be made
branches (`Trail`): a call's chain is the path as far as it was asked for, and
calls further along come first. What was visited and is no longer on the path is
`Over`: it leads only to itself and holds no circle. A call passed over or
expanded keeps this (`PassedOver`, `GoesOn`), and so does falling back to the
next call (`Backtracks`), where what is left behind is over because the deepest
address of a circle would lead only to what is over or further along. An address
met in its own chain is then on the path, which comes round from there
(`PathCloses`); a chain of `MAX_DEPTH` and one more are different addresses; and
at the end the path is empty, so that all that was visited is over, the start
with it. `WalkHolds` follows for the tables as they stand, whatever wrote them.

Now a circle that an alias about to be written would close runs through that
alias; followed from there it stays in the set, and cannot come back. `MailInv`
carries this from the check to the write (`Harmless`, `ReadsHold`), until some
other write comes in between; it says of a request what it knows of the row it
read, as long as that row is there (`RowsHold`); and it counts with a customer's
mailboxes those that were counted and are about to be written (`Rooms`), at most
one for each other request. `Numbered` makes the id of a new row another than
any that a request in flight holds.

About `Zone`, for any records, requests, orders and rules that a value may declare,
with nothing assumed. (Its state, its steps and its specification have names of
their own, `request`, `Proceed` and `ZoneSpec`, so that one module can extend it and `Mail`.)

| Theorem | States |
| --- | --- |
| `ZoneInvariant` | `ZoneSpec => []ZoneInv` |
| `RulesHold` | `ZoneSpec => []RulesUnlessSideBySide` |
| `PublishedHolds` | `ZoneSpec => []PublishedIsUpstream` |

The argument. Both properties are decided before the write they are about.
`Compared` carries the validation along: what an edit has in hand, and what it
has written, clashes with nothing it saw; and a record that is changed later is
another than the one it was seen as. `Carried` says of a record that no
publication overtook that it is in every zone that may still replace the
provider's, in flight or adrift, and is at the provider by the time it is
marked; the history `late` is what an edit learns of the publications under way
when it writes.

`AccessProofs` proves about `Access`, for any people, tenants and requests
satisfying `PeopleAssumption` (staff and only staff have no tenant):

| Theorem | States |
| --- | --- |
| `AccessInvariant` | `Spec => []AccessInv` |
| `AnswersHold` | `Spec => []AnswersStayHome` |
| `RolesHold` | `Spec => []RolesApart` |
| `RoutesHold` | `Spec => []EveryRouteOpens` |

A request is served some time after it was admitted, and its role may be emptied
in between, so the invariant keeps what it was admitted with (`AdmittedOK`), that
a role never holds more than it is meant to (`GrantsOK`), and that a row written
by a customer's people is that customer's (`RowOK`): the reading of the trail
then names nobody else. `RolesHold` is the same bound on what a role holds, read
against the permission of every route (`FileRoutes` and the other sets), one
controller at a time; `RoutesHold` finds every one of those permissions in the
catalogue, and in a role that holds all of its realm's, which a seeding leaves
whole or empty (`GrantsWhole`).

`SessionsProofs` proves about `Sessions`, for any login names, tenants and
bounds and any finite number of requests, satisfying `SessionsAssumption`:

| Theorem | States |
| --- | --- |
| `SpentHolds` | `Spec => []SpentOnce` |
| `SuspendedHolds` | `Spec => SuspendedStaysOut` |

`SpentOnce` bounds how often a token was replaced after it is retired, and the
replacements come before: `SpendOK` counts them against the requests about to
retire it, and against those about to replace it, which all held it while it was
valid. A request moves from the second count to the first when it issues, out of it
when it retires the token, and into `faults` when it dies. `SuspendedStaysOut`
starts from the step that suspends and follows every other step after it: a
token of the tenant would have to come from a request that has none to start from.

`InstallerProofs` proves `LockedHolds`, `Spec => []LockedIsWhole`, for any wizards,
requests, databases and number of migrations satisfying `InstallerAssumption`
(`None` is neither a database nor a request, and there is a migration). A
deployment under way is on a database that is not broken and works for a known
request (`DeployOK`); the schema only grows (`SchemaKeeps`), also by what nobody
waits for (`UnattendedKeeps`), and once complete cannot break, so that an
installation that was asked to migrate and is past it has all of it (`Complete`).
Part of what an installation has behind it cannot be undone by another
(`RolesNeedSchema`, `Behind`), and is claimed of every one; the rest
(`Undisturbed`: the database of `.env`, the role's permissions, the password) only
as long as none has overlapped, in which case it is the only one (`Single`).

**Model-checked only.** Liveness (`DueIsRenewed`, `CancelledRunsOut`, `ArrearsSettle`,
`EveryCallEnds`, `EndsLocked`), because the prover handles neither fairness nor
`ENABLED`. Every safety property of a passing run has a theorem.

## 5. What is not modelled

- Of the billing files: the wording of lines and numbers, paging,
  `fromInclusivePrice` (nothing calls it), the format of a GSTIN, and zero-rated
  exports, which an invoice never is because `issue` passes no country
  (`invoice.service.ts:143-146`). 32-bit overflow of amounts: `Gst` has unbounded
  integers, the database does not.
- A plan whose cycle, not only its price, is changed while somebody is on it.
  `renewalAfter` then counts new cycles from the old start, so that the next
  renewal charges a whole new cycle and may run for part of one, and `changePlan`
  takes the period being left to be one new cycle long.
- `changePlan` sets `ACTIVE` on a row of any status; the model has it, and
  properties about ended rows are checked without plan changes (`core`).
- Mailbox passwords, quotas and the `isActive` flags of mailboxes and aliases:
  only Postfix reads the flags, while `trace` and the loop check take what is
  inactive for active.
- Creating a provider account, the cipher of its keys, the shapes of the
  provider's answers, and what a row of the inventory keeps besides its kind,
  name and claim. Names are taken to be in lower case: `list` compares them so,
  `claim`, `create` and `detach` as they are. A bucket holds whole tokens, where the
  code's fills by the millisecond and any fraction of a token is enough to send
  (`providers/rate-limiter.service.ts:110`), so that a window may see one more
  request, and its repetition, than `WithinBudget` counts.
- The fields of a DNS record beyond what its rules compare; whether each is well
  formed is one flag. `DnsService` trims a value and `AdminDnsService` does not.
- The form of the installer beyond the database, the password and what is to be
  seeded; `seedDemoData` does nothing. Which database `.env` names is said only of
  installations that never overlapped (`LockedIsWhole`): of two at once, one may
  rewrite it after the lock of the other. A `prisma migrate resolve` that says of a
  migration what is not the case.
- Files over SFTP: the state is a remote file system, every operation opens a
  connection of its own, and path confinement is string processing. One thing to
  know: a save that dies between `put` and `chmod` leaves the file with the
  server's default mode (`files/sftp-file-transport.ts:224`).
- The catalogue of plans beyond a change of price, the views of invoices, the checks of certificates, the
  wiring, the front end and the configuration of the mail server: plain reads and
  writes, I/O, or not logic of the system.

## 6. Where the code differs from what it says

`two_live`, a run: `subscribe` cancels what is `ACTIVE` and leaves a `PAST_DUE`
subscription alive (`plans/subscriptions.service.ts:50`), while its comment
(`:29-31`) says a customer is never on two plans at once.

Met while modelling, and stated in the models or their comments:

- A synchronisation writes the name the provider reports over the one a row was sold
  under (`providers/provider-sync.service.ts:232`), where the payload has an id to
  know the row by. `list` and `detach` match by name, so the domain is shown without
  the row it was sold from, while the comment of `claim`
  (`domains/admin-domains.write.ts:26-29`) calls the row the record that the domain
  is on that account. In the model, then: the new name is in the queue of unassigned
  domains although its row is claimed; it can be claimed again, for another
  customer, as `claim` does not look at `claimedByCustomerId`; and a detachment of
  the old name leaves the claim. `ClaimsAgree` is what holds of the other rows.
- A `prisma migrate deploy` that dies in a migration leaves it marked as failed, and
  every later one refuses the database. The failed step says "then try again —
  migrations are safe to re-run" (`installer/install.ts:290-291`), and so does
  `src/INSTALL.md:81-82`; trying again fails in the same way for ever, until
  `prisma migrate resolve` is run by hand. `EndsLocked` is what holds when it is.
- Renew, pressed on a due subscription and overtaken by a sweep, invoices the
  period after (`plans/subscriptions.service.ts:131`; `renewal-worker.spec.ts:281`
  says a renewal never charges for a period still in the future).
- A subscription cancelled after the sweep listed it is billed once more:
  `:122-165` looks at the status, which `cancel` leaves.
- The arrears step takes an unordered batch of a set it does not shrink
  (`plans/renewals.service.ts:191-195`); `ArrearsSettle` is checked where the
  batch holds all.
- The remainder of a discount may push a free last line below zero or be lost
  (`billing/gst.ts:178-185`); `DiscountNearlyShared` is what holds.
- A credit note does not carry the discount of its invoice
  (`billing/invoice.service.ts:309-320`); `CreditMirrors` is what holds.
- A suspension does not stop a sign-in or rotation that is in flight: its token
  works when the tenant is reinstated. `SuspendedStaysOut` therefore starts from a
  moment without one, and from the tenant's suspension: suspending one user
  revokes nothing.
- Loops through a catch-all are neither checked when it is made nor when a mailbox
  or alias in front of it is removed (`LoopsNeedCatchAll`).
- `pushZone` sends a record's value only, so the priority of an MX and the weight
  and port of an SRV do not reach the provider; and since it overwrites, a domain
  without records empties the provider's zone.
- `claim` does not ask whether the row is claimed already, only whether its name is
  sold.
- `create` of a domain is checked against an inventory that a synchronisation may
  be about to extend: both records of the domain then exist, and `list` shows them
  as one.
- When all sources of websites fail, a synchronisation writes 0 slots in use.
- `penalize`, which nothing calls, sets the bucket's clock back where the provider
  asks for a pause shorter than the window (`providers/rate-limiter.service.ts:71`):
  the next request would find tokens at once.
- The budget is kept in memory, so that each process and each restart has a full
  one; and the second request of a source takes none, which is the factor of two
  in `WithinBudget`.
- `finalise` revokes the token before it writes the lock: if the lock cannot be
  written, the wizard's error says to try again, and every request is refused until
  it is restarted (`installer/install.ts:459`). `UnsafeEnvValueError` is caught in
  `writeConfiguration`, so the branch for it in `server.ts` is never reached.
- A seeding that fails half way leaves a role without permissions; a retry that
  does not ask for roles then locks (`LockedIsWhole` says `lock.roles`).
- Likewise the schema, with one client and nothing that overlaps: a deployment that
  dies after its first migration fails the installation; the retry with the schema
  unticked skips the step (`installer/install.ts:252-258`), whose detail is that the
  schema "is expected to exist already"; the seed and the administrator find their
  tables, and the lock is written over part of a schema. Nothing looks at
  `_prisma_migrations`. `LockedIsWhole` therefore says `lock.schema`, where
  `install.ts:17-22` and `src/INSTALL.md:82-83` ("Nothing is locked until every step
  has succeeded") would have a reader expect it of every lock.
- `seed.ts` describes `SUPPORT_STAFF` as reading customers and resources, but its
  keys admit it to creating customers, subscribing them, blocking their users and
  deleting their databases; `RolesApart` is what does hold.

## 7. Plan

Done: the renewal core, its contract and its proofs; the ledger with its proofs
and its refinement; the arithmetic and the calendar; sessions, access, mail,
providers with domains, zones and the installer; and the theorems of section 4,
which state every safety property that a passing run checks.

What would come next:

1. An abstract mail router that `Mail` implements while nothing races: an address
   either delivers or is refused.
2. What can be promised of a subscription whose plan is changed while it is being
   renewed: a second contract, in which a change starts the count of periods anew,
   and a change of a plan's cycle in `BillingDesk`.
3. The activity flags of mailboxes and aliases; the rest of the catalogue of plans.
