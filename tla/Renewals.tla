------------------------------ MODULE Renewals ------------------------------
(***************************************************************************)
(* The life of a subscription under concurrent actors.                     *)
(*                                                                         *)
(* Any number of renewal sweeps (one timer per API instance, and the       *)
(* "run now" endpoint, which ignores the timer's own guard) and any number *)
(* of administrator requests (renew, cancel, change plan, subscribe) work  *)
(* on the same rows of the database.  Each action below is the code        *)
(* between two awaits that reach the database, so everything a handler has *)
(* read before an await may be stale by the time it acts on it.            *)
(*                                                                         *)
(* Abstractions.  Time is a count of ticks and a billing cycle is a number *)
(* of ticks (the calendar is module BillingPeriod).  An invoice keeps its  *)
(* key, due date, status and who raised it (amounts are module Gst, the    *)
(* transaction that numbers it is module InvoiceLedger, so here issuing is *)
(* one step and the position in the sequence is the serial number).        *)
(***************************************************************************)
EXTENDS Integers, Sequences, FiniteSets

CONSTANTS
  Customers,    \* customer accounts
  SubIds,       \* subscription rows, those that exist and those yet to be
  Existing,     \* the rows that exist initially
  Owner,        \* [SubIds -> Customers]
  Plans,        \* hosting plans
  OnSale,       \* the plans that can be sold (isActive)
  Cycle,        \* [Plans -> Nat \ {0}], a plan's billing cycle in ticks
  Sweepers,     \* flows that run RenewalsService.sweep
  Admins,       \* flows that serve one administrator request at a time
  Requests,     \* the kinds of request administrators make
  Batch,        \* BATCH: rows one sweep takes on per step
  Horizon,      \* bound: the last tick
  MaxRequests,  \* bound: administrator requests and payments
  MaxFaults,    \* bound: crashes and failed calls
  None          \* SQL NULL

RequestKinds == {"renew", "renewDue", "cancel", "changePlan", "subscribe",
                 "pay", "void"}

ASSUME RenewalsAssumption ==
  /\ Existing \subseteq SubIds
  /\ IsFiniteSet(SubIds)
  /\ Owner \in [SubIds -> Customers]
  /\ OnSale \subseteq Plans
  /\ Plans # {}
  /\ Cycle \in [Plans -> Nat \ {0}]
  /\ Sweepers \cap Admins = {}
  /\ Requests \subseteq RequestKinds
  /\ Batch \in Nat \ {0}
  /\ Horizon \in Nat /\ MaxRequests \in Nat /\ MaxFaults \in Nat
  /\ None \notin Int

Flows == Sweepers \cup Admins

VARIABLES
  clock,     \* the current tick
  subs,      \* the subscriptions table
  invoices,  \* the invoices table, in serial order
  flow,      \* what each handler holds between two awaits
  requests,  \* bound: requests and payments made so far
  faults     \* bound: crashes and failed calls so far

vars == <<clock, subs, invoices, flow, requests, faults>>

-----------------------------------------------------------------------------
(* Rows and handler state.                                                 *)

Live     == {"ACTIVE", "PAST_DUE"}
Terminal == {"CANCELLED", "EXPIRED"}
Statuses == Live \cup Terminal \cup {"ABSENT"}

Subscription ==
  [status: Statuses, plan: Plans, startsAt: Nat, renewsAt: Nat,
   autoRenew: BOOLEAN, cancelledAt: Nat \cup {None}]

\* `period` is the unique key (subscriptionId, periodStart), None on every
\* document that is not a renewal; `by` is who the activity trail names.
Invoice ==
  [sub: SubIds, period: Nat \cup {None}, dueAt: Nat \cup {None},
   status: {"ISSUED", "PAID", "VOID"}, by: {"sweep", "admin"}]

\* A row as a sweep listed it, possibly long before it reaches it.
Listed(s) == [sub |-> s, renewsAt |-> subs[s].renewsAt,
              status |-> subs[s].status]
Item == [sub: SubIds, renewsAt: Nat, status: Statuses]

\* What a request has read of its subscription: the row, the period it is
\* charging for, the date and the plan it will write.
Job == [sub: SubIds, period: Nat, target: Nat, plan: Plans]

SweepSteps == {"idle", "expire", "due", "issue", "advance", "overdue",
               "arrears"}
AdminSteps == {"idle", "pressed", "issue", "advance", "cancel",
               "planInvoice", "planWrite", "subscribe"}

Handler ==
  [pc: SweepSteps \cup AdminSteps, now: Nat, todo: SUBSET Item,
   job: Job \cup {None}, owing: SUBSET Customers]

Idle == [pc |-> "idle", now |-> 0, todo |-> {}, job |-> None, owing |-> {}]

TypeOK ==
  /\ clock \in Nat
  /\ subs \in [SubIds -> Subscription]
  /\ invoices \in Seq(Invoice)
  /\ flow \in [Flows -> Handler]
  /\ requests \in Nat
  /\ faults \in Nat

\* Rows that exist started at tick 0.  Auto-renew may already be off without
\* a cancellation: a customer who means to pay by hand.
InitialRow(s, plan, autoRenew) ==
  [status |-> IF s \in Existing THEN "ACTIVE" ELSE "ABSENT", plan |-> plan,
   startsAt |-> 0, renewsAt |-> Cycle[plan], autoRenew |-> autoRenew,
   cancelledAt |-> None]

Init ==
  /\ clock = 0
  /\ \E plan \in Plans, manual \in SUBSET Existing :
       subs = [s \in SubIds |-> InitialRow(s, plan, s \notin manual)]
  /\ invoices = <<>>
  /\ flow = [f \in Flows |-> Idle]
  /\ requests = 0
  /\ faults = 0

-----------------------------------------------------------------------------
(* Queries.                                                                *)

\* Operators named ...Slip are plausible mistakes in the definition they stand
\* before; the properties must tell the two apart.

\* renewalAfter: the first anniversary of `anchor` after `renewsAt`.
RenewalAfterSlip(anchor, renewsAt, length) ==  \* the one it has reached
  IF renewsAt < anchor THEN anchor + length
  ELSE anchor + length * ((renewsAt - anchor) \div length)

RenewalAfter(anchor, renewsAt, length) ==
  IF renewsAt < anchor THEN anchor + length
  ELSE anchor + length * ((renewsAt - anchor) \div length + 1)

\* What one query returns of the rows it matches: all of them, up to BATCH.
Take(matching) ==
  {D \in SUBSET matching :
     \/ D = matching /\ Cardinality(D) <= Batch
     \/ Cardinality(D) = Batch}

\* Rows `expire` selects: cancelled, auto-renew off, run out.
RunOut(now) ==
  {s \in SubIds : /\ subs[s].status \in Live
                  /\ subs[s].cancelledAt # None
                  /\ ~subs[s].autoRenew
                  /\ subs[s].renewsAt <= now}

\* Rows `dueForRenewal` selects, and the earliest BATCH of them.
DueSlip(now) ==  \* forgets autoRenew
  {s \in SubIds : subs[s].status \in Live /\ subs[s].renewsAt <= now}

Due(now) ==
  {s \in SubIds : /\ subs[s].status \in Live
                  /\ subs[s].autoRenew
                  /\ subs[s].renewsAt <= now}

Earliest(D, matching) ==
  \A s \in D, t \in matching \ D : subs[s].renewsAt <= subs[t].renewsAt

\* Customers with an issued invoice whose due date is before `now`.
InArrears(now) ==
  {c \in Customers : \E i \in DOMAIN invoices :
     /\ Owner[invoices[i].sub] = c
     /\ invoices[i].status = "ISSUED"
     /\ invoices[i].dueAt # None
     /\ invoices[i].dueAt < now}

\* Whether an invoices table holds the unique key (s, period).
HasKey(table, s, period) ==
  \E i \in DOMAIN table : table[i].sub = s /\ table[i].period = period

InvoicedSlip(s, period) ==  \* an index on unpaid invoices only
  \E i \in DOMAIN invoices : /\ invoices[i].sub = s
                             /\ invoices[i].period = period
                             /\ invoices[i].status = "ISSUED"

Invoiced(s, period) == HasKey(invoices, s, period)

-----------------------------------------------------------------------------
(* Steps of a handler.                                                     *)

Goto(f, handler) == flow' = [flow EXCEPT ![f] = handler]

\* A renewal over: a sweep takes the next row, a request answers.
AfterRenewal(f) ==
  IF f \in Sweepers THEN [flow[f] EXCEPT !.pc = "due", !.job = None] ELSE Idle

\* sweep and the query of expire.
StartSweep(f) ==
  /\ flow[f].pc = "idle"
  /\ \E D \in Take(RunOut(clock)) :
       Goto(f, [Idle EXCEPT !.pc = "expire", !.now = clock,
                            !.todo = {Listed(s) : s \in D}])
  /\ UNCHANGED <<clock, subs, invoices, requests, faults>>

\* The condition on which expire ends a row: nobody has renewed or ended it
\* since it was listed.
StillRunOutSlip(e) == subs[e.sub].status \in Live

StillRunOutActiveSlip(e) ==  \* forgets those in arrears
  subs[e.sub].renewsAt = e.renewsAt /\ subs[e.sub].status = "ACTIVE"

StillRunOut(e) ==
  subs[e.sub].renewsAt = e.renewsAt /\ subs[e.sub].status \in Live

\* One pass of the loop of expire.
ExpireOne(f) ==
  /\ flow[f].pc = "expire"
  /\ \E e \in flow[f].todo :
       /\ Goto(f, [flow[f] EXCEPT !.todo = @ \ {e}])
       /\ IF StillRunOut(e)
          THEN subs' = [subs EXCEPT ![e.sub].status = "EXPIRED"]
          ELSE UNCHANGED subs
  /\ UNCHANGED <<clock, invoices, requests, faults>>

\* The query of renewDue.
ListDue(f) ==
  /\ flow[f].pc = "expire"
  /\ flow[f].todo = {}
  /\ \E D \in Take(Due(flow[f].now)) :
       /\ Earliest(D, Due(flow[f].now))
       /\ Goto(f, [flow[f] EXCEPT !.pc = "due",
                                  !.todo = {Listed(s) : s \in D}])
  /\ UNCHANGED <<clock, subs, invoices, requests, faults>>

\* What renew decides from the row it reads.
Renewable(s) == subs[s].status \notin Terminal

RenewalOfSlip(s) ==  \* keyed by the day, not by the period
  [sub |-> s, period |-> clock, plan |-> subs[s].plan,
   target |-> RenewalAfter(subs[s].startsAt, subs[s].renewsAt,
                           Cycle[subs[s].plan])]

RenewalOf(s) ==
  [sub |-> s, period |-> subs[s].renewsAt, plan |-> subs[s].plan,
   target |-> RenewalAfter(subs[s].startsAt, subs[s].renewsAt,
                           Cycle[subs[s].plan])]

\* expectedPeriodStart: whether the row is still at the period listed.
PinnedSlip(e) == TRUE

Pinned(e) == subs[e.sub].renewsAt = e.renewsAt

\* renew as the sweep calls it: pinned to the period the sweep listed.  A row
\* that has ended raises an error, one that has moved is skipped; either way
\* the sweep goes on to the next.
RenewListed(f) ==
  /\ flow[f].pc = "due"
  /\ \E e \in flow[f].todo :
       /\ \A d \in flow[f].todo : e.renewsAt <= d.renewsAt
       /\ IF Renewable(e.sub) /\ Pinned(e)
          THEN Goto(f, [flow[f] EXCEPT !.pc = "issue", !.todo = @ \ {e},
                                       !.job = RenewalOf(e.sub)])
          ELSE Goto(f, [flow[f] EXCEPT !.todo = @ \ {e}])
  /\ UNCHANGED <<clock, subs, invoices, requests, faults>>

\* renew as the administrator's request calls it: no pin.
RenewPressed(f) ==
  /\ flow[f].pc = "pressed"
  /\ LET s == flow[f].job.sub
     IN  IF Renewable(s)
         THEN Goto(f, [flow[f] EXCEPT !.pc = "issue", !.job = RenewalOf(s)])
         ELSE Goto(f, Idle)
  /\ UNCHANGED <<clock, subs, invoices, requests, faults>>

\* The invoice of a renewal, or, when the unique index refuses a second one
\* for the period, the invoice that is already there.
Issue(f) ==
  /\ flow[f].pc = "issue"
  /\ LET job == flow[f].job
         invoice == [sub |-> job.sub, period |-> job.period,
                     dueAt |-> job.period, status |-> "ISSUED",
                     by |-> IF f \in Sweepers THEN "sweep" ELSE "admin"]
     IN  IF Invoiced(job.sub, job.period)
         THEN UNCHANGED invoices
         ELSE invoices' = Append(invoices, invoice)
  /\ Goto(f, [flow[f] EXCEPT !.pc = "advance"])
  /\ UNCHANGED <<clock, subs, requests, faults>>

\* The compare-and-swap of renew: nobody has advanced the period invoiced.
UnmovedSlip(job) == TRUE

Unmoved(job) == subs[job.sub].renewsAt = job.period

\* The advance, a compare-and-swap which does not look at the status again.
Advance(f) ==
  /\ flow[f].pc = "advance"
  /\ LET job == flow[f].job
     IN  IF Unmoved(job)
         THEN subs' = [subs EXCEPT ![job.sub].renewsAt = job.target]
         ELSE UNCHANGED subs
  /\ Goto(f, AfterRenewal(f))
  /\ UNCHANGED <<clock, invoices, requests, faults>>

\* reassessArrears: first the customers who owe, then the rows, then each row.
ListOverdue(f) ==
  /\ flow[f].pc = "due"
  /\ flow[f].todo = {}
  /\ Goto(f, [flow[f] EXCEPT !.pc = "overdue",
                             !.owing = InArrears(flow[f].now)])
  /\ UNCHANGED <<clock, subs, invoices, requests, faults>>

ListLive(f) ==
  /\ flow[f].pc = "overdue"
  /\ \E D \in Take({s \in SubIds : subs[s].status \in Live}) :
       Goto(f, [flow[f] EXCEPT !.pc = "arrears",
                               !.todo = {Listed(s) : s \in D}])
  /\ UNCHANGED <<clock, subs, invoices, requests, faults>>

\* The status a customer's debts call for, and whether a row still has the
\* one it was listed with.
StandingSlip(s, owing) ==  \* never clears PAST_DUE
  IF Owner[s] \in owing THEN "PAST_DUE" ELSE subs[s].status

StandingOverdueSlip(s, owing) ==  \* an invoice's word for it
  IF Owner[s] \in owing THEN "OVERDUE" ELSE "ACTIVE"

Standing(s, owing) == IF Owner[s] \in owing THEN "PAST_DUE" ELSE "ACTIVE"

SameStatusSlip(e) == TRUE

SameStatus(e) == subs[e.sub].status = e.status

\* One pass of the loop: a compare-and-swap on the status as listed.
ReassessOne(f) ==
  /\ flow[f].pc = "arrears"
  /\ \E e \in flow[f].todo :
       /\ Goto(f, [flow[f] EXCEPT !.todo = @ \ {e}])
       /\ IF SameStatus(e)
          THEN subs' = [subs EXCEPT ![e.sub].status =
                          Standing(e.sub, flow[f].owing)]
          ELSE UNCHANGED subs
  /\ UNCHANGED <<clock, invoices, requests, faults>>

FinishSweep(f) ==
  /\ flow[f].pc = "arrears"
  /\ flow[f].todo = {}
  /\ Goto(f, Idle)
  /\ UNCHANGED <<clock, subs, invoices, requests, faults>>

-----------------------------------------------------------------------------
(* Administrator requests.                                                 *)

Request(a, kind) ==
  /\ flow[a].pc = "idle"
  /\ kind \in Requests
  /\ requests < MaxRequests
  /\ requests' = requests + 1

Exists(s) == subs[s].status # "ABSENT"

\* The "Renew" button: on any row, or only ever on one that is due.
PressRenew(a, s) ==
  /\ \/ Request(a, "renew") /\ Exists(s)
     \/ Request(a, "renewDue") /\ s \in Due(clock)
  /\ Goto(a, [Idle EXCEPT !.pc = "pressed", !.job = RenewalOf(s)])
  /\ UNCHANGED <<clock, subs, invoices, faults>>

\* cancel reads the row and answers at once if it was cancelled before.
CancelRead(a, s) ==
  /\ Request(a, "cancel")
  /\ Exists(s)
  /\ subs[s].cancelledAt = None
  /\ Goto(a, [Idle EXCEPT !.pc = "cancel", !.job = RenewalOf(s)])
  /\ UNCHANGED <<clock, subs, invoices, faults>>

CancelWrite(a) ==
  /\ flow[a].pc = "cancel"
  /\ subs' = [subs EXCEPT ![flow[a].job.sub].autoRenew = FALSE,
                          ![flow[a].job.sub].cancelledAt = clock]
  /\ Goto(a, Idle)
  /\ UNCHANGED <<clock, invoices, requests, faults>>

\* changePlan: read, invoice without a period key or a due date, overwrite
\* the row whatever has become of it meanwhile.
PlanRead(a, s, plan) ==
  /\ Request(a, "changePlan")
  /\ Exists(s)
  /\ plan \in OnSale \ {subs[s].plan}
  /\ Goto(a, [Idle EXCEPT !.pc = "planInvoice", !.now = clock,
                !.job = [sub |-> s, period |-> subs[s].renewsAt, plan |-> plan,
                         target |-> clock + Cycle[plan]]])
  /\ UNCHANGED <<clock, subs, invoices, faults>>

PlanInvoice(a) ==
  /\ flow[a].pc = "planInvoice"
  /\ invoices' = Append(invoices,
                   [sub |-> flow[a].job.sub, period |-> None, dueAt |-> None,
                    status |-> "ISSUED", by |-> "admin"])
  /\ Goto(a, [flow[a] EXCEPT !.pc = "planWrite"])
  /\ UNCHANGED <<clock, subs, requests, faults>>

PlanWrite(a) ==
  /\ flow[a].pc = "planWrite"
  /\ LET job == flow[a].job
     IN  subs' = [subs EXCEPT ![job.sub] =
                    [@ EXCEPT !.plan = job.plan, !.startsAt = flow[a].now,
                              !.renewsAt = job.target, !.status = "ACTIVE"]]
  /\ Goto(a, Idle)
  /\ UNCHANGED <<clock, invoices, requests, faults>>

\* subscribe: one transaction whose update sees the rows committed when it
\* starts, and whose writes are seen when it commits.  The database gives the
\* new row a key of its own.
SubscribeBegin(a, s, plan) ==
  /\ Request(a, "subscribe")
  /\ ~Exists(s)
  /\ \A g \in Admins : flow[g].job # None => flow[g].job.sub # s
  /\ plan \in OnSale
  /\ Goto(a, [Idle EXCEPT !.pc = "subscribe", !.now = clock,
                !.todo = {Listed(t) : t \in {t \in SubIds :
                            Owner[t] = Owner[s] /\ subs[t].status = "ACTIVE"}},
                !.job = [sub |-> s, period |-> clock, plan |-> plan,
                         target |-> clock + Cycle[plan]]])
  /\ UNCHANGED <<clock, subs, invoices, faults>>

SubscribeCommit(a) ==
  /\ flow[a].pc = "subscribe"
  /\ ~Exists(flow[a].job.sub)
  /\ LET job  == flow[a].job
         seen == {e.sub : e \in flow[a].todo}
     IN  subs' = [t \in SubIds |->
           IF t = job.sub
           THEN [status |-> "ACTIVE", plan |-> job.plan,
                 startsAt |-> flow[a].now, renewsAt |-> job.target,
                 autoRenew |-> TRUE, cancelledAt |-> None]
           ELSE IF t \in seen /\ subs[t].status = "ACTIVE"
           THEN [subs[t] EXCEPT !.status = "CANCELLED",
                                !.cancelledAt = flow[a].now]
           ELSE subs[t]]
  /\ Goto(a, Idle)
  /\ UNCHANGED <<clock, invoices, requests, faults>>

-----------------------------------------------------------------------------
(* Around the handlers.                                                    *)

\* Time passes, but not while a transaction is open: it lasts seconds at most.
Tick ==
  /\ clock < Horizon
  /\ \A a \in Admins : flow[a].pc # "subscribe"
  /\ clock' = clock + 1
  /\ UNCHANGED <<subs, invoices, flow, requests, faults>>

\* An invoice stops being owed: a payment (there is no gateway yet, so
\* nothing in the program does this) or voidInvoice.
Settle(i, kind, status) ==
  /\ kind \in Requests
  /\ requests < MaxRequests
  /\ requests' = requests + 1
  /\ invoices[i].status = "ISSUED"
  /\ invoices' = [invoices EXCEPT ![i].status = status]
  /\ UNCHANGED <<clock, subs, flow, faults>>

PayInvoice(i)  == Settle(i, "pay", "PAID")
VoidInvoice(i) == Settle(i, "void", "VOID")

Fault == faults < MaxFaults /\ faults' = faults + 1

\* A call fails inside one renewal of a sweep: the rest of the batch goes on.
FailItem(f) ==
  /\ Fault
  /\ \/ /\ flow[f].pc \in {"issue", "advance"}
        /\ Goto(f, [flow[f] EXCEPT !.pc = "due", !.job = None])
     \/ /\ flow[f].pc = "due"
        /\ \E e \in flow[f].todo :
             /\ \A d \in flow[f].todo : e.renewsAt <= d.renewsAt
             /\ Goto(f, [flow[f] EXCEPT !.todo = @ \ {e}])
  /\ UNCHANGED <<clock, subs, invoices, requests>>

\* The process dies, or a call fails where nothing catches it: the sweep or
\* the request is over and what it had read is gone.
Crash(f) ==
  /\ flow[f].pc # "idle"
  /\ Fault
  /\ Goto(f, Idle)
  /\ UNCHANGED <<clock, subs, invoices, requests>>

-----------------------------------------------------------------------------

SweepStep(f) ==
  \/ StartSweep(f)  \/ ExpireOne(f) \/ ListDue(f)  \/ RenewListed(f)
  \/ Issue(f)       \/ Advance(f)   \/ ListOverdue(f)
  \/ ListLive(f)    \/ ReassessOne(f) \/ FinishSweep(f)

AdminStep(a) ==
  \/ RenewPressed(a) \/ Issue(a) \/ Advance(a) \/ CancelWrite(a)
  \/ PlanInvoice(a)  \/ PlanWrite(a) \/ SubscribeCommit(a)

NewRequest(a) ==
  \E s \in SubIds :
    \/ PressRenew(a, s)
    \/ CancelRead(a, s)
    \/ \E plan \in Plans : PlanRead(a, s, plan) \/ SubscribeBegin(a, s, plan)

Next ==
  \/ \E f \in Sweepers : SweepStep(f) \/ FailItem(f)
  \/ \E a \in Admins : AdminStep(a) \/ NewRequest(a)
  \/ \E f \in Flows : Crash(f)
  \/ \E i \in DOMAIN invoices : PayInvoice(i) \/ VoidInvoice(i)
  \/ Tick

Spec == Init /\ [][Next]_vars

\* The timer starts a sweep at every interval and the event loop runs every
\* handler on; time passes.  Nothing obliges anyone to make a request.
Fairness ==
  /\ \A f \in Sweepers : WF_vars(SweepStep(f))
  /\ \A a \in Admins : WF_vars(AdminStep(a))
  /\ WF_vars(Tick)

FairSpec == Spec /\ Fairness

-----------------------------------------------------------------------------
(* Safety.                                                                 *)

\* No period of a subscription is invoiced twice, whoever renews it, however
\* often a renewal is interrupted and taken up again.
OneInvoicePerPeriod ==
  \A i, j \in DOMAIN invoices :
    /\ invoices[i].sub = invoices[j].sub
    /\ invoices[i].period = invoices[j].period
    /\ invoices[i].period # None
    => i = j

\* A sweep charges for a period being entered, never for one still to come,
\* although what it listed may have been renewed by another since.
SweepNeverBillsAhead ==
  \A i \in DOMAIN invoices :
    invoices[i].by = "sweep" => invoices[i].period <= clock

\* A renewal moves the date forward, and only past a period that has its
\* invoice: no period is skipped, and a stale writer never moves it back.
\* (A plan change, which starts the subscription afresh, is not a renewal.)
ChangesPlan == \E a \in Admins : flow[a].pc = "planWrite" /\ flow'[a] # flow[a]

RenewsAtFollowsInvoice ==
  [][\A s \in SubIds :
       Exists(s) /\ subs'[s].renewsAt # subs[s].renewsAt /\ ~ChangesPlan
       => /\ Invoiced(s, subs[s].renewsAt)
          /\ subs'[s].renewsAt > subs[s].renewsAt]_vars

\* A sweep bills nobody who pays by hand, and nobody whose subscription was
\* cancelled before the sweep started: if auto-renew is off by the time it
\* issues the invoice, it was switched off meanwhile.
BilledOnlyOnAutoRenew ==
  \A f \in Sweepers :
    flow[f].pc = "issue" =>
      LET row == subs[flow[f].job.sub]
      IN  \/ row.autoRenew
          \/ row.cancelledAt # None /\ row.cancelledAt >= flow[f].now

\* The sweep ends a subscription only if it was cancelled and has run out,
\* although a renewal may have extended it since the sweep listed it.
ExpiresOnlyWhenRunOut ==
  [][\A s \in SubIds :
       /\ subs[s].status # "EXPIRED"
       /\ subs'[s].status = "EXPIRED"
       => s \in RunOut(clock)]_vars

\* A subscription that has ended stays ended: the arrears step, working from
\* the status it listed, never brings one back.
EndedStaysEnded ==
  [][\A s \in SubIds :
       subs[s].status \in Terminal => subs'[s].status = subs[s].status]_vars

\* All of it together, without the interleavings: with plan changes apart (they
\* start the subscription afresh) every step of every handler is a step of
\* BillingContract, or none.  `through` is the renewal date of a row that
\* exists, `billed` the periods its invoices are keyed by.
Through == [s \in SubIds |-> IF Exists(s) THEN subs[s].renewsAt ELSE None]

Billed ==
  [s \in SubIds |->
     {invoices[i].period : i \in {i \in DOMAIN invoices :
        invoices[i].sub = s /\ invoices[i].period # None}}]

Contract == INSTANCE BillingContract WITH through <- Through, billed <- Billed

BilledAsPromised == Contract!Spec

\* The strengthening that makes the invariants above inductive.  Sound(f, h)
\* says that what handler f holds agrees with the clock and the invoices
\* table: it is at a step of its own, a sweep's work never lies beyond its own
\* `now`, the date a renewal will write is a later one, and a renewal about to
\* advance has its invoice.
JobSteps == {"issue", "advance", "pressed", "cancel", "planInvoice",
             "planWrite", "subscribe"}

Sound(f, h, time, table) ==
  /\ h.pc \in IF f \in Sweepers THEN SweepSteps ELSE AdminSteps
  /\ h.pc \in JobSteps => h.job \in Job
  /\ f \in Sweepers =>
       /\ h.now <= time
       /\ h.pc \in {"due", "issue", "advance"} =>
            \A e \in h.todo : e.renewsAt <= h.now
       /\ h.pc \in {"issue", "advance"} => h.job.period <= h.now
  /\ h.pc \in {"issue", "advance"} => h.job.period < h.job.target
  /\ h.pc = "advance" => HasKey(table, h.job.sub, h.job.period)

HandlersSound == \A f \in Flows : Sound(f, flow[f], clock, invoices)

SweepInvoicesAPeriod ==
  \A i \in DOMAIN invoices :
    invoices[i].by = "sweep" => invoices[i].period # None

RenewalInv ==
  /\ TypeOK
  /\ HandlersSound
  /\ SweepInvoicesAPeriod
  /\ OneInvoicePerPeriod
  /\ SweepNeverBillsAhead

-----------------------------------------------------------------------------
(* Liveness, under Fairness.                                               *)

\* Every due subscription is renewed in the end, through crashes, failed
\* calls and lost races.
DueIsRenewed ==
  \A s \in SubIds : s \in Due(clock) ~> s \notin Due(clock)

\* Every cancelled subscription whose paid time has run out is ended, unless
\* a renewal that read it before the cancellation extends it once more.
CancelledRunsOut ==
  \A s \in SubIds : s \in RunOut(clock) ~> s \notin RunOut(clock)

\* PAST_DUE comes to mean "has an overdue invoice", in both directions.
ArrearsSettle ==
  <>[](\A s \in SubIds :
         subs[s].status \in Live =>
           (subs[s].status = "PAST_DUE" <=> Owner[s] \in InArrears(clock)))

-----------------------------------------------------------------------------
(* What a comment of subscribe says, and arrears refute.                   *)

\* A customer is on one plan at a time, in arrears or not.
OneLivePerCustomer ==
  \A s, t \in SubIds :
    /\ Owner[s] = Owner[t]
    /\ subs[s].status \in Live
    /\ subs[t].status \in Live
    => s = t
=============================================================================
