--------------------------- MODULE RenewalsProofs ---------------------------
(***************************************************************************)
(* What holds of Renewals for any number of sweeps, administrators,        *)
(* subscriptions and periods.                                              *)
(***************************************************************************)
EXTENDS Renewals, TLAPS

\* The next renewal date is a later one.
LEMMA RenewalAfterIsLater ==
  ASSUME NEW anchor \in Nat, NEW renewsAt \in Nat, NEW length \in Nat \ {0}
  PROVE  /\ RenewalAfter(anchor, renewsAt, length) \in Nat
         /\ RenewalAfter(anchor, renewsAt, length) > renewsAt
<1>1. CASE renewsAt < anchor
  BY <1>1 DEF RenewalAfter
<1>2. CASE ~(renewsAt < anchor)
  <2> DEFINE d == renewsAt - anchor
  <2>1. d \in Nat
    BY <1>2
  <2>2. d \div length \in Nat /\ length * (d \div length + 1) > d
    BY <2>1
  <2>3. length * (d \div length + 1) \in Nat
    BY <2>2
  <2>4. RenewalAfter(anchor, renewsAt, length)
          = anchor + length * (d \div length + 1)
    BY <1>2 DEF RenewalAfter
  <2> HIDE DEF d
  <2>5. d = renewsAt - anchor
    BY DEF d
  <2>6. QED
    BY <2>1, <2>2, <2>3, <2>4, <2>5
<1>3. QED
  BY <1>1, <1>2

LEMMA ListedIsItem ==
  ASSUME TypeOK, NEW s \in SubIds
  PROVE  Listed(s) \in Item /\ Listed(s).sub = s
                            /\ Listed(s).renewsAt = subs[s].renewsAt
  BY DEF TypeOK, Listed, Item, Subscription

LEMMA RenewalOfIsJob ==
  ASSUME TypeOK, RenewalsAssumption, NEW s \in SubIds
  PROVE  /\ RenewalOf(s) \in Job
         /\ RenewalOf(s).sub = s
         /\ RenewalOf(s).period = subs[s].renewsAt
         /\ RenewalOf(s).period < RenewalOf(s).target
<1>1. subs[s] \in Subscription /\ Cycle[subs[s].plan] \in Nat \ {0}
  BY DEF TypeOK, RenewalsAssumption, Subscription
<1>2. /\ RenewalAfter(subs[s].startsAt, subs[s].renewsAt, Cycle[subs[s].plan]) \in Nat
      /\ RenewalAfter(subs[s].startsAt, subs[s].renewsAt, Cycle[subs[s].plan]) > subs[s].renewsAt
  BY <1>1, RenewalAfterIsLater DEF Subscription
<1>3. QED
  BY <1>1, <1>2 DEF RenewalOf, Job, Subscription

LEMMA TypeInit == RenewalsAssumption /\ Init => TypeOK
<1> SUFFICES ASSUME RenewalsAssumption, Init PROVE TypeOK
  OBVIOUS
<1>1. subs \in [SubIds -> Subscription]
  BY DEF Init, InitialRow, Subscription, Statuses, Live, RenewalsAssumption
<1>2. Idle \in Handler
  BY DEF Idle, Handler, SweepSteps
<1>3. QED
  BY <1>1, <1>2 DEF Init, TypeOK

\* Every step leaves each variable in its type: first what the steps of
\* handlers have in common, then each action.
LEMMA GotoType ==
  ASSUME TypeOK, NEW f \in Flows, NEW h \in Handler, Goto(f, h)
  PROVE  flow' \in [Flows -> Handler]
  BY DEF TypeOK, Goto

\* A row with one column overwritten is still a row.
LEMMA RowUpdateType ==
  ASSUME TypeOK, NEW s \in SubIds
  PROVE  /\ \A v \in Statuses :
              [subs EXCEPT ![s].status = v] \in [SubIds -> Subscription]
         /\ \A v \in Nat :
              [subs EXCEPT ![s].renewsAt = v] \in [SubIds -> Subscription]
<1>1. subs \in [SubIds -> Subscription]
  BY DEF TypeOK
<1>2. ASSUME NEW v \in Statuses
      PROVE  [subs[s] EXCEPT !.status = v] \in Subscription
  BY <1>1 DEF Subscription
<1>3. ASSUME NEW v \in Nat
      PROVE  [subs[s] EXCEPT !.renewsAt = v] \in Subscription
  BY <1>1 DEF Subscription
<1>4. QED
  BY <1>1, <1>2, <1>3

LEMMA IdleType == Idle \in Handler
  BY DEF Idle, Handler, SweepSteps

LEMMA TypeIssue ==
  ASSUME RenewalsAssumption, TypeOK, HandlersSound, NEW f \in Flows, Issue(f)
  PROVE  TypeOK'
<1>1. flow[f] \in Handler /\ flow[f].job \in Job
  BY DEF TypeOK, HandlersSound, Sound, JobSteps, Issue
<1>2. [flow[f] EXCEPT !.pc = "advance"] \in Handler
  BY <1>1 DEF Handler, SweepSteps
<1>3. flow' \in [Flows -> Handler]
  BY <1>2, GotoType DEF Issue
<1>4. invoices' \in Seq(Invoice)
  <2> DEFINE invoice == [sub |-> flow[f].job.sub, period |-> flow[f].job.period,
                     dueAt |-> flow[f].job.period, status |-> "ISSUED",
                     by |-> IF f \in Sweepers THEN "sweep" ELSE "admin"]
  <2>1. invoice \in Invoice
    BY <1>1 DEF Job, Invoice
  <2>2. UNCHANGED invoices \/ invoices' = Append(invoices, invoice)
    BY DEF Issue
  <2>3. invoices \in Seq(Invoice)
    BY DEF TypeOK
  <2> HIDE DEF invoice
  <2>4. QED
    BY <2>1, <2>2, <2>3
<1>5. QED
  BY <1>3, <1>4 DEF Issue, TypeOK

LEMMA TypeAdvance ==
  ASSUME RenewalsAssumption, TypeOK, HandlersSound, NEW f \in Flows, Advance(f)
  PROVE  TypeOK'
<1>1. flow[f] \in Handler /\ flow[f].job \in Job
  BY DEF TypeOK, HandlersSound, Sound, JobSteps, Advance
<1>2. AfterRenewal(f) \in Handler
  BY <1>1, IdleType DEF AfterRenewal, Handler, SweepSteps
<1>3. flow' \in [Flows -> Handler]
  BY <1>2, GotoType DEF Advance
<1>4. subs' \in [SubIds -> Subscription]
  <2>1. flow[f].job.sub \in SubIds /\ flow[f].job.target \in Nat
    BY <1>1 DEF Job
  <2>2. QED
    BY <2>1, RowUpdateType DEF Advance, TypeOK
<1>5. QED
  BY <1>3, <1>4 DEF Advance, TypeOK

LEMMA TypeSweep ==
  ASSUME RenewalsAssumption, TypeOK, HandlersSound,
         NEW f \in Sweepers, SweepStep(f)
  PROVE  TypeOK'
<1> USE DEF Flows
<1>0. flow[f] \in Handler
  BY DEF TypeOK
<1>1. CASE StartSweep(f)
  <2>1. PICK D \in Take(RunOut(clock)) :
          Goto(f, [Idle EXCEPT !.pc = "expire", !.now = clock,
                               !.todo = {Listed(s) : s \in D}])
    BY <1>1 DEF StartSweep
  <2>2. {Listed(s) : s \in D} \subseteq Item
    BY <2>1, ListedIsItem DEF Take, RunOut
  <2>3. [Idle EXCEPT !.pc = "expire", !.now = clock,
                     !.todo = {Listed(s) : s \in D}] \in Handler
    BY <2>2 DEF Idle, Handler, SweepSteps, TypeOK
  <2>4. flow' \in [Flows -> Handler]
    BY <2>1, <2>3, GotoType
  <2>5. QED
    BY <1>1, <2>4 DEF StartSweep, TypeOK
<1>2. CASE ExpireOne(f)
  <2>1. PICK e \in flow[f].todo :
          /\ Goto(f, [flow[f] EXCEPT !.todo = @ \ {e}])
          /\ \/ subs' = [subs EXCEPT ![e.sub].status = "EXPIRED"]
             \/ UNCHANGED subs
    BY <1>2 DEF ExpireOne
  <2>2. [flow[f] EXCEPT !.todo = @ \ {e}] \in Handler
    BY <1>0 DEF Handler
  <2>3. flow' \in [Flows -> Handler]
    BY <2>1, <2>2, GotoType
  <2>4. subs' \in [SubIds -> Subscription]
    <3>1. e.sub \in SubIds
      BY <1>0 DEF Handler, Item
    <3>2. "EXPIRED" \in Statuses
      BY DEF Statuses, Terminal
    <3>3. QED
      BY <2>1, <3>1, <3>2, RowUpdateType DEF TypeOK
  <2>5. QED
    BY <1>2, <2>3, <2>4 DEF ExpireOne, TypeOK
<1>3. CASE ListDue(f)
  <2>1. PICK D \in Take(Due(flow[f].now)) :
          Goto(f, [flow[f] EXCEPT !.pc = "due",
                                  !.todo = {Listed(s) : s \in D}])
    BY <1>3 DEF ListDue
  <2>2. {Listed(s) : s \in D} \subseteq Item
    BY <2>1, ListedIsItem DEF Take, Due
  <2>3. [flow[f] EXCEPT !.pc = "due",
                        !.todo = {Listed(s) : s \in D}] \in Handler
    BY <1>0, <2>2 DEF Handler, SweepSteps
  <2>4. flow' \in [Flows -> Handler]
    BY <2>1, <2>3, GotoType
  <2>5. QED
    BY <1>3, <2>4 DEF ListDue, TypeOK
<1>4. CASE RenewListed(f)
  <2>1. PICK e \in flow[f].todo :
          \/ Goto(f, [flow[f] EXCEPT !.pc = "issue", !.todo = @ \ {e},
                                     !.job = RenewalOf(e.sub)])
          \/ Goto(f, [flow[f] EXCEPT !.todo = @ \ {e}])
    BY <1>4 DEF RenewListed, Pinned
  <2>2. RenewalOf(e.sub) \in Job
    BY <1>0, RenewalOfIsJob DEF Handler, Item
  <2>3. /\ [flow[f] EXCEPT !.pc = "issue", !.todo = @ \ {e},
                           !.job = RenewalOf(e.sub)] \in Handler
        /\ [flow[f] EXCEPT !.todo = @ \ {e}] \in Handler
    BY <1>0, <2>2 DEF Handler, SweepSteps
  <2>4. flow' \in [Flows -> Handler]
    BY <2>1, <2>3, GotoType
  <2>5. QED
    BY <1>4, <2>4 DEF RenewListed, TypeOK
<1>5. CASE Issue(f)
  BY <1>5, TypeIssue
<1>6. CASE Advance(f)
  BY <1>6, TypeAdvance
<1>7. CASE ListOverdue(f)
  <2>1. [flow[f] EXCEPT !.pc = "overdue",
                        !.owing = InArrears(flow[f].now)] \in Handler
    BY <1>0 DEF Handler, SweepSteps, InArrears
  <2>2. flow' \in [Flows -> Handler]
    BY <1>7, <2>1, GotoType DEF ListOverdue
  <2>3. QED
    BY <1>7, <2>2 DEF ListOverdue, TypeOK
<1>8. CASE ListLive(f)
  <2>1. PICK D \in Take({s \in SubIds : subs[s].status \in Live}) :
          Goto(f, [flow[f] EXCEPT !.pc = "arrears",
                                  !.todo = {Listed(s) : s \in D}])
    BY <1>8 DEF ListLive
  <2>2. {Listed(s) : s \in D} \subseteq Item
    BY <2>1, ListedIsItem DEF Take
  <2>3. [flow[f] EXCEPT !.pc = "arrears",
                        !.todo = {Listed(s) : s \in D}] \in Handler
    BY <1>0, <2>2 DEF Handler, SweepSteps
  <2>4. flow' \in [Flows -> Handler]
    BY <2>1, <2>3, GotoType
  <2>5. QED
    BY <1>8, <2>4 DEF ListLive, TypeOK
<1>9. CASE ReassessOne(f)
  <2>1. PICK e \in flow[f].todo :
          /\ Goto(f, [flow[f] EXCEPT !.todo = @ \ {e}])
          /\ \/ subs' = [subs EXCEPT ![e.sub].status = "PAST_DUE"]
             \/ subs' = [subs EXCEPT ![e.sub].status = "ACTIVE"]
             \/ UNCHANGED subs
    BY <1>9 DEF ReassessOne, Standing
  <2>2. [flow[f] EXCEPT !.todo = @ \ {e}] \in Handler
    BY <1>0 DEF Handler
  <2>3. flow' \in [Flows -> Handler]
    BY <2>1, <2>2, GotoType
  <2>4. subs' \in [SubIds -> Subscription]
    <3>1. e.sub \in SubIds
      BY <1>0 DEF Handler, Item
    <3>2. "PAST_DUE" \in Statuses /\ "ACTIVE" \in Statuses
      BY DEF Statuses, Live
    <3>3. /\ [subs EXCEPT ![e.sub].status = "PAST_DUE"]
               \in [SubIds -> Subscription]
          /\ [subs EXCEPT ![e.sub].status = "ACTIVE"]
               \in [SubIds -> Subscription]
      BY <3>1, <3>2, RowUpdateType
    <3>4. QED
      BY <2>1, <3>3 DEF TypeOK
  <2>5. QED
    BY <1>9, <2>3, <2>4 DEF ReassessOne, TypeOK
<1>10. CASE FinishSweep(f)
  <2>1. flow' \in [Flows -> Handler]
    BY <1>10, IdleType, GotoType DEF FinishSweep
  <2>2. QED
    BY <1>10, <2>1 DEF FinishSweep, TypeOK
<1>11. QED
  BY <1>1, <1>2, <1>3, <1>4, <1>5, <1>6, <1>7, <1>8, <1>9, <1>10 DEF SweepStep

LEMMA TypeAdmin ==
  ASSUME RenewalsAssumption, TypeOK, HandlersSound, NEW a \in Admins, AdminStep(a)
  PROVE  TypeOK'
<1> USE DEF Flows
<1>0. flow[a] \in Handler
  BY DEF TypeOK
<1>1. CASE RenewPressed(a)
  <2> DEFINE s == flow[a].job.sub
  <2>1. s \in SubIds
    BY <1>1 DEF RenewPressed, HandlersSound, Sound, JobSteps, Job
  <2>2. RenewalOf(s) \in Job
    BY <2>1, RenewalOfIsJob
  <2>3. [flow[a] EXCEPT !.pc = "issue", !.job = RenewalOf(s)] \in Handler
    BY <1>0, <2>2 DEF Handler, SweepSteps
  <2>4. flow' \in [Flows -> Handler]
    BY <1>1, <2>3, IdleType, GotoType DEF RenewPressed
  <2>5. QED
    BY <1>1, <2>4 DEF RenewPressed, TypeOK
<1>2. CASE Issue(a)
  BY <1>2, TypeIssue
<1>3. CASE Advance(a)
  BY <1>3, TypeAdvance
<1>4. CASE CancelWrite(a)
  <2>1. flow[a].job.sub \in SubIds
    BY <1>4 DEF CancelWrite, HandlersSound, Sound, JobSteps, Job
  <2>2. subs[flow[a].job.sub] \in Subscription /\ clock \in Nat
    BY <2>1 DEF TypeOK
  <2>3. [subs[flow[a].job.sub] EXCEPT !.autoRenew = FALSE,
                                      !.cancelledAt = clock] \in Subscription
    BY <2>2 DEF Subscription
  <2>4. subs' = [subs EXCEPT ![flow[a].job.sub] =
                   [@ EXCEPT !.autoRenew = FALSE, !.cancelledAt = clock]]
    BY <1>4 DEF CancelWrite
  <2>5. subs' \in [SubIds -> Subscription]
    BY <2>3, <2>4 DEF TypeOK
  <2>6. flow' \in [Flows -> Handler]
    BY <1>4, IdleType, GotoType DEF CancelWrite
  <2>7. QED
    BY <1>4, <2>5, <2>6 DEF CancelWrite, TypeOK
<1>5. CASE PlanInvoice(a)
  <2>1. flow[a].job.sub \in SubIds
    BY <1>5 DEF PlanInvoice, HandlersSound, Sound, JobSteps, Job
  <2>2. [sub |-> flow[a].job.sub, period |-> None, dueAt |-> None,
         status |-> "ISSUED", by |-> "admin"] \in Invoice
    BY <2>1 DEF Invoice
  <2>3. invoices' \in Seq(Invoice)
    BY <1>5, <2>2 DEF PlanInvoice, TypeOK
  <2>4. [flow[a] EXCEPT !.pc = "planWrite"] \in Handler
    BY <1>0 DEF Handler, AdminSteps
  <2>5. flow' \in [Flows -> Handler]
    BY <1>5, <2>4, GotoType DEF PlanInvoice
  <2>6. QED
    BY <1>5, <2>3, <2>5 DEF PlanInvoice, TypeOK
<1>6. CASE PlanWrite(a)
  <2> DEFINE s == flow[a].job.sub
             row == [subs[s] EXCEPT !.plan = flow[a].job.plan,
                                    !.startsAt = flow[a].now,
                                    !.renewsAt = flow[a].job.target,
                                    !.status = "ACTIVE"]
  <2>1. flow[a].job \in Job /\ flow[a].now \in Nat
    BY <1>0, <1>6 DEF PlanWrite, HandlersSound, Sound, JobSteps, Handler
  <2>2. s \in SubIds /\ flow[a].job.plan \in Plans /\ flow[a].job.target \in Nat
    BY <2>1 DEF Job
  <2>3. subs[s] \in Subscription
    BY <2>2 DEF TypeOK
  <2>4. row \in Subscription
    BY <2>1, <2>2, <2>3 DEF Subscription, Statuses, Live
  <2>5. subs' = [subs EXCEPT ![s] = row]
    BY <1>6 DEF PlanWrite
  <2>6. subs' \in [SubIds -> Subscription]
    <3> HIDE DEF row
    <3> QED BY <2>2, <2>4, <2>5 DEF TypeOK
  <2>7. flow' \in [Flows -> Handler]
    BY <1>6, IdleType, GotoType DEF PlanWrite
  <2>8. QED
    BY <1>6, <2>6, <2>7 DEF PlanWrite, TypeOK
<1>7. CASE SubscribeCommit(a)
  <2> DEFINE job == flow[a].job
             seen == {e.sub : e \in flow[a].todo}
             new == [status |-> "ACTIVE", plan |-> job.plan,
                     startsAt |-> flow[a].now, renewsAt |-> job.target,
                     autoRenew |-> TRUE, cancelledAt |-> None]
             ended(t) == [subs[t] EXCEPT !.status = "CANCELLED",
                                         !.cancelledAt = flow[a].now]
  <2>1. job \in Job /\ flow[a].now \in Nat
    BY <1>0, <1>7 DEF SubscribeCommit, HandlersSound, Sound, JobSteps, Handler
  <2>2. new \in Subscription
    BY <2>1 DEF Subscription, Statuses, Live, Job
  <2>3. ASSUME NEW t \in SubIds
        PROVE  subs[t] \in Subscription /\ ended(t) \in Subscription
    <3>1. subs[t] \in Subscription
      BY DEF TypeOK
    <3>2. QED
      BY <2>1, <3>1 DEF Subscription, Statuses, Terminal
  <2>4. subs' = [t \in SubIds |->
                   IF t = job.sub THEN new
                   ELSE IF t \in seen /\ subs[t].status = "ACTIVE"
                   THEN ended(t) ELSE subs[t]]
    BY <1>7 DEF SubscribeCommit
  <2>5. subs' \in [SubIds -> Subscription]
    <3> HIDE DEF new, ended, seen, job
    <3> QED BY <2>2, <2>3, <2>4
  <2>6. flow' \in [Flows -> Handler]
    BY <1>7, IdleType, GotoType DEF SubscribeCommit
  <2>7. QED
    BY <1>7, <2>5, <2>6 DEF SubscribeCommit, TypeOK
<1>8. QED
  BY <1>1, <1>2, <1>3, <1>4, <1>5, <1>6, <1>7 DEF AdminStep

LEMMA TypeRequest ==
  ASSUME RenewalsAssumption, TypeOK, NEW a \in Admins, NewRequest(a)
  PROVE  TypeOK'
<1> USE DEF Flows
<1>1. ASSUME NEW s \in SubIds, PressRenew(a, s) \/ CancelRead(a, s)
      PROVE  TypeOK'
  <2>1. RenewalOf(s) \in Job
    BY RenewalOfIsJob
  <2>2. /\ [Idle EXCEPT !.pc = "pressed", !.job = RenewalOf(s)] \in Handler
        /\ [Idle EXCEPT !.pc = "cancel", !.job = RenewalOf(s)] \in Handler
    BY <2>1 DEF Idle, Handler, AdminSteps
  <2>3. flow' \in [Flows -> Handler]
    BY <1>1, <2>2, GotoType DEF PressRenew, CancelRead
  <2>4. requests' \in Nat
    BY <1>1 DEF PressRenew, CancelRead, Request, TypeOK
  <2>5. QED
    BY <1>1, <2>3, <2>4 DEF PressRenew, CancelRead, TypeOK
<1>2. ASSUME NEW s \in SubIds, NEW plan \in Plans, PlanRead(a, s, plan)
      PROVE  TypeOK'
  <2> DEFINE job == [sub |-> s, period |-> subs[s].renewsAt, plan |-> plan,
                     target |-> clock + Cycle[plan]]
             next == [Idle EXCEPT !.pc = "planInvoice", !.now = clock,
                                  !.job = job]
  <2>1. clock \in Nat /\ Cycle[plan] \in Nat /\ subs[s].renewsAt \in Nat
    BY DEF TypeOK, RenewalsAssumption, Subscription
  <2>2. job \in Job
    BY <2>1 DEF Job
  <2>3. next \in Handler
    <3> HIDE DEF job
    <3> QED BY <2>1, <2>2 DEF Idle, Handler, AdminSteps
  <2>4. flow' \in [Flows -> Handler]
    BY <1>2, <2>3, GotoType DEF PlanRead
  <2>5. requests' \in Nat
    BY <1>2 DEF PlanRead, Request, TypeOK
  <2>6. QED
    BY <1>2, <2>4, <2>5 DEF PlanRead, TypeOK
<1>3. ASSUME NEW s \in SubIds, NEW plan \in Plans, SubscribeBegin(a, s, plan)
      PROVE  TypeOK'
  <2> DEFINE job == [sub |-> s, period |-> clock, plan |-> plan,
                     target |-> clock + Cycle[plan]]
             active == {t \in SubIds : Owner[t] = Owner[s]
                                         /\ subs[t].status = "ACTIVE"}
             next == [Idle EXCEPT !.pc = "subscribe", !.now = clock,
                                  !.todo = {Listed(t) : t \in active},
                                  !.job = job]
  <2>1. clock \in Nat /\ Cycle[plan] \in Nat
    BY DEF TypeOK, RenewalsAssumption
  <2>2. job \in Job
    BY <2>1 DEF Job
  <2>3. {Listed(t) : t \in active} \subseteq Item
    BY ListedIsItem
  <2>4. next \in Handler
    <3> HIDE DEF job, active
    <3> QED BY <2>1, <2>2, <2>3 DEF Idle, Handler, AdminSteps
  <2>5. flow' \in [Flows -> Handler]
    BY <1>3, <2>4, GotoType DEF SubscribeBegin
  <2>6. requests' \in Nat
    BY <1>3 DEF SubscribeBegin, Request, TypeOK
  <2>7. QED
    BY <1>3, <2>5, <2>6 DEF SubscribeBegin, TypeOK
<1>4. QED
  BY <1>1, <1>2, <1>3 DEF NewRequest

LEMMA TypeFault ==
  ASSUME TypeOK, NEW f \in Flows, FailItem(f) \/ Crash(f)
  PROVE  TypeOK'
<1>1. flow[f] \in Handler
  BY DEF TypeOK
<1>2. /\ [flow[f] EXCEPT !.pc = "due", !.job = None] \in Handler
      /\ \A e : [flow[f] EXCEPT !.todo = @ \ {e}] \in Handler
  BY <1>1 DEF Handler, SweepSteps
<1>3. flow' \in [Flows -> Handler]
  BY <1>2, IdleType, GotoType DEF FailItem, Crash
<1>4. faults' \in Nat
  BY DEF FailItem, Crash, Fault, TypeOK
<1>5. QED
  BY <1>3, <1>4 DEF FailItem, Crash, TypeOK

LEMMA TypeSettle ==
  ASSUME TypeOK, NEW i \in DOMAIN invoices, PayInvoice(i) \/ VoidInvoice(i)
  PROVE  TypeOK'
<1>1. invoices \in Seq(Invoice) /\ invoices[i] \in Invoice
  BY DEF TypeOK
<1>2. PICK status \in {"PAID", "VOID"} :
        invoices' = [invoices EXCEPT ![i].status = status]
  BY DEF PayInvoice, VoidInvoice, Settle
<1>3. [invoices[i] EXCEPT !.status = status] \in Invoice
  BY <1>1 DEF Invoice
<1>4. invoices' \in Seq(Invoice)
  BY <1>1, <1>2, <1>3
<1>5. requests' \in Nat
  BY DEF PayInvoice, VoidInvoice, Settle, TypeOK
<1>6. QED
  BY <1>4, <1>5 DEF PayInvoice, VoidInvoice, Settle, TypeOK

-----------------------------------------------------------------------------
\* The invoices table only grows: a document keeps its key and its author,
\* whatever becomes of its status.
Extends(table, larger) ==
  \A i \in DOMAIN table :
    /\ i \in DOMAIN larger
    /\ larger[i].sub = table[i].sub
    /\ larger[i].period = table[i].period
    /\ larger[i].by = table[i].by

LEMMA TableExtends ==
  ASSUME TypeOK, [Next]_vars
  PROVE  Extends(invoices, invoices') /\ clock' >= clock
<1>1. invoices \in Seq(Invoice) /\ clock \in Nat
  BY DEF TypeOK
<1>2. \A x : Extends(invoices, Append(invoices, x))
  BY <1>1 DEF Extends
<1>3. Extends(invoices, invoices)
  BY DEF Extends
<1>4. ASSUME NEW f \in Flows, Issue(f)
      PROVE  Extends(invoices, invoices') /\ clock' >= clock
  <2>1. UNCHANGED invoices \/ \E x : invoices' = Append(invoices, x)
    BY <1>4 DEF Issue
  <2>2. clock' = clock
    BY <1>4 DEF Issue
  <2>3. CASE UNCHANGED invoices
    BY <1>1, <1>3, <2>2, <2>3
  <2>4. CASE \E x : invoices' = Append(invoices, x)
    <3>1. PICK x : invoices' = Append(invoices, x)
      BY <2>4
    <3>2. Extends(invoices, Append(invoices, x))
      BY <1>2
    <3>3. QED
      BY <1>1, <2>2, <3>1, <3>2
  <2>5. QED
    BY <2>1, <2>3, <2>4
<1>5. ASSUME NEW a \in Admins, PlanInvoice(a)
      PROVE  Extends(invoices, invoices') /\ clock' >= clock
  BY <1>1, <1>2, <1>5 DEF PlanInvoice
<1>6. ASSUME NEW i \in DOMAIN invoices, PayInvoice(i) \/ VoidInvoice(i)
      PROVE  Extends(invoices, invoices') /\ clock' >= clock
  <2>1. \A v : Extends(invoices, [invoices EXCEPT ![i].status = v])
    <3> SUFFICES ASSUME NEW v, NEW j \in DOMAIN invoices
                 PROVE  LET t == [invoices EXCEPT ![i].status = v]
                        IN  /\ j \in DOMAIN t
                            /\ t[j].sub = invoices[j].sub
                            /\ t[j].period = invoices[j].period
                            /\ t[j].by = invoices[j].by
      BY DEF Extends
    <3>1. invoices[j] \in Invoice
      BY <1>1
    <3>2. QED
      BY <3>1 DEF Invoice
  <2>2. QED
    BY <1>1, <1>6, <2>1 DEF PayInvoice, VoidInvoice, Settle
<1>7. CASE Tick
  BY <1>1, <1>3, <1>7 DEF Tick
<1>8. CASE UNCHANGED vars
  BY <1>1, <1>3, <1>8 DEF vars
<1>9. CASE UNCHANGED <<invoices, clock>>
  BY <1>1, <1>3, <1>9
<1>10. QED
  <2>1. ASSUME NEW f \in Sweepers, SweepStep(f)
        PROVE  UNCHANGED <<invoices, clock>> \/ Issue(f)
    BY <2>1 DEF SweepStep, StartSweep, ExpireOne, ListDue, RenewListed,
       Advance, ListOverdue, ListLive, ReassessOne, FinishSweep
  <2>2. ASSUME NEW a \in Admins, AdminStep(a)
        PROVE  UNCHANGED <<invoices, clock>> \/ Issue(a) \/ PlanInvoice(a)
    BY <2>2 DEF AdminStep, RenewPressed, Advance, CancelWrite, PlanWrite,
       SubscribeCommit
  <2>3. ASSUME NEW a \in Admins, NewRequest(a)
        PROVE  UNCHANGED <<invoices, clock>>
    BY <2>3 DEF NewRequest, PressRenew, CancelRead, PlanRead, SubscribeBegin
  <2>4. ASSUME NEW f \in Flows, FailItem(f) \/ Crash(f)
        PROVE  UNCHANGED <<invoices, clock>>
    BY <2>4 DEF FailItem, Crash
  <2>5. QED
    BY <1>4, <1>5, <1>6, <1>7, <1>8, <1>9, <2>1, <2>2, <2>3, <2>4
       DEF Next, Flows

LEMMA ExtendsKeepsKeys ==
  ASSUME NEW table, NEW larger, Extends(table, larger), NEW s, NEW period,
         HasKey(table, s, period)
  PROVE  HasKey(larger, s, period)
  BY DEF Extends, HasKey

\* What a handler holds stays sound while it waits: time only passes, and the
\* table only grows.
LEMMA SoundStays ==
  ASSUME NEW f \in Flows, NEW h \in Handler,
         NEW time \in Nat, NEW later \in Nat, later >= time,
         NEW table, NEW larger, Extends(table, larger),
         Sound(f, h, time, table)
  PROVE  Sound(f, h, later, larger)
<1>1. f \in Sweepers => h.now <= later
  BY DEF Sound, Handler
<1>2. h.pc = "advance" => HasKey(larger, h.job.sub, h.job.period)
  BY ExtendsKeepsKeys DEF Sound
<1>3. QED
  BY <1>1, <1>2 DEF Sound

\* So a step has only the handler it moves to answer for.
LEMMA SoundGoto ==
  ASSUME TypeOK, TypeOK', HandlersSound, [Next]_vars,
         NEW f \in Flows, NEW h, Goto(f, h), Sound(f, h, clock', invoices')
  PROVE  HandlersSound'
<1> SUFFICES ASSUME NEW g \in Flows
             PROVE  Sound(g, flow'[g], clock', invoices')
  BY DEF HandlersSound
<1>1. CASE g = f
  BY <1>1 DEF Goto, TypeOK
<1>2. CASE g # f
  <2>1. flow'[g] = flow[g] /\ flow[g] \in Handler
    BY <1>2 DEF Goto, TypeOK
  <2>2. clock \in Nat /\ clock' \in Nat /\ clock' >= clock
    BY TableExtends DEF TypeOK
  <2>3. Sound(g, flow[g], clock', invoices')
    BY <2>1, <2>2, SoundStays, TableExtends DEF HandlersSound
  <2>4. QED
    BY <2>1, <2>3
<1>3. QED
  BY <1>1, <1>2

LEMMA SoundIdle ==
  ASSUME NEW f \in Flows, NEW time \in Nat, NEW table
  PROVE  Sound(f, Idle, time, table)
  BY DEF Sound, Idle, SweepSteps, AdminSteps, JobSteps

LEMMA SoundIssue ==
  ASSUME TypeOK, TypeOK', HandlersSound, [Next]_vars, NEW f \in Flows, Issue(f)
  PROVE  HandlersSound'
<1> DEFINE h == [flow[f] EXCEPT !.pc = "advance"]
<1>1. /\ flow[f] \in Handler /\ flow[f].pc = "issue"
      /\ Sound(f, flow[f], clock, invoices)
  BY DEF TypeOK, HandlersSound, Issue
<1>2. HasKey(invoices', flow[f].job.sub, flow[f].job.period)
  <2> DEFINE invoice == [sub |-> flow[f].job.sub, period |-> flow[f].job.period,
                     dueAt |-> flow[f].job.period, status |-> "ISSUED",
                     by |-> IF f \in Sweepers THEN "sweep" ELSE "admin"]
  <2>1. CASE Invoiced(flow[f].job.sub, flow[f].job.period)
    BY <2>1 DEF Issue, Invoiced
  <2>2. CASE ~Invoiced(flow[f].job.sub, flow[f].job.period)
    <3>1. invoices \in Seq(Invoice) /\ invoices' = Append(invoices, invoice)
      BY <2>2 DEF Issue, TypeOK
    <3>2. /\ Len(invoices) + 1 \in DOMAIN invoices'
          /\ invoices'[Len(invoices) + 1] = invoice
      <4> HIDE DEF invoice
      <4> QED BY <3>1
    <3>3. /\ invoice.sub = flow[f].job.sub
          /\ invoice.period = flow[f].job.period
      OBVIOUS
    <3>4. QED
      BY <3>2, <3>3 DEF HasKey
  <2>3. QED
    BY <2>1, <2>2
<1>3. /\ h.pc = "advance" /\ h.job = flow[f].job /\ h.now = flow[f].now
      /\ h.todo = flow[f].todo
  BY <1>1 DEF Handler
<1>4. Sound(f, h, clock', invoices')
  <2>1. clock' = clock
    BY DEF Issue
  <2> HIDE DEF h
  <2>2. QED
    BY <1>1, <1>2, <1>3, <2>1 DEF Sound, SweepSteps, AdminSteps, JobSteps
<1>5. QED
  BY <1>4, SoundGoto DEF Issue

LEMMA SoundAdvance ==
  ASSUME TypeOK, TypeOK', HandlersSound, [Next]_vars, NEW f \in Flows, Advance(f)
  PROVE  HandlersSound'
<1>1. /\ flow[f] \in Handler /\ flow[f].pc = "advance"
      /\ Sound(f, flow[f], clock, invoices)
      /\ clock' = clock /\ clock \in Nat
  BY DEF TypeOK, HandlersSound, Advance
<1>2. Sound(f, AfterRenewal(f), clock', invoices')
  <2>1. CASE f \in Sweepers
    BY <1>1, <2>1 DEF AfterRenewal, Sound, Handler, SweepSteps, JobSteps
  <2>2. CASE f \notin Sweepers
    BY <1>1, <2>2, SoundIdle DEF AfterRenewal
  <2>3. QED
    BY <2>1, <2>2
<1>3. QED
  BY <1>2, SoundGoto DEF Advance

LEMMA SoundSweep ==
  ASSUME RenewalsAssumption, TypeOK, TypeOK', HandlersSound,
         NEW f \in Sweepers, SweepStep(f)
  PROVE  HandlersSound'
<1> USE DEF Flows
<1>a. /\ flow[f] \in Handler
      /\ Sound(f, flow[f], clock, invoices)
      /\ clock \in Nat
      /\ [Next]_vars
  BY DEF TypeOK, HandlersSound, Next
<1>b. clock' = clock
  BY DEF SweepStep, StartSweep, ExpireOne, ListDue, RenewListed, Issue,
     Advance, ListOverdue, ListLive, ReassessOne, FinishSweep
<1>1. CASE StartSweep(f)
  <2>1. PICK D \in Take(RunOut(clock)) :
          Goto(f, [Idle EXCEPT !.pc = "expire", !.now = clock,
                               !.todo = {Listed(s) : s \in D}])
    BY <1>1 DEF StartSweep
  <2> DEFINE h == [Idle EXCEPT !.pc = "expire", !.now = clock,
                               !.todo = {Listed(s) : s \in D}]
  <2>2. Sound(f, h, clock', invoices')
    BY <1>a, <1>b DEF Sound, Idle, SweepSteps, JobSteps
  <2>3. QED
    BY <1>a, <2>1, <2>2, SoundGoto
<1>2. CASE ExpireOne(f)
  <2>1. PICK e \in flow[f].todo : Goto(f, [flow[f] EXCEPT !.todo = @ \ {e}])
    BY <1>2 DEF ExpireOne
  <2>2. Sound(f, [flow[f] EXCEPT !.todo = @ \ {e}], clock', invoices')
    BY <1>a, <1>b, <1>2 DEF Sound, Handler, ExpireOne, JobSteps
  <2>3. QED
    BY <1>a, <2>1, <2>2, SoundGoto
<1>3. CASE ListDue(f)
  <2>1. PICK D \in Take(Due(flow[f].now)) :
          Goto(f, [flow[f] EXCEPT !.pc = "due",
                                  !.todo = {Listed(s) : s \in D}])
    BY <1>3 DEF ListDue
  <2> DEFINE h == [flow[f] EXCEPT !.pc = "due",
                                  !.todo = {Listed(s) : s \in D}]
  <2>2. \A s \in D : Listed(s).renewsAt <= flow[f].now
    BY <2>1, ListedIsItem DEF Take, Due
  <2>3. h.pc = "due" /\ h.now = flow[f].now /\ h.todo = {Listed(s) : s \in D}
    BY <1>a DEF Handler
  <2>4. Sound(f, h, clock', invoices')
    <3> HIDE DEF h
    <3> QED BY <1>a, <1>b, <2>2, <2>3 DEF Sound, SweepSteps, JobSteps
  <2>5. QED
    BY <1>a, <2>1, <2>4, SoundGoto
<1>4. CASE RenewListed(f)
  <2>1. PICK e \in flow[f].todo :
          \/ /\ subs[e.sub].renewsAt = e.renewsAt
             /\ Goto(f, [flow[f] EXCEPT !.pc = "issue", !.todo = @ \ {e},
                                        !.job = RenewalOf(e.sub)])
          \/ Goto(f, [flow[f] EXCEPT !.todo = @ \ {e}])
    BY <1>4 DEF RenewListed, Pinned
  <2>2. e \in Item /\ e.renewsAt <= flow[f].now
    BY <1>a, <1>4 DEF Handler, RenewListed, Sound
  <2>3. CASE Goto(f, [flow[f] EXCEPT !.todo = @ \ {e}])
    <3>1. Sound(f, [flow[f] EXCEPT !.todo = @ \ {e}], clock', invoices')
      BY <1>a, <1>b, <1>4 DEF Sound, Handler, RenewListed, JobSteps
    <3>2. QED
      BY <1>a, <2>3, <3>1, SoundGoto
  <2>4. CASE /\ subs[e.sub].renewsAt = e.renewsAt
             /\ Goto(f, [flow[f] EXCEPT !.pc = "issue", !.todo = @ \ {e},
                                        !.job = RenewalOf(e.sub)])
    <3> DEFINE job == RenewalOf(e.sub)
               h == [flow[f] EXCEPT !.pc = "issue", !.todo = @ \ {e},
                                    !.job = job]
    <3>1. job \in Job /\ job.period < job.target /\ job.period <= flow[f].now
      BY <2>2, <2>4, RenewalOfIsJob DEF Item
    <3>2. /\ h.pc = "issue" /\ h.job = job /\ h.now = flow[f].now
          /\ h.todo = flow[f].todo \ {e}
      BY <1>a DEF Handler
    <3>3. \A d \in flow[f].todo : d.renewsAt <= flow[f].now
      BY <1>a, <1>4 DEF RenewListed, Sound
    <3>4. Sound(f, h, clock', invoices')
      <4> HIDE DEF h, job
      <4> QED BY <1>a, <1>b, <3>1, <3>2, <3>3 DEF Sound, SweepSteps
    <3>5. QED
      BY <1>a, <2>4, <3>4, SoundGoto
  <2>5. QED
    BY <2>1, <2>3, <2>4
<1>5. CASE Issue(f)
  BY <1>a, <1>5, SoundIssue
<1>6. CASE Advance(f)
  BY <1>a, <1>6, SoundAdvance
<1>7. CASE ListOverdue(f)
  <2> DEFINE h == [flow[f] EXCEPT !.pc = "overdue",
                                  !.owing = InArrears(flow[f].now)]
  <2>1. h.pc = "overdue" /\ h.now = flow[f].now
    BY <1>a DEF Handler
  <2>2. Sound(f, h, clock', invoices')
    <3> HIDE DEF h
    <3> QED BY <1>a, <1>b, <2>1 DEF Sound, SweepSteps, JobSteps
  <2>3. QED
    BY <1>a, <1>7, <2>2, SoundGoto DEF ListOverdue
<1>8. CASE ListLive(f)
  <2>1. PICK D \in Take({s \in SubIds : subs[s].status \in Live}) :
          Goto(f, [flow[f] EXCEPT !.pc = "arrears",
                                  !.todo = {Listed(s) : s \in D}])
    BY <1>8 DEF ListLive
  <2> DEFINE h == [flow[f] EXCEPT !.pc = "arrears",
                                  !.todo = {Listed(s) : s \in D}]
  <2>2. h.pc = "arrears" /\ h.now = flow[f].now
    BY <1>a DEF Handler
  <2>3. Sound(f, h, clock', invoices')
    <3> HIDE DEF h
    <3> QED BY <1>a, <1>b, <2>2 DEF Sound, SweepSteps, JobSteps
  <2>4. QED
    BY <1>a, <2>1, <2>3, SoundGoto
<1>9. CASE ReassessOne(f)
  <2>1. PICK e \in flow[f].todo : Goto(f, [flow[f] EXCEPT !.todo = @ \ {e}])
    BY <1>9 DEF ReassessOne, Standing
  <2>2. Sound(f, [flow[f] EXCEPT !.todo = @ \ {e}], clock', invoices')
    BY <1>a, <1>b, <1>9 DEF Sound, Handler, ReassessOne, JobSteps
  <2>3. QED
    BY <1>a, <2>1, <2>2, SoundGoto
<1>10. CASE FinishSweep(f)
  BY <1>a, <1>b, <1>10, SoundIdle, SoundGoto DEF FinishSweep
<1>11. QED
  BY <1>1, <1>2, <1>3, <1>4, <1>5, <1>6, <1>7, <1>8, <1>9, <1>10 DEF SweepStep

LEMMA SoundAdmin ==
  ASSUME RenewalsAssumption, TypeOK, TypeOK', HandlersSound,
         NEW a \in Admins, AdminStep(a) \/ NewRequest(a)
  PROVE  HandlersSound'
<1> USE DEF Flows
<1>a. /\ flow[a] \in Handler
      /\ Sound(a, flow[a], clock, invoices)
      /\ clock \in Nat
      /\ [Next]_vars
      /\ a \notin Sweepers
  BY DEF TypeOK, HandlersSound, Next, RenewalsAssumption
<1>b. clock' = clock
  BY DEF AdminStep, NewRequest, RenewPressed, Issue, Advance, CancelWrite,
     PlanInvoice, PlanWrite, SubscribeCommit, PressRenew, CancelRead,
     PlanRead, SubscribeBegin
<1>1. CASE RenewPressed(a)
  <2> DEFINE job == RenewalOf(flow[a].job.sub)
             h == [flow[a] EXCEPT !.pc = "issue", !.job = job]
  <2>1. job \in Job /\ job.period < job.target
    BY <1>a, <1>1, RenewalOfIsJob DEF RenewPressed, Sound, JobSteps, Job
  <2>2. h.pc = "issue" /\ h.job = job
    BY <1>a DEF Handler
  <2>3. Sound(a, h, clock', invoices')
    <3> HIDE DEF h, job
    <3> QED BY <1>a, <2>1, <2>2 DEF Sound, AdminSteps
  <2>4. Goto(a, h) \/ Goto(a, Idle)
    BY <1>1 DEF RenewPressed
  <2>5. Sound(a, Idle, clock', invoices')
    BY <1>a, <1>b, SoundIdle
  <2>6. QED
    <3> HIDE DEF h
    <3> QED BY <1>a, <2>3, <2>4, <2>5, SoundGoto
<1>2. CASE Issue(a)
  BY <1>a, <1>2, SoundIssue
<1>3. CASE Advance(a)
  BY <1>a, <1>3, SoundAdvance
<1>4. CASE PlanInvoice(a)
  <2>1. Sound(a, [flow[a] EXCEPT !.pc = "planWrite"], clock', invoices')
    BY <1>a, <1>b, <1>4 DEF PlanInvoice, Sound, Handler, AdminSteps, JobSteps
  <2>2. QED
    BY <1>a, <1>4, <2>1, SoundGoto DEF PlanInvoice
<1>5. CASE CancelWrite(a) \/ PlanWrite(a) \/ SubscribeCommit(a)
  <2>1. Goto(a, Idle) /\ Sound(a, Idle, clock', invoices')
    BY <1>a, <1>b, <1>5, SoundIdle DEF CancelWrite, PlanWrite, SubscribeCommit
  <2>2. QED
    BY <1>a, <2>1, SoundGoto
<1>6. CASE NewRequest(a)
  <2> DEFINE Begins(h) == /\ Goto(a, h)
                          /\ h.pc \in {"pressed", "cancel", "planInvoice",
                                       "subscribe"}
                          /\ h.job \in Job
  <2>1. ASSUME NEW s \in SubIds, PressRenew(a, s) \/ CancelRead(a, s)
        PROVE  \E h : Begins(h)
    <3>1. RenewalOf(s) \in Job
      BY RenewalOfIsJob
    <3>2. CASE Goto(a, [Idle EXCEPT !.pc = "pressed", !.job = RenewalOf(s)])
      <4>1. Begins([Idle EXCEPT !.pc = "pressed", !.job = RenewalOf(s)])
        BY <3>1, <3>2 DEF Idle
      <4>2. QED
        BY <4>1
    <3>3. CASE Goto(a, [Idle EXCEPT !.pc = "cancel", !.job = RenewalOf(s)])
      <4>1. Begins([Idle EXCEPT !.pc = "cancel", !.job = RenewalOf(s)])
        BY <3>1, <3>3 DEF Idle
      <4>2. QED
        BY <4>1
    <3>4. QED
      BY <2>1, <3>2, <3>3 DEF PressRenew, CancelRead
  <2>2. ASSUME NEW s \in SubIds, NEW plan \in Plans,
               PlanRead(a, s, plan) \/ SubscribeBegin(a, s, plan)
        PROVE  \E h : Begins(h)
    <3> DEFINE read == [sub |-> s, period |-> subs[s].renewsAt, plan |-> plan,
                        target |-> clock + Cycle[plan]]
               sold == [sub |-> s, period |-> clock, plan |-> plan,
                        target |-> clock + Cycle[plan]]
               listed == {Listed(t) : t \in {t \in SubIds :
                            Owner[t] = Owner[s] /\ subs[t].status = "ACTIVE"}}
               hRead == [Idle EXCEPT !.pc = "planInvoice", !.now = clock,
                                     !.job = read]
               hSold == [Idle EXCEPT !.pc = "subscribe", !.now = clock,
                                     !.todo = listed, !.job = sold]
    <3>1. read \in Job /\ sold \in Job
      <4>1. subs[s].renewsAt \in Nat /\ clock + Cycle[plan] \in Nat
        BY <1>a DEF TypeOK, Subscription, RenewalsAssumption
      <4>2. QED
        BY <1>a, <4>1 DEF Job
    <3>2. /\ hRead.pc = "planInvoice" /\ hRead.job = read
          /\ hSold.pc = "subscribe" /\ hSold.job = sold
      BY DEF Idle
    <3>3. Goto(a, hRead) \/ Goto(a, hSold)
      BY <2>2 DEF PlanRead, SubscribeBegin
    <3>4. Begins(hRead) \/ Begins(hSold)
      <4> HIDE DEF hRead, hSold, read, sold
      <4> QED BY <3>1, <3>2, <3>3
    <3>5. QED
      BY <3>4
  <2>3. PICK h : Begins(h)
    BY <1>6, <2>1, <2>2 DEF NewRequest
  <2>4. Sound(a, h, clock', invoices')
    BY <1>a, <2>3 DEF Sound, AdminSteps
  <2>5. QED
    BY <1>a, <2>3, <2>4, SoundGoto
<1>7. QED
  BY <1>1, <1>2, <1>3, <1>4, <1>5, <1>6 DEF AdminStep

LEMMA SoundFault ==
  ASSUME TypeOK, TypeOK', HandlersSound, [Next]_vars,
         NEW f \in Flows, Crash(f) \/ (f \in Sweepers /\ FailItem(f))
  PROVE  HandlersSound'
<1>a. /\ flow[f] \in Handler /\ Sound(f, flow[f], clock, invoices)
      /\ clock \in Nat /\ clock' = clock
  BY DEF TypeOK, HandlersSound, Crash, FailItem
<1>1. CASE Crash(f)
  BY <1>a, <1>1, SoundIdle, SoundGoto DEF Crash
<1>2. CASE f \in Sweepers /\ FailItem(f)
  <2> DEFINE dropped == [flow[f] EXCEPT !.pc = "due", !.job = None]
             without(e) == [flow[f] EXCEPT !.todo = @ \ {e}]
  <2>1. ASSUME flow[f].pc \in {"issue", "advance"}
        PROVE  Sound(f, dropped, clock', invoices')
    <3>1. /\ dropped.pc = "due" /\ dropped.now = flow[f].now
          /\ dropped.todo = flow[f].todo
      BY <1>a DEF Handler
    <3>2. QED
      <4> HIDE DEF dropped
      <4> QED BY <1>a, <1>2, <2>1, <3>1 DEF Sound, SweepSteps, JobSteps
  <2>2. ASSUME flow[f].pc = "due", NEW e
        PROVE  Sound(f, without(e), clock', invoices')
    BY <1>a, <1>2, <2>2 DEF Sound, Handler, SweepSteps, JobSteps
  <2>3. \/ flow[f].pc \in {"issue", "advance"} /\ Goto(f, dropped)
        \/ flow[f].pc = "due" /\ \E e : Goto(f, without(e))
    BY <1>2 DEF FailItem
  <2>4. QED
    <3> HIDE DEF dropped, without
    <3> QED BY <2>1, <2>2, <2>3, SoundGoto
<1>3. QED
  BY <1>1, <1>2

\* A step that moves no handler leaves every handler sound.
LEMMA SoundWaits ==
  ASSUME TypeOK, TypeOK', HandlersSound, [Next]_vars, UNCHANGED flow
  PROVE  HandlersSound'
<1> SUFFICES ASSUME NEW g \in Flows
             PROVE  Sound(g, flow'[g], clock', invoices')
  BY DEF HandlersSound
<1>1. flow'[g] = flow[g] /\ flow[g] \in Handler
  BY DEF TypeOK
<1>2. clock \in Nat /\ clock' \in Nat /\ clock' >= clock
  BY TableExtends DEF TypeOK
<1>3. QED
  BY <1>1, <1>2, SoundStays, TableExtends DEF HandlersSound

LEMMA TypeStep ==
  ASSUME RenewalsAssumption, TypeOK, HandlersSound, [Next]_vars
  PROVE  TypeOK'
<1>1. CASE Tick
  BY <1>1 DEF Tick, TypeOK
<1>2. CASE UNCHANGED vars
  BY <1>2 DEF vars, TypeOK
<1>3. QED
  BY <1>1, <1>2, TypeSweep, TypeAdmin, TypeRequest, TypeFault, TypeSettle
     DEF Next, Flows

LEMMA SoundStep ==
  ASSUME RenewalsAssumption, TypeOK, TypeOK', HandlersSound, [Next]_vars
  PROVE  HandlersSound'
<1>1. CASE Tick \/ UNCHANGED vars
  BY <1>1, SoundWaits DEF Tick, vars
<1>2. ASSUME NEW i \in DOMAIN invoices, PayInvoice(i) \/ VoidInvoice(i)
      PROVE  HandlersSound'
  BY <1>2, SoundWaits DEF PayInvoice, VoidInvoice, Settle
<1>3. ASSUME NEW f \in Sweepers, FailItem(f)
      PROVE  HandlersSound'
  BY <1>3, SoundFault DEF Flows
<1>4. ASSUME NEW f \in Flows, Crash(f)
      PROVE  HandlersSound'
  BY <1>4, SoundFault
<1>5. QED
  BY <1>1, <1>2, <1>3, <1>4, SoundSweep, SoundAdmin DEF Next

-----------------------------------------------------------------------------
(* The invoices table.                                                     *)

\* What a document must satisfy to be filed: it is no renewal, or it is the
\* first for its period, and a sweep's is for a period that has begun.
Filable(x) ==
  \/ x.period = None /\ x.by = "admin"
  \/ /\ x.period \in Nat
     /\ ~HasKey(invoices, x.sub, x.period)
     /\ x.by = "sweep" => x.period <= clock

\* A step files one document or none.
LEMMA OneDocumentAStep ==
  ASSUME RenewalsAssumption, RenewalInv, [Next]_vars
  PROVE  \/ DOMAIN invoices' = DOMAIN invoices
         \/ \E x : invoices' = Append(invoices, x) /\ Filable(x)
<1> USE DEF Flows
<1>1. ASSUME NEW f \in Flows, Issue(f)
      PROVE  \/ DOMAIN invoices' = DOMAIN invoices
             \/ \E x : invoices' = Append(invoices, x) /\ Filable(x)
  <2> DEFINE job == flow[f].job
             x == [sub |-> job.sub, period |-> job.period,
                   dueAt |-> job.period, status |-> "ISSUED",
                   by |-> IF f \in Sweepers THEN "sweep" ELSE "admin"]
  <2>1. CASE Invoiced(job.sub, job.period)
    BY <1>1, <2>1 DEF Issue
  <2>2. CASE ~Invoiced(job.sub, job.period)
    <3>1. invoices' = Append(invoices, x)
      BY <1>1, <2>2 DEF Issue
    <3>2. /\ Sound(f, flow[f], clock, invoices) /\ flow[f].pc = "issue"
          /\ flow[f] \in Handler /\ clock \in Nat
      BY <1>1 DEF RenewalInv, HandlersSound, Issue, TypeOK
    <3>3. job \in Job /\ (f \in Sweepers => job.period <= clock)
      BY <3>2 DEF Sound, JobSteps, Handler, Job
    <3>4. Filable(x)
      BY <2>2, <3>3 DEF Filable, Invoiced, Job
    <3>5. QED
      <4> HIDE DEF x
      <4> QED BY <3>1, <3>4
  <2>3. QED
    BY <2>1, <2>2
<1>2. ASSUME NEW a \in Admins, PlanInvoice(a)
      PROVE  \E x : invoices' = Append(invoices, x) /\ Filable(x)
  <2> DEFINE x == [sub |-> flow[a].job.sub, period |-> None, dueAt |-> None,
                   status |-> "ISSUED", by |-> "admin"]
  <2>1. invoices' = Append(invoices, x) /\ Filable(x)
    BY <1>2 DEF PlanInvoice, Filable
  <2>2. QED
    BY <2>1
<1>3. ASSUME NEW i \in DOMAIN invoices, PayInvoice(i) \/ VoidInvoice(i)
      PROVE  DOMAIN invoices' = DOMAIN invoices
  BY <1>3 DEF PayInvoice, VoidInvoice, Settle, RenewalInv, TypeOK
<1>4. ASSUME NEW f \in Sweepers, SweepStep(f)
      PROVE  UNCHANGED invoices \/ Issue(f)
  BY <1>4 DEF SweepStep, StartSweep, ExpireOne, ListDue, RenewListed,
     Advance, ListOverdue, ListLive, ReassessOne, FinishSweep
<1>5. ASSUME NEW a \in Admins, AdminStep(a)
      PROVE  UNCHANGED invoices \/ Issue(a) \/ PlanInvoice(a)
  BY <1>5 DEF AdminStep, RenewPressed, Advance, CancelWrite, PlanWrite,
     SubscribeCommit
<1>6. ASSUME NEW a \in Admins, NewRequest(a)
      PROVE  UNCHANGED invoices
  BY <1>6 DEF NewRequest, PressRenew, CancelRead, PlanRead, SubscribeBegin
<1>7. ASSUME NEW f \in Flows, FailItem(f) \/ Crash(f)
      PROVE  UNCHANGED invoices
  BY <1>7 DEF FailItem, Crash
<1>8. ASSUME Tick \/ UNCHANGED vars
      PROVE  UNCHANGED invoices
  BY <1>8 DEF Tick, vars
<1>9. QED
  BY <1>1, <1>2, <1>3, <1>4, <1>5, <1>6, <1>7, <1>8 DEF Next

\* Filing such a document, or none, keeps every invariant of the table.
LEMMA LedgerStep ==
  ASSUME RenewalsAssumption, RenewalInv, [Next]_vars
  PROVE  SweepInvoicesAPeriod' /\ OneInvoicePerPeriod' /\ SweepNeverBillsAhead'
<1>0. /\ invoices \in Seq(Invoice) /\ clock \in Nat
      /\ Extends(invoices, invoices') /\ clock' >= clock /\ clock' \in Nat
      /\ None \notin Int
      /\ SweepInvoicesAPeriod /\ OneInvoicePerPeriod /\ SweepNeverBillsAhead
  BY TableExtends, TypeStep DEF RenewalInv, TypeOK, RenewalsAssumption
<1>a. \A i \in DOMAIN invoices :
        /\ invoices[i].period \in Nat \cup {None}
        /\ invoices'[i].sub = invoices[i].sub
        /\ invoices'[i].period = invoices[i].period
        /\ invoices'[i].by = invoices[i].by
  <2>1. \A i \in DOMAIN invoices : invoices[i] \in Invoice
    BY <1>0
  <2>2. QED
    BY <1>0, <2>1 DEF Extends, Invoice
<1>b. \A i \in DOMAIN invoices :
        invoices[i].by = "sweep" => /\ invoices[i].period # None
                                    /\ invoices[i].period <= clock'
  BY <1>0, <1>a DEF SweepInvoicesAPeriod, SweepNeverBillsAhead
<1>c. \A i, j \in DOMAIN invoices :
        /\ invoices[i].sub = invoices[j].sub
        /\ invoices[i].period = invoices[j].period
        /\ invoices[i].period # None
        => i = j
  BY <1>0 DEF OneInvoicePerPeriod
<1>1. CASE DOMAIN invoices' = DOMAIN invoices
  BY <1>a, <1>b, <1>c, <1>1
     DEF SweepInvoicesAPeriod, OneInvoicePerPeriod, SweepNeverBillsAhead
<1>2. CASE \E x : invoices' = Append(invoices, x) /\ Filable(x)
  <2>1. PICK x : invoices' = Append(invoices, x) /\ Filable(x)
    BY <1>2
  <2> DEFINE n == Len(invoices) + 1
  <2>2. /\ DOMAIN invoices' = DOMAIN invoices \cup {n}
        /\ n \notin DOMAIN invoices
        /\ invoices'[n] = x
    BY <1>0, <2>1
  <2> HIDE DEF n
  <2>3. x.by = "sweep" => x.period # None /\ x.period <= clock'
    BY <1>0, <2>1 DEF Filable
  <2>4. SweepInvoicesAPeriod' /\ SweepNeverBillsAhead'
    BY <1>a, <1>b, <2>2, <2>3 DEF SweepInvoicesAPeriod, SweepNeverBillsAhead
  <2>5. x.period # None =>
          \A i \in DOMAIN invoices :
            ~(invoices[i].sub = x.sub /\ invoices[i].period = x.period)
    BY <2>1 DEF Filable, HasKey
  <2>6. OneInvoicePerPeriod'
    BY <1>a, <1>c, <2>2, <2>5 DEF OneInvoicePerPeriod
  <2>7. QED
    BY <2>4, <2>6
<1>3. QED
  BY <1>1, <1>2, OneDocumentAStep

-----------------------------------------------------------------------------
(* The theorems.                                                           *)

LEMMA RenewalInvInit == RenewalsAssumption /\ Init => RenewalInv
<1> SUFFICES ASSUME RenewalsAssumption, Init PROVE RenewalInv
  OBVIOUS
<1>1. TypeOK
  BY TypeInit
<1>2. HandlersSound
  BY SoundIdle DEF HandlersSound, Init
<1>3. SweepInvoicesAPeriod /\ OneInvoicePerPeriod /\ SweepNeverBillsAhead
  BY DEF Init, SweepInvoicesAPeriod, OneInvoicePerPeriod, SweepNeverBillsAhead
<1>4. QED
  BY <1>1, <1>2, <1>3 DEF RenewalInv

LEMMA RenewalInvStep ==
  RenewalsAssumption /\ RenewalInv /\ [Next]_vars => RenewalInv'
<1> SUFFICES ASSUME RenewalsAssumption, RenewalInv, [Next]_vars
             PROVE  RenewalInv'
  OBVIOUS
<1>1. TypeOK'
  BY TypeStep DEF RenewalInv
<1>2. HandlersSound'
  BY <1>1, SoundStep DEF RenewalInv
<1>3. QED
  BY <1>1, <1>2, LedgerStep DEF RenewalInv

\* What a handler read before an await still agrees, when it acts on it, with
\* the invoices and the clock: the argument behind every theorem below, for
\* any number of sweeps and requests, with any of them dying at any await.
THEOREM HandlersAgree == Spec => []RenewalInv
<1>1. QED
  BY RenewalInvInit, RenewalInvStep, RenewalsAssumption, PTL DEF Spec

\* Every column of every table, and everything a handler holds, has its type.
THEOREM TypeCorrect == Spec => []TypeOK
<1>1. RenewalInv => TypeOK
  BY DEF RenewalInv
<1>2. QED
  BY <1>1, HandlersAgree, PTL

\* No period of a subscription is invoiced twice, however many timers and
\* administrators renew it at once and wherever they are interrupted.
THEOREM NeverInvoicedTwice == Spec => []OneInvoicePerPeriod
<1>1. RenewalInv => OneInvoicePerPeriod
  BY DEF RenewalInv
<1>2. QED
  BY <1>1, HandlersAgree, PTL

\* A sweep never charges for a period that has not begun, however stale the
\* list it works from: the pin on the listed period is enough.
THEOREM SweepStaysInStep == Spec => []SweepNeverBillsAhead
<1>1. RenewalInv => SweepNeverBillsAhead
  BY DEF RenewalInv
<1>2. QED
  BY <1>1, HandlersAgree, PTL

\* Who writes a renewal date: the compare-and-swap of renew, the plan change,
\* and the creation of a row, nobody else.
LEMMA WhoMovesTheDate ==
  ASSUME RenewalsAssumption, RenewalInv, [Next]_vars, NEW s \in SubIds,
         Exists(s), subs'[s].renewsAt # subs[s].renewsAt, ~ChangesPlan
  PROVE  /\ Invoiced(s, subs[s].renewsAt)
         /\ subs'[s].renewsAt > subs[s].renewsAt
<1> USE DEF Flows
<1>0. subs \in [SubIds -> Subscription]
  BY DEF RenewalInv, TypeOK
<1>1. ASSUME NEW f \in Flows, Advance(f)
      PROVE  /\ Invoiced(s, subs[s].renewsAt)
             /\ subs'[s].renewsAt > subs[s].renewsAt
  <2>1. /\ Sound(f, flow[f], clock, invoices) /\ flow[f].pc = "advance"
        /\ flow[f].job \in Job
    BY <1>1 DEF RenewalInv, HandlersSound, Advance, Sound, JobSteps
  <2>2. /\ flow[f].job.period < flow[f].job.target
        /\ Invoiced(flow[f].job.sub, flow[f].job.period)
    BY <2>1 DEF Sound, Invoiced
  <2>3. /\ flow[f].job.sub = s
        /\ subs[s].renewsAt = flow[f].job.period
        /\ subs'[s].renewsAt = flow[f].job.target
    BY <1>0, <1>1 DEF Advance, Unmoved, Subscription
  <2>4. QED
    BY <2>1, <2>2, <2>3 DEF Job
<1>2. ASSUME NEW t \in SubIds, NEW v,
             subs' = [subs EXCEPT ![t].status = v] \/ UNCHANGED subs
      PROVE  FALSE
  BY <1>0, <1>2 DEF Subscription
<1>3. ASSUME NEW f \in Sweepers, SweepStep(f)
      PROVE  Advance(f)
  <2>1. ASSUME NEW e \in flow[f].todo PROVE e.sub \in SubIds
    BY <1>3, <2>1 DEF RenewalInv, TypeOK, Handler, Item
  <2>2. ~ExpireOne(f)
    BY <1>2, <2>1 DEF ExpireOne
  <2>3. ~ReassessOne(f)
    BY <1>2, <2>1 DEF ReassessOne
  <2>4. QED
    BY <1>3, <2>2, <2>3 DEF SweepStep, StartSweep, ListDue, RenewListed,
       Issue, ListOverdue, ListLive, FinishSweep
<1>4. ASSUME NEW a \in Admins, AdminStep(a)
      PROVE  Advance(a)
  <2>1. ~CancelWrite(a)
    BY <1>0 DEF CancelWrite, Subscription
  <2>2. ~PlanWrite(a)
    <3>1. PlanWrite(a) => flow'[a] # flow[a] /\ flow[a].pc = "planWrite"
      BY DEF PlanWrite, Goto, RenewalInv, TypeOK, Idle
    <3>2. QED
      BY <3>1 DEF ChangesPlan
  <2>3. ~SubscribeCommit(a)
    <3> SUFFICES ASSUME SubscribeCommit(a) PROVE FALSE
      OBVIOUS
    <3>1. s # flow[a].job.sub
      BY DEF SubscribeCommit
    <3>2. \/ subs'[s] = subs[s]
          \/ subs'[s] = [subs[s] EXCEPT !.status = "CANCELLED",
                                        !.cancelledAt = flow[a].now]
      BY <3>1 DEF SubscribeCommit
    <3>3. QED
      BY <1>0, <3>2 DEF Subscription
  <2>4. QED
    BY <1>4, <2>1, <2>2, <2>3 DEF AdminStep, RenewPressed, Issue, PlanInvoice
<1>5. ASSUME NEW a \in Admins, NewRequest(a)
      PROVE  FALSE
  BY <1>5 DEF NewRequest, PressRenew, CancelRead, PlanRead, SubscribeBegin
<1>6. ASSUME NEW f \in Flows, FailItem(f) \/ Crash(f)
      PROVE  FALSE
  BY <1>6 DEF FailItem, Crash
<1>7. ASSUME NEW i, PayInvoice(i) \/ VoidInvoice(i)
      PROVE  FALSE
  BY <1>7 DEF PayInvoice, VoidInvoice, Settle
<1>8. ~Tick /\ ~UNCHANGED vars
  BY DEF Tick, vars
<1>9. QED
  BY <1>1, <1>3, <1>4, <1>5, <1>6, <1>7, <1>8 DEF Next

\* A renewal date only ever moves forward, and past a period that has its
\* invoice: no interleaving of renewals skips a period or undoes another's.
THEOREM NoPeriodSkipped == Spec => RenewsAtFollowsInvoice
<1>1. RenewalsAssumption /\ RenewalInv /\ [Next]_vars =>
        [\A s \in SubIds :
           Exists(s) /\ subs'[s].renewsAt # subs[s].renewsAt /\ ~ChangesPlan
           => /\ Invoiced(s, subs[s].renewsAt)
              /\ subs'[s].renewsAt > subs[s].renewsAt]_vars
  BY WhoMovesTheDate
<1>2. QED
  BY <1>1, HandlersAgree, RenewalsAssumption, PTL
     DEF Spec, RenewsAtFollowsInvoice

-----------------------------------------------------------------------------
(* Whom a sweep bills, which rows it ends, and that without plan changes   *)
(* Renewals implements BillingContract.                                    *)

\* A row a sweep may bill: still to be renewed, or cancelled no earlier than
\* the sweep began.
Billable(row, since) ==
  \/ row.autoRenew
  \/ row.cancelledAt # None /\ row.cancelledAt >= since

\* A row a sweep may end: cancelled, and not to be renewed.
Endable(row) == row.cancelledAt # None /\ ~row.autoRenew

\* What a handler holds, and the rows as they are by now, agree.
Agrees(f, h, rows, time) ==
  /\ h.pc \in {"pressed", "issue", "advance"} => rows[h.job.sub].status # "ABSENT"
  /\ h.pc = "subscribe" => h.now = time
  /\ f \in Sweepers =>
       /\ h.pc = "expire" =>
            \A e \in h.todo : Endable(rows[e.sub]) /\ e.renewsAt <= h.now
       /\ h.pc \in {"due", "issue", "advance"} =>
            \A e \in h.todo : /\ rows[e.sub].status # "ABSENT"
                              /\ Billable(rows[e.sub], h.now)
       /\ h.pc = "issue" => Billable(rows[h.job.sub], h.now)
       /\ h.pc = "expire" => \A e \in h.todo : rows[e.sub].status # "ABSENT"
       /\ h.pc = "arrears" => \A e \in h.todo : e.status \in Live

RowsAgree ==
  /\ RenewalInv
  /\ \A f \in Flows : Agrees(f, flow[f], subs, clock)

---------------------------------------------------------------------------
(* What becomes of a row.                                                  *)

\* A row that exists goes on existing; once cancelled it is not renewed again,
\* unless it was never switched off; and who may be billed still may be.
RowKept(row, next, time) ==
  row.status # "ABSENT" =>
    /\ next.status # "ABSENT"
    /\ Endable(row) => Endable(next)
    /\ \A n \in Nat : n <= time /\ Billable(row, n) => Billable(next, n)

RowsKept == \A s \in SubIds : RowKept(subs[s], subs'[s], clock)

LEMMA SameRows ==
  ASSUME UNCHANGED subs
  PROVE  RowsKept
BY DEF RowsKept, RowKept

\* A status, or a date, written over.
LEMMA StatusRows ==
  ASSUME TypeOK, NEW s \in SubIds, NEW v, v # "ABSENT",
         subs' = [subs EXCEPT ![s].status = v]
  PROVE  RowsKept
<1>1. \A t \in SubIds : /\ subs'[t].autoRenew = subs[t].autoRenew
                        /\ subs'[t].cancelledAt = subs[t].cancelledAt
                        /\ subs'[t].status = subs[t].status \/ subs'[t].status = v
  BY DEF TypeOK, Subscription
<1> QED
  BY <1>1 DEF RowsKept, RowKept, Endable, Billable

LEMMA DateRows ==
  ASSUME TypeOK, NEW s \in SubIds, NEW v,
         subs' = [subs EXCEPT ![s].renewsAt = v]
  PROVE  RowsKept
<1>1. \A t \in SubIds : /\ subs'[t].autoRenew = subs[t].autoRenew
                        /\ subs'[t].cancelledAt = subs[t].cancelledAt
                        /\ subs'[t].status = subs[t].status
  BY DEF TypeOK, Subscription
<1> QED
  BY <1>1 DEF RowsKept, RowKept, Endable, Billable

\* A cancellation is stamped with the time it is written.
LEMMA CancelRows ==
  ASSUME RenewalsAssumption, TypeOK, NEW s \in SubIds,
         subs' = [subs EXCEPT ![s].autoRenew = FALSE, ![s].cancelledAt = clock]
  PROVE  RowsKept
<1>1. ASSUME NEW t \in SubIds, t # s PROVE RowKept(subs[t], subs'[t], clock)
  <2>1. subs'[t] = subs[t]
    BY <1>1 DEF TypeOK
  <2> QED
    BY <2>1 DEF RowKept
<1>2. /\ subs'[s].autoRenew = FALSE /\ subs'[s].cancelledAt = clock
      /\ subs'[s].status = subs[s].status /\ clock \in Nat /\ clock # None
  BY DEF TypeOK, Subscription, RenewalsAssumption
<1>3. RowKept(subs[s], subs'[s], clock)
  BY <1>2 DEF RowKept, Endable, Billable
<1> QED
  BY <1>1, <1>3 DEF RowsKept

LEMMA PlanRows ==
  ASSUME RowsAgree, NEW a \in Admins, PlanWrite(a)
  PROVE  RowsKept
<1> DEFINE job == flow[a].job
<1>1. TypeOK /\ flow[a].pc = "planWrite" /\ a \in Flows
  BY DEF RowsAgree, RenewalInv, PlanWrite, Flows
<1>2. job \in Job
  BY <1>1 DEF RowsAgree, RenewalInv, HandlersSound, Sound, JobSteps
<1>3. subs' = [subs EXCEPT ![job.sub] =
                 [@ EXCEPT !.plan = job.plan, !.startsAt = flow[a].now,
                           !.renewsAt = job.target, !.status = "ACTIVE"]]
  BY DEF PlanWrite
<1>4. \A t \in SubIds : /\ subs'[t].autoRenew = subs[t].autoRenew
                        /\ subs'[t].cancelledAt = subs[t].cancelledAt
                        /\ subs'[t].status = subs[t].status \/ subs'[t].status = "ACTIVE"
  BY <1>1, <1>2, <1>3 DEF TypeOK, Subscription, Job
<1> QED
  BY <1>4 DEF RowsKept, RowKept, Endable, Billable

\* subscribe creates a row that was not there, and cancels at the time it began,
\* which is the time it commits.
LEMMA SubscribeRows ==
  ASSUME RenewalsAssumption, RowsAgree, NEW a \in Admins, SubscribeCommit(a)
  PROVE  RowsKept
<1> DEFINE job == flow[a].job
<1>1. TypeOK /\ flow[a].pc = "subscribe" /\ a \in Flows /\ flow[a].now = clock
  BY DEF RowsAgree, RenewalInv, SubscribeCommit, Flows, Agrees
<1>2. subs[job.sub].status = "ABSENT" /\ clock \in Nat /\ clock # None
  <2>1. clock \in Nat /\ clock # None
    BY <1>1 DEF TypeOK, RenewalsAssumption
  <2>2. subs[job.sub].status = "ABSENT"
    BY DEF SubscribeCommit, Exists
  <2> QED
    BY <2>1, <2>2
<1>3. ASSUME NEW t \in SubIds, subs[t].status # "ABSENT"
      PROVE  \/ subs'[t] = subs[t]
             \/ subs'[t] = [subs[t] EXCEPT !.status = "CANCELLED",
                                           !.cancelledAt = clock]
  BY <1>1, <1>2, <1>3 DEF SubscribeCommit
<1>4. ASSUME NEW t \in SubIds PROVE RowKept(subs[t], subs'[t], clock)
  <2>1. CASE subs[t].status = "ABSENT" \/ subs'[t] = subs[t]
    BY <2>1 DEF RowKept
  <2>2. CASE subs'[t] = [subs[t] EXCEPT !.status = "CANCELLED",
                                        !.cancelledAt = clock]
    <3>1. /\ subs'[t].status = "CANCELLED" /\ subs'[t].cancelledAt = clock
          /\ subs'[t].autoRenew = subs[t].autoRenew
      BY <1>1, <2>2 DEF TypeOK, Subscription
    <3> QED
      BY <1>2, <3>1 DEF RowKept, Endable, Billable
  <2> QED
    BY <1>3, <2>1, <2>2
<1> QED
  BY <1>4 DEF RowsKept

---------------------------------------------------------------------------
(* What becomes of a handler.                                              *)

\* A handler that waits agrees with the rows others have kept, and time passes
\* only outside transactions.
LEMMA AgreesStays ==
  ASSUME TypeOK, HandlersSound, RowsKept, NEW f \in Flows,
         Agrees(f, flow[f], subs, clock),
         NEW time, time = clock \/ flow[f].pc # "subscribe"
  PROVE  Agrees(f, flow[f], subs', time)
<1> DEFINE h == flow[f]
<1>1. h \in Handler /\ Sound(f, h, clock, invoices)
  BY DEF TypeOK, HandlersSound
<1>2. /\ h.now \in Nat /\ clock \in Nat /\ (f \in Sweepers => h.now <= clock)
      /\ \A e \in h.todo : e.sub \in SubIds
      /\ h.pc \in JobSteps => h.job.sub \in SubIds
  BY <1>1 DEF Handler, Item, Job, Sound, TypeOK
<1>3. \A s \in SubIds : RowKept(subs[s], subs'[s], clock)
  BY DEF RowsKept
<1>4. ASSUME f \in Sweepers, NEW s \in SubIds, subs[s].status # "ABSENT",
             Billable(subs[s], h.now)
      PROVE  Billable(subs'[s], h.now)
  BY <1>2, <1>3, <1>4 DEF RowKept
<1>5. ASSUME NEW s \in SubIds, subs[s].status # "ABSENT"
      PROVE  subs'[s].status # "ABSENT" /\ (Endable(subs[s]) => Endable(subs'[s]))
  BY <1>3, <1>5 DEF RowKept
<1> HIDE DEF h
<1>6. Agrees(f, h, subs, clock) /\ (time = clock \/ h.pc # "subscribe")
  BY DEF h
<1>7. Agrees(f, h, subs', time)
  <2>1. h.pc \in {"pressed", "issue", "advance"} => subs'[h.job.sub].status # "ABSENT"
    BY <1>2, <1>5, <1>6 DEF Agrees, JobSteps
  <2>2. ASSUME f \in Sweepers, h.pc = "expire", NEW e \in h.todo
        PROVE  /\ Endable(subs'[e.sub]) /\ e.renewsAt <= h.now
               /\ subs'[e.sub].status # "ABSENT"
    BY <1>2, <1>5, <1>6, <2>2 DEF Agrees
  <2>3. ASSUME f \in Sweepers, h.pc \in {"due", "issue", "advance"}, NEW e \in h.todo
        PROVE  subs'[e.sub].status # "ABSENT" /\ Billable(subs'[e.sub], h.now)
    BY <1>2, <1>4, <1>5, <1>6, <2>3 DEF Agrees
  <2>4. ASSUME f \in Sweepers, h.pc = "issue"
        PROVE  Billable(subs'[h.job.sub], h.now)
    BY <1>2, <1>4, <1>6, <2>4 DEF Agrees, JobSteps
  <2> QED
    BY <1>6, <2>1, <2>2, <2>3, <2>4 DEF Agrees
<1> QED
  BY <1>7 DEF h

\* So a step has only the handler it moves to answer for.
LEMMA AgreesGoto ==
  ASSUME RowsAgree, RenewalInv', RowsKept, clock' = clock,
         NEW f \in Flows, NEW h, Goto(f, h), Agrees(f, h, subs', clock)
  PROVE  RowsAgree'
<1>1. TypeOK /\ HandlersSound
  BY DEF RowsAgree, RenewalInv
<1>2. ASSUME NEW g \in Flows PROVE Agrees(g, flow'[g], subs', clock')
  <2>1. CASE g = f
    BY <1>1, <2>1 DEF Goto, TypeOK
  <2>2. CASE g # f
    <3>1. flow'[g] = flow[g] /\ Agrees(g, flow[g], subs, clock)
      BY <1>1, <2>2 DEF Goto, TypeOK, RowsAgree
    <3> QED
      BY <1>1, <3>1, AgreesStays
  <2> QED
    BY <2>1, <2>2
<1> QED
  BY <1>2 DEF RowsAgree

LEMMA AgreesWaits ==
  ASSUME RowsAgree, RenewalInv', UNCHANGED <<subs, flow>>,
         clock' = clock \/ \A a \in Admins : flow[a].pc # "subscribe"
  PROVE  RowsAgree'
<1>1. TypeOK /\ HandlersSound
  BY DEF RowsAgree, RenewalInv
<1>2. ASSUME NEW g \in Flows PROVE Agrees(g, flow'[g], subs', clock')
  <2>1. g \in Sweepers => flow[g].pc # "subscribe"
    BY <1>1 DEF HandlersSound, Sound, SweepSteps
  <2>2. clock' = clock \/ flow[g].pc # "subscribe"
    BY <2>1 DEF Flows
  <2>3. Agrees(g, flow[g], subs', clock')
    BY <1>1, <2>2, SameRows, AgreesStays DEF RowsAgree
  <2> QED
    BY <2>3
<1> QED
  BY <1>2 DEF RowsAgree

LEMMA AgreesIdle ==
  ASSUME NEW f, NEW rows, NEW time
  PROVE  Agrees(f, Idle, rows, time)
BY DEF Agrees, Idle

---------------------------------------------------------------------------
(* Each step.                                                              *)

LEMMA AgreesIssue ==
  ASSUME RowsAgree, RenewalInv', NEW f \in Flows, Issue(f)
  PROVE  RowsAgree'
<1> DEFINE h == [flow[f] EXCEPT !.pc = "advance"]
<1>1. /\ flow[f] \in Handler /\ flow[f].pc = "issue"
      /\ Agrees(f, flow[f], subs, clock) /\ Goto(f, h) /\ UNCHANGED <<subs, clock>>
  BY DEF RowsAgree, RenewalInv, TypeOK, Issue
<1>2. /\ h.pc = "advance" /\ h.now = flow[f].now /\ h.todo = flow[f].todo
      /\ h.job = flow[f].job
  BY <1>1 DEF Handler
<1> HIDE DEF h
<1>3. Agrees(f, h, subs', clock)
  BY <1>1, <1>2 DEF Agrees
<1> QED
  BY <1>1, <1>3, SameRows, AgreesGoto

LEMMA AgreesAdvance ==
  ASSUME RowsAgree, RenewalInv', NEW f \in Flows, Advance(f)
  PROVE  RowsAgree'
<1> DEFINE h == AfterRenewal(f)
<1>1. /\ flow[f] \in Handler /\ flow[f].pc = "advance" /\ TypeOK /\ HandlersSound
      /\ Agrees(f, flow[f], subs, clock) /\ Goto(f, h) /\ UNCHANGED clock
  BY DEF RowsAgree, RenewalInv, TypeOK, Advance
<1>2. flow[f].job \in Job
  BY <1>1 DEF HandlersSound, Sound, JobSteps
<1>3. RowsKept
  <2>1. flow[f].job.sub \in SubIds
    BY <1>2 DEF Job
  <2> QED
    BY <1>1, <2>1, SameRows, DateRows DEF Advance
<1>4. Agrees(f, flow[f], subs', clock)
  BY <1>1, <1>3, AgreesStays
<1>5. Agrees(f, h, subs', clock)
  <2>1. CASE f \notin Sweepers
    BY <2>1, AgreesIdle DEF AfterRenewal
  <2>2. CASE f \in Sweepers
    <3>1. /\ h.pc = "due" /\ h.now = flow[f].now /\ h.todo = flow[f].todo
      BY <1>1, <2>2 DEF AfterRenewal, Handler
    <3> HIDE DEF h
    <3> QED
      BY <1>1, <1>4, <3>1 DEF Agrees
  <2> QED
    BY <2>1, <2>2
<1> HIDE DEF h
<1> QED
  BY <1>1, <1>3, <1>5, AgreesGoto

\* Dropping what was listed, and the rest as it was.
LEMMA AgreesShorter ==
  ASSUME RowsAgree, RenewalInv', UNCHANGED clock, RowsKept,
         NEW f \in Flows, NEW T \in SUBSET flow[f].todo,
         flow[f].pc \in {"expire", "due", "arrears"},
         Goto(f, [flow[f] EXCEPT !.todo = T])
  PROVE  RowsAgree'
<1> DEFINE h == [flow[f] EXCEPT !.todo = T]
<1>1. flow[f] \in Handler /\ TypeOK /\ HandlersSound
  BY DEF RowsAgree, RenewalInv, TypeOK
<1>2. Agrees(f, flow[f], subs', clock)
  BY <1>1, AgreesStays DEF RowsAgree
<1>3. h.pc = flow[f].pc /\ h.now = flow[f].now /\ h.todo = T
  BY <1>1 DEF Handler
<1> HIDE DEF h
<1>4. Agrees(f, h, subs', clock)
  BY <1>2, <1>3 DEF Agrees
<1> QED
  BY <1>4, AgreesGoto DEF h

LEMMA AgreesSweep ==
  ASSUME RenewalsAssumption, RowsAgree, RenewalInv',
         NEW f \in Sweepers, SweepStep(f) \/ FailItem(f)
  PROVE  RowsAgree'
<1> USE DEF Flows
<1>0. /\ TypeOK /\ flow[f] \in Handler /\ Agrees(f, flow[f], subs, clock)
      /\ \A e \in flow[f].todo : e \in Item /\ e.sub \in SubIds
  BY DEF RowsAgree, RenewalInv, TypeOK, Handler, Item
<1>1. CASE StartSweep(f)
  <2>1. PICK D \in Take(RunOut(clock)) :
          Goto(f, [Idle EXCEPT !.pc = "expire", !.now = clock,
                               !.todo = {Listed(s) : s \in D}])
    BY <1>1 DEF StartSweep
  <2> DEFINE h == [Idle EXCEPT !.pc = "expire", !.now = clock,
                               !.todo = {Listed(s) : s \in D}]
  <2>2. \A s \in D : /\ s \in SubIds /\ Listed(s).sub = s
                      /\ Listed(s).renewsAt = subs[s].renewsAt
                      /\ subs[s].status # "ABSENT" /\ Endable(subs[s])
                      /\ subs[s].renewsAt <= clock
    BY <1>0, <2>1, ListedIsItem DEF Take, RunOut, Endable, Live
  <2>3. h.pc = "expire" /\ h.now = clock /\ h.todo = {Listed(s) : s \in D}
    BY DEF Idle
  <2> HIDE DEF h
  <2>4. Agrees(f, h, subs, clock)
    BY <2>2, <2>3 DEF Agrees
  <2>5. UNCHANGED <<subs, clock>>
    BY <1>1 DEF StartSweep
  <2> QED
    BY <2>1, <2>4, <2>5, SameRows, AgreesGoto DEF h
<1>2. CASE ExpireOne(f)
  <2>1. PICK e \in flow[f].todo :
          /\ Goto(f, [flow[f] EXCEPT !.todo = @ \ {e}])
          /\ \/ subs' = [subs EXCEPT ![e.sub].status = "EXPIRED"]
             \/ UNCHANGED subs
    BY <1>2 DEF ExpireOne
  <2>2. Goto(f, [flow[f] EXCEPT !.todo = flow[f].todo \ {e}])
    BY <1>0, <2>1 DEF Handler
  <2>3. RowsKept
    BY <1>0, <2>1, SameRows, StatusRows
  <2> QED
    BY <1>2, <2>2, <2>3, AgreesShorter DEF ExpireOne
<1>3. CASE ListDue(f)
  <2>1. PICK D \in Take(Due(flow[f].now)) :
          Goto(f, [flow[f] EXCEPT !.pc = "due",
                                  !.todo = {Listed(s) : s \in D}])
    BY <1>3 DEF ListDue
  <2> DEFINE h == [flow[f] EXCEPT !.pc = "due", !.todo = {Listed(s) : s \in D}]
  <2>2. \A s \in D : /\ Listed(s).sub = s
                      /\ subs[s].status # "ABSENT" /\ subs[s].autoRenew
    BY <1>0, <2>1, ListedIsItem DEF Take, Due, Live
  <2>3. h.pc = "due" /\ h.todo = {Listed(s) : s \in D}
    BY <1>0 DEF Handler
  <2> HIDE DEF h
  <2>4. Agrees(f, h, subs, clock)
    BY <2>2, <2>3 DEF Agrees, Billable
  <2>5. UNCHANGED <<subs, clock>>
    BY <1>3 DEF ListDue
  <2> QED
    BY <2>1, <2>4, <2>5, SameRows, AgreesGoto DEF h
<1>4. CASE RenewListed(f)
  <2>1. PICK e \in flow[f].todo :
          \/ Goto(f, [flow[f] EXCEPT !.pc = "issue", !.todo = @ \ {e},
                                     !.job = RenewalOf(e.sub)])
          \/ Goto(f, [flow[f] EXCEPT !.todo = @ \ {e}])
    BY <1>4 DEF RenewListed, Pinned
  <2>2. flow[f].pc = "due" /\ UNCHANGED <<subs, clock>>
    BY <1>4 DEF RenewListed
  <2>3. CASE Goto(f, [flow[f] EXCEPT !.todo = @ \ {e}])
    <3>1. Goto(f, [flow[f] EXCEPT !.todo = flow[f].todo \ {e}])
      BY <1>0, <2>3 DEF Handler
    <3> QED
      BY <2>2, <3>1, SameRows, AgreesShorter
  <2>4. CASE Goto(f, [flow[f] EXCEPT !.pc = "issue", !.todo = @ \ {e},
                                     !.job = RenewalOf(e.sub)])
    <3> DEFINE h == [flow[f] EXCEPT !.pc = "issue", !.todo = @ \ {e},
                                    !.job = RenewalOf(e.sub)]
    <3>1. /\ h.pc = "issue" /\ h.now = flow[f].now
          /\ h.todo = flow[f].todo \ {e} /\ h.job.sub = e.sub
      BY <1>0 DEF Handler, RenewalOf
    <3> HIDE DEF h
    <3>2. Agrees(f, h, subs, clock)
      BY <1>0, <2>2, <3>1 DEF Agrees
    <3> QED
      BY <2>2, <2>4, <3>2, SameRows, AgreesGoto DEF h
  <2> QED
    BY <2>1, <2>3, <2>4
<1>5. CASE Issue(f) \/ Advance(f)
  BY <1>5, AgreesIssue, AgreesAdvance
<1>6. CASE ListOverdue(f)
  <2> DEFINE h == [flow[f] EXCEPT !.pc = "overdue", !.owing = InArrears(flow[f].now)]
  <2>1. h.pc = "overdue" /\ Goto(f, h) /\ UNCHANGED <<subs, clock>>
    BY <1>0, <1>6 DEF Handler, ListOverdue
  <2> HIDE DEF h
  <2>2. Agrees(f, h, subs, clock)
    BY <2>1 DEF Agrees
  <2> QED
    BY <2>1, <2>2, SameRows, AgreesGoto
<1>7. CASE ListLive(f)
  <2>1. PICK D \in Take({s \in SubIds : subs[s].status \in Live}) :
          Goto(f, [flow[f] EXCEPT !.pc = "arrears",
                                  !.todo = {Listed(s) : s \in D}])
    BY <1>7 DEF ListLive
  <2> DEFINE h == [flow[f] EXCEPT !.pc = "arrears", !.todo = {Listed(s) : s \in D}]
  <2>2. \A s \in D : Listed(s).status \in Live
    BY <2>1 DEF Take, Listed
  <2>3. h.pc = "arrears" /\ h.todo = {Listed(s) : s \in D}
    BY <1>0 DEF Handler
  <2> HIDE DEF h
  <2>4. Agrees(f, h, subs, clock)
    BY <2>2, <2>3 DEF Agrees
  <2>5. UNCHANGED <<subs, clock>>
    BY <1>7 DEF ListLive
  <2> QED
    BY <2>1, <2>4, <2>5, SameRows, AgreesGoto DEF h
<1>8. CASE ReassessOne(f)
  <2>1. PICK e \in flow[f].todo :
          /\ Goto(f, [flow[f] EXCEPT !.todo = @ \ {e}])
          /\ \/ subs' = [subs EXCEPT ![e.sub].status = Standing(e.sub, flow[f].owing)]
             \/ UNCHANGED subs
    BY <1>8 DEF ReassessOne
  <2>2. Goto(f, [flow[f] EXCEPT !.todo = flow[f].todo \ {e}])
    BY <1>0, <2>1 DEF Handler
  <2>3. Standing(e.sub, flow[f].owing) # "ABSENT"
    BY DEF Standing
  <2>4. RowsKept
    BY <1>0, <2>1, <2>3, SameRows, StatusRows
  <2> QED
    BY <1>8, <2>2, <2>4, AgreesShorter DEF ReassessOne
<1>9. CASE FinishSweep(f)
  BY <1>9, SameRows, AgreesIdle, AgreesGoto DEF FinishSweep
<1>10. CASE FailItem(f)
  <2>1. UNCHANGED <<subs, clock>>
    BY <1>10 DEF FailItem
  <2>2. CASE /\ flow[f].pc \in {"issue", "advance"}
             /\ Goto(f, [flow[f] EXCEPT !.pc = "due", !.job = None])
    <3> DEFINE h == [flow[f] EXCEPT !.pc = "due", !.job = None]
    <3>1. h.pc = "due" /\ h.now = flow[f].now /\ h.todo = flow[f].todo
      BY <1>0 DEF Handler
    <3> HIDE DEF h
    <3>2. Agrees(f, h, subs, clock)
      BY <1>0, <2>2, <3>1 DEF Agrees
    <3> QED
      BY <2>1, <2>2, <3>2, SameRows, AgreesGoto DEF h
  <2>3. ASSUME flow[f].pc = "due", NEW e \in flow[f].todo,
               Goto(f, [flow[f] EXCEPT !.todo = @ \ {e}])
        PROVE  RowsAgree'
    <3>1. Goto(f, [flow[f] EXCEPT !.todo = flow[f].todo \ {e}])
      BY <1>0, <2>3 DEF Handler
    <3> QED
      BY <2>1, <2>3, <3>1, SameRows, AgreesShorter
  <2> QED
    BY <1>10, <2>2, <2>3 DEF FailItem
<1> QED
  BY <1>1, <1>2, <1>3, <1>4, <1>5, <1>6, <1>7, <1>8, <1>9, <1>10 DEF SweepStep

LEMMA AgreesAdmin ==
  ASSUME RenewalsAssumption, RowsAgree, RenewalInv', NEW a \in Admins, AdminStep(a)
  PROVE  RowsAgree'
<1> USE DEF Flows
<1>0. /\ TypeOK /\ flow[a] \in Handler /\ a \notin Sweepers
      /\ Agrees(a, flow[a], subs, clock) /\ Sound(a, flow[a], clock, invoices)
  BY DEF RowsAgree, RenewalInv, TypeOK, HandlersSound, RenewalsAssumption
<1>1. CASE RenewPressed(a)
  <2> DEFINE s == flow[a].job.sub
             h == [flow[a] EXCEPT !.pc = "issue", !.job = RenewalOf(s)]
  <2>1. /\ UNCHANGED <<subs, clock>> /\ flow[a].pc = "pressed"
        /\ Goto(a, h) \/ Goto(a, Idle)
    BY <1>1 DEF RenewPressed
  <2>2. h.pc = "issue" /\ h.job.sub = s /\ subs[s].status # "ABSENT"
    BY <1>0, <2>1 DEF Handler, RenewalOf, Agrees
  <2> HIDE DEF h
  <2>3. Agrees(a, h, subs, clock)
    BY <1>0, <2>2 DEF Agrees
  <2> QED
    BY <2>1, <2>3, SameRows, AgreesIdle, AgreesGoto
<1>2. CASE Issue(a) \/ Advance(a)
  BY <1>2, AgreesIssue, AgreesAdvance
<1>3. CASE CancelWrite(a)
  <2>1. flow[a].job.sub \in SubIds
    BY <1>0, <1>3 DEF CancelWrite, Sound, JobSteps, Job
  <2> QED
    BY <1>0, <1>3, <2>1, CancelRows, AgreesIdle, AgreesGoto DEF CancelWrite
<1>4. CASE PlanInvoice(a)
  <2> DEFINE h == [flow[a] EXCEPT !.pc = "planWrite"]
  <2>1. h.pc = "planWrite" /\ Goto(a, h) /\ UNCHANGED <<subs, clock>>
    BY <1>0, <1>4 DEF PlanInvoice, Handler
  <2> HIDE DEF h
  <2>2. Agrees(a, h, subs, clock)
    BY <1>0, <2>1 DEF Agrees
  <2> QED
    BY <2>1, <2>2, SameRows, AgreesGoto
<1>5. CASE PlanWrite(a)
  BY <1>5, PlanRows, AgreesIdle, AgreesGoto DEF PlanWrite
<1>6. CASE SubscribeCommit(a)
  BY <1>6, SubscribeRows, AgreesIdle, AgreesGoto DEF SubscribeCommit
<1> QED
  BY <1>1, <1>2, <1>3, <1>4, <1>5, <1>6 DEF AdminStep

LEMMA AgreesRequest ==
  ASSUME RenewalsAssumption, RowsAgree, RenewalInv', NEW a \in Admins, NewRequest(a)
  PROVE  RowsAgree'
<1> USE DEF Flows
<1>1. UNCHANGED <<subs, clock>> /\ a \notin Sweepers
  BY DEF NewRequest, PressRenew, CancelRead, PlanRead, SubscribeBegin,
         RenewalsAssumption
<1>2. \E h : Goto(a, h) /\ Agrees(a, h, subs, clock)
  <2>1. ASSUME NEW s \in SubIds, PressRenew(a, s)
        PROVE  \E h : Goto(a, h) /\ Agrees(a, h, subs, clock)
    <3> DEFINE h == [Idle EXCEPT !.pc = "pressed", !.job = RenewalOf(s)]
    <3>1. h.pc = "pressed" /\ h.job.sub = s
      BY DEF Idle, RenewalOf
    <3>2. subs[s].status # "ABSENT" /\ Goto(a, h)
      BY <2>1 DEF PressRenew, Exists, Due, Live
    <3> HIDE DEF h
    <3>3. Agrees(a, h, subs, clock)
      BY <1>1, <3>1, <3>2 DEF Agrees
    <3> QED
      BY <3>2, <3>3
  <2>2. ASSUME NEW s \in SubIds, CancelRead(a, s)
        PROVE  \E h : Goto(a, h) /\ Agrees(a, h, subs, clock)
    <3> DEFINE h == [Idle EXCEPT !.pc = "cancel", !.job = RenewalOf(s)]
    <3>1. h.pc = "cancel" /\ Goto(a, h)
      BY <2>2 DEF Idle, CancelRead
    <3> HIDE DEF h
    <3> QED
      BY <1>1, <3>1 DEF Agrees
  <2>3. ASSUME NEW s \in SubIds, NEW plan \in Plans, PlanRead(a, s, plan)
        PROVE  \E h : Goto(a, h) /\ Agrees(a, h, subs, clock)
    <3> DEFINE h == [Idle EXCEPT !.pc = "planInvoice", !.now = clock,
                !.job = [sub |-> s, period |-> subs[s].renewsAt, plan |-> plan,
                         target |-> clock + Cycle[plan]]]
    <3>1. h.pc = "planInvoice" /\ Goto(a, h)
      BY <2>3 DEF Idle, PlanRead
    <3> HIDE DEF h
    <3> QED
      BY <1>1, <3>1 DEF Agrees
  <2>4. ASSUME NEW s \in SubIds, NEW plan \in Plans, SubscribeBegin(a, s, plan)
        PROVE  \E h : Goto(a, h) /\ Agrees(a, h, subs, clock)
    <3> DEFINE h == [Idle EXCEPT !.pc = "subscribe", !.now = clock,
                !.todo = {Listed(t) : t \in {t \in SubIds :
                            Owner[t] = Owner[s] /\ subs[t].status = "ACTIVE"}},
                !.job = [sub |-> s, period |-> clock, plan |-> plan,
                         target |-> clock + Cycle[plan]]]
    <3>1. h.pc = "subscribe" /\ h.now = clock /\ Goto(a, h)
      BY <2>4 DEF Idle, SubscribeBegin
    <3> HIDE DEF h
    <3> QED
      BY <1>1, <3>1 DEF Agrees
  <2> QED
    BY <2>1, <2>2, <2>3, <2>4 DEF NewRequest
<1> QED
  BY <1>1, <1>2, SameRows, AgreesGoto

LEMMA RowsAgreeInit == Init => RowsAgree
<1> SUFFICES ASSUME Init PROVE RowsAgree
  OBVIOUS
<1>1. RenewalInv
  BY RenewalsAssumption, RenewalInvInit
<1>2. \A f \in Flows : flow[f] = Idle
  BY DEF Init
<1> QED
  BY <1>1, <1>2, AgreesIdle DEF RowsAgree

LEMMA RowsAgreeStep == RowsAgree /\ [Next]_vars => RowsAgree'
<1> SUFFICES ASSUME RowsAgree, [Next]_vars PROVE RowsAgree'
  OBVIOUS
<1>0. RenewalsAssumption /\ RenewalInv'
  BY RenewalsAssumption, RenewalInvStep DEF RowsAgree
<1>1. ASSUME NEW f \in Sweepers, SweepStep(f) \/ FailItem(f)
      PROVE  RowsAgree'
  BY <1>0, <1>1, AgreesSweep
<1>2. ASSUME NEW a \in Admins, AdminStep(a) \/ NewRequest(a)
      PROVE  RowsAgree'
  BY <1>0, <1>2, AgreesAdmin, AgreesRequest
<1>3. ASSUME NEW f \in Flows, Crash(f)
      PROVE  RowsAgree'
  BY <1>0, <1>3, SameRows, AgreesIdle, AgreesGoto DEF Crash
<1>4. ASSUME NEW i \in DOMAIN invoices, PayInvoice(i) \/ VoidInvoice(i)
      PROVE  RowsAgree'
  BY <1>0, <1>4, AgreesWaits DEF PayInvoice, VoidInvoice, Settle
<1>5. CASE Tick \/ UNCHANGED vars
  BY <1>0, <1>5, AgreesWaits DEF Tick, vars
<1> QED
  BY <1>1, <1>2, <1>3, <1>4, <1>5 DEF Next

---------------------------------------------------------------------------
(* Whom a sweep bills, and which rows it ends.                             *)

\* A sweep bills nobody who pays by hand, and nobody whose subscription was
\* cancelled before the sweep began, however stale the list it works from.
THEOREM BilledHolds == Spec => []BilledOnlyOnAutoRenew
<1>1. RowsAgree => BilledOnlyOnAutoRenew
  BY DEF RowsAgree, Agrees, Billable, BilledOnlyOnAutoRenew, Flows
<1> QED
  BY <1>1, RowsAgreeInit, RowsAgreeStep, PTL DEF Spec

\* Which steps write a status.
LEMMA WhoWritesStatus ==
  ASSUME RowsAgree, [Next]_vars, NEW s \in SubIds,
         subs'[s].status # subs[s].status
  PROVE  \/ \E f \in Sweepers : ExpireOne(f) \/ ReassessOne(f)
         \/ \E a \in Admins : PlanWrite(a) \/ SubscribeCommit(a)
<1>0. TypeOK
  BY DEF RowsAgree, RenewalInv
<1>1. ASSUME NEW f, Advance(f) PROVE FALSE
  <2>1. PICK t, v : subs' = [subs EXCEPT ![t].renewsAt = v]
    BY <1>1 DEF Advance
  <2> QED
    BY <1>0, <2>1 DEF TypeOK, Subscription
<1>2. ASSUME NEW a \in Admins, CancelWrite(a) PROVE FALSE
  BY <1>0, <1>2 DEF CancelWrite, TypeOK, Subscription
<1>3. subs' # subs
  OBVIOUS
<1> QED
  BY <1>1, <1>2, <1>3
     DEF Next, vars, SweepStep, AdminStep, NewRequest, StartSweep, ListDue,
         RenewListed, Issue, ListOverdue, ListLive, FinishSweep, RenewPressed,
         PlanInvoice, PressRenew, CancelRead, PlanRead, SubscribeBegin, FailItem,
         Crash, PayInvoice, VoidInvoice, Settle, Tick

\* What each of them writes.
LEMMA WhatIsWritten ==
  ASSUME RowsAgree, [Next]_vars, NEW s \in SubIds,
         subs'[s].status # subs[s].status
  PROVE  \/ subs[s].status \in Live /\ subs'[s].status = "EXPIRED" /\ s \in RunOut(clock)
         \/ subs[s].status \in Live /\ subs'[s].status # "EXPIRED"
         \/ subs[s].status = "ABSENT" /\ subs'[s].status = "ACTIVE"
         \/ subs'[s].status = "ACTIVE" /\ \E a \in Admins : flow[a].pc = "planWrite"
<1> USE DEF Flows
<1>0. /\ TypeOK /\ subs \in [SubIds -> Subscription] /\ clock \in Nat
      /\ \A f \in Flows : /\ flow[f] \in Handler /\ Agrees(f, flow[f], subs, clock)
                          /\ Sound(f, flow[f], clock, invoices)
  BY DEF RowsAgree, RenewalInv, TypeOK, HandlersSound
<1>1. ASSUME NEW f \in Sweepers, ExpireOne(f)
      PROVE  subs[s].status \in Live /\ subs'[s].status = "EXPIRED" /\ s \in RunOut(clock)
  <2>1. PICK e \in flow[f].todo :
          IF StillRunOut(e) THEN subs' = [subs EXCEPT ![e.sub].status = "EXPIRED"]
          ELSE UNCHANGED subs
    BY <1>1 DEF ExpireOne
  <2>2. /\ StillRunOut(e) /\ e.sub = s /\ subs'[s].status = "EXPIRED"
    BY <1>0, <2>1 DEF Subscription
  <2>3. /\ Endable(subs[s]) /\ e.renewsAt <= flow[f].now /\ flow[f].now <= clock
        /\ flow[f].now \in Nat /\ e.renewsAt \in Nat
    BY <1>0, <1>1, <2>2 DEF ExpireOne, Agrees, Sound, Handler, Item
  <2> QED
    BY <1>0, <2>2, <2>3 DEF StillRunOut, RunOut, Endable
<1>2. ASSUME NEW f \in Sweepers, ReassessOne(f)
      PROVE  subs[s].status \in Live /\ subs'[s].status # "EXPIRED"
  <2>1. PICK e \in flow[f].todo :
          IF SameStatus(e)
          THEN subs' = [subs EXCEPT ![e.sub].status = Standing(e.sub, flow[f].owing)]
          ELSE UNCHANGED subs
    BY <1>2 DEF ReassessOne
  <2>2. /\ SameStatus(e) /\ e.sub = s
        /\ subs'[s].status = Standing(e.sub, flow[f].owing)
    BY <1>0, <2>1 DEF Subscription
  <2>3. e.status \in Live
    BY <1>0, <1>2 DEF ReassessOne, Agrees
  <2> QED
    BY <2>2, <2>3 DEF SameStatus, Standing
<1>3. ASSUME NEW a \in Admins, PlanWrite(a)
      PROVE  subs'[s].status = "ACTIVE" /\ flow[a].pc = "planWrite"
  <2>1. PICK t : \E plan, from, date : subs' = [subs EXCEPT ![t] =
                   [@ EXCEPT !.plan = plan, !.startsAt = from,
                             !.renewsAt = date, !.status = "ACTIVE"]]
    BY <1>3 DEF PlanWrite
  <2> QED
    BY <1>0, <1>3, <2>1 DEF PlanWrite, Subscription
<1>4. ASSUME NEW a \in Admins, SubscribeCommit(a)
      PROVE  \/ subs[s].status = "ABSENT" /\ subs'[s].status = "ACTIVE"
             \/ subs[s].status \in Live /\ subs'[s].status # "EXPIRED"
  <2>1. CASE s = flow[a].job.sub
    BY <1>4, <2>1 DEF SubscribeCommit, Exists
  <2>2. CASE s # flow[a].job.sub
    <3>1. /\ subs[s].status = "ACTIVE"
          /\ subs'[s] = [subs[s] EXCEPT !.status = "CANCELLED",
                                        !.cancelledAt = flow[a].now]
      BY <1>4, <2>2 DEF SubscribeCommit
    <3> QED
      BY <1>0, <3>1 DEF Live, Subscription
  <2> QED
    BY <2>1, <2>2
<1> QED
  BY <1>1, <1>2, <1>3, <1>4, WhoWritesStatus

\* The sweep ends a row only when it was cancelled and has run out by the time
\* it is ended, whatever was renewed since the sweep listed it.
THEOREM ExpiryHolds == Spec => ExpiresOnlyWhenRunOut
<1>1. RowsAgree /\ [Next]_vars =>
        [\A s \in SubIds :
           /\ subs[s].status # "EXPIRED"
           /\ subs'[s].status = "EXPIRED"
           => s \in RunOut(clock)]_vars
  BY WhatIsWritten
<1> QED
  BY <1>1, RowsAgreeInit, RowsAgreeStep, PTL DEF Spec, ExpiresOnlyWhenRunOut

---------------------------------------------------------------------------
(* Without plan changes.                                                   *)

NoPlanChange == \A a \in Admins : flow[a].pc \notin {"planInvoice", "planWrite"}

LEMMA NoPlanChangeStep ==
  ASSUME "changePlan" \notin Requests, TypeOK, NoPlanChange, [Next]_vars
  PROVE  NoPlanChange'
<1> USE DEF Flows
<1>0. \A f \in Flows : flow[f] \in Handler
  BY DEF TypeOK
<1>1. ASSUME NEW f \in Flows, NEW h, Goto(f, h),
             f \in Admins => h.pc \notin {"planInvoice", "planWrite"}
      PROVE  NoPlanChange'
  BY <1>1 DEF Goto, NoPlanChange, TypeOK
<1>2. ASSUME UNCHANGED flow PROVE NoPlanChange'
  BY <1>2 DEF NoPlanChange
<1>3. ASSUME NEW f \in Sweepers, SweepStep(f) \/ FailItem(f)
      PROVE  NoPlanChange'
  <2>1. f \notin Admins
    BY RenewalsAssumption
  <2>2. \E h : Goto(f, h)
    BY <1>3 DEF SweepStep, FailItem, StartSweep, ExpireOne, ListDue, RenewListed,
                Issue, Advance, ListOverdue, ListLive, ReassessOne, FinishSweep
  <2> QED
    BY <1>1, <2>1, <2>2
<1>4. ASSUME NEW a \in Admins, Issue(a) PROVE NoPlanChange'
  <2>1. Goto(a, [flow[a] EXCEPT !.pc = "advance"])
    BY <1>4 DEF Issue
  <2> QED
    BY <1>0, <1>1, <2>1 DEF Handler
<1>5. ASSUME NEW a \in Admins, Advance(a) \/ CancelWrite(a) \/ SubscribeCommit(a)
      PROVE  NoPlanChange'
  <2>1. Goto(a, Idle)
    BY <1>5, RenewalsAssumption DEF Advance, AfterRenewal, CancelWrite, SubscribeCommit
  <2> QED
    BY <1>1, <2>1 DEF Idle
<1>6. ASSUME NEW a \in Admins, RenewPressed(a) PROVE NoPlanChange'
  <2>1. \/ Goto(a, Idle)
        \/ Goto(a, [flow[a] EXCEPT !.pc = "issue", !.job = RenewalOf(flow[a].job.sub)])
    BY <1>6 DEF RenewPressed
  <2> QED
    BY <1>0, <1>1, <2>1 DEF Idle, Handler
<1>7. ASSUME NEW a \in Admins, PlanInvoice(a) \/ PlanWrite(a) PROVE FALSE
  BY <1>7 DEF PlanInvoice, PlanWrite, NoPlanChange
<1>8. ASSUME NEW a \in Admins, NEW s \in SubIds, PressRenew(a, s) \/ CancelRead(a, s)
      PROVE  NoPlanChange'
  <2>1. PICK pc \in {"pressed", "cancel"} :
          Goto(a, [Idle EXCEPT !.pc = pc, !.job = RenewalOf(s)])
    BY <1>8 DEF PressRenew, CancelRead
  <2> QED
    BY <1>1, <2>1 DEF Idle
<1>9. ASSUME NEW a \in Admins, NEW s \in SubIds, NEW plan \in Plans,
             PlanRead(a, s, plan)
      PROVE  FALSE
  BY <1>9 DEF PlanRead, Request
<1>10. ASSUME NEW a \in Admins, NEW s \in SubIds, NEW plan \in Plans,
              SubscribeBegin(a, s, plan)
       PROVE  NoPlanChange'
  BY <1>1, <1>10 DEF SubscribeBegin, Idle
<1>11. ASSUME NEW f \in Flows, Crash(f) PROVE NoPlanChange'
  BY <1>1, <1>11 DEF Crash, Idle
<1>12. ASSUME NEW i, PayInvoice(i) \/ VoidInvoice(i) PROVE NoPlanChange'
  BY <1>2, <1>12 DEF PayInvoice, VoidInvoice, Settle
<1>13. CASE Tick \/ UNCHANGED vars
  BY <1>2, <1>13 DEF Tick, vars
<1> QED
  BY <1>3, <1>4, <1>5, <1>6, <1>7, <1>8, <1>9, <1>10, <1>11, <1>12, <1>13
     DEF Next, AdminStep, NewRequest

\* A subscription that has ended stays ended, where no plan is changed: the
\* arrears step writes over live statuses only, however old its list.
THEOREM EndedHolds ==
  ASSUME "changePlan" \notin Requests
  PROVE  Spec => EndedStaysEnded
<1>1. Init => RowsAgree /\ NoPlanChange
  <2>1. Init => NoPlanChange
    BY DEF Init, NoPlanChange, Idle, Flows
  <2> QED
    BY <2>1, RowsAgreeInit
<1>2. RowsAgree /\ NoPlanChange /\ [Next]_vars => (RowsAgree /\ NoPlanChange)'
  BY RowsAgreeStep, NoPlanChangeStep DEF RowsAgree, RenewalInv
<1>3. RowsAgree /\ NoPlanChange /\ [Next]_vars =>
        [\A s \in SubIds :
           subs[s].status \in Terminal => subs'[s].status = subs[s].status]_vars
  BY WhatIsWritten DEF NoPlanChange, Terminal, Live
<1> QED
  BY <1>1, <1>2, <1>3, PTL DEF Spec, EndedStaysEnded

---------------------------------------------------------------------------
(* The refinement of BillingContract, where no plan is changed.            *)

\* A renewal about to be invoiced is for the period its row is at, or for one
\* somebody has invoiced since it was read.
ForThisPeriod(job) ==
  subs[job.sub].renewsAt = job.period \/ Invoiced(job.sub, job.period)
JobsCurrent ==
  \A f \in Flows : flow[f].pc = "issue" => ForThisPeriod(flow[f].job)

\* Who comes to be about to invoice has just read the row.
LEMMA WhoComesToIssue ==
  ASSUME TypeOK, HandlersSound, [Next]_vars,
         NEW g \in Flows, flow'[g].pc = "issue"
  PROVE  \/ flow'[g] = flow[g]
         \/ \E s \in SubIds : flow'[g].job = RenewalOf(s) /\ UNCHANGED subs
<1> USE DEF Flows
<1> DEFINE Read == \E s \in SubIds : flow'[g].job = RenewalOf(s) /\ UNCHANGED subs
<1>0. \A f \in Flows : flow[f] \in Handler
  BY DEF TypeOK
<1>1. ASSUME NEW f \in Flows, NEW h, Goto(f, h), h.pc # "issue"
      PROVE  flow'[g] = flow[g]
  BY <1>1 DEF Goto, TypeOK
<1>2. ASSUME NEW f \in Flows, NEW h, Goto(f, h),
             NEW s \in SubIds, h.job = RenewalOf(s), UNCHANGED subs
      PROVE  flow'[g] = flow[g] \/ Read
  BY <1>2 DEF Goto, TypeOK
<1>3. ASSUME NEW f \in Flows, flow[f].pc # "issue", NEW T,
             Goto(f, [flow[f] EXCEPT !.todo = T])
      PROVE  flow'[g] = flow[g]
  <2>1. [flow[f] EXCEPT !.todo = T].pc # "issue"
    BY <1>0, <1>3 DEF Handler
  <2> QED
    BY <1>1, <1>3, <2>1
<1>4. ASSUME NEW f \in Sweepers, ExpireOne(f) \/ ReassessOne(f)
      PROVE  flow'[g] = flow[g]
  <2>1. PICK T : Goto(f, [flow[f] EXCEPT !.todo = T])
    BY <1>4 DEF ExpireOne, ReassessOne
  <2> QED
    BY <1>3, <1>4, <2>1 DEF ExpireOne, ReassessOne
<1>5. ASSUME NEW f \in Sweepers, StartSweep(f) \/ FinishSweep(f)
      PROVE  flow'[g] = flow[g]
  BY <1>1, <1>5 DEF StartSweep, FinishSweep, Idle
<1>6. ASSUME NEW f \in Sweepers, ListDue(f) \/ ListOverdue(f) \/ ListLive(f)
      PROVE  flow'[g] = flow[g]
  <2>1. PICK T, O :
          \/ Goto(f, [flow[f] EXCEPT !.pc = "due", !.todo = T])
          \/ Goto(f, [flow[f] EXCEPT !.pc = "arrears", !.todo = T])
          \/ Goto(f, [flow[f] EXCEPT !.pc = "overdue", !.owing = O])
    BY <1>6 DEF ListDue, ListOverdue, ListLive
  <2>2. /\ [flow[f] EXCEPT !.pc = "due", !.todo = T].pc # "issue"
        /\ [flow[f] EXCEPT !.pc = "arrears", !.todo = T].pc # "issue"
        /\ [flow[f] EXCEPT !.pc = "overdue", !.owing = O].pc # "issue"
    BY <1>0 DEF Handler
  <2> QED
    BY <1>1, <2>1, <2>2
<1>7. ASSUME NEW f \in Sweepers, RenewListed(f)
      PROVE  flow'[g] = flow[g] \/ Read
  <2>1. PICK e \in flow[f].todo :
          \/ Goto(f, [flow[f] EXCEPT !.pc = "issue", !.todo = @ \ {e},
                                     !.job = RenewalOf(e.sub)])
          \/ Goto(f, [flow[f] EXCEPT !.todo = @ \ {e}])
    BY <1>7 DEF RenewListed, Pinned
  <2>2. /\ e.sub \in SubIds
        /\ [flow[f] EXCEPT !.pc = "issue", !.todo = @ \ {e},
                           !.job = RenewalOf(e.sub)].job = RenewalOf(e.sub)
        /\ [flow[f] EXCEPT !.todo = @ \ {e}].pc = flow[f].pc
    BY <1>0 DEF Handler, Item
  <2> QED
    BY <1>1, <1>2, <1>7, <2>1, <2>2 DEF RenewListed
<1>8. ASSUME NEW f \in Flows, Issue(f)
      PROVE  flow'[g] = flow[g]
  <2>1. Goto(f, [flow[f] EXCEPT !.pc = "advance"])
    BY <1>8 DEF Issue
  <2>2. [flow[f] EXCEPT !.pc = "advance"].pc # "issue"
    BY <1>0 DEF Handler
  <2> QED
    BY <1>1, <2>1, <2>2
<1>9. ASSUME NEW f \in Flows, Advance(f)
      PROVE  flow'[g] = flow[g]
  <2>1. AfterRenewal(f).pc # "issue"
    BY <1>0 DEF AfterRenewal, Idle, Handler
  <2> QED
    BY <1>1, <1>9, <2>1 DEF Advance
<1>10. ASSUME NEW a \in Admins, RenewPressed(a)
       PROVE  flow'[g] = flow[g] \/ Read
  <2> DEFINE s == flow[a].job.sub
  <2>1. \/ Goto(a, Idle)
        \/ Goto(a, [flow[a] EXCEPT !.pc = "issue", !.job = RenewalOf(s)])
    BY <1>10 DEF RenewPressed
  <2>2. /\ [flow[a] EXCEPT !.pc = "issue", !.job = RenewalOf(s)].job = RenewalOf(s)
        /\ Idle.pc # "issue" /\ UNCHANGED subs
    BY <1>0, <1>10 DEF Handler, Idle, RenewPressed
  <2>3. s \in SubIds
    BY <1>10 DEF RenewPressed, HandlersSound, Sound, JobSteps, Job
  <2> QED
    BY <1>1, <1>2, <2>1, <2>2, <2>3
<1>11. ASSUME NEW a \in Admins, CancelWrite(a) \/ PlanWrite(a) \/ SubscribeCommit(a)
       PROVE  flow'[g] = flow[g]
  BY <1>1, <1>11 DEF CancelWrite, PlanWrite, SubscribeCommit, Idle
<1>12. ASSUME NEW a \in Admins, PlanInvoice(a)
       PROVE  flow'[g] = flow[g]
  <2>1. Goto(a, [flow[a] EXCEPT !.pc = "planWrite"])
    BY <1>12 DEF PlanInvoice
  <2>2. [flow[a] EXCEPT !.pc = "planWrite"].pc # "issue"
    BY <1>0 DEF Handler
  <2> QED
    BY <1>1, <2>1, <2>2
<1>13. ASSUME NEW a \in Admins, NewRequest(a)
       PROVE  flow'[g] = flow[g]
  <2>1. ASSUME NEW s \in SubIds, PressRenew(a, s) \/ CancelRead(a, s)
        PROVE  flow'[g] = flow[g]
    BY <1>1, <2>1 DEF PressRenew, CancelRead, Idle
  <2>2. ASSUME NEW s \in SubIds, NEW plan \in Plans,
               PlanRead(a, s, plan) \/ SubscribeBegin(a, s, plan)
        PROVE  flow'[g] = flow[g]
    BY <1>1, <2>2 DEF PlanRead, SubscribeBegin, Idle
  <2> QED
    BY <1>13, <2>1, <2>2 DEF NewRequest
<1>14. ASSUME NEW f \in Flows, FailItem(f) \/ Crash(f)
       PROVE  flow'[g] = flow[g]
  <2>1. PICK e :
          \/ Goto(f, Idle)
          \/ Goto(f, [flow[f] EXCEPT !.pc = "due", !.job = None])
          \/ flow[f].pc = "due" /\ Goto(f, [flow[f] EXCEPT !.todo = @ \ {e}])
    BY <1>14 DEF FailItem, Crash
  <2>2. /\ Idle.pc # "issue"
        /\ [flow[f] EXCEPT !.pc = "due", !.job = None].pc # "issue"
        /\ [flow[f] EXCEPT !.todo = @ \ {e}].pc = flow[f].pc
    BY <1>0 DEF Handler, Idle
  <2> QED
    BY <1>1, <2>1, <2>2
<1>15. CASE UNCHANGED flow
  BY <1>15
<1> QED
  BY <1>4, <1>5, <1>6, <1>7, <1>8, <1>9, <1>10, <1>11, <1>12, <1>13, <1>14, <1>15
     DEF Next, vars, SweepStep, AdminStep, PayInvoice, VoidInvoice, Settle, Tick

LEMMA JobsCurrentStep ==
  ASSUME RowsAgree, NoPlanChange, JobsCurrent, [Next]_vars
  PROVE  JobsCurrent'
<1> SUFFICES ASSUME NEW g \in Flows, flow'[g].pc = "issue"
             PROVE  /\ \/ subs'[flow'[g].job.sub].renewsAt = flow'[g].job.period
                       \/ HasKey(invoices', flow'[g].job.sub, flow'[g].job.period)
  BY DEF JobsCurrent, ForThisPeriod, Invoiced
<1>0. RenewalsAssumption /\ RenewalInv /\ TypeOK /\ HandlersSound
  BY RenewalsAssumption DEF RowsAgree, RenewalInv
<1>1. CASE flow'[g] = flow[g]
  <2> DEFINE job == flow[g].job
  <2>1. flow[g].pc = "issue" /\ job \in Job
    BY <1>0, <1>1 DEF HandlersSound, Sound, JobSteps
  <2>2. job.sub \in SubIds /\ Exists(job.sub) /\ ForThisPeriod(job)
    BY <2>1 DEF RowsAgree, Agrees, Exists, JobsCurrent, Job
  <2>3. Extends(invoices, invoices')
    BY <1>0, TableExtends
  <2>4. ~ChangesPlan
    BY DEF ChangesPlan, NoPlanChange
  <2>5. CASE Invoiced(job.sub, job.period)
    BY <1>1, <2>3, <2>5, ExtendsKeepsKeys DEF Invoiced
  <2>6. CASE subs[job.sub].renewsAt = job.period
    <3>1. CASE subs'[job.sub].renewsAt = subs[job.sub].renewsAt
      BY <1>1, <2>6, <3>1
    <3>2. CASE subs'[job.sub].renewsAt # subs[job.sub].renewsAt
      <4>1. Invoiced(job.sub, job.period)
        BY <1>0, <2>2, <2>4, <2>6, <3>2, WhoMovesTheDate
      <4> QED
        BY <2>5, <4>1
    <3> QED
      BY <3>1, <3>2
  <2> QED
    BY <2>2, <2>5, <2>6 DEF ForThisPeriod
<1>2. CASE \E s \in SubIds : flow'[g].job = RenewalOf(s) /\ UNCHANGED subs
  BY <1>2 DEF RenewalOf
<1> QED
  BY <1>0, <1>1, <1>2, WhoComesToIssue

\* The two variables of the contract.
LEMMA ThroughSame ==
  ASSUME \A s \in SubIds : /\ subs'[s].status = "ABSENT" <=> subs[s].status = "ABSENT"
                           /\ subs'[s].renewsAt = subs[s].renewsAt
  PROVE  Through' = Through
<1>1. \A s \in SubIds : Exists(s)' <=> Exists(s)
  BY DEF Exists
<1>2. ASSUME NEW s \in SubIds
      PROVE  Through'[s] = Through[s]
  <2>1. /\ Through'[s] = IF Exists(s)' THEN subs'[s].renewsAt ELSE None
        /\ Through[s] = IF Exists(s) THEN subs[s].renewsAt ELSE None
    BY DEF Through
  <2> QED
    BY <1>1, <2>1
<1>3. /\ Through' = [s \in SubIds |-> Through'[s]]
      /\ Through = [s \in SubIds |-> Through[s]]
  BY DEF Through
<1> QED
  BY <1>2, <1>3

LEMMA BilledSame ==
  ASSUME UNCHANGED invoices
  PROVE  Billed' = Billed
BY DEF Billed

\* A renewal's invoice charges the period its row is at, or changes nothing.
LEMMA IssueCharges ==
  ASSUME RowsAgree, JobsCurrent, NEW f \in Flows, Issue(f)
  PROVE  Contract!Next \/ UNCHANGED <<Through, Billed>>
<1> DEFINE job == flow[f].job
           s == job.sub
           invoice == [sub |-> s, period |-> job.period,
                       dueAt |-> job.period, status |-> "ISSUED",
                       by |-> IF f \in Sweepers THEN "sweep" ELSE "admin"]
<1>1. /\ TypeOK /\ job \in Job /\ flow[f].pc = "issue" /\ UNCHANGED subs
      /\ Exists(s) /\ ForThisPeriod(job)
  BY DEF RowsAgree, RenewalInv, HandlersSound, Sound, JobSteps, Issue, Agrees,
         JobsCurrent, Exists
<1>2. Through' = Through
  BY <1>1 DEF Through, Exists
<1>3. CASE Invoiced(s, job.period)
  BY <1>2, <1>3, BilledSame DEF Issue
<1>4. CASE ~Invoiced(s, job.period)
  <2>1. /\ invoices \in Seq(Invoice) /\ Len(invoices) \in Nat
        /\ s \in SubIds /\ job.period \in Nat /\ job.period # None
    BY <1>1, RenewalsAssumption DEF TypeOK, Job, RenewalsAssumption
  <2>2. invoices' = Append(invoices, invoice)
    BY <1>4 DEF Issue
  <2>3. /\ DOMAIN invoices' = 1..(Len(invoices) + 1)
        /\ DOMAIN invoices = 1..Len(invoices)
        /\ invoices'[Len(invoices) + 1] = invoice
        /\ \A i \in 1..Len(invoices) : invoices'[i] = invoices[i]
    BY <2>1, <2>2
  <2>4. invoice.sub = s /\ invoice.period = job.period
    OBVIOUS
  <2> HIDE DEF invoice
  <2>5. ASSUME NEW t \in SubIds
        PROVE  Billed'[t] = IF t = s THEN Billed[t] \cup {job.period} ELSE Billed[t]
    <3>1. Billed'[t] = {invoices'[i].period : i \in {i \in DOMAIN invoices' :
            invoices'[i].sub = t /\ invoices'[i].period # None}}
      BY DEF Billed
    <3>2. Billed[t] = {invoices[i].period : i \in {i \in DOMAIN invoices :
            invoices[i].sub = t /\ invoices[i].period # None}}
      BY DEF Billed
    <3> HIDE DEF job, s
    <3>3. \A i \in DOMAIN invoices' : i \in DOMAIN invoices \/ i = Len(invoices) + 1
      BY <2>1, <2>3
    <3>4. DOMAIN invoices \subseteq DOMAIN invoices' /\ Len(invoices) + 1 \in DOMAIN invoices'
      BY <2>1, <2>3
    <3> QED
      BY <2>1, <2>3, <2>4, <3>1, <3>2, <3>3, <3>4
  <2>6. Billed' = [Billed EXCEPT ![s] = @ \cup {job.period}]
    BY <2>1, <2>5 DEF Billed
  <2>7. Through[s] = job.period
    BY <1>1, <1>4, <2>1 DEF Through, ForThisPeriod
  <2>8. job.period \notin Billed[s]
    BY <1>4, <2>1 DEF Billed, Invoiced, HasKey
  <2> QED
    BY <1>2, <2>1, <2>6, <2>7, <2>8 DEF Contract!Next, Contract!Charge
<1> QED
  BY <1>3, <1>4

\* The compare-and-swap enters the period it has charged, or loses.
LEMMA AdvanceEnters ==
  ASSUME RowsAgree, NEW f \in Flows, Advance(f)
  PROVE  Contract!Next \/ UNCHANGED <<Through, Billed>>
<1> DEFINE job == flow[f].job
           s == job.sub
<1>1. /\ TypeOK /\ job \in Job /\ flow[f].pc = "advance" /\ UNCHANGED invoices
      /\ Sound(f, flow[f], clock, invoices) /\ Exists(s)
  BY DEF RowsAgree, RenewalInv, HandlersSound, Sound, JobSteps, Advance, Agrees,
         Exists
<1>2. /\ s \in SubIds /\ job.period \in Nat /\ job.target \in Nat
      /\ job.period < job.target /\ HasKey(invoices, s, job.period)
      /\ job.period # None
  BY <1>1, RenewalsAssumption DEF Sound, Job, RenewalsAssumption
<1>3. CASE ~Unmoved(job)
  <2>1. UNCHANGED subs
    BY <1>3 DEF Advance
  <2> QED
    BY <1>1, <2>1, ThroughSame, BilledSame
<1>4. CASE Unmoved(job)
  <2>1. subs' = [subs EXCEPT ![s].renewsAt = job.target]
    BY <1>4 DEF Advance
  <2> HIDE DEF job, s
  <2>2. \A t \in SubIds :
          /\ subs'[t].status = subs[t].status
          /\ subs'[t].renewsAt = IF t = s THEN job.target ELSE subs[t].renewsAt
    BY <1>1, <1>2, <2>1 DEF TypeOK, Subscription
  <2>3. \A t \in SubIds : Exists(t)' <=> Exists(t)
    BY <2>2 DEF Exists
  <2>4. ASSUME NEW t \in SubIds
        PROVE  Through'[t] = IF t = s THEN job.target ELSE Through[t]
    <3>1. /\ Through'[t] = IF Exists(t)' THEN subs'[t].renewsAt ELSE None
          /\ Through[t] = IF Exists(t) THEN subs[t].renewsAt ELSE None
      BY DEF Through
    <3> QED
      BY <1>1, <2>2, <2>3, <3>1
  <2>5. Through' = [Through EXCEPT ![s] = job.target]
    BY <1>2, <2>4 DEF Through
  <2>6. Through[s] = job.period /\ job.period \in Billed[s]
    BY <1>1, <1>2, <1>4 DEF Through, Unmoved, Billed, HasKey, job, s
  <2>7. Through'[s] = job.target
    BY <1>2, <2>4
  <2>8. Billed' = Billed
    BY <1>1, BilledSame
  <2>9. Contract!Enter(s)
    BY <1>2, <2>5, <2>6, <2>7, <2>8 DEF Contract!Enter
  <2> QED
    BY <1>2, <2>9 DEF Contract!Next
<1> QED
  BY <1>3, <1>4

\* subscribe opens one row; what it cancels stays paid up to where it was.
LEMMA SubscribeOpens ==
  ASSUME RowsAgree, NEW a \in Admins, SubscribeCommit(a)
  PROVE  Contract!Next \/ UNCHANGED <<Through, Billed>>
<1> DEFINE job == flow[a].job
           s == job.sub
<1>1. /\ TypeOK /\ job \in Job /\ UNCHANGED invoices /\ ~Exists(s)
      /\ a \in Flows
  BY DEF RowsAgree, RenewalInv, HandlersSound, Sound, JobSteps, SubscribeCommit, Flows
<1>2. s \in SubIds /\ job.target \in Nat
  BY <1>1 DEF Job
<1>3. ASSUME NEW t \in SubIds
      PROVE  /\ t = s => /\ subs'[t].status = "ACTIVE"
                         /\ subs'[t].renewsAt = job.target
             /\ t # s => /\ subs'[t].status = "ABSENT" <=> subs[t].status = "ABSENT"
                         /\ subs'[t].renewsAt = subs[t].renewsAt
  <2>1. CASE t = s
    BY <2>1 DEF SubscribeCommit
  <2>2. CASE t # s
    <3>1. \/ subs'[t] = subs[t]
          \/ /\ subs[t].status = "ACTIVE"
             /\ subs'[t] = [subs[t] EXCEPT !.status = "CANCELLED",
                                           !.cancelledAt = flow[a].now]
      BY <2>2 DEF SubscribeCommit
    <3> QED
      BY <1>1, <2>2, <3>1 DEF TypeOK, Subscription
  <2> QED
    BY <2>1, <2>2
<1> HIDE DEF job, s
<1>4. ASSUME NEW t \in SubIds
      PROVE  Through'[t] = IF t = s THEN job.target ELSE Through[t]
  <2>1. /\ Through'[t] = IF Exists(t)' THEN subs'[t].renewsAt ELSE None
        /\ Through[t] = IF Exists(t) THEN subs[t].renewsAt ELSE None
    BY DEF Through
  <2>2. /\ t = s => Exists(t)'
        /\ t # s => (Exists(t)' <=> Exists(t))
    BY <1>3 DEF Exists
  <2> QED
    BY <1>3, <2>1, <2>2
<1>5. Through' = [Through EXCEPT ![s] = job.target]
  BY <1>2, <1>4 DEF Through
<1>6. Through[s] = None /\ Through'[s] = job.target /\ Billed' = Billed
  BY <1>1, <1>2, <1>4, BilledSame DEF Through
<1>7. Contract!Open(s)
  BY <1>2, <1>5, <1>6 DEF Contract!Open
<1> QED
  BY <1>2, <1>7 DEF Contract!Next

\* Statuses and cancellations are nothing to the contract, and neither is what
\* becomes of an invoice.
LEMMA StatusStutters ==
  ASSUME RowsAgree, UNCHANGED invoices,
         \/ \E f \in Sweepers : ExpireOne(f) \/ ReassessOne(f)
         \/ \E a \in Admins : CancelWrite(a)
  PROVE  UNCHANGED <<Through, Billed>>
<1>1. TypeOK /\ HandlersSound
  BY DEF RowsAgree, RenewalInv
<1>2. ASSUME NEW s \in SubIds
      PROVE  /\ subs'[s].status = "ABSENT" <=> subs[s].status = "ABSENT"
             /\ subs'[s].renewsAt = subs[s].renewsAt
  <2>1. ASSUME NEW f \in Sweepers, ExpireOne(f) \/ ReassessOne(f)
        PROVE  /\ subs'[s].status = "ABSENT" <=> subs[s].status = "ABSENT"
               /\ subs'[s].renewsAt = subs[s].renewsAt
    <3>1. f \in Flows /\ flow[f] \in Handler /\ Agrees(f, flow[f], subs, clock)
      BY <1>1 DEF RowsAgree, TypeOK, Flows
    <3>2. PICK e \in flow[f].todo, v \in {"EXPIRED", "ACTIVE", "PAST_DUE"} :
            \/ UNCHANGED subs
            \/ /\ subs[e.sub].status \in Live
               /\ subs' = [subs EXCEPT ![e.sub].status = v]
      BY <2>1, <3>1
         DEF ExpireOne, ReassessOne, StillRunOut, SameStatus, Standing, Agrees
    <3>3. CASE UNCHANGED subs
      BY <3>3
    <3>4. CASE /\ subs[e.sub].status \in Live
               /\ subs' = [subs EXCEPT ![e.sub].status = v]
      <4>1. /\ subs'[s].renewsAt = subs[s].renewsAt
            /\ \/ subs'[s].status = subs[s].status
               \/ e.sub = s /\ subs'[s].status = v
        BY <1>1, <3>4 DEF TypeOK, Subscription
      <4> QED
        BY <3>2, <3>4, <4>1 DEF Live
    <3> QED
      BY <3>2, <3>3, <3>4
  <2>2. ASSUME NEW a \in Admins, CancelWrite(a)
        PROVE  /\ subs'[s].status = "ABSENT" <=> subs[s].status = "ABSENT"
               /\ subs'[s].renewsAt = subs[s].renewsAt
    <3>1. flow[a].job \in Job
      BY <1>1, <2>2 DEF HandlersSound, Sound, JobSteps, CancelWrite, Flows
    <3>2. subs' = [subs EXCEPT ![flow[a].job.sub] =
                     [@ EXCEPT !.autoRenew = FALSE, !.cancelledAt = clock]]
      BY <2>2 DEF CancelWrite
    <3>3. subs[s] \in Subscription
      BY <1>1 DEF TypeOK
    <3>4. \/ subs'[s] = subs[s]
          \/ subs'[s] = [subs[s] EXCEPT !.autoRenew = FALSE, !.cancelledAt = clock]
      BY <1>1, <3>1, <3>2 DEF TypeOK, Job
    <3> QED
      BY <3>3, <3>4 DEF Subscription
  <2> QED
    BY <2>1, <2>2
<1> QED
  BY <1>2, ThroughSame, BilledSame

LEMMA SettleStutters ==
  ASSUME RowsAgree, NEW i \in DOMAIN invoices, PayInvoice(i) \/ VoidInvoice(i)
  PROVE  UNCHANGED <<Through, Billed>>
<1>1. TypeOK /\ UNCHANGED subs
  BY DEF RowsAgree, RenewalInv, PayInvoice, VoidInvoice, Settle
<1>2. /\ DOMAIN invoices' = DOMAIN invoices
      /\ \A j \in DOMAIN invoices : /\ invoices'[j].sub = invoices[j].sub
                                    /\ invoices'[j].period = invoices[j].period
  <2>1. PICK v : invoices' = [invoices EXCEPT ![i].status = v]
    BY DEF PayInvoice, VoidInvoice, Settle
  <2>2. \A j \in DOMAIN invoices : invoices[j] \in Invoice
    BY <1>1 DEF TypeOK
  <2> QED
    BY <2>1, <2>2 DEF Invoice
<1>3. ASSUME NEW s \in SubIds PROVE Billed'[s] = Billed[s]
  BY <1>2 DEF Billed
<1>4. Billed' = Billed
  BY <1>3 DEF Billed
<1> QED
  BY <1>1, <1>4, ThroughSame

LEMMA StepImplements ==
  ASSUME RowsAgree, NoPlanChange, JobsCurrent, [Next]_vars
  PROVE  Contract!Next \/ UNCHANGED <<Through, Billed>>
<1>1. CASE UNCHANGED <<subs, invoices>>
  BY <1>1, ThroughSame, BilledSame
<1>2. ASSUME NEW f \in Sweepers, SweepStep(f)
      PROVE  Contract!Next \/ UNCHANGED <<Through, Billed>>
  <2>1. f \in Flows
    BY DEF Flows
  <2>2. CASE Issue(f)
    BY <2>1, <2>2, IssueCharges
  <2>3. CASE Advance(f)
    BY <2>1, <2>3, AdvanceEnters
  <2>4. CASE ExpireOne(f) \/ ReassessOne(f)
    <3>1. UNCHANGED invoices
      BY <2>4 DEF ExpireOne, ReassessOne
    <3> QED
      BY <2>4, <3>1, StatusStutters
  <2>5. CASE StartSweep(f) \/ ListDue(f) \/ RenewListed(f) \/ ListOverdue(f)
             \/ ListLive(f) \/ FinishSweep(f)
    BY <1>1, <2>5
       DEF StartSweep, ListDue, RenewListed, ListOverdue, ListLive, FinishSweep
  <2> QED
    BY <1>2, <2>2, <2>3, <2>4, <2>5 DEF SweepStep
<1>3. ASSUME NEW a \in Admins, AdminStep(a)
      PROVE  Contract!Next \/ UNCHANGED <<Through, Billed>>
  <2>1. a \in Flows
    BY DEF Flows
  <2>2. CASE Issue(a)
    BY <2>1, <2>2, IssueCharges
  <2>3. CASE Advance(a)
    BY <2>1, <2>3, AdvanceEnters
  <2>4. CASE SubscribeCommit(a)
    BY <2>4, SubscribeOpens
  <2>5. CASE CancelWrite(a)
    <3>1. UNCHANGED invoices
      BY <2>5 DEF CancelWrite
    <3> QED
      BY <2>5, <3>1, StatusStutters
  <2>6. CASE RenewPressed(a)
    BY <1>1, <2>6 DEF RenewPressed
  <2>7. ~PlanInvoice(a) /\ ~PlanWrite(a)
    BY DEF PlanInvoice, PlanWrite, NoPlanChange
  <2> QED
    BY <1>3, <2>2, <2>3, <2>4, <2>5, <2>6, <2>7 DEF AdminStep
<1>4. ASSUME NEW a \in Admins, NewRequest(a)
      PROVE  Contract!Next \/ UNCHANGED <<Through, Billed>>
  BY <1>1, <1>4 DEF NewRequest, PressRenew, CancelRead, PlanRead, SubscribeBegin
<1>5. ASSUME NEW f \in Flows, FailItem(f) \/ Crash(f)
      PROVE  Contract!Next \/ UNCHANGED <<Through, Billed>>
  BY <1>1, <1>5 DEF FailItem, Crash
<1>6. CASE Tick \/ UNCHANGED vars
  BY <1>1, <1>6 DEF Tick, vars
<1> QED
  BY <1>2, <1>3, <1>4, <1>5, <1>6, SettleStutters DEF Next, Flows

LEMMA ContractInit == Init => Contract!Init /\ NoPlanChange /\ JobsCurrent
<1> SUFFICES ASSUME Init PROVE Contract!Init /\ NoPlanChange /\ JobsCurrent
  OBVIOUS
<1>1. TypeOK /\ invoices = << >> /\ \A f \in Flows : flow[f].pc = "idle"
  BY RowsAgreeInit DEF RowsAgree, RenewalInv, Init, Idle
<1>2. Through \in [SubIds -> Nat \cup {None}]
  BY <1>1 DEF Through, Exists, TypeOK, Subscription
<1>3. Billed = [s \in SubIds |-> {}]
  <2>1. DOMAIN invoices = {}
    BY <1>1
  <2> QED
    BY <2>1 DEF Billed
<1> QED
  BY <1>1, <1>2, <1>3 DEF Contract!Init, NoPlanChange, JobsCurrent, Flows

\* BilledAsPromised: where plan changes are not asked for, the sweeps, requests,
\* interruptions and stale reads of src/backend/src/plans come to what
\* BillingContract promises each subscription.
THEOREM ImplementsContract ==
  ASSUME "changePlan" \notin Requests
  PROVE  Spec => BilledAsPromised
<1>1. Init => /\ Contract!Init
              /\ RowsAgree /\ NoPlanChange /\ JobsCurrent
  BY RowsAgreeInit, ContractInit
<1>2. RowsAgree /\ NoPlanChange /\ JobsCurrent /\ [Next]_vars
        => /\ RowsAgree' /\ NoPlanChange' /\ JobsCurrent'
           /\ [Contract!Next]_<<Through, Billed>>
  <2> SUFFICES ASSUME RowsAgree, NoPlanChange, JobsCurrent, [Next]_vars
               PROVE  /\ RowsAgree' /\ NoPlanChange' /\ JobsCurrent'
                      /\ Contract!Next \/ UNCHANGED <<Through, Billed>>
    OBVIOUS
  <2>1. TypeOK
    BY DEF RowsAgree, RenewalInv
  <2>2. RowsAgree' /\ JobsCurrent'
    BY RowsAgreeStep, JobsCurrentStep
  <2>3. NoPlanChange'
    BY <2>1, NoPlanChangeStep
  <2> QED
    BY <2>2, <2>3, StepImplements
<1> QED
  BY <1>1, <1>2, PTL DEF Spec, Contract!Spec, Contract!contractVars, BilledAsPromised
=============================================================================
