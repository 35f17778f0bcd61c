--------------------------- MODULE InvoiceLedger ---------------------------
(***************************************************************************)
(* How documents get their numbers: InvoiceService.issue, its transaction, *)
(* and what is done to a document afterwards.                              *)
(*                                                                         *)
(* Any number of requests issue invoices and credit notes at once.  The    *)
(* transaction of each takes the next number of its financial year, which  *)
(* locks the year's row until the transaction ends, and then inserts the   *)
(* document, which the unique index on (subscriptionId, periodStart)       *)
(* refuses if another document, committed, has that key, and holds up      *)
(* while another transaction that inserted the key has not ended.          *)
(*                                                                         *)
(* Abstractions.  A document's amounts and parties are left out (module    *)
(* Gst); a subscription and the start of a period are one value of         *)
(* Periods.  The isolation level is PostgreSQL's default, READ COMMITTED.  *)
(***************************************************************************)
EXTENDS Integers, Sequences, FiniteSets

CONSTANTS
  Callers,    \* concurrent requests and renewals
  Periods,    \* (subscription, period start) keys
  LastYear,   \* bound: the last financial year
  MaxCalls,   \* bound: requests made in all, payments included
  MaxFaults,  \* bound: failed transactions
  None        \* SQL NULL

ASSUME LedgerAssumption ==
  /\ LastYear \in Nat \ {0}
  /\ MaxCalls \in Nat /\ MaxFaults \in Nat
  /\ None \notin Periods
  /\ None \notin Nat \X Nat

Years == 1..LastYear

VARIABLES
  year,     \* the current financial year
  counter,  \* invoice_sequences: the last number of each year, committed
  book,     \* invoices: the committed documents of each year, in that order
  call,     \* what each request holds between two awaits
  calls,    \* bound: requests made so far
  faults    \* bound: transactions failed so far

vars == <<year, counter, book, call, calls, faults>>

Document ==
  [serial: Nat, period: Periods \cup {None}, status: {"ISSUED", "PAID", "VOID"},
   against: (Nat \X Nat) \cup {None}]

\* A document's identity: its year and its place in the year's book.
Ids == UNION {{y} \X DOMAIN book[y] : y \in Years}
Doc(id) == book[id[1]][id[2]]

Call ==
  [pc: {"idle", "allocate", "create", "commit", "recover", "void"},
   year: Years, serial: Nat, period: Periods \cup {None},
   against: (Nat \X Nat) \cup {None}]

Rest == [pc |-> "idle", year |-> 1, serial |-> 0, period |-> None,
         against |-> None]

TypeOK ==
  /\ year \in Years
  /\ counter \in [Years -> Nat]
  /\ book \in [Years -> Seq(Document)]
  /\ call \in [Callers -> Call]
  /\ calls \in Nat
  /\ faults \in Nat

Init ==
  /\ year = 1
  /\ counter = [y \in Years |-> 0]
  /\ book = [y \in Years |-> <<>>]
  /\ call = [c \in Callers |-> Rest]
  /\ calls = 0
  /\ faults = 0

-----------------------------------------------------------------------------
(* What the database knows.                                                *)

\* Transactions that hold the row of year y in invoice_sequences.  Operators
\* named ...Slip are plausible mistakes in the definition they stand before;
\* the properties must tell the two apart.
HoldersSlip(y) == {}  \* a read followed by a write: nothing is locked

Holders(y) ==
  {c \in Callers : call[c].pc \in {"create", "commit"} /\ call[c].year = y}

\* The committed document with a period's key: forPeriod, and the unique index.
ForPeriodSlip(period) ==  \* looks among the unpaid ones only
  {id \in Ids : Doc(id).period = period /\ Doc(id).status = "ISSUED"}

ForPeriod(period) == {id \in Ids : Doc(id).period = period}

\* Whether the index makes c wait for another transaction's insert.
HeldUpSlip(c) == FALSE

HeldUp(c) ==
  \E d \in Callers \ {c} :
    /\ call[d].pc = "commit"
    /\ call[d].period # None
    /\ call[d].period = call[c].period

-----------------------------------------------------------------------------
(* issue.                                                                  *)

Goto(c, next) == call' = [call EXCEPT ![c] = next]

Request(c) ==
  /\ call[c].pc = "idle"
  /\ calls < MaxCalls
  /\ calls' = calls + 1

\* The financial year is read off the clock before the transaction begins.
Issue(c, period) ==
  /\ Request(c)
  /\ Goto(c, [Rest EXCEPT !.pc = "allocate", !.year = year, !.period = period])
  /\ UNCHANGED <<year, counter, book, faults>>

\* allocateSerial: one statement, which waits for the row and then locks it.
AllocateSlip(c) ==  \* outside the transaction: not undone with it
  /\ call[c].pc = "allocate"
  /\ Holders(call[c].year) = {}
  /\ counter' = [counter EXCEPT ![call[c].year] = @ + 1]
  /\ Goto(c, [call[c] EXCEPT !.pc = "create",
                             !.serial = counter[call[c].year] + 1])
  /\ UNCHANGED <<year, book, calls, faults>>

Allocate(c) ==
  /\ call[c].pc = "allocate"
  /\ Holders(call[c].year) = {}
  /\ Goto(c, [call[c] EXCEPT !.pc = "create",
                             !.serial = counter[call[c].year] + 1])
  /\ UNCHANGED <<year, counter, book, calls, faults>>

\* invoice.create: refused, with the number it had, if the period has its
\* document already.
Create(c) ==
  /\ call[c].pc = "create"
  /\ ~HeldUp(c)
  /\ IF call[c].period # None /\ ForPeriod(call[c].period) # {}
     THEN Goto(c, [call[c] EXCEPT !.pc = "recover", !.serial = 0])
     ELSE Goto(c, [call[c] EXCEPT !.pc = "commit"])
  /\ UNCHANGED <<year, counter, book, calls, faults>>

Commit(c) ==
  /\ call[c].pc = "commit"
  /\ LET y == call[c].year
         document == [serial |-> call[c].serial, period |-> call[c].period,
                      status |-> "ISSUED", against |-> call[c].against]
     IN  /\ counter' = [counter EXCEPT ![y] = call[c].serial]
         /\ book' = [book EXCEPT ![y] = Append(@, document)]
  /\ Goto(c, Rest)
  /\ UNCHANGED <<year, calls, faults>>

\* renew, refused, reads the document that won.  If there were none it would
\* raise an error: WinnerFound says it never does.
RecoverSlip(c) ==  \* tries again instead
  /\ call[c].pc = "recover"
  /\ Goto(c, [call[c] EXCEPT !.pc = "allocate"])
  /\ UNCHANGED <<year, counter, book, calls, faults>>

Recover(c) ==
  /\ call[c].pc = "recover"
  /\ Goto(c, Rest)
  /\ UNCHANGED <<year, counter, book, calls, faults>>

\* The connection drops, the transaction times out or the process dies: all
\* that the transaction did is undone.
Fail(c) ==
  /\ call[c].pc # "idle"
  /\ faults < MaxFaults
  /\ faults' = faults + 1
  /\ Goto(c, Rest)
  /\ UNCHANGED <<year, counter, book, calls>>

-----------------------------------------------------------------------------
(* What becomes of a document.                                             *)

\* voidInvoice reads, decides, and writes whatever has happened meanwhile.
VoidRead(c, id) ==
  /\ Request(c)
  /\ Doc(id).status = "ISSUED"
  /\ Goto(c, [Rest EXCEPT !.pc = "void", !.against = id])
  /\ UNCHANGED <<year, counter, book, faults>>

VoidWrite(c) ==
  /\ call[c].pc = "void"
  /\ LET id == call[c].against
     IN  book' = [book EXCEPT ![id[1]][id[2]].status = "VOID"]
  /\ Goto(c, Rest)
  /\ UNCHANGED <<year, counter, calls, faults>>

\* creditNoteFor reads the invoice, decides, and issues a document of its own
\* against it, in the same sequence and without a period.
CreditNote(c, id) ==
  /\ Request(c)
  /\ Doc(id).status # "VOID"
  /\ Doc(id).against = None
  /\ Goto(c, [Rest EXCEPT !.pc = "allocate", !.year = year, !.against = id])
  /\ UNCHANGED <<year, counter, book, faults>>

\* There is no payment gateway yet: nothing in the program does this.
Pay(id) ==
  /\ calls < MaxCalls
  /\ calls' = calls + 1
  /\ Doc(id).status = "ISSUED"
  /\ book' = [book EXCEPT ![id[1]][id[2]].status = "PAID"]
  /\ UNCHANGED <<year, counter, call, faults>>

NewYear ==
  /\ year < LastYear
  /\ year' = year + 1
  /\ UNCHANGED <<counter, book, call, calls, faults>>

Step(c) == Allocate(c) \/ Create(c) \/ Commit(c) \/ Recover(c) \/ VoidWrite(c)

Next ==
  \/ \E c \in Callers :
       \/ Step(c)
       \/ Fail(c)
       \/ \E period \in Periods \cup {None} : Issue(c, period)
       \/ \E id \in Ids : VoidRead(c, id) \/ CreditNote(c, id)
  \/ \E id \in Ids : Pay(id)
  \/ NewYear

Spec == Init /\ [][Next]_vars

\* The event loop runs every request on, and PostgreSQL grants a row lock, in
\* the end, to each transaction that waits for it.
FairSpec == Spec /\ \A c \in Callers : SF_vars(Step(c))

-----------------------------------------------------------------------------
(* Safety.                                                                 *)

\* What auditSequence reports of a year, were it run now.
Serials(y) == {book[y][n].serial : n \in DOMAIN book[y]}

Highest(y) ==
  CHOOSE top \in Serials(y) \cup {0} : \A n \in Serials(y) : n <= top

Missing(y) == (1..Highest(y)) \ Serials(y)

Duplicates(y) ==
  {m \in DOMAIN book[y] : \E n \in DOMAIN book[y] :
     n < m /\ book[y][n].serial = book[y][m].serial}

\* The audit finds nothing, whenever it is run: no failure, refusal or race
\* leaves a gap in a year's numbers or uses one twice.
AuditClean == \A y \in Years : Missing(y) = {} /\ Duplicates(y) = {}

\* A period has one document, although two transactions of different years do
\* not wait for each other's number.
OneDocumentPerPeriod ==
  \A i, j \in Ids :
    Doc(i).period = Doc(j).period /\ Doc(i).period # None => i = j

\* A renewal that was refused finds the document that won, so the error renew
\* raises when it does not is never raised.
WinnerFound ==
  \A c \in Callers : call[c].pc = "recover" => ForPeriod(call[c].period) # {}

\* Each year's documents are entered in the order of their numbers: without
\* the transactions, this is a SerialBook.
Entries == [y \in Years |-> [n \in DOMAIN book[y] |-> book[y][n].serial]]

Book == INSTANCE SerialBook WITH entries <- Entries

NumberedInOrder == Book!Spec

\* The strengthening that makes these inductive: the counter is the number of
\* the last document, an open transaction holds the number after it, alone.
Numbering ==
  \A y \in Years :
    /\ counter[y] = Len(book[y])
    /\ \A n \in DOMAIN book[y] : book[y][n].serial = n

OneHolder ==
  \A c, d \in Callers :
    /\ call[c].pc \in {"create", "commit"}
    /\ call[d].pc \in {"create", "commit"}
    /\ call[c].year = call[d].year
    => c = d

HoldsNext ==
  \A c \in Callers :
    call[c].pc \in {"create", "commit"} =>
      call[c].serial = counter[call[c].year] + 1

\* An inserted period is nobody else's, committed or not.
InsertedOnce ==
  \A c \in Callers :
    call[c].pc = "commit" /\ call[c].period # None =>
      /\ ForPeriod(call[c].period) = {}
      /\ ~HeldUp(c)

VoidsADocument ==
  \A c \in Callers : call[c].pc = "void" => call[c].against \in Ids

RecoversAPeriod ==
  \A c \in Callers : call[c].pc = "recover" => call[c].period # None

LedgerInv ==
  /\ TypeOK
  /\ Numbering
  /\ OneHolder
  /\ HoldsNext
  /\ InsertedOnce
  /\ VoidsADocument
  /\ RecoversAPeriod
  /\ OneDocumentPerPeriod
  /\ WinnerFound

-----------------------------------------------------------------------------
(* Liveness.                                                               *)

\* No request waits for ever: whoever waits for a year or for a period is let
\* on by the transaction it waits for.
EveryCallEnds ==
  \A c \in Callers : call[c].pc # "idle" ~> call[c].pc = "idle"
=============================================================================
