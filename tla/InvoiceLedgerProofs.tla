------------------------ MODULE InvoiceLedgerProofs ------------------------
(***************************************************************************)
(* What holds of InvoiceLedger for any number of requests, periods, years  *)
(* and failures.  The argument: a step either leaves every document its    *)
(* place and its period and opens no transaction (QuietStep), or it is one *)
(* of the three steps of a transaction, each with a lemma of its own.      *)
(***************************************************************************)
EXTENDS InvoiceLedger, SequenceTheorems, TLAPS

(* Documents and their identities.                                         *)

LEMMA IdFacts ==
  ASSUME TypeOK, NEW id \in Ids
  PROVE  /\ id[1] \in Years /\ id[2] \in DOMAIN book[id[1]]
         /\ id \in Nat \X Nat
         /\ Doc(id) \in Document
<1>1. PICK y \in Years : id \in {y} \X DOMAIN book[y]
  BY DEF Ids
<1>2. book[y] \in Seq(Document) /\ y \in Nat
  BY DEF TypeOK, Years
<1>3. PICK n \in DOMAIN book[y] : id = <<y, n>>
  BY <1>1
<1>4. n \in Nat /\ book[y][n] \in Document
  BY <1>2, <1>3
<1>5. QED
  BY <1>2, <1>3, <1>4 DEF Doc

LEMMA PlaceIsId ==
  ASSUME NEW y \in Years, NEW n \in DOMAIN book[y]
  PROVE  <<y, n>> \in Ids /\ Doc(<<y, n>>) = book[y][n]
  BY DEF Ids, Doc

\* A status overwritten moves no document and changes no number or period.
LEMMA MarkedBook ==
  ASSUME TypeOK, NEW id \in Ids, NEW v \in {"PAID", "VOID"},
         book' = [book EXCEPT ![id[1]][id[2]].status = v]
  PROVE  /\ book' \in [Years -> Seq(Document)]
         /\ Ids' = Ids
         /\ \A i \in Ids : /\ Doc(i)'.period = Doc(i).period
                           /\ Doc(i)'.serial = Doc(i).serial
         /\ \A y \in Years : Len(book'[y]) = Len(book[y])
<1> DEFINE z == id[1]
           m == id[2]
           marked == [book[z] EXCEPT ![m] = [@ EXCEPT !.status = v]]
<1>1. z \in Years /\ m \in DOMAIN book[z] /\ book \in [Years -> Seq(Document)]
  BY IdFacts DEF TypeOK
<1>2. book[z] \in Seq(Document) /\ book[z][m] \in Document
  BY <1>1
<1>3. [book[z][m] EXCEPT !.status = v] \in Document
  BY <1>2 DEF Document
<1>4. /\ marked \in Seq(Document)
      /\ Len(marked) = Len(book[z])
      /\ DOMAIN marked = DOMAIN book[z]
  BY <1>1, <1>2, <1>3
<1>5. book' = [book EXCEPT ![z] = marked]
  BY <1>1
<1>6. book' \in [Years -> Seq(Document)]
  BY <1>1, <1>4, <1>5
<1>7. \A y \in Years : /\ DOMAIN book'[y] = DOMAIN book[y]
                       /\ Len(book'[y]) = Len(book[y])
  BY <1>1, <1>4, <1>5
<1>8. Ids' = Ids
  BY <1>7 DEF Ids
<1>9. ASSUME NEW y \in Years, NEW n \in DOMAIN book[y]
      PROVE  /\ book'[y][n].period = book[y][n].period
             /\ book'[y][n].serial = book[y][n].serial
  BY <1>1, <1>2, <1>5 DEF Document
<1>10. ASSUME NEW i \in Ids
       PROVE  Doc(i)'.period = Doc(i).period /\ Doc(i)'.serial = Doc(i).serial
  BY <1>9, IdFacts DEF Doc
<1>11. QED
  BY <1>6, <1>7, <1>8, <1>10

\* A document entered is one more, at the end of its year.
LEMMA AppendedBook ==
  ASSUME TypeOK, NEW z \in Years, NEW d \in Document,
         NEW last, last = Len(book[z]) + 1,
         book' = [book EXCEPT ![z] = Append(@, d)]
  PROVE  /\ book' \in [Years -> Seq(Document)]
         /\ Ids' = Ids \cup {<<z, last>>}
         /\ \A i \in Ids : Doc(i)' = Doc(i)
         /\ Doc(<<z, last>>)' = d
<1> DEFINE longer == Append(book[z], d)
<1>1. book \in [Years -> Seq(Document)] /\ book[z] \in Seq(Document)
  BY DEF TypeOK
<1>2. /\ longer \in Seq(Document)
      /\ DOMAIN longer = DOMAIN book[z] \cup {last}
      /\ longer[last] = d
      /\ \A n \in DOMAIN book[z] : longer[n] = book[z][n]
  BY <1>1
<1>3. book' = [book EXCEPT ![z] = longer]
  BY <1>1
<1> HIDE DEF longer
<1>4. book' \in [Years -> Seq(Document)]
  BY <1>1, <1>2, <1>3
<1>5. \A y \in Years : DOMAIN book'[y]
        = IF y = z THEN DOMAIN book[y] \cup {last} ELSE DOMAIN book[y]
  BY <1>1, <1>2, <1>3
<1>6. Ids' = Ids \cup {<<z, last>>}
  <2>1. ASSUME NEW i
        PROVE  i \in Ids' <=> i \in Ids \/ i = <<z, last>>
    <3>1. i \in Ids' <=> \E y \in Years : \E n \in DOMAIN book'[y] : i = <<y, n>>
      BY DEF Ids
    <3>2. i \in Ids <=> \E y \in Years : \E n \in DOMAIN book[y] : i = <<y, n>>
      BY DEF Ids
    <3>3. QED
      BY <1>5, <3>1, <3>2
  <2>2. QED
    BY <2>1
<1>7. ASSUME NEW i \in Ids
      PROVE  Doc(i)' = Doc(i)
  <2>1. i[1] \in Years /\ i[2] \in DOMAIN book[i[1]]
    BY IdFacts
  <2>2. \A y \in Years : book'[y] = IF y = z THEN longer ELSE book[y]
    BY <1>1, <1>3
  <2>3. book'[i[1]][i[2]] = book[i[1]][i[2]]
    BY <1>2, <2>1, <2>2
  <2>4. QED
    BY <2>3 DEF Doc
<1>8. Doc(<<z, last>>)' = d
  BY <1>1, <1>2, <1>3 DEF Doc
<1>9. QED
  BY <1>4, <1>6, <1>7, <1>8

-----------------------------------------------------------------------------
(* Steps that open no transaction.                                         *)

\* Every document keeps its place, its number and its period.
Kept ==
  /\ Ids' = Ids
  /\ \A i \in Ids : /\ Doc(i)'.period = Doc(i).period
                    /\ Doc(i)'.serial = Doc(i).serial
  /\ \A y \in Years : Len(book'[y]) = Len(book[y])
  /\ book' \in [Years -> Seq(Document)]

\* A request stays where it is, or goes where it holds nothing.
Quiet(d) ==
  \/ call'[d] = call[d]
  \/ call'[d].pc \in {"idle", "allocate"}
  \/ call'[d].pc = "void" /\ call'[d].against \in Ids

LEMMA UnchangedIsKept ==
  ASSUME TypeOK, UNCHANGED book
  PROVE  Kept
  BY DEF TypeOK, Kept, Ids, Doc

LEMMA KeptForPeriod ==
  ASSUME Kept, NEW p
  PROVE  ForPeriod(p)' = ForPeriod(p)
  BY DEF Kept, ForPeriod

LEMMA KeptNumbering ==
  ASSUME TypeOK, Numbering, Kept, UNCHANGED counter
  PROVE  Numbering'
<1> SUFFICES ASSUME NEW y \in Years
             PROVE  /\ counter'[y] = Len(book'[y])
                    /\ \A n \in DOMAIN book'[y] : book'[y][n].serial = n
  BY DEF Numbering
<1>1. counter'[y] = Len(book'[y])
  BY DEF Numbering, Kept
<1>2. DOMAIN book'[y] = DOMAIN book[y]
  BY DEF TypeOK, Kept
<1>3. ASSUME NEW n \in DOMAIN book[y]
      PROVE  book'[y][n].serial = n
  <2>1. <<y, n>> \in Ids /\ Doc(<<y, n>>) = book[y][n]
    BY PlaceIsId
  <2>2. Doc(<<y, n>>)' = book'[y][n]
    BY DEF Doc
  <2>3. book[y][n].serial = n
    BY DEF Numbering
  <2>4. QED
    BY <2>1, <2>2, <2>3 DEF Kept
<1>4. QED
  BY <1>1, <1>2, <1>3

LEMMA QuietStep ==
  ASSUME LedgerInv, TypeOK', Kept, UNCHANGED counter,
         \A d \in Callers : Quiet(d)
  PROVE  LedgerInv'
<1> USE DEF LedgerInv
<1>1. Numbering'
  BY KeptNumbering
<1>2. \A p : ForPeriod(p)' = ForPeriod(p)
  BY KeptForPeriod
<1>3. OneHolder'
  BY DEF OneHolder, Quiet
<1>4. HoldsNext'
  BY DEF HoldsNext, Quiet
<1>5. InsertedOnce'
  <2> SUFFICES ASSUME NEW c \in Callers,
                      call'[c].pc = "commit", call'[c].period # None
               PROVE  /\ \A i \in Ids' : Doc(i)'.period # call'[c].period
                      /\ ~HeldUp(c)'
    BY DEF InsertedOnce, ForPeriod
  <2>1. call'[c] = call[c]
    BY DEF Quiet
  <2>2. (\A i \in Ids : Doc(i).period # call[c].period) /\ ~HeldUp(c)
    BY <2>1 DEF InsertedOnce, ForPeriod
  <2>3. \A d \in Callers : call'[d].pc = "commit" => call'[d] = call[d]
    BY DEF Quiet
  <2>4. QED
    BY <2>1, <2>2, <2>3 DEF HeldUp, Kept
<1>6. VoidsADocument'
  BY DEF VoidsADocument, Quiet, Kept
<1>7. RecoversAPeriod'
  BY DEF RecoversAPeriod, Quiet
<1>8. OneDocumentPerPeriod'
  BY DEF OneDocumentPerPeriod, Kept
<1>9. WinnerFound'
  BY <1>2 DEF WinnerFound, Quiet, ForPeriod
<1>10. QED
  BY <1>1, <1>3, <1>4, <1>5, <1>6, <1>7, <1>8, <1>9

LEMMA RestIsCall == LedgerAssumption => Rest \in Call
  BY DEF LedgerAssumption, Rest, Call, Years

LEMMA GotoFacts ==
  ASSUME TypeOK, NEW c \in Callers, NEW next \in Call, Goto(c, next)
  PROVE  /\ call' \in [Callers -> Call]
         /\ \A d \in Callers : call'[d] = IF d = c THEN next ELSE call[d]
  BY DEF TypeOK, Goto

LEMMA QuietGoto ==
  ASSUME TypeOK, NEW c \in Callers, NEW next \in Call, Goto(c, next),
         \/ next.pc \in {"idle", "allocate"}
         \/ next.pc = "void" /\ next.against \in Ids
  PROVE  /\ call' \in [Callers -> Call]
         /\ \A d \in Callers : Quiet(d)
  BY GotoFacts DEF Quiet

LEMMA IssueStep ==
  ASSUME LedgerAssumption, LedgerInv, NEW c \in Callers,
         NEW period \in Periods \cup {None}, Issue(c, period)
  PROVE  LedgerInv'
<1> USE DEF LedgerInv
<1> DEFINE next ==
      [Rest EXCEPT !.pc = "allocate", !.year = year, !.period = period]
<1>1. next \in Call /\ next.pc = "allocate"
  BY RestIsCall DEF Rest, Call, TypeOK
<1>2. Goto(c, next) /\ UNCHANGED <<year, counter, book, faults>>
  BY DEF Issue
<1> HIDE DEF next
<1>3. call' \in [Callers -> Call] /\ \A d \in Callers : Quiet(d)
  BY <1>1, <1>2, QuietGoto
<1>4. TypeOK'
  BY <1>2, <1>3 DEF Issue, Request, TypeOK, Years
<1>5. QED
  BY <1>2, <1>3, <1>4, QuietStep, UnchangedIsKept

LEMMA CreditNoteStep ==
  ASSUME LedgerAssumption, LedgerInv, NEW c \in Callers, NEW id \in Ids,
         CreditNote(c, id)
  PROVE  LedgerInv'
<1> USE DEF LedgerInv
<1> DEFINE next ==
      [Rest EXCEPT !.pc = "allocate", !.year = year, !.against = id]
<1>1. next \in Call /\ next.pc = "allocate"
  BY RestIsCall, IdFacts DEF Rest, Call, TypeOK
<1>2. Goto(c, next) /\ UNCHANGED <<year, counter, book, faults>>
  BY DEF CreditNote
<1> HIDE DEF next
<1>3. call' \in [Callers -> Call] /\ \A d \in Callers : Quiet(d)
  BY <1>1, <1>2, QuietGoto
<1>4. TypeOK'
  BY <1>2, <1>3 DEF CreditNote, Request, TypeOK, Years
<1>5. QED
  BY <1>2, <1>3, <1>4, QuietStep, UnchangedIsKept

LEMMA VoidReadStep ==
  ASSUME LedgerAssumption, LedgerInv, NEW c \in Callers, NEW id \in Ids,
         VoidRead(c, id)
  PROVE  LedgerInv'
<1> USE DEF LedgerInv
<1> DEFINE next == [Rest EXCEPT !.pc = "void", !.against = id]
<1>1. next \in Call /\ next.pc = "void" /\ next.against \in Ids
  BY RestIsCall, IdFacts DEF Rest, Call
<1>2. Goto(c, next) /\ UNCHANGED <<year, counter, book, faults>>
  BY DEF VoidRead
<1> HIDE DEF next
<1>3. call' \in [Callers -> Call] /\ \A d \in Callers : Quiet(d)
  BY <1>1, <1>2, QuietGoto
<1>4. TypeOK'
  BY <1>2, <1>3 DEF VoidRead, Request, TypeOK, Years
<1>5. QED
  BY <1>2, <1>3, <1>4, QuietStep, UnchangedIsKept

LEMMA VoidWriteStep ==
  ASSUME LedgerAssumption, LedgerInv, NEW c \in Callers, VoidWrite(c)
  PROVE  LedgerInv'
<1> USE DEF LedgerInv
<1>1. /\ call[c].against \in Ids
      /\ Goto(c, Rest) /\ UNCHANGED <<year, counter, calls, faults>>
  BY DEF VoidWrite, VoidsADocument
<1>2. Kept
  BY <1>1, MarkedBook DEF VoidWrite, Kept
<1>3. call' \in [Callers -> Call] /\ \A d \in Callers : Quiet(d)
  BY <1>1, RestIsCall, QuietGoto DEF Rest
<1>4. TypeOK'
  BY <1>1, <1>2, <1>3 DEF Kept, TypeOK, Years
<1>5. QED
  BY <1>1, <1>2, <1>3, <1>4, QuietStep

\* Recover and Fail.
LEMMA EndsStep ==
  ASSUME LedgerAssumption, LedgerInv, NEW c \in Callers, Recover(c) \/ Fail(c)
  PROVE  LedgerInv'
<1> USE DEF LedgerInv
<1>1. /\ Goto(c, Rest) /\ UNCHANGED <<year, counter, book, calls>>
      /\ faults' \in Nat
  BY DEF Recover, Fail, TypeOK
<1>2. call' \in [Callers -> Call] /\ \A d \in Callers : Quiet(d)
  BY <1>1, RestIsCall, QuietGoto DEF Rest
<1>3. TypeOK'
  BY <1>1, <1>2 DEF TypeOK, Years
<1>4. QED
  BY <1>1, <1>2, <1>3, QuietStep, UnchangedIsKept

LEMMA PayStep ==
  ASSUME LedgerInv, NEW id \in Ids, Pay(id)
  PROVE  LedgerInv'
<1> USE DEF LedgerInv
<1>1. Kept
  BY MarkedBook DEF Pay, Kept
<1>2. TypeOK'
  BY <1>1 DEF Pay, Kept, TypeOK, Years
<1>3. QED
  BY <1>1, <1>2, QuietStep DEF Pay, Quiet

\* The clock, and a step of somebody else.
LEMMA IdleStep ==
  ASSUME LedgerAssumption, LedgerInv, NewYear \/ UNCHANGED vars
  PROVE  LedgerInv'
<1> USE DEF LedgerInv
<1>1. UNCHANGED <<counter, book, call, calls, faults>> /\ year' \in Years
  BY DEF NewYear, vars, TypeOK, Years, LedgerAssumption
<1>2. TypeOK'
  BY <1>1 DEF TypeOK, Years
<1>3. QED
  BY <1>1, <1>2, QuietStep, UnchangedIsKept DEF Quiet

-----------------------------------------------------------------------------
(* The steps of a transaction.                                             *)

\* A number is taken only when no other transaction of the year is open.
LEMMA AllocateStep ==
  ASSUME LedgerInv, NEW c \in Callers, Allocate(c)
  PROVE  LedgerInv'
<1> USE DEF LedgerInv
<1> DEFINE next == [call[c] EXCEPT !.pc = "create",
                                   !.serial = counter[call[c].year] + 1]
<1>0. call[c] \in Call /\ call[c].pc = "allocate"
  BY DEF TypeOK, Allocate
<1>1. /\ next \in Call
      /\ next.pc = "create"
      /\ next.year = call[c].year
      /\ next.serial = counter[call[c].year] + 1
  <2>1. counter[call[c].year] + 1 \in Nat
    BY <1>0 DEF Call, TypeOK
  <2>2. QED
    BY <1>0, <2>1 DEF Call
<1>2. /\ Goto(c, next) /\ UNCHANGED <<year, counter, book, calls, faults>>
      /\ Holders(call[c].year) = {}
  BY DEF Allocate
<1> HIDE DEF next
<1>3. /\ call' \in [Callers -> Call]
      /\ \A d \in Callers : call'[d] = IF d = c THEN next ELSE call[d]
  BY <1>1, <1>2, GotoFacts
<1>4. Kept
  BY <1>2, UnchangedIsKept
<1>5. TypeOK'
  BY <1>2, <1>3 DEF TypeOK, Years
<1>6. Numbering'
  BY <1>2, <1>4, KeptNumbering
<1>7. OneHolder'
  BY <1>1, <1>2, <1>3 DEF OneHolder, Holders
<1>8. HoldsNext'
  BY <1>1, <1>2, <1>3 DEF HoldsNext
<1>9. \A d \in Callers : call'[d].pc # "create" => call'[d] = call[d]
  BY <1>1, <1>3
<1>10. InsertedOnce' /\ WinnerFound'
  <2>1. \A d \in Callers : call'[d].pc = "commit" /\ call'[d].period # None =>
          (\A i \in Ids : Doc(i).period # call'[d].period) /\ ~HeldUp(d)'
    BY <1>9 DEF InsertedOnce, ForPeriod, HeldUp
  <2>2. \A d \in Callers : call'[d].pc = "recover" =>
          \E i \in Ids : Doc(i).period = call'[d].period
    BY <1>9 DEF WinnerFound, ForPeriod
  <2>3. QED
    BY <1>4, <2>1, <2>2 DEF InsertedOnce, WinnerFound, ForPeriod, Kept
<1>11. VoidsADocument' /\ RecoversAPeriod'
  BY <1>4, <1>9 DEF VoidsADocument, RecoversAPeriod, Kept
<1>12. OneDocumentPerPeriod'
  BY <1>4 DEF OneDocumentPerPeriod, Kept
<1>13. QED
  BY <1>5, <1>6, <1>7, <1>8, <1>10, <1>11, <1>12

\* An insert is refused for a document that is there, or is the only one of
\* its period, committed or not.
LEMMA CreateStep ==
  ASSUME LedgerInv, NEW c \in Callers, Create(c)
  PROVE  LedgerInv'
<1> USE DEF LedgerInv
<1> DEFINE refused == call[c].period # None /\ ForPeriod(call[c].period) # {}
           next == IF refused
                   THEN [call[c] EXCEPT !.pc = "recover", !.serial = 0]
                   ELSE [call[c] EXCEPT !.pc = "commit"]
<1>0. call[c] \in Call /\ call[c].pc = "create"
  BY DEF TypeOK, Create
<1>1. /\ next \in Call
      /\ next.pc = IF refused THEN "recover" ELSE "commit"
      /\ next.year = call[c].year
      /\ next.period = call[c].period
      /\ ~refused => next.serial = call[c].serial
  BY <1>0 DEF Call
<1>2. /\ Goto(c, next) /\ UNCHANGED <<year, counter, book, calls, faults>>
      /\ ~HeldUp(c)
  BY DEF Create
<1>3. refused <=> /\ call[c].period # None
                  /\ \E i \in Ids : Doc(i).period = call[c].period
  BY DEF ForPeriod
<1> HIDE DEF next, refused
<1>4. /\ call' \in [Callers -> Call]
      /\ \A d \in Callers : call'[d] = IF d = c THEN next ELSE call[d]
  BY <1>1, <1>2, GotoFacts
<1>5. Kept
  BY <1>2, UnchangedIsKept
<1>6. TypeOK'
  BY <1>2, <1>4 DEF TypeOK, Years
<1>7. Numbering'
  BY <1>2, <1>5, KeptNumbering
<1>8. OneHolder'
  BY <1>0, <1>1, <1>4 DEF OneHolder
<1>9. HoldsNext'
  BY <1>0, <1>1, <1>2, <1>4 DEF HoldsNext
<1>10. InsertedOnce'
  <2>1. ASSUME NEW d \in Callers,
               call'[d].pc = "commit", call'[d].period # None
        PROVE  (\A i \in Ids : Doc(i).period # call'[d].period) /\ ~HeldUp(d)'
    <3>1. CASE d = c
      <4>1. \A i \in Ids : Doc(i).period # call'[d].period
        BY <1>1, <1>3, <1>4, <2>1, <3>1
      <4>2. ~HeldUp(d)'
        BY <1>1, <1>2, <1>4, <3>1 DEF HeldUp
      <4>3. QED
        BY <4>1, <4>2
    <3>2. CASE d # c
      <4>1. call'[d] = call[d]
        BY <1>4, <3>2
      <4>2. (\A i \in Ids : Doc(i).period # call[d].period) /\ ~HeldUp(d)
        BY <2>1, <4>1 DEF InsertedOnce, ForPeriod
      <4>3. call[c].period # call[d].period
        BY <1>2, <2>1, <3>2, <4>1 DEF HeldUp
      <4>4. ~HeldUp(d)'
        BY <1>1, <1>4, <4>1, <4>2, <4>3 DEF HeldUp
      <4>5. QED
        BY <4>1, <4>2, <4>4
    <3>3. QED
      BY <3>1, <3>2
  <2>2. QED
    BY <1>5, <2>1 DEF InsertedOnce, ForPeriod, Kept
<1>11. WinnerFound'
  <2>1. \A d \in Callers : call'[d].pc = "recover" =>
          \E i \in Ids : Doc(i).period = call'[d].period
    BY <1>1, <1>3, <1>4 DEF WinnerFound, ForPeriod
  <2>2. QED
    BY <1>5, <2>1 DEF WinnerFound, ForPeriod, Kept
<1>12. VoidsADocument'
  BY <1>1, <1>4, <1>5 DEF VoidsADocument, Kept
<1>13. RecoversAPeriod'
  BY <1>1, <1>3, <1>4 DEF RecoversAPeriod
<1>14. OneDocumentPerPeriod'
  BY <1>5 DEF OneDocumentPerPeriod, Kept
<1>15. QED
  BY <1>6, <1>7, <1>8, <1>9, <1>10, <1>11, <1>12, <1>13, <1>14

\* What is entered is the next number, and the first document of its period.
LEMMA CommitStep ==
  ASSUME LedgerAssumption, LedgerInv, NEW c \in Callers, Commit(c)
  PROVE  LedgerInv'
<1> USE DEF LedgerInv
<1> DEFINE y == call[c].year
           document == [serial |-> call[c].serial, period |-> call[c].period,
                        status |-> "ISSUED", against |-> call[c].against]
           last == Len(book[y]) + 1
<1>0. /\ call[c] \in Call /\ call[c].pc = "commit"
      /\ y \in Years /\ book[y] \in Seq(Document)
  BY DEF TypeOK, Commit, Call
<1>1. document \in Document
  BY <1>0 DEF Document, Call
<1>2. call[c].serial = last /\ last \in Nat /\ counter[y] = Len(book[y])
  BY <1>0 DEF HoldsNext, Numbering
<1>3. /\ counter' = [counter EXCEPT ![y] = last]
      /\ book' = [book EXCEPT ![y] = Append(@, document)]
      /\ Goto(c, Rest) /\ UNCHANGED <<year, calls, faults>>
  BY <1>2 DEF Commit
<1>4. /\ call' \in [Callers -> Call]
      /\ \A d \in Callers : call'[d] = IF d = c THEN Rest ELSE call[d]
  BY <1>3, GotoFacts, RestIsCall
<1>5. /\ document.serial = last
      /\ document.period = call[c].period
  BY <1>2
\* Names for their values, which the next state does not change.
<1>6. PICK e : e = document /\ e \in Document
  BY <1>1
<1>7. PICK z : z = y
  OBVIOUS
<1>8. PICK l : l = last
  OBVIOUS
<1>9. /\ book' \in [Years -> Seq(Document)]
      /\ Ids' = Ids \cup {<<z, l>>}
      /\ \A i \in Ids : Doc(i)' = Doc(i)
      /\ Doc(<<z, l>>)' = e
  <2>1. z \in Years /\ l = Len(book[z]) + 1
    BY <1>0, <1>7, <1>8
  <2>2. book' = [book EXCEPT ![z] = Append(@, e)]
    BY <1>3, <1>6, <1>7
  <2> HIDE DEF y, document, last
  <2>3. QED
    BY <1>6, <2>1, <2>2, AppendedBook
<1>10. \A d \in Callers :
         call'[d].pc # "idle" => call'[d] = call[d] /\ d # c
  BY <1>4 DEF Rest
<1>11. TypeOK'
  BY <1>0, <1>2, <1>3, <1>4, <1>9 DEF TypeOK, Years
<1>12. Numbering'
  <2>1. ASSUME NEW x \in Years
        PROVE  /\ counter'[x] = Len(book'[x])
               /\ \A n \in DOMAIN book'[x] : book'[x][n].serial = n
    <3>1. CASE x = y
      <4>1. book'[x] = Append(book[y], document)
        BY <1>0, <1>3, <3>1 DEF TypeOK
      <4>2. \A n \in DOMAIN book[y] : book[y][n].serial = n
        BY <1>0 DEF Numbering
      <4>3. counter'[x] = last
        BY <1>0, <1>3, <3>1 DEF TypeOK
      <4> HIDE DEF document
      <4>4. QED
        BY <1>0, <1>1, <1>5, <4>1, <4>2, <4>3
    <3>2. CASE x # y
      BY <1>3, <3>2 DEF Numbering, TypeOK
    <3>3. QED
      BY <3>1, <3>2
  <2>2. QED
    BY <2>1 DEF Numbering
<1>13. OneHolder'
  BY <1>10 DEF OneHolder
<1>14. HoldsNext'
  <2>1. ASSUME NEW d \in Callers, call'[d].pc \in {"create", "commit"}
        PROVE  call'[d].serial = counter'[call'[d].year] + 1
    <3>1. call'[d] = call[d] /\ d # c
      BY <1>10, <2>1
    <3>2. call[d].year # y
      BY <1>0, <2>1, <3>1 DEF OneHolder
    <3>3. counter'[call[d].year] = counter[call[d].year]
      BY <1>3, <3>2 DEF TypeOK, Call
    <3>4. QED
      BY <2>1, <3>1, <3>3 DEF HoldsNext
  <2>2. QED
    BY <2>1 DEF HoldsNext
<1>15. InsertedOnce'
  <2>1. ASSUME NEW d \in Callers,
               call'[d].pc = "commit", call'[d].period # None
        PROVE  /\ \A i \in Ids' : Doc(i)'.period # call'[d].period
               /\ ~HeldUp(d)'
    <3>1. call'[d] = call[d] /\ d # c
      BY <1>10, <2>1
    <3>2. (\A i \in Ids : Doc(i).period # call[d].period) /\ ~HeldUp(d)
      BY <2>1, <3>1 DEF InsertedOnce, ForPeriod
    <3>3. e.period # call[d].period
      BY <1>0, <1>5, <1>6, <2>1, <3>1, <3>2 DEF HeldUp
    <3>4. ~HeldUp(d)'
      BY <1>10, <3>1, <3>2 DEF HeldUp
    <3>5. QED
      BY <1>9, <3>1, <3>2, <3>3, <3>4
  <2>2. QED
    BY <2>1 DEF InsertedOnce, ForPeriod
<1>16. VoidsADocument'
  BY <1>9, <1>10 DEF VoidsADocument
<1>17. RecoversAPeriod'
  BY <1>10 DEF RecoversAPeriod
<1>18. OneDocumentPerPeriod'
  <2>1. e.period # None => \A i \in Ids : Doc(i).period # e.period
    BY <1>0, <1>5, <1>6 DEF InsertedOnce, ForPeriod
  <2>2. ASSUME NEW i \in Ids', NEW j \in Ids',
               Doc(i)'.period = Doc(j)'.period, Doc(i)'.period # None
        PROVE  i = j
    <3>1. CASE i \in Ids /\ j \in Ids
      BY <1>9, <2>2, <3>1 DEF OneDocumentPerPeriod
    <3>2. CASE i \in Ids /\ j = <<z, l>>
      BY <1>9, <2>1, <2>2, <3>2
    <3>3. CASE i = <<z, l>> /\ j \in Ids
      BY <1>9, <2>1, <2>2, <3>3
    <3>4. QED
      BY <1>9, <3>1, <3>2, <3>3
  <2>3. QED
    BY <2>2 DEF OneDocumentPerPeriod
<1>19. WinnerFound'
  <2>1. \A d \in Callers : call'[d].pc = "recover" =>
          \E i \in Ids : Doc(i).period = call'[d].period
    BY <1>10 DEF WinnerFound, ForPeriod
  <2>2. QED
    BY <1>9, <2>1 DEF WinnerFound, ForPeriod
<1>20. QED
  BY <1>11, <1>12, <1>13, <1>14, <1>15, <1>16, <1>17, <1>18, <1>19

-----------------------------------------------------------------------------
(* The theorems.                                                           *)

LEMMA LedgerInvInit == LedgerAssumption /\ Init => LedgerInv
<1> SUFFICES ASSUME LedgerAssumption, Init PROVE LedgerInv
  OBVIOUS
<1>1. \A c \in Callers : call[c] = Rest /\ call[c].pc = "idle"
  BY DEF Init, Rest
<1>2. \A y \in Years : book[y] = <<>> /\ counter[y] = 0
  BY DEF Init
<1>3. TypeOK
  BY RestIsCall DEF Init, TypeOK, Years, LedgerAssumption
<1>4. \A id \in Ids : FALSE
  BY <1>2 DEF Ids
<1>5. QED
  BY <1>1, <1>2, <1>3, <1>4
     DEF LedgerInv, Numbering, OneHolder, HoldsNext, InsertedOnce,
         VoidsADocument, RecoversAPeriod, OneDocumentPerPeriod, WinnerFound

LEMMA LedgerInvStep ==
  LedgerAssumption /\ LedgerInv /\ [Next]_vars => LedgerInv'
  BY IssueStep, AllocateStep, CreateStep, CommitStep, EndsStep, VoidReadStep,
     VoidWriteStep, CreditNoteStep, PayStep, IdleStep DEF Next, Step

\* The parts that make the ledger's promises inductive hold together in every
\* reachable state: numbers follow the counter, an open transaction holds the
\* next one alone, an inserted period is nobody else's.
THEOREM LedgerSound == Spec => []LedgerInv
<1>1. LedgerAssumption
  BY LedgerAssumption
<1>2. QED
  BY <1>1, LedgerInvInit, LedgerInvStep, PTL DEF Spec

\* allocateSerial's row lock and the unique index leave each period of a
\* subscription one document, however many requests race for it.
THEOREM PeriodBilledOnce == Spec => []OneDocumentPerPeriod
<1>1. LedgerInv => OneDocumentPerPeriod
  BY DEF LedgerInv
<1>2. QED
  BY <1>1, LedgerSound, PTL

\* The error renew raises when it was refused and finds no winner is dead code.
THEOREM WinnerAlwaysFound == Spec => []WinnerFound
<1>1. LedgerInv => WinnerFound
  BY DEF LedgerInv
<1>2. QED
  BY <1>1, LedgerSound, PTL

LEMMA NumberingIsClean ==
  ASSUME TypeOK, Numbering
  PROVE  AuditClean
<1> SUFFICES ASSUME NEW y \in Years
             PROVE  Missing(y) = {} /\ Duplicates(y) = {}
  BY DEF AuditClean
<1> DEFINE last == Len(book[y])
<1>1. last \in Nat /\ DOMAIN book[y] = 1..last
  BY DEF TypeOK
<1>2. \A n \in DOMAIN book[y] : book[y][n].serial = n
  BY DEF Numbering
<1> HIDE DEF last
<1>3. Serials(y) = 1..last
  BY <1>1, <1>2 DEF Serials
<1>4. Highest(y) = last
  <2>1. last \in Serials(y) \cup {0} /\ \A n \in Serials(y) : n <= last
    BY <1>1, <1>3
  <2>2. ASSUME NEW top \in Serials(y) \cup {0}, \A n \in Serials(y) : n <= top
        PROVE  top = last
    BY <1>1, <1>3, <2>2
  <2>3. QED
    BY <2>1, <2>2 DEF Highest
<1>5. Missing(y) = {}
  BY <1>3, <1>4 DEF Missing
<1>6. Duplicates(y) = {}
  BY <1>1, <1>2 DEF Duplicates
<1>7. QED
  BY <1>5, <1>6

\* auditSequence, run at any moment, reports neither a gap nor a duplicate.
THEOREM AuditAlwaysClean == Spec => []AuditClean
<1>1. LedgerInv => AuditClean
  BY NumberingIsClean DEF LedgerInv
<1>2. QED
  BY <1>1, LedgerSound, PTL

(* The ledger implements the book of numbers.                              *)

LEMMA KeptEntries ==
  ASSUME TypeOK, Kept
  PROVE  Entries' = Entries
<1>1. \A y \in Years : DOMAIN book'[y] = DOMAIN book[y]
  BY DEF TypeOK, Kept
<1>2. ASSUME NEW y \in Years, NEW n \in DOMAIN book[y]
      PROVE  book'[y][n].serial = book[y][n].serial
  <2>1. <<y, n>> \in Ids /\ Doc(<<y, n>>) = book[y][n]
    BY PlaceIsId
  <2>2. Doc(<<y, n>>)' = book'[y][n]
    BY DEF Doc
  <2>3. QED
    BY <2>1, <2>2 DEF Kept
<1>3. QED
  BY <1>1, <1>2 DEF Entries

LEMMA CommitEnters ==
  ASSUME LedgerInv, NEW c \in Callers, Commit(c)
  PROVE  Book!Enter(call[c].year)
<1> USE DEF LedgerInv
<1> DEFINE y == call[c].year
           document == [serial |-> call[c].serial, period |-> call[c].period,
                        status |-> "ISSUED", against |-> call[c].against]
           last == Len(book[y]) + 1
           entered == [n \in DOMAIN book[y] |-> book[y][n].serial]
           longer == Append(book[y], document)
<1>1. /\ y \in Years /\ book[y] \in Seq(Document) /\ last \in Nat
      /\ DOMAIN book[y] = 1..Len(book[y])
  BY DEF TypeOK, Commit, Call
<1>2. document.serial = last
  BY <1>1 DEF HoldsNext, Numbering, Commit
<1>3. book' = [book EXCEPT ![y] = longer]
  BY <1>1 DEF Commit, TypeOK
<1>4. /\ DOMAIN longer = 1..last
      /\ longer[last] = document
      /\ \A n \in DOMAIN book[y] : longer[n] = book[y][n]
  BY <1>1
<1>5. entered \in Seq(Nat) /\ Len(entered) = Len(book[y])
  <2>1. \A n \in DOMAIN book[y] : book[y][n].serial \in Nat
    <3>1. \A n \in DOMAIN book[y] : book[y][n] \in Document
      BY <1>1
    <3>2. QED
      BY <3>1 DEF Document
  <2>2. Len(book[y]) \in Nat
    BY <1>1
  <2>3. entered \in [1..Len(book[y]) -> Nat]
    BY <1>1, <2>1
  <2> HIDE DEF entered
  <2>4. QED
    BY <2>2, <2>3
<1>6. [n \in DOMAIN longer |-> longer[n].serial]
        = Append(entered, Len(entered) + 1)
  <2> DEFINE serials == [n \in DOMAIN longer |-> longer[n].serial]
             appended == Append(entered, Len(entered) + 1)
  <2>1. /\ DOMAIN appended = 1..last
        /\ appended[last] = last
        /\ \A n \in 1..Len(book[y]) : appended[n] = entered[n]
        /\ appended = [n \in 1..last |-> appended[n]]
    <3>1. last \in Nat /\ Len(entered) + 1 = last
      BY <1>1, <1>5
    <3>2. appended = Append(entered, last)
      BY <3>1
    <3> HIDE DEF entered, last, appended
    <3>3. /\ appended \in Seq(Nat) /\ Len(appended) = last
          /\ \A n \in 1..Len(entered) : appended[n] = entered[n]
          /\ appended[last] = last
      BY <1>5, <3>1, <3>2, AppendProperties
    <3>4. DOMAIN appended = 1..last
      BY <3>3
    <3>5. appended = [n \in 1..last |-> appended[n]]
      BY <3>3, <3>4
    <3>6. QED
      BY <1>5, <3>3, <3>4, <3>5
  <2>2. \A n \in 1..last : serials[n] = appended[n]
    <3>1. \A n \in 1..last : serials[n] = longer[n].serial
      BY <1>4
    <3>2. \A n \in 1..last : n = last \/ n \in 1..Len(book[y])
      BY <1>1
    <3>3. \A n \in 1..Len(book[y]) : entered[n] = book[y][n].serial
      BY <1>1
    <3> HIDE DEF serials, appended, last, longer, entered, document
    <3>4. ASSUME NEW n \in 1..last
          PROVE  serials[n] = appended[n]
      <4>1. CASE n = last
        BY <1>2, <1>4, <2>1, <3>1, <4>1
      <4>2. CASE n \in 1..Len(book[y])
        <5>1. n \in DOMAIN book[y]
          BY <1>1, <4>2
        <5>2. serials[n] = book[y][n].serial
          BY <1>4, <3>1, <5>1
        <5>3. QED
          BY <2>1, <3>3, <4>2, <5>2
      <4>3. QED
        BY <3>2, <4>1, <4>2
    <3>5. QED
      BY <3>4
  <2>3. serials = [n \in 1..last |-> serials[n]]
    BY <1>4
  <2> HIDE DEF serials, appended
  <2>4. serials = appended
    BY <2>1, <2>2, <2>3
  <2>5. QED
    BY <2>4 DEF serials, appended
<1>7. /\ Entries = [x \in Years |-> [n \in DOMAIN book[x] |-> book[x][n].serial]]
      /\ Entries[y] = entered
  BY <1>1 DEF Entries
<1>8. \A x \in Years : Entries'[x] =
        IF x = y THEN Append(entered, Len(entered) + 1) ELSE Entries[x]
  <2>1. \A x \in Years : book'[x] = IF x = y THEN longer ELSE book[x]
    BY <1>3 DEF TypeOK
  <2>2. \A x \in Years :
          Entries'[x] = [n \in DOMAIN book'[x] |-> book'[x][n].serial]
    BY DEF Entries
  <2> HIDE DEF entered, longer
  <2>3. ASSUME NEW x \in Years, x # y
        PROVE  Entries'[x] = Entries[x]
    BY <1>7, <2>1, <2>2, <2>3
  <2>4. Entries'[y] = Append(entered, Len(entered) + 1)
    BY <1>1, <1>6, <2>1, <2>2
  <2>5. QED
    BY <2>3, <2>4
<1>9. Entries' = [x \in Years |-> Entries'[x]]
  BY DEF Entries
<1> HIDE DEF entered
<1>10. Entries' = [Entries EXCEPT ![y] = Append(@, Len(@) + 1)]
  BY <1>1, <1>7, <1>8, <1>9
<1>11. QED
  BY <1>10 DEF Book!Enter

\* Issuing, with its concurrent transactions, their failures and refusals, is
\* a register of consecutive numbers: each step enters the next number of one
\* year or enters nothing.
THEOREM LedgerIsASerialBook == Spec => NumberedInOrder
<1>1. Init => Book!Init
  BY DEF Init, Book!Init, Entries
<1>2. LedgerInv /\ [Next]_vars => [Book!Next]_Entries
  <2> SUFFICES ASSUME LedgerInv, [Next]_vars
               PROVE  Book!Next \/ UNCHANGED Entries
    OBVIOUS
  <2>1. TypeOK /\ VoidsADocument
    BY DEF LedgerInv
  <2>2. ASSUME NEW c \in Callers, Commit(c)
        PROVE  Book!Next
    <3>1. call[c].year \in Years
      BY <2>1 DEF TypeOK, Call
    <3>2. QED
      BY <2>2, <3>1, CommitEnters DEF Book!Next
  <2>3. ASSUME NEW c \in Callers, VoidWrite(c)
        PROVE  UNCHANGED Entries
    <3>1. Kept
      BY <2>1, <2>3, MarkedBook DEF VoidWrite, VoidsADocument, Kept
    <3>2. QED
      BY <2>1, <3>1, KeptEntries
  <2>4. ASSUME NEW id \in Ids, Pay(id)
        PROVE  UNCHANGED Entries
    <3>1. Kept
      BY <2>1, <2>4, MarkedBook DEF Pay, Kept
    <3>2. QED
      BY <2>1, <3>1, KeptEntries
  <2>5. CASE UNCHANGED book
    BY <2>5 DEF Entries
  <2>6. QED
    BY <2>2, <2>3, <2>4, <2>5
       DEF Next, Step, vars, Issue, Allocate, Create, Recover, Fail, VoidRead,
           CreditNote, NewYear
<1>3. QED
  BY <1>1, <1>2, LedgerSound, PTL DEF Spec, Book!Spec, NumberedInOrder
=============================================================================
