--------------------------- MODULE ProvidersProofs ---------------------------
(***************************************************************************)
(* What is sold and what is claimed agree for any number of rows, names,   *)
(* customers and requests, whatever names are reported.  ClaimsAgree is    *)
(* not inductive as it stands: a sale relies on what its flow carried over *)
(* an await, and a detachment on a claim standing only on a row of the     *)
(* domain's own name, unless that has been replaced.                       *)
(*                                                                         *)
(* The provider is sent no more than the budget allows, for any budget.    *)
(* That bounds the past, so the invariant says what the past leaves room   *)
(* for: the tokens that are left and the requests that are under way.      *)
(***************************************************************************)
EXTENDS Providers, FiniteSetTheorems, TLAPS

RowsOK ==
  \A k \in DOMAIN found :
    /\ DOMAIN found[k] = {"name", "claimed", "renamed"}
    /\ found[k].renamed \in BOOLEAN

\* A sold domain's row bears its name and its claim, unless renamed.
SoldIsClaimed ==
  \A n \in DOMAIN sold :
    LET s == sold[n] IN
    s.key # None =>
      /\ s.key \in DOMAIN found /\ KindOf[s.key] = "DOMAIN" /\ n # None
      /\ ~found[s.key].renamed =>
           found[s.key].name = n /\ found[s.key].claimed = s.owner

\* A claim stands on a domain, which is sold to the customer it names, unless
\* the row was renamed.
ClaimIsSold ==
  \A k \in DOMAIN found :
    found[k].claimed # None =>
      /\ KindOf[k] = "DOMAIN"
      /\ ~found[k].renamed => /\ found[k].name # None
                              /\ found[k].name \in DOMAIN sold
                              /\ sold[found[k].name].owner = found[k].claimed

\* A sale under way knows its row, whose name is the one it sells, unless it has
\* been replaced since.
SaleOK(f) ==
  /\ {"op", "at"} \subseteq DOMAIN f
  /\ f.op \in {"claim", "create"} => f.at = "write"
  /\ f.op = "create" => f.key = None
  /\ f.op = "claim" => /\ f.key \in DOMAIN found
                       /\ KindOf[f.key] = "DOMAIN" /\ f.name # None
                       /\ ~found[f.key].renamed => found[f.key].name = f.name

ClaimInv ==
  /\ RowsOK /\ SoldIsClaimed /\ ClaimIsSold
  /\ DOMAIN flow = Clients
  /\ \A c \in Clients : SaleOK(flow[c])

---------------------------------------------------------------------------
\* A request that begins, goes on or ends leaves the others as they are.
LEMMA StepsAlone ==
  ASSUME DOMAIN flow = Clients, NEW c \in Clients, NEW f, Step(c, f)
  PROVE  /\ DOMAIN flow' = Clients
         /\ flow'[c] = f
         /\ \A d \in Clients : d # c => flow'[d] = flow[d]
BY DEF Step

LEMMA InitClaims == Init => ClaimInv
BY DEF Init, ClaimInv, RowsOK, SoldIsClaimed, ClaimIsSold, SaleOK, Idle

\* A step that sells nothing and takes no claim away keeps the invariant if the
\* flow it leaves is in order.
LEMMA QuietStep ==
  ASSUME ClaimInv, NEW c \in Clients, NEW f, Step(c, f), SaleOK(f),
         UNCHANGED <<sold, found>>
  PROVE  ClaimInv'
<1>1. /\ DOMAIN flow' = Clients /\ flow'[c] = f
      /\ \A d \in Clients : d # c => flow'[d] = flow[d]
  BY StepsAlone DEF ClaimInv
<1> QED
  BY <1>1 DEF ClaimInv, RowsOK, SoldIsClaimed, ClaimIsSold, SaleOK

\* Most requests sell nothing: neither when they begin, nor as they go on.
LEMMA OthersInOrder ==
  /\ SaleOK(Idle)
  /\ \A f : (/\ {"op", "at"} \subseteq DOMAIN f
              /\ f.op \in {"sync", "verify", "call", "detach"}) => SaleOK(f)
BY DEF SaleOK, Idle

\* What a synchronisation does to the rows: a new one is unclaimed, and one that is
\* there keeps its claim, and its name unless it counts as renamed from then on.
LEMMA UpsertIs ==
  ASSUME RowsOK, NEW k, NEW name, Upsert(k, name)
  PROVE  /\ DOMAIN found' = DOMAIN found \cup {k}
         /\ \A x \in DOMAIN found : x # k => found'[x] = found[x]
         /\ DOMAIN found'[k] = {"name", "claimed", "renamed"}
         /\ found'[k].name = name /\ found'[k].renamed \in BOOLEAN
         /\ k \notin DOMAIN found => found'[k].claimed = None
         /\ k \in DOMAIN found =>
              /\ found'[k].claimed = found[k].claimed
              /\ ~found'[k].renamed =>
                   ~found[k].renamed /\ found[k].name \in {name, None}
<1>1. /\ DOMAIN found' = DOMAIN found \cup {k}
      /\ \A x \in DOMAIN found : x # k => found'[x] = found[x]
      /\ k \notin DOMAIN found =>
           found'[k] = [name |-> name, claimed |-> None, renamed |-> FALSE]
      /\ k \in DOMAIN found =>
           found'[k] = [found[k] EXCEPT
             !.name = name,
             !.renamed = found[k].renamed \/ found[k].name \notin {name, None}]
  BY DEF Upsert, Put
<1>2. CASE k \notin DOMAIN found
  <2> DEFINE row == [name |-> name, claimed |-> None, renamed |-> FALSE]
  <2>1. found'[k] = row
    BY <1>1, <1>2
  <2>2. DOMAIN row = {"name", "claimed", "renamed"}
    OBVIOUS
  <2>3. row.name = name /\ row.claimed = None /\ row.renamed = FALSE
    OBVIOUS
  <2> HIDE DEF row
  <2> QED
    BY <1>1, <1>2, <2>1, <2>2, <2>3
<1>3. CASE k \in DOMAIN found
  <2>1. DOMAIN found[k] = {"name", "claimed", "renamed"} /\ found[k].renamed \in BOOLEAN
    BY <1>3 DEF RowsOK
  <2> DEFINE r == found[k].renamed \/ found[k].name \notin {name, None}
  <2>2. r \in BOOLEAN /\ (~r => ~found[k].renamed /\ found[k].name \in {name, None})
    OBVIOUS
  <2>3. found'[k] = [found[k] EXCEPT !.name = name, !.renamed = r]
    BY <1>1, <1>3
  <2> HIDE DEF r
  <2>4. /\ DOMAIN found'[k] = {"name", "claimed", "renamed"}
        /\ found'[k].name = name /\ found'[k].renamed = r
        /\ found'[k].claimed = found[k].claimed
    BY <2>1, <2>3
  <2> QED
    BY <1>1, <1>3, <2>2, <2>4
<1> QED
  BY <1>2, <1>3

\* A name that is replaced takes its row out of the agreement.
LEMMA StoreKeeps ==
  ASSUME ClaimInv, NEW c \in Clients, NEW k, Store(c, k)
  PROVE  ClaimInv'
<1> DEFINE f == [flow[c] EXCEPT !.rows = @ \ {k}]
<1>1. PICK name : Upsert(k, name)
  BY DEF Store
<1>2. RowsOK /\ SoldIsClaimed /\ ClaimIsSold /\ SaleOK(flow[c])
  BY DEF ClaimInv
<1>3. Step(c, f) /\ UNCHANGED sold /\ flow[c].at = "store"
  BY DEF Store
<1>4. /\ {"op", "at"} \subseteq DOMAIN f
      /\ f.op = flow[c].op /\ flow[c].op \notin {"claim", "create"}
  BY <1>2, <1>3 DEF SaleOK
<1> HIDE DEF f
<1>5. /\ DOMAIN flow' = Clients /\ flow'[c] = f
      /\ \A d \in Clients : d # c => flow'[d] = flow[d]
  BY <1>3, StepsAlone DEF ClaimInv
<1>6. RowsOK'
  BY <1>1, <1>2, UpsertIs DEF RowsOK
<1>10. /\ DOMAIN found' = DOMAIN found \cup {k}
       /\ \A x \in DOMAIN found : x # k => found'[x] = found[x]
       /\ k \notin DOMAIN found => found'[k].claimed = None
       /\ k \in DOMAIN found =>
            /\ found'[k].claimed = found[k].claimed /\ found'[k].name = name
            /\ ~found'[k].renamed =>
                 ~found[k].renamed /\ found[k].name \in {name, None}
  BY ONLY <1>1, <1>2, UpsertIs
<1>7. SoldIsClaimed'
  <2> SUFFICES ASSUME NEW n \in DOMAIN sold, sold[n].key # None
               PROVE  /\ sold[n].key \in DOMAIN found' /\ KindOf[sold[n].key] = "DOMAIN"
                      /\ n # None
                      /\ ~found'[sold[n].key].renamed =>
                           /\ found'[sold[n].key].name = n
                           /\ found'[sold[n].key].claimed = sold[n].owner
    BY <1>3 DEF SoldIsClaimed
  <2>1. /\ sold[n].key \in DOMAIN found /\ KindOf[sold[n].key] = "DOMAIN" /\ n # None
        /\ ~found[sold[n].key].renamed =>
             /\ found[sold[n].key].name = n
             /\ found[sold[n].key].claimed = sold[n].owner
    BY <1>2 DEF SoldIsClaimed
  <2> QED
    BY <1>10, <2>1
<1>8. ClaimIsSold'
  <2> SUFFICES ASSUME NEW x \in DOMAIN found', found'[x].claimed # None
               PROVE  /\ KindOf[x] = "DOMAIN"
                      /\ ~found'[x].renamed =>
                           /\ found'[x].name # None
                           /\ found'[x].name \in DOMAIN sold
                           /\ sold[found'[x].name].owner = found'[x].claimed
    BY <1>3 DEF ClaimIsSold
  <2>1. x \in DOMAIN found /\ found'[x].claimed = found[x].claimed
    BY <1>10
  <2>2. /\ KindOf[x] = "DOMAIN"
        /\ ~found[x].renamed =>
             /\ found[x].name # None /\ found[x].name \in DOMAIN sold
             /\ sold[found[x].name].owner = found[x].claimed
    BY <1>2, <2>1 DEF ClaimIsSold
  <2>3. ~found'[x].renamed => ~found[x].renamed /\ (found[x].name # None =>
                                                      found'[x].name = found[x].name)
    BY <1>10, <2>1
  <2> QED
    BY <2>1, <2>2, <2>3
<1>9. ASSUME NEW d \in Clients PROVE SaleOK(flow[d])'
  <2>1. CASE d = c
    BY <1>4, <1>5, <2>1 DEF SaleOK
  <2>2. CASE d # c
    <3>1. SaleOK(flow[d]) /\ flow'[d] = flow[d]
      BY <1>5, <2>2 DEF ClaimInv
    <3> QED
      BY <1>10, <3>1 DEF SaleOK
  <2> QED
    BY <2>1, <2>2
<1> QED
  BY <1>5, <1>6, <1>7, <1>8, <1>9 DEF ClaimInv

\* A sale: the name was free, so no row of it was claimed, and the row sold from
\* bears that name alone, or has been renamed.
LEMMA SellKeeps ==
  ASSUME ClaimInv, NEW c \in Clients, Sell(c)
  PROVE  ClaimInv'
<1> DEFINE f == flow[c]
<1>1. /\ f.op \in {"claim", "create"} /\ f.name \notin DOMAIN sold
      /\ DOMAIN sold' = DOMAIN sold \cup {f.name}
      /\ sold'[f.name] = [owner |-> f.for, id |-> f.id, key |-> f.key]
      /\ \A n \in DOMAIN sold : sold'[n] = sold[n]
      /\ Step(c, Idle)
  BY DEF Sell, Put, Finish
<1>2. /\ f.op = "create" => f.key = None
      /\ f.op = "claim" => /\ f.key \in DOMAIN found
                           /\ KindOf[f.key] = "DOMAIN" /\ f.name # None
                           /\ ~found[f.key].renamed => found[f.key].name = f.name
      /\ RowsOK
  BY DEF ClaimInv, SaleOK
<1>3. /\ DOMAIN found' = DOMAIN found
      /\ f.op = "create" => found' = found
      /\ f.op = "claim" =>
           /\ DOMAIN found'[f.key] = DOMAIN found[f.key]
           /\ found'[f.key].claimed = f.for
           /\ found'[f.key].name = found[f.key].name
           /\ found'[f.key].renamed = found[f.key].renamed
           /\ \A k \in DOMAIN found \ {f.key} : found'[k] = found[k]
  <2>1. CASE f.op = "create"
    BY <2>1 DEF Sell
  <2>2. CASE f.op = "claim"
    <3>1. found' = [found EXCEPT ![f.key] = [found[f.key] EXCEPT !.claimed = f.for]]
      BY <2>2 DEF Sell
    <3>2. f.key \in DOMAIN found /\ DOMAIN found[f.key] = {"name", "claimed", "renamed"}
      BY <1>2, <2>2 DEF RowsOK
    <3> HIDE DEF f
    <3> QED
      BY <2>2, <3>1, <3>2
  <2> QED
    BY <1>1, <2>1, <2>2
<1>8. RowsOK'
  BY <1>1, <1>2, <1>3 DEF RowsOK
<1>4. /\ DOMAIN flow' = Clients /\ flow'[c] = Idle
      /\ \A d \in Clients : d # c => flow'[d] = flow[d]
  BY <1>1, StepsAlone DEF ClaimInv
<1>5. SoldIsClaimed'
  BY <1>1, <1>2, <1>3 DEF ClaimInv, SoldIsClaimed
<1>6. ClaimIsSold'
  BY <1>1, <1>2, <1>3 DEF ClaimInv, ClaimIsSold
<1>7. \A d \in Clients : SaleOK(flow[d])'
  BY <1>1, <1>3, <1>4, OthersInOrder DEF ClaimInv, SaleOK, Idle
<1> QED
  BY <1>4, <1>5, <1>6, <1>7, <1>8 DEF ClaimInv

\* A detachment: the name goes, and with it every claim on a row of that name.
LEMMA DetachedKeeps ==
  ASSUME ClaimInv, NEW c \in Clients, Detached(c)
  PROVE  ClaimInv'
<1> DEFINE n == flow[c].name
<1>1. /\ Step(c, Idle)
      /\ DOMAIN sold' = DOMAIN sold \ {n}
      /\ \A m \in DOMAIN sold' : sold'[m] = sold[m]
      /\ DOMAIN found' = DOMAIN found
      /\ \A k \in DOMAIN found :
           found'[k] = IF KindOf[k] = "DOMAIN" /\ found[k].name = n
                       THEN [found[k] EXCEPT !.claimed = None] ELSE found[k]
  BY DEF Detached, Finish, Bearing
<1> HIDE DEF n
<1>6. \A k \in DOMAIN found :
        /\ DOMAIN found'[k] = {"name", "claimed", "renamed"}
        /\ found'[k].name = found[k].name /\ found'[k].renamed = found[k].renamed
        /\ found'[k].claimed = IF KindOf[k] = "DOMAIN" /\ found[k].name = n
                               THEN None ELSE found[k].claimed
  BY <1>1 DEF ClaimInv, RowsOK
<1>7. RowsOK'
  BY <1>1, <1>6 DEF ClaimInv, RowsOK
<1>2. /\ DOMAIN flow' = Clients /\ flow'[c] = Idle
      /\ \A d \in Clients : d # c => flow'[d] = flow[d]
  BY <1>1, StepsAlone DEF ClaimInv
<1>3. SoldIsClaimed'
  BY <1>1, <1>6 DEF ClaimInv, SoldIsClaimed
<1>4. ClaimIsSold'
  BY <1>1, <1>6 DEF ClaimInv, ClaimIsSold
<1>5. \A d \in Clients : SaleOK(flow[d])'
  BY <1>1, <1>2, <1>6 DEF ClaimInv, SaleOK, Idle
<1> QED
  BY <1>2, <1>3, <1>4, <1>5, <1>7 DEF ClaimInv

\* A sale begins with the name it will sell: that of its row, or one no row has.
LEMMA SaleBegins ==
  ASSUME ClaimInv, NEW c \in Clients, NEW t,
         (\E k : Claim(c, k, t)) \/ (\E n : Create(c, n, t))
  PROVE  ClaimInv'
<1>1. CASE \E k : Claim(c, k, t)
  <2>1. PICK k : Claim(c, k, t)
    BY <1>1
  <2> DEFINE f == [op |-> "claim", at |-> "write", name |-> found[k].name,
                   key |-> k, for |-> t, id |-> orders]
  <2>2. Step(c, f) /\ UNCHANGED <<sold, found>>
    BY <2>1 DEF Claim, Begin
  <2>3. SaleOK(f)
    BY <2>1 DEF Claim, SaleOK
  <2> QED
    BY <2>2, <2>3, QuietStep
<1>2. CASE \E n : Create(c, n, t)
  <2>1. PICK n : Create(c, n, t)
    BY <1>2
  <2> DEFINE f == [op |-> "create", at |-> "write", name |-> n,
                   key |-> None, for |-> t, id |-> orders]
  <2>2. Step(c, f) /\ UNCHANGED <<sold, found>>
    BY <2>1 DEF Create, Begin
  <2>3. SaleOK(f)
    BY DEF SaleOK
  <2> QED
    BY <2>2, <2>3, QuietStep
<1> QED
  BY <1>1, <1>2

---------------------------------------------------------------------------
(* The steps that sell nothing.                                            *)

LEMMA BeginsOrEnds ==
  ASSUME ClaimInv, NEW c \in Clients, NEW f, Step(c, f),
         f = Idle \/ (/\ {"op", "at"} \subseteq DOMAIN f
                     /\ f.op \in {"sync", "verify", "call", "detach"}),
         UNCHANGED <<sold, found>>
  PROVE  ClaimInv'
BY QuietStep, OthersInOrder

LEMMA GoesOn ==
  ASSUME ClaimInv, NEW c \in Clients, NEW f, Step(c, f),
         DOMAIN f = DOMAIN flow[c], f.op = flow[c].op, flow[c].at # "write",
         UNCHANGED <<sold, found>>
  PROVE  ClaimInv'
<1>1. SaleOK(flow[c])
  BY DEF ClaimInv
<1>2. SaleOK(f)
  BY <1>1 DEF SaleOK
<1> QED
  BY <1>2, QuietStep

\* Requests that read the provider, or change something there.
LEMMA CallKeeps ==
  ASSUME ClaimInv, NEW c \in Clients, Ask(c)
  PROVE  ClaimInv'
BY BeginsOrEnds DEF Ask, Begin

\* Steps that begin a request.
LEMMA BeginKeeps ==
  ASSUME ClaimInv, NEW c \in Clients,
         \/ Sync(c) \/ Verify(c) \/ \E n : Detach(c, n)
         \/ AddCredential(c) \/ (\E i : Revoke(c, i)) \/ \E s : SetStatus(c, s)
  PROVE  ClaimInv'
<1>1. CASE Sync(c)
  BY <1>1, BeginsOrEnds DEF Sync, Begin
<1>2. CASE Verify(c)
  BY <1>2, BeginsOrEnds DEF Verify, Begin
<1>3. CASE \E n : Detach(c, n)
  BY <1>3, BeginsOrEnds DEF Detach, Begin
<1>4. CASE AddCredential(c) \/ (\E i : Revoke(c, i)) \/ \E s : SetStatus(c, s)
  <2>1. Step(c, Idle) /\ UNCHANGED <<sold, found>>
    BY <1>4 DEF AddCredential, Revoke, SetStatus, Begin
  <2> QED
    BY <2>1, BeginsOrEnds
<1> QED
  BY <1>1, <1>2, <1>3, <1>4

\* Steps of a request under way.
LEMMA MoveKeeps ==
  ASSUME ClaimInv, NEW c \in Clients,
         \/ Acquire(c) \/ Fetch(c) \/ TokenRead(c)
         \/ \E kind, rows : Answer(c, kind, rows)
         \/ \E ok : Probed(c, ok)
  PROVE  ClaimInv'
<1> DEFINE Same(f) == DOMAIN f = DOMAIN flow[c] /\ f.op = flow[c].op
<1>1. SaleOK(flow[c])
  BY DEF ClaimInv
<1>2. UNCHANGED <<sold, found>> /\ flow[c].at # "write"
  BY <1>1 DEF Acquire, Fetch, TokenRead, Answer, Probed, SaleOK
<1>3. CASE Acquire(c)
  BY <1>1, <1>2, <1>3, GoesOn DEF Acquire, SaleOK
<1>4. CASE Fetch(c)
  BY <1>1, <1>2, <1>4, GoesOn DEF Fetch, SaleOK
<1>5. CASE TokenRead(c)
  BY <1>1, <1>2, <1>5, GoesOn DEF TokenRead, SaleOK
<1>6. CASE \E kind, rows : Answer(c, kind, rows)
  BY <1>1, <1>2, <1>6, GoesOn DEF Answer, SaleOK
<1>7. CASE \E ok : Probed(c, ok)
  BY <1>1, <1>2, <1>7, GoesOn DEF Probed, SaleOK
<1> QED
  BY <1>3, <1>4, <1>5, <1>6, <1>7

\* Steps that report, and may end a request.
LEMMA ReportKeeps ==
  ASSUME ClaimInv, NEW c \in Clients,
         \/ Stored(c) \/ Report(c) \/ Mark(c) \/ Called(c) \/ Fail(c)
  PROVE  ClaimInv'
<1>1. SaleOK(flow[c])
  BY DEF ClaimInv
<1>2. UNCHANGED <<sold, found>>
  BY DEF Stored, Report, Mark, Called, Fail
<1>3. CASE Step(c, Idle)
  BY <1>2, <1>3, BeginsOrEnds
<1>4. CASE /\ flow[c].at = "store"
           /\ Step(c, [flow[c] EXCEPT !.at = "acquire"])
  BY <1>1, <1>2, <1>4, GoesOn DEF SaleOK
<1>5. CASE /\ flow[c].at = "report"
           /\ Step(c, [flow[c] EXCEPT !.at = "mark"])
  BY <1>1, <1>2, <1>5, GoesOn DEF SaleOK
<1> QED
  BY <1>3, <1>4, <1>5 DEF Stored, Report, Mark, Called, Fail, Finish

---------------------------------------------------------------------------
LEMMA NextClaims == ClaimInv /\ [Next]_vars => ClaimInv'
<1> SUFFICES ASSUME ClaimInv, [Next]_vars PROVE ClaimInv'
  OBVIOUS
<1>1. CASE UNCHANGED vars \/ Tick \/ Remaining
  BY <1>1 DEF vars, Tick, Remaining, ClaimInv, RowsOK, SoldIsClaimed,
              ClaimIsSold, SaleOK
<1>2. CASE Restart
  BY <1>2 DEF Restart, ClaimInv, RowsOK, SoldIsClaimed, ClaimIsSold, SaleOK, Idle
<1>3. ASSUME NEW c \in Clients,
             \/ Sync(c) \/ Verify(c) \/ \E n \in Names : Detach(c, n)
             \/ AddCredential(c) \/ \E i \in DOMAIN credential : Revoke(c, i)
             \/ \E s \in {"ACTIVE", "DISABLED", "DEGRADED"} : SetStatus(c, s)
      PROVE  ClaimInv'
  BY <1>3, BeginKeeps
<1>4. ASSUME NEW c \in Clients,
             \/ Acquire(c) \/ Fetch(c) \/ TokenRead(c)
             \/ \E kind \in Kinds, rows \in SUBSET Keys : Answer(c, kind, rows)
             \/ \E ok \in BOOLEAN : Probed(c, ok)
      PROVE  ClaimInv'
  BY <1>4, MoveKeeps
<1>5. ASSUME NEW c \in Clients,
             Stored(c) \/ Report(c) \/ Mark(c) \/ Called(c) \/ Fail(c)
      PROVE  ClaimInv'
  BY <1>5, ReportKeeps
<1>6. ASSUME NEW c \in Clients,
             \/ \E site \in Sites : ListDatabases(c, site) \/ PhpMyAdminLink(c, site)
             \/ \E site \in Sites, disposable \in BOOLEAN :
                  ChangeDatabase(c, site, disposable)
             \/ ListMailboxes(c)
             \/ \E disposable \in BOOLEAN :
                  ChangeMailbox(c, disposable) \/ PushZone(c, disposable)
      PROVE  ClaimInv'
  <2>1. Ask(c)
    BY <1>6 DEF ListDatabases, PhpMyAdminLink, ChangeDatabase, ListMailboxes,
                ChangeMailbox, PushZone
  <2> QED
    BY <2>1, CallKeeps
<1>7. ASSUME NEW c \in Clients, NEW k \in Keys, Store(c, k) PROVE ClaimInv'
  BY <1>7, StoreKeeps
<1>8. ASSUME NEW c \in Clients, NEW t \in Customers,
             (\E k \in Keys : Claim(c, k, t)) \/ (\E n \in Names : Create(c, n, t))
      PROVE  ClaimInv'
  BY <1>8, SaleBegins
<1>9. ASSUME NEW c \in Clients, Sell(c) PROVE ClaimInv'
  BY <1>9, SellKeeps
<1>10. ASSUME NEW c \in Clients, Detached(c) PROVE ClaimInv'
  BY <1>10, DetachedKeeps
<1> QED
  BY <1>1, <1>2, <1>3, <1>4, <1>5, <1>6, <1>7, <1>8, <1>9, <1>10 DEF Next

\* What is sold and what was found agree on every row whose name was never
\* replaced: the sale's row, its claim and the list staff work from, for any number
\* of synchronisations, claims, creations and detachments in flight, failures and
\* restarts (claim, create, detach, list, and the upsert of syncSource).
THEOREM ClaimsHold == Spec => []ClaimsAgree
<1>1. ClaimInv => ClaimsAgree
  <2> SUFFICES ASSUME ClaimInv PROVE ClaimsAgree
    OBVIOUS
  <2>1. ASSUME NEW n \in DOMAIN sold, sold[n].key # None,
               ~found[sold[n].key].renamed
        PROVE  /\ found[sold[n].key].claimed = sold[n].owner
               /\ sold[n].key \in Listed[n].discovered
    BY <2>1 DEF ClaimInv, SoldIsClaimed, Listed, Bearing
  <2>2. ASSUME NEW k \in DOMAIN found, found[k].claimed # None, ~found[k].renamed
        PROVE  /\ found[k].name \in DOMAIN sold
               /\ sold[found[k].name].owner = found[k].claimed
    BY <2>2 DEF ClaimInv, ClaimIsSold
  <2>3. ASSUME NEW n \in Unassigned, NEW k \in Listed[n].discovered,
               found[k].claimed # None
        PROVE  found[k].renamed
    <3>1. n \in DOMAIN Listed /\ Listed[n].customer = None
      BY DEF Unassigned
    <3>2. /\ k \in DOMAIN found /\ found[k].name = n
          /\ n \in DOMAIN sold => sold[n].owner = None
      BY <3>1 DEF Listed, Bearing
    <3> QED
      BY <2>3, <3>2 DEF ClaimInv, ClaimIsSold
  <2> QED
    BY <2>1, <2>2, <2>3 DEF ClaimsAgree
<1> QED
  BY <1>1, InitClaims, NextClaims, PTL DEF Spec

---------------------------------------------------------------------------
(* The budget.  A window is the difference of two of the running counts,   *)
(* and what it may still hold is what the bucket could give now, counted   *)
(* twice, and the requests under way, which may yet be repeated.           *)

Rate == Limit \div Window
UnderWay == {c \in Clients : flow[c].at = "sent"}

\* From the start of any tick until now.
Spent ==
  \A t \in 1..clock :
    calls[clock] - calls[t - 1] + Cardinality(UnderWay) + 2 * Refilled.tokens
      <= 2 * (Limit + (clock - t) * Rate) + Cardinality(Clients)

\* From the start of any tick to the end of any other that is over.
SpentBefore ==
  \A t \in 1..clock, u \in 1..clock - 1 :
    t <= u => calls[u] - calls[t - 1]
                <= 2 * (Limit + (u - t) * Rate) + Cardinality(Clients)

BudgetInv ==
  /\ clock \in 1..MaxTime
  /\ calls \in [0..MaxTime -> Nat]
  /\ \A t \in clock..MaxTime : calls[t] = calls[clock]
  /\ bucket \in [tokens : 0..Limit, last : 1..clock]
  /\ Spent /\ SpentBefore

LEMMA RateIs == Rate \in Nat /\ Rate * Window = Limit
BY BudgetAssumption, Z3 DEF Rate

LEMMA AllowanceIs ==
  ASSUME NEW n \in Nat
  PROVE  n * Rate \in Nat /\ Limit + n * Rate \in Nat
<1>1. n * Rate \in Nat
  BY RateIs
<1> QED
  BY <1>1, BudgetAssumption

LEMMA UnderWayIs ==
  /\ IsFiniteSet(UnderWay)
  /\ Cardinality(UnderWay) \in Nat /\ Cardinality(Clients) \in Nat
  /\ Cardinality(UnderWay) <= Cardinality(Clients)
<1>1. UnderWay \subseteq Clients
  BY DEF UnderWay
<1> QED
  BY <1>1, BudgetAssumption, FS_Subset, FS_CardinalityType

\* What the bucket holds once refilled.
LEMMA RefilledIs ==
  ASSUME BudgetInv
  PROVE  /\ Refilled.tokens \in 0..Limit /\ Refilled.last = clock
         /\ Refilled.tokens <= bucket.tokens + (clock - bucket.last) * Rate
         /\ \/ Refilled.tokens = Limit
            \/ Refilled.tokens = bucket.tokens + (clock - bucket.last) * Rate
<1> DEFINE more == bucket.tokens + (clock - bucket.last) * Rate
<1>1. bucket.tokens \in 0..Limit /\ clock - bucket.last \in Nat /\ Limit \in Nat
  BY BudgetAssumption DEF BudgetInv
<1>2. (clock - bucket.last) * Rate \in Nat
  BY <1>1, RateIs
<1>3. more \in Nat
  BY <1>1, <1>2
<1>4. Refilled = [tokens |-> IF more < Limit THEN more ELSE Limit, last |-> clock]
  BY DEF Refilled, Rate
<1> HIDE DEF more
<1>5. Refilled.tokens \in 0..Limit /\ Refilled.last = clock
      /\ Refilled.tokens <= more
      /\ (Refilled.tokens = Limit \/ Refilled.tokens = more)
  BY <1>1, <1>3, <1>4
<1> QED
  BY <1>5 DEF more

\* Steps that send nothing.
LEMMA SendsNothing ==
  ASSUME BudgetInv, UNCHANGED <<clock, calls>>, bucket' \in {bucket, Refilled},
         UnderWay' \subseteq UnderWay
  PROVE  BudgetInv'
<1>1. Refilled' = Refilled /\ bucket' \in [tokens : 0..Limit, last : 1..clock]
  <2>1. CASE bucket' = bucket
    BY <2>1 DEF BudgetInv, Refilled
  <2>2. CASE bucket' = Refilled
    <3>1. Refilled = [tokens |-> Refilled.tokens, last |-> Refilled.last]
      BY DEF Refilled
    <3>2. bucket' = [tokens |-> Refilled.tokens, last |-> clock]
      BY <2>2, <3>1, RefilledIs
    <3>3. clock \in 1..MaxTime /\ Refilled.tokens \in 0..Limit /\ Limit \in Nat
      BY RefilledIs, BudgetAssumption DEF BudgetInv
    <3>4. (clock' - bucket'.last) * (Limit \div Window) = 0
      <4>1. clock' - bucket'.last = 0
        BY <3>2, <3>3
      <4>2. Limit \div Window \in Int
        BY RateIs DEF Rate
      <4> QED
        BY <4>1, <4>2
    <3>5. bucket'.tokens + (clock' - bucket'.last) * (Limit \div Window)
            = Refilled.tokens
      BY <3>2, <3>3, <3>4
    <3>6. Refilled' = [tokens |-> Refilled.tokens, last |-> clock]
      <4> DEFINE more == bucket'.tokens + (clock' - bucket'.last) * (Limit \div Window)
      <4>1. Refilled' = [tokens |-> IF more < Limit THEN more ELSE Limit,
                         last |-> clock']
        BY DEF Refilled
      <4>2. (IF more < Limit THEN more ELSE Limit) = Refilled.tokens
        BY <3>3, <3>5
      <4> QED
        BY <4>1, <4>2
    <3> QED
      BY <2>2, <3>2, <3>3, <3>6
  <2> QED
    BY <2>1, <2>2
<1>2. Cardinality(UnderWay') <= Cardinality(UnderWay)
      /\ Cardinality(UnderWay') \in Nat
  BY UnderWayIs, FS_Subset, FS_CardinalityType
<1>3. Spent'
  <2> SUFFICES ASSUME NEW t \in 1..clock
               PROVE  calls[clock] - calls[t - 1] + Cardinality(UnderWay')
                        + 2 * Refilled.tokens
                        <= 2 * (Limit + (clock - t) * Rate) + Cardinality(Clients)
    BY <1>1 DEF Spent
  <2> DEFINE X == 2 * (Limit + (clock - t) * Rate)
  <2>1. /\ calls[clock] \in Nat /\ calls[t - 1] \in Nat /\ Refilled.tokens \in Nat
        /\ Limit \in Nat
    BY RefilledIs, BudgetAssumption DEF BudgetInv
  <2>2. X \in Nat
    <3>1. clock - t \in Nat
      BY DEF BudgetInv
    <3>2. Limit + (clock - t) * Rate \in Nat
      BY <3>1, AllowanceIs
    <3> QED
      BY <3>2
  <2>3. calls[clock] - calls[t - 1] + Cardinality(UnderWay)
          + 2 * Refilled.tokens <= X + Cardinality(Clients)
    BY DEF BudgetInv, Spent
  <2> HIDE DEF X
  <2>4. calls[clock] - calls[t - 1] + Cardinality(UnderWay')
          + 2 * Refilled.tokens <= X + Cardinality(Clients)
    BY <1>2, <2>1, <2>2, <2>3, UnderWayIs
  <2> QED
    BY <2>4 DEF X
<1>4. SpentBefore'
  BY DEF BudgetInv, SpentBefore
<1> QED
  BY <1>1, <1>3, <1>4 DEF BudgetInv

\* A request is sent: for every window still open, what is sent is paid for by
\* what the bucket or those under way give up.
LEMMA Sends ==
  ASSUME BudgetInv, Send, clock' = clock,
         bucket' \in [tokens : 0..Limit, last : 1..clock],
         1 + Cardinality(UnderWay') + 2 * Refilled'.tokens
           <= Cardinality(UnderWay) + 2 * Refilled.tokens,
         Cardinality(UnderWay') \in Nat, Refilled'.tokens \in Nat
  PROVE  BudgetInv'
<1>0. calls \in [0..MaxTime -> Nat] /\ clock \in 1..MaxTime
  BY DEF BudgetInv
<1>1. /\ calls' \in [0..MaxTime -> Nat]
      /\ \A t \in 0..clock - 1 : calls'[t] = calls[t]
      /\ \A t \in clock..MaxTime : calls'[t] = calls[t] + 1
  <2>1. calls' = [t \in 0..MaxTime |-> calls[t] + IF t < clock THEN 0 ELSE 1]
    BY <1>0 DEF Send
  <2>2. ASSUME NEW t \in 0..MaxTime
        PROVE  /\ calls'[t] \in Nat
               /\ t < clock => calls'[t] = calls[t]
               /\ ~(t < clock) => calls'[t] = calls[t] + 1
    <3>1. calls[t] \in Nat
      BY <1>0
    <3>2. calls'[t] = calls[t] + IF t < clock THEN 0 ELSE 1
      BY <2>1
    <3> QED
      BY <3>1, <3>2
  <2>3. calls' \in [0..MaxTime -> Nat]
    BY <2>1, <2>2
  <2>4. 0..clock - 1 \subseteq 0..MaxTime /\ clock..MaxTime \subseteq 0..MaxTime
    BY <1>0, BudgetAssumption
  <2> QED
    BY <1>0, <2>2, <2>3, <2>4
<1>2. Spent'
  <2> SUFFICES ASSUME NEW t \in 1..clock
               PROVE  calls'[clock] - calls'[t - 1] + Cardinality(UnderWay')
                        + 2 * Refilled'.tokens
                        <= 2 * (Limit + (clock - t) * Rate) + Cardinality(Clients)
    BY DEF Spent
  <2> DEFINE X == 2 * (Limit + (clock - t) * Rate)
  <2>1. /\ calls[clock] \in Nat /\ calls[t - 1] \in Nat /\ Refilled.tokens \in Nat
        /\ Limit \in Nat /\ calls'[clock] = calls[clock] + 1
        /\ calls'[t - 1] = calls[t - 1]
    <3>1. clock \in clock..MaxTime /\ t - 1 \in 0..clock - 1 /\ t - 1 \in 0..MaxTime
      <4> USE BudgetAssumption
      <4>1. clock \in Nat /\ t \in Nat /\ MaxTime \in Nat
            /\ 1 <= t /\ t <= clock /\ clock <= MaxTime
        BY <1>0
      <4> QED
        BY ONLY <4>1
    <3>2. Refilled.tokens \in 0..Limit /\ Limit \in Nat
      BY RefilledIs, BudgetAssumption
    <3> QED
      BY <1>0, <1>1, <3>1, <3>2
  <2>2. X \in Nat
    <3>1. clock - t \in Nat
      BY DEF BudgetInv
    <3>2. Limit + (clock - t) * Rate \in Nat
      BY <3>1, AllowanceIs
    <3> QED
      BY <3>2
  <2>3. calls[clock] - calls[t - 1] + Cardinality(UnderWay)
          + 2 * Refilled.tokens <= X + Cardinality(Clients)
    BY DEF BudgetInv, Spent
  <2> HIDE DEF X
  <2>4. calls'[clock] - calls'[t - 1] + Cardinality(UnderWay')
          + 2 * Refilled'.tokens <= X + Cardinality(Clients)
    BY <2>1, <2>2, <2>3, UnderWayIs
  <2> QED
    BY <2>4 DEF X
<1>3. SpentBefore'
  BY <1>1 DEF BudgetInv, SpentBefore
<1>4. \A t \in clock..MaxTime : calls'[t] = calls'[clock]
  BY <1>1 DEF BudgetInv
<1> QED
  BY <1>1, <1>2, <1>3, <1>4 DEF BudgetInv

LEMMA OffTheWay ==
  ASSUME ClaimInv, NEW c \in Clients, NEW f, Step(c, f), f.at # "sent"
  PROVE  UnderWay' = UnderWay \ {c}
<1>1. /\ DOMAIN flow' = Clients /\ flow'[c] = f
      /\ \A d \in Clients : d # c => flow'[d] = flow[d]
  BY StepsAlone DEF ClaimInv
<1> QED
  BY <1>1 DEF UnderWay

LEMMA AcquireKeeps ==
  ASSUME ClaimInv, BudgetInv, NEW c \in Clients, Acquire(c)
  PROVE  BudgetInv'
<1>1. /\ flow[c].at = "acquire" /\ Refilled.tokens > 0
      /\ bucket' = [Refilled EXCEPT !.tokens = @ - 1]
      /\ Step(c, [flow[c] EXCEPT !.at = "sent"]) /\ Send /\ clock' = clock
  BY DEF Acquire
<1>2. {"op", "at"} \subseteq DOMAIN flow[c]
  BY DEF ClaimInv, SaleOK
<1>3. /\ flow'[c] = [flow[c] EXCEPT !.at = "sent"]
      /\ \A d \in Clients : d # c => flow'[d] = flow[d]
  BY <1>1, StepsAlone DEF ClaimInv
<1>4. UnderWay' = UnderWay \cup {c} /\ c \notin UnderWay
  BY <1>1, <1>2, <1>3 DEF UnderWay
<1>5. Cardinality(UnderWay') = Cardinality(UnderWay) + 1
  BY <1>4, UnderWayIs, FS_AddElement
<1>6. /\ Refilled = [tokens |-> Refilled.tokens, last |-> clock]
      /\ Refilled.tokens \in 1..Limit
  <2>1. Refilled = [tokens |-> Refilled.tokens, last |-> Refilled.last]
    BY DEF Refilled
  <2> QED
    BY <1>1, <2>1, RefilledIs, BudgetAssumption
<1>7. bucket' = [tokens |-> Refilled.tokens - 1, last |-> clock]
  BY <1>1, <1>6
<1>8. clock \in Nat /\ clock >= 1 /\ Limit \in Nat
  BY BudgetAssumption DEF BudgetInv
<1>9. Refilled'.tokens = Refilled.tokens - 1
  <2>1. bucket'.tokens = Refilled.tokens - 1 /\ bucket'.last = clock
    BY <1>7
  <2>2. (clock' - bucket'.last) * (Limit \div Window) = 0
    <3>1. clock' - bucket'.last = 0
      BY <1>1, <1>8, <2>1
    <3>2. Limit \div Window \in Int
      BY RateIs DEF Rate
    <3> QED
      BY <3>1, <3>2
  <2>3. bucket'.tokens + (clock' - bucket'.last) * (Limit \div Window)
          = Refilled.tokens - 1
    BY <1>6, <2>1, <2>2
  <2>4. Refilled.tokens - 1 < Limit
    BY <1>6, <1>8
  <2> QED
    BY <2>3, <2>4 DEF Refilled
<1>10. bucket' \in [tokens : 0..Limit, last : 1..clock]
  BY <1>6, <1>7, <1>8
<1>11. 1 + Cardinality(UnderWay') + 2 * Refilled'.tokens
         <= Cardinality(UnderWay) + 2 * Refilled.tokens
  BY <1>5, <1>6, <1>8, <1>9, UnderWayIs
<1>12. Cardinality(UnderWay') \in Nat /\ Refilled'.tokens \in Nat
  BY <1>5, <1>6, <1>8, <1>9, UnderWayIs
<1> QED
  BY <1>1, <1>10, <1>11, <1>12, Sends

\* A repeated request is one of those under way, and is not repeated again.
LEMMA FetchKeeps ==
  ASSUME ClaimInv, BudgetInv, NEW c \in Clients, Fetch(c)
  PROVE  BudgetInv'
<1> DEFINE f == [flow[c] EXCEPT !.at = "fetched", !.read = TRUE]
<1>1. /\ flow[c].at = "sent" /\ Step(c, f) /\ Send
      /\ UNCHANGED <<clock, bucket>>
  BY DEF Fetch
<1>2. f.at = "fetched"
  BY DEF ClaimInv, SaleOK
<1> HIDE DEF f
<1>3. UnderWay' = UnderWay \ {c} /\ c \in UnderWay
  BY <1>1, <1>2, OffTheWay DEF UnderWay
<1>4. Cardinality(UnderWay') = Cardinality(UnderWay) - 1
      /\ Cardinality(UnderWay') \in Nat
  BY <1>3, UnderWayIs, FS_RemoveElement, FS_CardinalityType
<1>5. Refilled' = Refilled /\ Refilled.tokens \in Nat
  <2>1. Refilled.tokens \in 0..Limit
    BY RefilledIs
  <2> QED
    BY <1>1, <2>1, BudgetAssumption DEF Refilled
<1>6. bucket' \in [tokens : 0..Limit, last : 1..clock]
  BY <1>1 DEF BudgetInv
<1>7. 1 + Cardinality(UnderWay') + 2 * Refilled'.tokens
        <= Cardinality(UnderWay) + 2 * Refilled.tokens
  BY <1>4, <1>5, UnderWayIs
<1> QED
  BY <1>1, <1>4, <1>5, <1>6, <1>7, Sends

LEMMA QuietKeeps ==
  ASSUME ClaimInv, BudgetInv, NEW c \in Clients, NEW f, Step(c, f),
         f.at # "sent", UNCHANGED <<clock, bucket, calls>>
  PROVE  BudgetInv'
BY OffTheWay, SendsNothing

LEMMA OneMore ==
  ASSUME NEW n \in Nat
  PROVE  (n + 1) * Rate = n * Rate + Rate
BY RateIs

\* Time passes: every open window may hold what a tick refills, and the window
\* that opens may hold a full bucket.
LEMMA TickKeeps ==
  ASSUME BudgetInv, Tick
  PROVE  BudgetInv'
<1>1. /\ clock < MaxTime /\ clock' = clock + 1 /\ clock \in 1..MaxTime
      /\ MaxTime \in Nat /\ Limit \in Nat
      /\ UNCHANGED <<bucket, calls>> /\ UnderWay' = UnderWay
  BY BudgetAssumption DEF Tick, BudgetInv, UnderWay
<1>2. calls \in [0..MaxTime -> Nat] /\ calls[clock + 1] = calls[clock]
      /\ \A t \in clock + 1..MaxTime : calls[t] = calls[clock + 1]
  <2>1. \A t \in clock..MaxTime : calls[t] = calls[clock]
    BY DEF BudgetInv
  <2> QED
    BY <1>1, <2>1 DEF BudgetInv
<1>3. bucket \in [tokens : 0..Limit, last : 1..clock + 1]
  BY <1>1 DEF BudgetInv
<1> DEFINE now == Refilled.tokens
           then == Refilled'.tokens
<1>4. now \in Nat /\ then \in Nat /\ then <= now + Rate /\ then <= Limit
  <2> DEFINE old == bucket.tokens + (clock - bucket.last) * Rate
             new == bucket.tokens + ((clock + 1) - bucket.last) * Rate
  <2>1. clock - bucket.last \in Nat /\ bucket.tokens \in Nat
    BY <1>1 DEF BudgetInv
  <2>2. (clock - bucket.last) * Rate \in Nat
    BY <2>1, AllowanceIs
  <2>3. ((clock + 1) - bucket.last) * Rate = (clock - bucket.last) * Rate + Rate
    <3>1. (clock + 1) - bucket.last = (clock - bucket.last) + 1
      <4>1. bucket.last \in Int
        BY DEF BudgetInv
      <4> QED
        BY <1>1, <4>1
    <3> QED
      BY <2>1, <3>1, OneMore
  <2>4. now = IF old < Limit THEN old ELSE Limit
    BY DEF Refilled, Rate
  <2>5. then = IF new < Limit THEN new ELSE Limit
    BY <1>1 DEF Refilled, Rate
  <2>6. old \in Nat /\ new = old + Rate /\ Rate \in Nat
    BY <2>1, <2>2, <2>3, RateIs
  <2> HIDE DEF now, then, old, new
  <2> QED
    BY <1>1, <2>4, <2>5, <2>6
<1> HIDE DEF now, then
<1>5. Spent'
  <2> SUFFICES ASSUME NEW t \in 1..clock + 1
               PROVE  calls[clock + 1] - calls[t - 1] + Cardinality(UnderWay)
                        + 2 * then
                        <= 2 * (Limit + (clock + 1 - t) * Rate)
                             + Cardinality(Clients)
    BY <1>1 DEF Spent, then
  <2>1. CASE t = clock + 1
    <3>1. calls[t - 1] = calls[clock + 1] /\ calls[clock + 1] \in Nat
      <4>1. t - 1 = clock
        BY <1>1, <2>1
      <4> QED
        BY <1>1, <1>2, <4>1
    <3>2. clock + 1 - t = 0
      BY <1>1, <2>1
    <3>3. (clock + 1 - t) * Rate = 0
      BY <3>2, RateIs
    <3> QED
      BY <1>1, <1>4, <3>1, <3>3, UnderWayIs
  <2>2. CASE t \in 1..clock
    <3> DEFINE X == Limit + (clock - t) * Rate
    <3>1. calls[clock] - calls[t - 1] + Cardinality(UnderWay) + 2 * now
            <= 2 * X + Cardinality(Clients)
      BY <2>2 DEF BudgetInv, Spent, now
    <3>2. X \in Nat /\ Limit + (clock + 1 - t) * Rate = X + Rate
      <4>1. clock - t \in Nat /\ clock + 1 - t = (clock - t) + 1
        BY <1>1, <2>2
      <4>2. (clock + 1 - t) * Rate = (clock - t) * Rate + Rate
        BY <4>1, OneMore
      <4>3. (clock - t) * Rate \in Nat
        BY <4>1, AllowanceIs
      <4> QED
        BY <1>1, <4>2, <4>3, RateIs
    <3>3. calls[clock] \in Nat /\ calls[t - 1] \in Nat
      BY <1>1, <1>2, <2>2
    <3> HIDE DEF X
    <3>4. calls[clock] - calls[t - 1] + Cardinality(UnderWay) + 2 * then
            <= 2 * (X + Rate) + Cardinality(Clients)
      BY <1>4, <3>1, <3>2, <3>3, UnderWayIs, RateIs
    <3> QED
      BY <1>2, <3>2, <3>4
  <2> QED
    BY <1>1, <2>1, <2>2
<1>6. SpentBefore'
  <2> SUFFICES ASSUME NEW t \in 1..clock + 1, NEW u \in 1..clock, t <= u
               PROVE  calls[u] - calls[t - 1]
                        <= 2 * (Limit + (u - t) * Rate) + Cardinality(Clients)
    BY <1>1 DEF SpentBefore
  <2>1. CASE u = clock
    <3> DEFINE X == Limit + (clock - t) * Rate
    <3>1. t \in 1..clock
      BY <1>1, <2>1
    <3>2. calls[clock] - calls[t - 1] + Cardinality(UnderWay) + 2 * now
            <= 2 * X + Cardinality(Clients)
      BY <3>1 DEF BudgetInv, Spent, now
    <3>3. X \in Nat
      BY <1>1, <3>1, AllowanceIs
    <3>4. calls[clock] \in Nat /\ calls[t - 1] \in Nat
      BY <1>1, <1>2, <3>1
    <3> HIDE DEF X
    <3>5. calls[clock] - calls[t - 1] <= 2 * X + Cardinality(Clients)
      BY <1>4, <3>2, <3>3, <3>4, UnderWayIs
    <3> QED
      BY <2>1, <3>5 DEF X
  <2>2. CASE u # clock
    <3>1. u \in 1..clock - 1 /\ t \in 1..clock
      BY <1>1, <2>2
    <3> QED
      BY <3>1 DEF BudgetInv, SpentBefore
  <2> QED
    BY <2>1, <2>2
<1> QED
  BY <1>1, <1>2, <1>3, <1>5, <1>6 DEF BudgetInv

\* A new process has sent nothing yet.
LEMMA RestartKeepsBudget ==
  ASSUME BudgetInv, Restart
  PROVE  BudgetInv'
<1>1. /\ bucket' = [tokens |-> Limit, last |-> clock] /\ clock' = clock
      /\ calls' = [t \in 0..MaxTime |-> 0]
      /\ flow' = [c \in Clients |-> Idle]
      /\ clock \in 1..MaxTime /\ MaxTime \in Nat /\ Limit \in Nat
  BY BudgetAssumption DEF BudgetInv, Restart
<1>2. Cardinality(UnderWay') = 0 /\ Cardinality(Clients) \in Nat
  <2>1. UnderWay' = {}
    BY <1>1 DEF UnderWay, Idle
  <2> QED
    BY <2>1, FS_EmptySet, UnderWayIs
<1>3. Refilled'.tokens = Limit
  <2>1. bucket'.tokens = Limit /\ bucket'.last = clock
    BY <1>1
  <2>2. clock' - bucket'.last = 0
    BY <1>1, <2>1
  <2>3. bucket'.tokens + (clock' - bucket'.last) * (Limit \div Window) = Limit
    BY <1>1, <2>1, <2>2, RateIs DEF Rate
  <2> QED
    BY <2>3 DEF Refilled
<1>4. \A t \in 0..MaxTime : calls'[t] = 0
  BY <1>1
<1>5. Spent'
  <2> SUFFICES ASSUME NEW t \in 1..clock
               PROVE  calls'[clock] - calls'[t - 1] + Cardinality(UnderWay')
                        + 2 * Refilled'.tokens
                        <= 2 * (Limit + (clock - t) * Rate) + Cardinality(Clients)
    BY <1>1 DEF Spent
  <2>1. clock \in 0..MaxTime /\ t - 1 \in 0..MaxTime /\ clock - t \in Nat
    BY <1>1
  <2>2. calls'[clock] = 0 /\ calls'[t - 1] = 0 /\ (clock - t) * Rate \in Nat
    BY <1>4, <2>1, AllowanceIs
  <2> QED
    BY <1>1, <1>2, <1>3, <2>1, <2>2
<1>6. SpentBefore'
  <2> SUFFICES ASSUME NEW t \in 1..clock, NEW u \in 1..clock - 1, t <= u
               PROVE  calls'[u] - calls'[t - 1]
                        <= 2 * (Limit + (u - t) * Rate) + Cardinality(Clients)
    BY <1>1 DEF SpentBefore
  <2>1. u \in 0..MaxTime /\ t - 1 \in 0..MaxTime /\ u - t \in Nat
    BY <1>1
  <2>2. calls'[u] = 0 /\ calls'[t - 1] = 0 /\ (u - t) * Rate \in Nat
    BY <1>4, <2>1, AllowanceIs
  <2> QED
    BY <1>1, <1>2, <2>1, <2>2
<1>7. bucket' \in [tokens : 0..Limit, last : 1..clock]
  BY <1>1
<1> QED
  BY <1>1, <1>4, <1>5, <1>6, <1>7 DEF BudgetInv

LEMMA InitBudget == Init => BudgetInv
<1> SUFFICES ASSUME Init PROVE BudgetInv
  OBVIOUS
<1>1. /\ bucket = [tokens |-> Limit, last |-> 1] /\ clock = 1
      /\ calls = [t \in 0..MaxTime |-> 0]
      /\ flow = [c \in Clients |-> Idle]
      /\ MaxTime \in Nat \ {0} /\ Limit \in Nat
  BY BudgetAssumption DEF Init
<1>2. Cardinality(UnderWay) = 0 /\ Cardinality(Clients) \in Nat
  <2>1. UnderWay = {}
    BY <1>1 DEF UnderWay, Idle
  <2> QED
    BY <2>1, FS_EmptySet, UnderWayIs
<1>3. Refilled.tokens = Limit
  <2>1. bucket.tokens + (clock - bucket.last) * (Limit \div Window) = Limit
    BY <1>1, RateIs DEF Rate
  <2> QED
    BY <2>1 DEF Refilled
<1>4. Spent
  <2> SUFFICES ASSUME NEW t \in 1..clock
               PROVE  calls[clock] - calls[t - 1] + Cardinality(UnderWay)
                        + 2 * Refilled.tokens
                        <= 2 * (Limit + (clock - t) * Rate) + Cardinality(Clients)
    BY DEF Spent
  <2>1. calls[clock] = 0 /\ calls[t - 1] = 0
    BY <1>1
  <2>2. (clock - t) * Rate = 0
    BY <1>1, RateIs
  <2> QED
    BY <1>1, <1>2, <1>3, <2>1, <2>2
<1>5. SpentBefore
  BY <1>1 DEF SpentBefore
<1> QED
  BY <1>1, <1>4, <1>5 DEF BudgetInv

\* Every other step of a request sends nothing, and leaves nothing under way.
Quiet(c, f) == Step(c, f) /\ f.at # "sent" /\ UNCHANGED <<clock, bucket, calls>>

LEMMA BeginsQuietly ==
  ASSUME NEW c \in Clients,
         \/ Sync(c) \/ Verify(c) \/ \E n : Detach(c, n)
         \/ AddCredential(c) \/ (\E i : Revoke(c, i)) \/ (\E s : SetStatus(c, s))
         \/ Ask(c)
         \/ (\E k, t : Claim(c, k, t)) \/ (\E n, t : Create(c, n, t))
  PROVE  \E f : Quiet(c, f)
<1>1. Idle.at # "sent"
  BY DEF Idle
<1> USE <1>1 DEF Begin, Quiet
<1>2. CASE AddCredential(c) \/ (\E i : Revoke(c, i)) \/ \E s : SetStatus(c, s)
  <2>1. Quiet(c, Idle)
    BY <1>2 DEF AddCredential, Revoke, SetStatus
  <2> QED
    BY <2>1
<1>3. CASE Sync(c)
  BY <1>3 DEF Sync
<1>4. CASE Verify(c)
  BY <1>4 DEF Verify
<1>5. CASE \E n : Detach(c, n)
  BY <1>5 DEF Detach
<1>6. CASE Ask(c)
  BY <1>6 DEF Ask
<1>7. CASE \E k, t : Claim(c, k, t)
  BY <1>7 DEF Claim
<1>8. CASE \E n, t : Create(c, n, t)
  BY <1>8 DEF Create
<1> QED
  BY <1>2, <1>3, <1>4, <1>5, <1>6, <1>7, <1>8

LEMMA GoesOnQuietly ==
  ASSUME ClaimInv, NEW c \in Clients,
         \/ TokenRead(c) \/ (\E kind, rows : Answer(c, kind, rows))
         \/ (\E ok : Probed(c, ok)) \/ (\E k : Store(c, k)) \/ Stored(c)
         \/ Report(c) \/ Mark(c) \/ Called(c) \/ Fail(c) \/ Sell(c) \/ Detached(c)
  PROVE  \E f : Quiet(c, f)
<1>1. Idle.at # "sent"
  BY DEF Idle
<1>2. "at" \in DOMAIN flow[c]
  BY DEF ClaimInv, SaleOK
<1> USE <1>1, <1>2 DEF Quiet
<1>3. CASE Mark(c) \/ Called(c) \/ Fail(c) \/ Sell(c) \/ Detached(c)
  <2>1. Quiet(c, Idle)
    BY <1>3 DEF Mark, Called, Fail, Sell, Detached, Finish
  <2> QED
    BY <2>1
<1>4. CASE TokenRead(c)
  BY <1>4 DEF TokenRead
<1>5. CASE \E kind, rows : Answer(c, kind, rows)
  BY <1>5 DEF Answer
<1>6. CASE \E ok : Probed(c, ok)
  BY <1>6 DEF Probed
<1>7. CASE \E k : Store(c, k)
  BY <1>7 DEF Store
<1>8. CASE Stored(c)
  BY <1>8 DEF Stored, Finish
<1>9. CASE Report(c)
  BY <1>9 DEF Report
<1> QED
  BY <1>3, <1>4, <1>5, <1>6, <1>7, <1>8, <1>9

LEMMA NextBudget == ClaimInv /\ BudgetInv /\ [Next]_vars => BudgetInv'
<1> SUFFICES ASSUME ClaimInv, BudgetInv, [Next]_vars PROVE BudgetInv'
  OBVIOUS
<1>1. CASE UNCHANGED vars
  <2>1. UNCHANGED <<clock, bucket, calls>> /\ UnderWay' = UnderWay
    BY <1>1 DEF vars, UnderWay
  <2> QED
    BY <2>1, SendsNothing
<1>2. CASE Restart \/ Tick \/ Remaining
  <2>1. Remaining => /\ UNCHANGED <<clock, calls>> /\ bucket' \in {bucket, Refilled}
                     /\ UnderWay' \subseteq UnderWay
    BY DEF Remaining, UnderWay
  <2> QED
    BY <1>2, <2>1, RestartKeepsBudget, TickKeeps, SendsNothing
<1>3. ASSUME NEW c \in Clients, Acquire(c) \/ Fetch(c) PROVE BudgetInv'
  BY <1>3, AcquireKeeps, FetchKeeps
<1>4. ASSUME NEW c \in Clients, \E f : Quiet(c, f) PROVE BudgetInv'
  BY <1>4, QuietKeeps DEF Quiet
<1>5. ASSUME NEW c \in Clients,
             \/ TokenRead(c) \/ Stored(c) \/ Report(c) \/ Mark(c) \/ Called(c)
             \/ Fail(c) \/ Sell(c) \/ Detached(c)
             \/ (\E kind \in Kinds, rows \in SUBSET Keys : Answer(c, kind, rows))
             \/ (\E k \in Keys : Store(c, k)) \/ (\E ok \in BOOLEAN : Probed(c, ok))
      PROVE  BudgetInv'
  BY <1>4, <1>5, GoesOnQuietly
<1>6. ASSUME NEW c \in Clients,
             \/ Sync(c) \/ Verify(c) \/ AddCredential(c) \/ Ask(c)
             \/ (\E n \in Names : Detach(c, n))
             \/ (\E i \in DOMAIN credential : Revoke(c, i))
             \/ (\E s \in {"ACTIVE", "DISABLED", "DEGRADED"} : SetStatus(c, s))
             \/ (\E t \in Customers, k \in Keys : Claim(c, k, t))
             \/ (\E t \in Customers, n \in Names : Create(c, n, t))
      PROVE  BudgetInv'
  BY <1>4, <1>6, BeginsQuietly
<1>7. ASSUME NEW c \in Clients,
             \/ \E site \in Sites : ListDatabases(c, site) \/ PhpMyAdminLink(c, site)
             \/ \E site \in Sites, disposable \in BOOLEAN :
                  ChangeDatabase(c, site, disposable)
             \/ ListMailboxes(c)
             \/ \E disposable \in BOOLEAN :
                  ChangeMailbox(c, disposable) \/ PushZone(c, disposable)
      PROVE  BudgetInv'
  <2>1. Ask(c)
    BY <1>7 DEF ListDatabases, PhpMyAdminLink, ChangeDatabase, ListMailboxes,
                ChangeMailbox, PushZone
  <2> QED
    BY <1>6, <2>1
<1> QED
  BY <1>1, <1>2, <1>3, <1>5, <1>6, <1>7 DEF Next

\* In no window does one process send the provider more than twice what the
\* bucket holds and refills, and what was under way, for any limit, window and
\* number of requests (acquire, and the repeated request of fetchRows).
THEOREM BudgetHolds == Spec => []WithinBudget
<1>1. BudgetInv => WithinBudget
  <2> SUFFICES ASSUME BudgetInv, NEW t \in 1..clock, NEW u \in 1..clock,
                      u \in t..t + Window - 1
               PROVE  calls[u] - calls[t - 1]
                        <= 2 * (Limit + (Window - 1) * (Limit \div Window))
                             + Cardinality(Clients)
    BY DEF WithinBudget
  <2> DEFINE n == u - t
             C == Cardinality(Clients)
             sent == calls[u] - calls[t - 1]
  <2>1. /\ n \in Nat /\ Window - 1 - n \in Nat /\ Window - 1 \in Nat
        /\ clock \in 1..MaxTime /\ MaxTime \in Nat /\ Limit \in Nat /\ C \in Nat
    BY UnderWayIs, BudgetAssumption DEF BudgetInv
  <2>2. sent \in Int
    <3>1. u \in 0..MaxTime /\ t - 1 \in 0..MaxTime
      BY <2>1
    <3>2. calls[u] \in Nat /\ calls[t - 1] \in Nat
      BY <3>1 DEF BudgetInv
    <3> QED
      BY <3>2
  <2>3. sent <= 2 * (Limit + n * Rate) + C
    <3>1. CASE u = clock
      <4>1. sent + Cardinality(UnderWay) + 2 * Refilled.tokens
              <= 2 * (Limit + n * Rate) + C
        BY <3>1 DEF BudgetInv, Spent
      <4>2. Refilled.tokens \in Nat /\ Cardinality(UnderWay) \in Nat
        BY <2>1, RefilledIs, UnderWayIs
      <4>3. Limit + n * Rate \in Nat
        BY <2>1, AllowanceIs
      <4> HIDE DEF sent, n, C
      <4> QED
        BY <2>1, <2>2, <4>1, <4>2, <4>3
    <3>2. CASE u # clock
      <4>1. u \in 1..clock - 1 /\ t <= u
        BY <2>1, <3>2
      <4> QED
        BY <4>1 DEF BudgetInv, SpentBefore
    <3> QED
      BY <3>1, <3>2
  <2>4. n * Rate \in Nat /\ (Window - 1) * Rate = n * Rate + (Window - 1 - n) * Rate
        /\ (Window - 1 - n) * Rate \in Nat
    <3> HIDE DEF n
    <3>1. n * Rate \in Nat /\ (Window - 1 - n) * Rate \in Nat
      BY <2>1, AllowanceIs
    <3>2. \A a, b, r \in Nat : (a + b) * r = a * r + b * r
      BY Z3
    <3>3. Window - 1 = n + (Window - 1 - n)
      BY <2>1
    <3> QED
      BY <2>1, <3>1, <3>2, <3>3, RateIs
  <2> HIDE DEF sent, n, C
  <2>5. sent <= 2 * (Limit + (Window - 1) * Rate) + C
    BY <2>1, <2>2, <2>3, <2>4
  <2> QED
    BY <2>5 DEF sent, C, Rate
<1> QED
  BY <1>1, InitClaims, NextClaims, InitBudget, NextBudget, PTL DEF Spec
=============================================================================
