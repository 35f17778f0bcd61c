-------------------------------- MODULE Mail --------------------------------
(***************************************************************************)
(* Mail domains, mailboxes and aliases, changed by concurrent requests.    *)
(*                                                                         *)
(* A request reads, decides and writes in separate statements: each action *)
(* is the code between two awaits.  What the database itself refuses (a    *)
(* name in use, a row that is gone) is part of the write.                  *)
(*                                                                         *)
(* Abstractions.  An address is <<domain, local part>>, already normalised *)
(* and valid, and an address of a domain nobody added is external.  A      *)
(* verification token is the id of the domain's row.  Passwords, quotas    *)
(* and the isActive flags are left out: no decision modelled here reads    *)
(* them.                                                                   *)
(***************************************************************************)
EXTENDS Naturals, Sequences, FiniteSets, SequencesExt

CONSTANTS
  Customers,    \* customer accounts
  Limit,        \* [Customers -> Nat], mailboxes in the plan of each
  Domains,      \* domain names
  LocalParts,   \* local parts a mailbox or an alias may have
  CatchAll,     \* "*", the local part of an alias for what is left over
  Targets,      \* the sets of addresses an alias is asked to forward to
  Clients,      \* requests being served at one time
  MaxDepth,     \* MAX_DEPTH
  MaxRows       \* bound: rows of domains ever made

ASSUME MailAssumption ==
  /\ Limit \in [Customers -> Nat] /\ MaxDepth \in Nat
  /\ IsFiniteSet(Clients) /\ IsFiniteSet(Domains) /\ IsFiniteSet(LocalParts)
  /\ IsFiniteSet(Targets) /\ \A T \in Targets : IsFiniteSet(T)

VARIABLES
  domain,   \* the mail domains: name -> owner, row id, status
  txt,      \* the tokens published in the DNS at any time
  mailbox,  \* the addresses that have a mailbox
  alias,    \* the addresses that have an alias, and where each leads
  flow,     \* what each request holds between two statements
  rows,     \* bound: rows of domains made so far
  raced     \* history: some write came between a request's reads and its write

vars == <<domain, txt, mailbox, alias, flow, rows, raced>>

Idle == [at |-> "idle"]
Init ==
  /\ domain = <<>>
  /\ txt = {}
  /\ mailbox = {}
  /\ alias = <<>>
  /\ flow = [c \in Clients |-> Idle]
  /\ rows = 0
  /\ raced = FALSE

Step(c, f) == flow' = [flow EXCEPT ![c] = f]
Finish(c) == Step(c, Idle)

---------------------------------------------------------------------------
(* mail-routing.ts                                                         *)

\* Where the mail of an address goes next: to itself where it has a mailbox,
\* else along its own alias, else along the catch-all.  Leaf is nowhere.
Leaf == {}
Onward(a, to) ==
  IF a[1] \notin DOMAIN domain \/ a \in mailbox THEN Leaf
  ELSE IF a \in DOMAIN to THEN to[a]
  ELSE IF <<a[1], CatchAll>> \in DOMAIN to THEN to[<<a[1], CatchAll>>]
  ELSE Leaf

\* resolveAddress, one call of walk: the calls still to be made, each for an
\* address and the chain that led to it.  An address met again is a loop only
\* where it repeats in its own chain; elsewhere it is a diamond, and delivers
\* once.
Call(a, chain) == [address |-> a, chain |-> chain]
Visit(walk, to) ==
  LET a == Head(walk.calls).address
      chain == Head(walk.calls).chain
      onward == SetToSeq({Call(b, chain \cup {a}) : b \in Onward(a, to)})
  IN IF walk.loop \/ walk.calls = <<>> THEN walk
     ELSE IF a \in walk.visited
     THEN [walk EXCEPT !.calls = Tail(@), !.loop = a \in chain]
     ELSE [calls |-> onward \o Tail(walk.calls),
           visited |-> walk.visited \cup {a},
           loop |-> Cardinality(chain) >= MaxDepth]

\* The addresses that parseAddress lets through, and the catch-alls.
Anywhere == Domains \X (LocalParts \cup {CatchAll}) \cup UNION Targets

\* An address is expanded once, so there are no more calls than this.
MaxCalls == Cardinality(Anywhere \X Anywhere) + 1
Walk(a, to) ==
  LET walk[n \in 0..MaxCalls] ==
        IF n = 0
        THEN [calls |-> <<Call(a, {})>>, visited |-> {}, loop |-> FALSE]
        ELSE Visit(walk[n - 1], to)
  IN walk[MaxCalls]

LoopFromSlip(a, to) == \* looks only where the address itself comes back to
  a \in Onward(a, to)
LoopFrom(a, to) == Walk(a, to).loop

\* wouldCreateLoop: a catch-all is not an address that can be stored, so the
\* question is not asked of it.
WouldLoopSlip(a, targets) ==  \* asks what happens now, before the change
  /\ a[2] # CatchAll
  /\ a[1] \in DOMAIN domain
  /\ LoopFrom(a, alias)
WouldLoop(a, targets) ==
  /\ a[2] # CatchAll
  /\ a[1] \in DOMAIN domain
  /\ LoopFrom(a, [b \in DOMAIN alias \cup {a} |->
                    IF b = a THEN targets ELSE alias[b]])

---------------------------------------------------------------------------
(* mail-domains.service.ts                                                 *)

Row(d, id) == d \in DOMAIN domain /\ domain[d].id = id
Put(f, x, y) == [z \in DOMAIN f \cup {x} |-> IF z = x THEN y ELSE f[z]]
Drop(f, S) == [z \in DOMAIN f \ S |-> f[z]]
At(d) == {a \in mailbox \cup DOMAIN alias : a[1] = d}

\* The name is globally unique.
AddDomain(t, d) ==
  /\ rows < MaxRows
  /\ d \notin DOMAIN domain
  /\ rows' = rows + 1
  /\ domain' = Put(domain, d, [owner |-> t, id |-> rows',
                               status |-> "PENDING_VERIFICATION"])
  /\ UNCHANGED <<txt, mailbox, alias, flow, raced>>

Publish(d) ==
  /\ txt' = txt \cup {domain[d].id}
  /\ UNCHANGED <<domain, mailbox, alias, flow, rows, raced>>

VerifyRead(c, d) ==
  /\ flow[c] = Idle
  /\ domain[d].status = "PENDING_VERIFICATION"
  /\ Step(c, [at |-> "verify", domain |-> d, id |-> domain[d].id])
  /\ UNCHANGED <<domain, txt, mailbox, alias, rows, raced>>

VerifyWriteSlip(c) ==  \* updates by name
  /\ flow[c].at = "verify"
  /\ LET d == flow[c].domain IN
       domain' = IF flow[c].id \in txt /\ d \in DOMAIN domain
                 THEN [domain EXCEPT ![d].status = "ACTIVE"] ELSE domain
  /\ Finish(c)
  /\ UNCHANGED <<txt, mailbox, alias, rows, raced>>
\* The lookup answers, with the token or not; the row is then updated by its
\* id, which fails where the row is gone.
VerifyWrite(c) ==
  /\ flow[c].at = "verify"
  /\ LET d == flow[c].domain IN
       domain' = IF flow[c].id \in txt /\ Row(d, flow[c].id)
                 THEN [domain EXCEPT ![d].status = "ACTIVE"] ELSE domain
  /\ Finish(c)
  /\ UNCHANGED <<txt, mailbox, alias, rows, raced>>

\* Deletes everything on the domain with it.
RemoveDomain(d) ==
  /\ mailbox' = mailbox \ At(d)
  /\ alias' = Drop(alias, At(d))
  /\ domain' = Drop(domain, {d})
  /\ UNCHANGED <<txt, flow, rows, raced>>

---------------------------------------------------------------------------
(* mailboxes.service.ts and plan-limits.service.ts                         *)

\* Every other request that has read the addresses is now behind the times.
Changed(others) ==
  raced' = (raced \/ \E o \in others :
                        flow[o].at \in {"count", "writeMailbox", "check",
                                        "writeAlias"})

Boxes(t) == {a \in mailbox : domain[a[1]].owner = t}
MayCreateSlip(t) == Limit[t] > 0 /\ Cardinality(Boxes(t)) <= Limit[t]
MayCreate(t) == Cardinality(Boxes(t)) + 1 <= Limit[t]

\* requireActiveOwned, and the clash with a mailbox or an alias.
Free(a) ==
  /\ a[1] \in DOMAIN domain /\ domain[a[1]].status = "ACTIVE"
  /\ a \notin mailbox \cup DOMAIN alias

MailboxCheck(c, a) ==
  /\ flow[c] = Idle
  /\ Free(a)
  /\ Step(c, [at |-> "count", a |-> a, id |-> domain[a[1]].id,
              owner |-> domain[a[1]].owner])
  /\ UNCHANGED <<domain, txt, mailbox, alias, rows, raced>>

MailboxCount(c) ==
  /\ flow[c].at = "count"
  /\ IF MayCreate(flow[c].owner)
     THEN Step(c, [flow[c] EXCEPT !.at = "writeMailbox"]) ELSE Finish(c)
  /\ UNCHANGED <<domain, txt, mailbox, alias, rows, raced>>

MailboxWrite(c) ==
  /\ flow[c].at = "writeMailbox"
  /\ IF Row(flow[c].a[1], flow[c].id) /\ flow[c].a \notin mailbox
     THEN mailbox' = mailbox \cup {flow[c].a} /\ Changed(Clients \ {c})
     ELSE UNCHANGED <<mailbox, raced>>
  /\ Finish(c)
  /\ UNCHANGED <<domain, txt, alias, rows>>

MailboxRemove(a) ==
  /\ a \in mailbox
  /\ mailbox' = mailbox \ {a}
  /\ Changed(Clients)
  /\ UNCHANGED <<domain, txt, alias, flow, rows>>

---------------------------------------------------------------------------
(* aliases.service.ts                                                      *)

AliasCheck(c, a, targets) ==
  /\ flow[c] = Idle
  /\ Free(a)
  /\ Step(c, [at |-> "check", a |-> a, id |-> domain[a[1]].id,
              targets |-> targets, update |-> FALSE])
  /\ UNCHANGED <<domain, txt, mailbox, alias, rows, raced>>

AliasOwned(c, a, targets) ==
  /\ flow[c] = Idle
  /\ a \in DOMAIN alias
  /\ Step(c, [at |-> "check", a |-> a, id |-> domain[a[1]].id,
              targets |-> targets, update |-> TRUE])
  /\ UNCHANGED <<domain, txt, mailbox, alias, rows, raced>>

\* assertNoLoop reads the tables of every domain.
AssertNoLoop(c) ==
  /\ flow[c].at = "check"
  /\ IF WouldLoop(flow[c].a, flow[c].targets) THEN Finish(c)
     ELSE Step(c, [flow[c] EXCEPT !.at = "writeAlias"])
  /\ UNCHANGED <<domain, txt, mailbox, alias, rows, raced>>

AliasWrite(c) ==
  /\ flow[c].at = "writeAlias"
  /\ LET f == flow[c] IN
     IF Row(f.a[1], f.id) /\ (f.update <=> f.a \in DOMAIN alias)
     THEN alias' = Put(alias, f.a, f.targets) /\ Changed(Clients \ {c})
     ELSE UNCHANGED <<alias, raced>>
  /\ Finish(c)
  /\ UNCHANGED <<domain, txt, mailbox, rows>>

\* An update in flight will not find the row, even if another has its name.
AliasRemove(a) ==
  /\ a \in DOMAIN alias
  /\ alias' = Drop(alias, {a})
  /\ Changed(Clients)
  /\ flow' = [c \in Clients |->
                IF flow[c].at \in {"check", "writeAlias"}
                     /\ flow[c].a = a /\ flow[c].update
                THEN Idle ELSE flow[c]]
  /\ UNCHANGED <<domain, txt, mailbox, rows>>

Next ==
  \/ \E d \in Domains, t \in Customers : AddDomain(t, d)
  \/ \E d \in DOMAIN domain :
        \/ Publish(d) \/ RemoveDomain(d)
        \/ \E c \in Clients : VerifyRead(c, d)
  \/ \E c \in Clients :
        \/ VerifyWrite(c) \/ MailboxCount(c) \/ MailboxWrite(c)
        \/ AssertNoLoop(c) \/ AliasWrite(c)
  \/ \E c \in Clients, a \in Domains \X LocalParts :
        \/ MailboxCheck(c, a)
        \/ \E T \in Targets : AliasCheck(c, a, T) \/ AliasOwned(c, a, T)
  \/ \E c \in Clients, d \in Domains, T \in Targets :
        AliasCheck(c, <<d, CatchAll>>, T) \/ AliasOwned(c, <<d, CatchAll>>, T)
  \/ \E a \in mailbox : MailboxRemove(a)
  \/ \E a \in DOMAIN alias : AliasRemove(a)

Spec == Init /\ [][Next]_vars

---------------------------------------------------------------------------
(* Properties.                                                             *)

Addresses == UNION ({DOMAIN alias} \cup Targets)

\* Mail that enters such a set never leaves it: each address of it leads to
\* another.  Only the branches that leave are ever delivered.
Circle(S) == S # {} /\ \A a \in S : Onward(a, alias) \cap S # {}

\* The walk of resolveAddress, which stops at the first address it meets again
\* in its own chain and passes over diamonds, reports a loop wherever mail could
\* run for ever, and nowhere else, but for chains of more than MAX_DEPTH, which
\* take as many addresses.
WalkFindsLoops ==
  \A a \in Addresses :
     LET endless == \E S \in SUBSET Addresses : a \in S /\ Circle(S) IN
     /\ endless => LoopFrom(a, alias)
     /\ LoopFrom(a, alias) => endless \/ Cardinality(Addresses) > MaxDepth

\* "Checked before the write, so the cycle never exists"
\* (mail-routing.ts:126): as long as no write overtook another request's
\* reads, a loop can only be one that runs through a catch-all, whatever is
\* added, changed and removed, and no alias lies hidden behind a mailbox.
\* Through a catch-all there are loops: its own destinations are never checked,
\* and removing an alias or a mailbox uncovers it.
LoopsNeedCatchAll ==
  raced
    \/ /\ \A S \in SUBSET Addresses :
             Circle(S) => \E a \in S : a \notin DOMAIN alias \/ a[2] = CatchAll
       /\ mailbox \cap DOMAIN alias = {}

\* "A customer can exceed a limit by the number of requests they make at once,
\* not indefinitely" (plan-limits.service.ts:80), which is one less, for the
\* first of them fits; and a plan without mailboxes gives none.
OversellBounded ==
  \A t \in Customers :
     Cardinality(Boxes(t)) <= IF Limit[t] = 0 THEN 0
                              ELSE Limit[t] + Cardinality(Clients) - 1

\* A domain carries mail only for the customer who proved to hold it: it became
\* active on the token of its present row, and nothing is on it before that,
\* whoever removes it and claims it again while a lookup is on its way.
CarriesOnlyProved ==
  /\ \A d \in DOMAIN domain :
        domain[d].status = "ACTIVE" => domain[d].id \in txt
  /\ \A a \in mailbox \cup DOMAIN alias :
        a[1] \in DOMAIN domain /\ domain[a[1]].status = "ACTIVE"
=============================================================================
