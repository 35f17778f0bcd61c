---------------------------- MODULE DomainProofs ----------------------------
(***************************************************************************)
(* What holds of a customer's domain: of its mail (module Mail), for any   *)
(* customers, domains, addresses, limits and requests, and of its DNS      *)
(* records (module Zone), for any contents, policy and requests.           *)
(***************************************************************************)
EXTENDS Mail, Zone, FiniteSetTheorems, SequenceTheorems,
        WellFoundedInduction, TLAPS

---------------------------------------------------------------------------
(* The records.  ZoneInv is inductive; both properties of Zone follow.     *)

\* A rule that a record breaks beside another is broken the other way round:
\* validateAgainstZone gives one answer whichever of the two is being written.
LEMMA ClashIsSymmetric ==
  ASSUME NEW r, NEW s, Clash(r, s)
  PROVE  Clash(s, r)
BY DEF Clash, Declares

\* The empty zone and its idle requests satisfy the invariant.
LEMMA InitInv == ZoneInit => ZoneInv
BY DEF ZoneInit, ZoneInv, TypeOK, Compared, Carried, FlowOK,
       NoRequest

\* A request that begins, goes on or ends leaves the others as they are.
LEMMA StepsAlone ==
  ASSUME DOMAIN request = Requests, NEW c \in Requests, NEW f, Proceed(c, f)
  PROVE  /\ DOMAIN request' = Requests
         /\ request'[c] = f
         /\ \A d \in Requests : d # c => request'[d] = request[d]
BY DEF Proceed

---------------------------------------------------------------------------
(* What each kind of step does.                                            *)

\* An edit begins: it holds a record that clashes with nothing it has read.
LEMMA EditBegins ==
  ASSUME ZoneInv, NEW c \in Requests, NEW at \in {"insert", "update"},
         NEW id \in Nat, NEW r \in Contents, Edit(c, at, id, r)
  PROVE  ZoneInv'
<1> DEFINE f == [at |-> at, id |-> id, content |-> r, saw |-> Others(id)]
<1>1. /\ orders < MaxOrders /\ orders' = orders + 1
      /\ Proceed(c, f) /\ UNCHANGED <<zone, upstream, adrift>>
  BY DEF Edit, Begin
<1>2. orders' \in Nat
  BY <1>1 DEF ZoneInv, TypeOK
<1>3. Others(id) \in Seen
  BY DEF Others, Seen, ZoneInv, TypeOK, Record
<1>4. /\ FlowOK(f) /\ f.at \in {"insert", "update"}
      /\ \A s \in f.saw : ~Clash(f.content, s[2])
  BY <1>2, <1>3 DEF FlowOK, Edit
<1> HIDE DEF f
<1>6. /\ DOMAIN request' = Requests /\ request'[c] = f
      /\ \A d \in Requests : d # c => request'[d] = request[d]
  BY <1>1, StepsAlone DEF ZoneInv, TypeOK
<1>7. TypeOK'
  BY <1>1, <1>2, <1>4, <1>6 DEF ZoneInv, TypeOK, FlowOK
<1>8. Compared'
  BY <1>1, <1>4, <1>6 DEF ZoneInv, Compared
<1>9. Carried'
  BY <1>1, <1>4, <1>6 DEF ZoneInv, Carried
<1> QED
  BY <1>7, <1>8, <1>9 DEF ZoneInv

\* An edit ends, and the zone is the old one with at most the record the edit
\* wrote in place of another; what it wrote saw what the edit saw.
LEMMA EditEnds ==
  ASSUME ZoneInv, NEW c \in Requests, request[c].at \in {"insert", "update"},
         Proceed(c, NoRequest), UNCHANGED <<upstream, adrift, orders>>,
         DOMAIN zone' \subseteq DOMAIN zone \cup {request[c].id},
         \A i \in DOMAIN zone' :
           \/ zone'[i] = Written(request[c])
           \/ i \in DOMAIN zone /\ zone'[i] = zone[i]
  PROVE  ZoneInv'
<1> DEFINE f == request[c]
<1>1. /\ DOMAIN request' = Requests /\ request'[c] = NoRequest
      /\ \A d \in Requests : d # c => request'[d] = request[d]
  BY StepsAlone DEF ZoneInv, TypeOK
<1>2. /\ f.id \in Nat /\ f.content \in Contents /\ f.saw \in Seen
      /\ \A s \in f.saw : ~Clash(f.content, s[2])
  BY DEF ZoneInv, TypeOK, Compared, FlowOK, NoRequest
<1>3. Written(f) \in Record /\ Written(f).synced = FALSE
  BY <1>2 DEF Written, Record, Publishing
<1>4. /\ Written(f).content = f.content /\ Written(f).saw = f.saw
      /\ Written(f).late = Publishing
  BY DEF Written
<1>5. TypeOK'
  <2>1. \A i \in DOMAIN zone' : zone'[i] \in Record
    BY <1>3 DEF ZoneInv, TypeOK
  <2>2. \A d \in Requests : FlowOK(request'[d])
    BY <1>1 DEF ZoneInv, TypeOK, FlowOK
  <2>3. orders' \in Nat /\ DOMAIN zone' \subseteq Nat
    BY <1>2 DEF ZoneInv, TypeOK
  <2> QED
    BY <1>1, <2>1, <2>2, <2>3 DEF TypeOK, FlowOK
<1>6. Compared'
  BY <1>1, <1>2, <1>4 DEF ZoneInv, Compared, NoRequest
<1>7. Carried'
  <2> SUFFICES ASSUME NEW i \in DOMAIN zone', ~zone'[i].late
               PROVE  LET r == Sent(zone'[i].content) IN
                      /\ \A e \in adrift : r \in e
                      /\ \A d \in Requests :
                           request'[d].at = "push" => r \in request'[d].entries
                      /\ \A d \in Requests :
                           request'[d].at = "mark" => r \in upstream
                      /\ zone'[i].synced => r \in upstream
    BY DEF Carried, Sent
  <2>1. CASE zone'[i] = Written(f)
    <3>1. ~Publishing
      BY <2>1, <1>4
    <3> QED
      BY <2>1, <3>1, <1>1, <1>3 DEF Publishing, NoRequest
  <2>2. CASE i \in DOMAIN zone /\ zone'[i] = zone[i]
    BY <2>2, <1>1 DEF ZoneInv, Carried, NoRequest
  <2> QED
    BY <2>1, <2>2
<1> QED
  BY <1>5, <1>6, <1>7 DEF ZoneInv

\* A record goes: the rest of the zone is as it was.
LEMMA RemoveKeeps ==
  ASSUME ZoneInv, NEW c \in Requests, NEW id \in DOMAIN zone, RemoveRecord(c, id)
  PROVE  ZoneInv'
<1>1. /\ orders < MaxOrders /\ orders' = orders + 1
      /\ UNCHANGED <<upstream, adrift>>
      /\ Proceed(c, NoRequest)
      /\ DOMAIN zone' = DOMAIN zone \ {id}
      /\ \A i \in DOMAIN zone' : zone'[i] = zone[i]
  BY DEF RemoveRecord, Begin
<1>2. /\ DOMAIN request' = Requests /\ request'[c] = NoRequest
      /\ \A d \in Requests : d # c => request'[d] = request[d]
  BY <1>1, StepsAlone DEF ZoneInv, TypeOK
<1>3. TypeOK'
  BY <1>1, <1>2 DEF ZoneInv, TypeOK, FlowOK
<1>4. Compared'
  BY <1>1, <1>2 DEF ZoneInv, Compared, NoRequest
<1>5. Carried'
  BY <1>1, <1>2 DEF ZoneInv, Carried, NoRequest
<1> QED
  BY <1>3, <1>4, <1>5 DEF ZoneInv

\* A publication begins: what it will send holds every record of the zone.
LEMMA PublishBegins ==
  ASSUME ZoneInv, NEW c \in Requests, PublishZone(c)
  PROVE  ZoneInv'
<1> DEFINE f == [at |-> "push",
                 entries |-> {Sent(zone[i].content) : i \in DOMAIN zone}]
<1>1. /\ orders < MaxOrders /\ orders' = orders + 1
      /\ Proceed(c, f) /\ UNCHANGED <<zone, upstream, adrift>>
  BY DEF PublishZone, Begin
<1>2. /\ f.at = "push"
      /\ \A i \in DOMAIN zone : Sent(zone[i].content) \in f.entries
  OBVIOUS
<1>3. FlowOK(f)
  BY DEF FlowOK, ZoneInv, TypeOK, Record
<1> HIDE DEF f
<1>4. /\ DOMAIN request' = Requests /\ request'[c] = f
      /\ \A d \in Requests : d # c => request'[d] = request[d]
  BY <1>1, StepsAlone DEF ZoneInv, TypeOK
<1>5. TypeOK'
  BY <1>1, <1>3, <1>4 DEF ZoneInv, TypeOK, FlowOK
<1>6. Compared'
  BY <1>1, <1>2, <1>4 DEF ZoneInv, Compared
<1>7. Carried'
  BY <1>1, <1>2, <1>4 DEF ZoneInv, Carried
<1> QED
  BY <1>5, <1>6, <1>7 DEF ZoneInv

\* A publication that has read the zone is served, is refused, or times out: what
\* it sent goes to the provider, nowhere, or where it may still land.
LEMMA PushEnds ==
  ASSUME ZoneInv, NEW c \in Requests,
         Push(c) \/ Refuse(c) \/ TimeOut(c)
  PROVE  ZoneInv'
<1>1. /\ UNCHANGED <<zone, orders>> /\ request[c].at = "push"
      /\ upstream' \in {upstream, request[c].entries}
      /\ adrift' \subseteq adrift \cup {request[c].entries}
  BY DEF Push, Refuse, TimeOut
<1>2. PICK f \in {NoRequest, [at |-> "mark"]} :
        Proceed(c, f) /\ (f.at = "mark" => upstream' = request[c].entries)
  BY DEF Push, Refuse, TimeOut, NoRequest
<1>3. /\ DOMAIN request' = Requests /\ request'[c] = f
      /\ \A d \in Requests : d # c => request'[d] = request[d]
  BY <1>2, StepsAlone DEF ZoneInv, TypeOK
<1>4. TypeOK'
  BY <1>1, <1>2, <1>3 DEF ZoneInv, TypeOK, FlowOK
<1>5. Compared'
  BY <1>1, <1>2, <1>3 DEF ZoneInv, Compared, NoRequest
<1>6. Carried'
  BY <1>1, <1>2, <1>3 DEF ZoneInv, Carried, NoRequest
<1> QED
  BY <1>4, <1>5, <1>6 DEF ZoneInv

\* A publication nobody waits for lands: every record it did not overtake is in
\* it.
LEMMA LandKeeps ==
  ASSUME ZoneInv, NEW entries \in adrift, Land(entries)
  PROVE  ZoneInv'
<1>1. TypeOK'
  BY DEF Land, ZoneInv, TypeOK, FlowOK
<1>2. Compared'
  BY DEF Land, ZoneInv, Compared
<1>3. Carried'
  BY DEF Land, ZoneInv, Carried
<1> QED
  BY <1>1, <1>2, <1>3 DEF ZoneInv

\* Everything is marked: what no publication overtook is at the provider.
LEMMA MarkKeeps ==
  ASSUME ZoneInv, NEW c \in Requests, Mark(c)
  PROVE  ZoneInv'
<1>1. /\ request[c].at = "mark" /\ UNCHANGED <<upstream, adrift, orders>>
      /\ Proceed(c, NoRequest)
      /\ DOMAIN zone' = DOMAIN zone
      /\ \A i \in DOMAIN zone : zone'[i] = [zone[i] EXCEPT !.synced = TRUE]
  BY DEF Mark
<1>2. \A i \in DOMAIN zone :
        /\ zone'[i] \in Record
        /\ zone'[i].content = zone[i].content /\ zone'[i].saw = zone[i].saw
        /\ zone'[i].late = zone[i].late
  BY <1>1 DEF ZoneInv, TypeOK, Record
<1>3. /\ DOMAIN request' = Requests /\ request'[c] = NoRequest
      /\ \A d \in Requests : d # c => request'[d] = request[d]
  BY <1>1, StepsAlone DEF ZoneInv, TypeOK
<1>4. TypeOK'
  BY <1>1, <1>2, <1>3 DEF ZoneInv, TypeOK, FlowOK
<1>5. Compared'
  BY <1>1, <1>2, <1>3 DEF ZoneInv, Compared, NoRequest
<1>6. Carried'
  BY <1>1, <1>2, <1>3 DEF ZoneInv, Carried, NoRequest
<1> QED
  BY <1>4, <1>5, <1>6 DEF ZoneInv

---------------------------------------------------------------------------
(* The invariant, and what follows.                                        *)

LEMMA NextInv == ZoneInv /\ [ZoneNext]_(zoneVars) => ZoneInv'
<1> SUFFICES ASSUME ZoneInv, [ZoneNext]_(zoneVars) PROVE ZoneInv'
  OBVIOUS
<1>1. ASSUME NEW c \in Requests, NEW r \in Contents, Create(c, r)
      PROVE  ZoneInv'
  <2>1. orders + 1 \in Nat
    BY <1>1 DEF Create, Edit, Begin, ZoneInv, TypeOK
  <2> QED
    BY <1>1, <2>1, EditBegins DEF Create
<1>2. ASSUME NEW c \in Requests, NEW r \in Contents, NEW id \in DOMAIN zone,
             Update(c, id, r)
      PROVE  ZoneInv'
  <2>1. id \in Nat
    BY DEF ZoneInv, TypeOK
  <2> QED
    BY <1>2, <2>1, EditBegins DEF Update
<1>3. ASSUME NEW c \in Requests, NEW id \in DOMAIN zone, RemoveRecord(c, id)
      PROVE  ZoneInv'
  BY <1>3, RemoveKeeps
<1>4. ASSUME NEW c \in Requests, Insert(c) PROVE ZoneInv'
  <2>1. /\ request[c].at = "insert" /\ Proceed(c, NoRequest)
        /\ UNCHANGED <<upstream, adrift, orders>>
        /\ DOMAIN zone' = DOMAIN zone \cup {request[c].id}
    BY <1>4 DEF Insert
  <2>2. \A i \in DOMAIN zone' :
          \/ zone'[i] = Written(request[c])
          \/ i \in DOMAIN zone /\ zone'[i] = zone[i]
    BY <1>4 DEF Insert
  <2> QED
    BY <2>1, <2>2, EditEnds
<1>5. ASSUME NEW c \in Requests, Replace(c) PROVE ZoneInv'
  <2>1. /\ request[c].at = "update" /\ Proceed(c, NoRequest)
        /\ UNCHANGED <<upstream, adrift, orders>>
        /\ DOMAIN zone' = DOMAIN zone
    BY <1>5 DEF Replace
  <2>2. \A i \in DOMAIN zone' :
          \/ zone'[i] = Written(request[c])
          \/ i \in DOMAIN zone /\ zone'[i] = zone[i]
    BY <1>5 DEF Replace
  <2> QED
    BY <2>1, <2>2, EditEnds
<1>6. ASSUME NEW c \in Requests, Fail(c) PROVE ZoneInv'
  BY <1>6, EditEnds DEF Fail
<1>7. ASSUME NEW c \in Requests, PublishZone(c) PROVE ZoneInv'
  BY <1>7, PublishBegins
<1>8. ASSUME NEW c \in Requests, Push(c) \/ Refuse(c) \/ TimeOut(c)
      PROVE  ZoneInv'
  BY <1>8, PushEnds
<1>9. ASSUME NEW c \in Requests, Mark(c) PROVE ZoneInv'
  BY <1>9, MarkKeeps
<1>10. ASSUME NEW entries \in adrift, Land(entries) PROVE ZoneInv'
  BY <1>10, LandKeeps
<1>11. CASE UNCHANGED zoneVars
  BY <1>11 DEF zoneVars, ZoneInv, TypeOK, Compared, Carried,
               FlowOK
<1> QED
  BY <1>1, <1>2, <1>3, <1>4, <1>5, <1>6, <1>7, <1>8, <1>9, <1>10, <1>11
  DEF ZoneNext

\* The zone, its flows and their order of service keep their types, and ZoneInv
\* holds in every state, for any number of overlapping edits and publications.
THEOREM ZoneInvariant == ZoneSpec => []ZoneInv
BY InitInv, NextInv, PTL DEF ZoneSpec

\* Edits that do not overlap keep the rules of the zone: of two records that
\* break one together, neither edit could see the other (assertValid of
\* DnsService and AdminDnsService).
THEOREM RulesHold == ZoneSpec => []RulesUnlessSideBySide
<1>1. ZoneInv => RulesUnlessSideBySide
  <2> SUFFICES ASSUME ZoneInv, NEW i \in DOMAIN zone, NEW j \in DOMAIN zone,
                      Clash(zone[i].content, zone[j].content)
               PROVE  /\ <<j, zone[j].content>> \notin zone[i].saw
                      /\ <<i, zone[i].content>> \notin zone[j].saw
    BY DEF RulesUnlessSideBySide
  <2>1. Clash(zone[j].content, zone[i].content)
    BY ClashIsSymmetric
  <2> QED
    BY <2>1 DEF ZoneInv, Compared
<1> QED
  BY <1>1, ZoneInvariant, PTL

\* What is shown as published is at the provider as it stands, however edits,
\* publications, refusals and requests that land late overlap, but for records
\* written while a publication was under way (pushZone).
THEOREM PublishedHolds == ZoneSpec => []PublishedIsUpstream
<1>1. ZoneInv => PublishedIsUpstream
  BY DEF ZoneInv, Carried, PublishedIsUpstream
<1> QED
  BY <1>1, ZoneInvariant, PTL

---------------------------------------------------------------------------
(* The walk of resolveAddress: where it reports no loop, the addresses it  *)
(* has visited are closed under forwarding, and none of them leads back to *)
(* the one it set out from.                                                *)

\* Sets of natural numbers that start at 0 and go on have them all.
Below == {p \in Nat \X Nat : p[1] < p[2]}
LEMMA Counting ==
  ASSUME NEW S \in SUBSET Nat, 0 \in S, \A n \in S : n + 1 \in S
  PROVE  S = Nat
<1> SUFFICES ASSUME Nat \ S # {} PROVE FALSE
  OBVIOUS
<1>1. IsWellFoundedOn(Below, Nat)
  <2>1. OpToRel(<, Nat) = Below
    BY DEF OpToRel, Below
  <2> QED
    BY <2>1, NatLessThanWellFounded
<1>2. PICK n \in Nat \ S : \A k \in Nat \ S : ~(<<k, n>> \in Below)
  BY <1>1, WFMin
<1>3. n # 0 /\ n - 1 \in Nat /\ (n - 1) + 1 = n
  BY <1>2
<1>4. n - 1 \in Nat \ S
  BY <1>2, <1>3
<1>5. <<n - 1, n>> \in Below
  BY <1>2, <1>3 DEF Below
<1> QED
  BY <1>2, <1>4, <1>5

LEMMA AnywhereIsFinite ==
  IsFiniteSet(Anywhere) /\ Cardinality(Anywhere) \in Nat
<1>1. IsFiniteSet(LocalParts \cup {CatchAll})
  BY MailAssumption, FS_AddElement
<1>2. IsFiniteSet(Domains \X (LocalParts \cup {CatchAll}))
  BY <1>1, MailAssumption, FS_Product
<1>3. IsFiniteSet(UNION Targets)
  BY MailAssumption, FS_UNION
<1>4. IsFiniteSet(Anywhere)
  BY <1>2, <1>3, FS_Union DEF Anywhere
<1> QED
  BY <1>4, FS_CardinalityType

\* SetToSeq lists a finite set, each element once.
LEMMA SetIsListed ==
  ASSUME NEW T, IsFiniteSet(T)
  PROVE  /\ SetToSeq(T) \in Seq(T) /\ Len(SetToSeq(T)) = Cardinality(T)
         /\ \A x \in T : \E i \in 1..Cardinality(T) : SetToSeq(T)[i] = x
<1> DEFINE n == Cardinality(T)
           s == SetToSeq(T)
<1>1. n \in Nat /\ Bijection(1..n, T) # {}
  BY FS_CardinalityType DEF ExistsBijection
<1>2. \E f \in [1..n -> T] : IsInjective(f)
  BY <1>1 DEF Bijection, Injection
<1>3. s \in [1..n -> T] /\ IsInjective(s)
  BY <1>2 DEF SetToSeq
<1> HIDE DEF s
<1>4. s \in Injection(1..n, T)
  BY <1>3 DEF Injection
<1>5. Cardinality(1..n) = n
  BY <1>1, FS_Interval
<1>6. s \in Surjection(1..n, T)
  BY <1>4, <1>5, FS_Injection
<1> QED
  BY <1>1, <1>3, <1>6 DEF Surjection, s

LEMMA OnwardIsSomewhere ==
  ASSUME NEW to, \A b \in DOMAIN to : to[b] \subseteq Anywhere, NEW a
  PROVE  Onward(a, to) \subseteq Anywhere
BY DEF Onward, Leaf

Calls == [address : Anywhere, chain : SUBSET Anywhere]
CallsTo(T, chain) == SetToSeq({Call(b, chain) : b \in T})
LEMMA CallsOnward ==
  ASSUME NEW T \in SUBSET Anywhere, NEW chain \in SUBSET Anywhere
  PROVE  /\ CallsTo(T, chain) \in Seq(Calls) /\ Len(CallsTo(T, chain)) \in Nat
         /\ Len(CallsTo(T, chain)) <= Cardinality(Anywhere)
         /\ \A i \in 1..Len(CallsTo(T, chain)) :
              /\ CallsTo(T, chain)[i].chain = chain
              /\ CallsTo(T, chain)[i].address \in T
         /\ \A b \in T : \E i \in 1..Len(CallsTo(T, chain)) :
              CallsTo(T, chain)[i].address = b
<1> DEFINE all == {Call(b, chain) : b \in T}
           f == [b \in T |-> Call(b, chain)]
           calls == SetToSeq(all)
<1>1. IsFiniteSet(T) /\ Cardinality(T) <= Cardinality(Anywhere)
  BY AnywhereIsFinite, FS_Subset
<1>2. f \in Surjection(T, all)
  BY DEF Surjection
<1> HIDE DEF f
<1>3. IsFiniteSet(all) /\ Cardinality(all) <= Cardinality(T)
  BY <1>1, <1>2, FS_Surjection
<1>4. Cardinality(all) \in Nat /\ Cardinality(T) \in Nat
  BY <1>1, <1>3, FS_CardinalityType
<1>5. all \subseteq Calls
  BY DEF Calls, Call
<1>6. \A c \in all : c.chain = chain /\ c.address \in T
  BY DEF Call
<1>7. \A b \in T : Call(b, chain) \in all /\ Call(b, chain).address = b
  BY DEF Call
<1> HIDE DEF all
<1>8. /\ calls \in Seq(all) /\ Len(calls) = Cardinality(all)
      /\ \A x \in all : \E i \in 1..Cardinality(all) : calls[i] = x
  BY <1>3, SetIsListed
<1> HIDE DEF calls
<1>9. calls \in Seq(Calls)
  BY <1>5, <1>8, SeqMonotonic
<1>10. \A i \in 1..Len(calls) : calls[i] \in all
  BY <1>8, ElementOfSeq
<1>11. \A b \in T : \E i \in 1..Len(calls) : calls[i].address = b
  BY <1>7, <1>8
<1>12. Len(calls) \in Nat /\ Len(calls) <= Cardinality(Anywhere)
  BY <1>1, <1>3, <1>4, <1>8, AnywhereIsFinite
<1>13. \A i \in 1..Len(calls) : calls[i].chain = chain /\ calls[i].address \in T
  BY <1>6, <1>10
<1> QED
  BY <1>9, <1>11, <1>12, <1>13 DEF calls, all, CallsTo

\* What holds after n calls.
Pending(walk, b) ==
  \E i \in 1..Len(walk.calls) : walk.calls[i].address = b
Walking(walk, n, a, to) ==
  /\ walk.calls = <<>>
       \/ n + Len(walk.calls)
            <= 1 + Cardinality(walk.visited) * Cardinality(Anywhere)
  /\ IF n = 0
     THEN walk.visited = {} /\ walk.calls = <<Call(a, {})>>
     ELSE /\ a \in walk.visited
          /\ \A i \in 1..Len(walk.calls) : a \in walk.calls[i].chain
          /\ \A v \in walk.visited : \A b \in Onward(v, to) :
               Pending(walk, b) \/ b \in walk.visited \ {a}
WalkOK(walk, n, a, to) ==
  /\ walk \in [calls : Seq(Calls), visited : SUBSET Anywhere, loop : BOOLEAN]
  /\ ~walk.loop => Walking(walk, n, a, to)

\* A call for an address that was met before.
LEMMA MetAgain ==
  ASSUME NEW to, NEW a \in Anywhere, NEW n \in Nat, NEW walk,
         WalkOK(walk, n, a, to), ~walk.loop, walk.calls # <<>>,
         Head(walk.calls).address \in walk.visited
  PROVE  WalkOK(Visit(walk, to), n + 1, a, to)
<1> DEFINE x == Head(walk.calls).address
           chain == Head(walk.calls).chain
           next == Visit(walk, to)
<1>1. /\ walk \in [calls : Seq(Calls), visited : SUBSET Anywhere, loop : BOOLEAN]
      /\ Walking(walk, n, a, to) /\ n # 0
  BY DEF WalkOK, Walking
<1>2. next = [walk EXCEPT !.calls = Tail(@), !.loop = x \in chain]
  BY DEF Visit
<1> HIDE DEF next
<1>3. /\ next.calls = Tail(walk.calls) /\ next.visited = walk.visited
      /\ next.loop = (x \in chain)
      /\ next \in [calls : Seq(Calls), visited : SUBSET Anywhere, loop : BOOLEAN]
  <2>1. Tail(walk.calls) \in Seq(Calls) /\ (x \in chain) \in BOOLEAN
    BY <1>1, HeadTailProperties
  <2>2. walk = [calls |-> walk.calls, visited |-> walk.visited, loop |-> walk.loop]
        /\ walk.visited \in SUBSET Anywhere
    BY <1>1
  <2>3. next = [calls |-> Tail(walk.calls), visited |-> walk.visited,
                loop |-> x \in chain]
    BY <1>2, <2>2
  <2> HIDE DEF x, chain
  <2> QED
    BY <2>1, <2>2, <2>3
<1>4. /\ Len(walk.calls) \in Nat \ {0} /\ Len(next.calls) = Len(walk.calls) - 1
      /\ Head(walk.calls) = walk.calls[1]
      /\ \A i \in 1..Len(next.calls) : next.calls[i] = walk.calls[i + 1]
  BY <1>1, <1>3, HeadTailProperties, EmptySeq
<1>5. ASSUME ~next.loop PROVE Walking(next, n + 1, a, to)
  <2>1. x # a
    BY <1>1, <1>3, <1>4, <1>5 DEF Walking
  <2>2. n + 1 + Len(next.calls)
          <= 1 + Cardinality(next.visited) * Cardinality(Anywhere)
    BY <1>1, <1>3, <1>4 DEF Walking
  <2>3. \A i \in 1..Len(next.calls) : a \in next.calls[i].chain
    BY <1>1, <1>4 DEF Walking
  <2>4. ASSUME NEW v \in next.visited, NEW b \in Onward(v, to)
        PROVE  Pending(next, b) \/ b \in next.visited \ {a}
    <3>1. CASE b \in walk.visited \ {a}
      BY <1>3, <3>1
    <3>2. CASE Pending(walk, b)
      <4>1. PICK i \in 1..Len(walk.calls) : walk.calls[i].address = b
        BY <3>2 DEF Pending
      <4>2. CASE i = 1
        BY <1>3, <1>4, <2>1, <4>1, <4>2
      <4>3. CASE i # 1
        <5>1. i - 1 \in 1..Len(next.calls) /\ next.calls[i - 1] = walk.calls[i]
          BY <1>4, <4>1, <4>3
        <5> QED
          BY <4>1, <5>1 DEF Pending
      <4> QED
        BY <4>2, <4>3
    <3> QED
      BY <1>1, <1>3, <3>1, <3>2 DEF Walking
  <2> QED
    BY <1>1, <1>3, <2>2, <2>3, <2>4 DEF Walking
<1> QED
  BY <1>3, <1>5 DEF WalkOK, next

\* Calls put before those still to be made.
LEMMA Pushed ==
  ASSUME NEW s \in Seq(Calls), NEW t \in Seq(Calls), t # <<>>
  PROVE  LET all == s \o Tail(t)
             k == Len(s)
         IN  /\ all \in Seq(Calls) /\ Len(all) = k + Len(t) - 1
             /\ k \in Nat /\ Len(t) \in Nat \ {0}
             /\ \A i \in 1..k : all[i] = s[i]
             /\ \A i \in 2..Len(t) : all[k + i - 1] = t[i]
             /\ \A j \in k + 1..Len(all) :
                  j - k + 1 \in 2..Len(t) /\ all[j] = t[j - k + 1]
<1> DEFINE all == s \o Tail(t)
           k == Len(s)
<1>1. /\ Tail(t) \in Seq(Calls) /\ Len(t) \in Nat \ {0} /\ k \in Nat
      /\ Len(Tail(t)) = Len(t) - 1
      /\ \A i \in 1..Len(t) - 1 : Tail(t)[i] = t[i + 1]
  BY HeadTailProperties, EmptySeq
<1>2. /\ all \in Seq(Calls)
      /\ Len(all) = k + Len(Tail(t))
      /\ \A i \in 1..k + Len(Tail(t)) :
           all[i] = IF i <= k THEN s[i] ELSE Tail(t)[i - k]
  BY <1>1, ConcatProperties
<1> HIDE DEF all, k
<1>3. Len(all) = k + Len(t) - 1
  BY <1>1, <1>2
<1>4. ASSUME NEW j \in k + 1..Len(all)
      PROVE  j - k + 1 \in 2..Len(t) /\ all[j] = t[j - k + 1]
  <2>1. j - k \in 1..Len(t) - 1 /\ ~(j <= k)
    BY <1>1, <1>3
  <2>2. j \in 1..k + Len(Tail(t))
    BY <1>1, <1>3
  <2>3. all[j] = Tail(t)[j - k]
    BY <1>2, <2>1, <2>2
  <2> QED
    BY <1>1, <1>3, <2>1, <2>3
<1>5. ASSUME NEW i \in 2..Len(t)
      PROVE  all[k + i - 1] = t[i]
  <2>1. k + i - 1 \in k + 1..Len(all) /\ (k + i - 1) - k + 1 = i
    BY <1>1, <1>3
  <2> QED
    BY <1>4, <2>1
<1>6. \A i \in 1..k : all[i] = s[i]
  BY <1>1, <1>2, <1>3
<1> QED
  BY <1>1, <1>2, <1>3, <1>4, <1>5, <1>6 DEF all, k

\* A call for an address that is new.
LEMMA Expanded ==
  ASSUME NEW to, \A b \in DOMAIN to : to[b] \subseteq Anywhere,
         NEW a \in Anywhere, NEW n \in Nat, NEW walk,
         WalkOK(walk, n, a, to), ~walk.loop, walk.calls # <<>>,
         Head(walk.calls).address \notin walk.visited
  PROVE  WalkOK(Visit(walk, to), n + 1, a, to)
<1> DEFINE x == Head(walk.calls).address
           chain == Head(walk.calls).chain \cup {x}
           onward == CallsTo(Onward(x, to), chain)
           next == Visit(walk, to)
           A == Cardinality(Anywhere)
<1>1. /\ walk \in [calls : Seq(Calls), visited : SUBSET Anywhere, loop : BOOLEAN]
      /\ Walking(walk, n, a, to)
  BY DEF WalkOK
<1>2. /\ walk.calls \in Seq(Calls) /\ Head(walk.calls) \in Calls
      /\ Tail(walk.calls) \in Seq(Calls)
      /\ Len(walk.calls) \in Nat \ {0}
      /\ Len(Tail(walk.calls)) = Len(walk.calls) - 1
      /\ Head(walk.calls) = walk.calls[1]
      /\ \A i \in 1..Len(walk.calls) - 1 : Tail(walk.calls)[i] = walk.calls[i + 1]
  BY <1>1, HeadTailProperties, EmptySeq
<1>3. x \in Anywhere /\ chain \in SUBSET Anywhere
  BY <1>2 DEF Calls
<1>4. /\ onward \in Seq(Calls) /\ Len(onward) \in Nat /\ Len(onward) <= A
      /\ \A i \in 1..Len(onward) : onward[i].chain = chain
      /\ \A b \in Onward(x, to) : \E i \in 1..Len(onward) : onward[i].address = b
  <2> DEFINE T == Onward(x, to)
  <2>1. T \in SUBSET Anywhere
    BY OnwardIsSomewhere
  <2> HIDE DEF chain, x, T
  <2>2. chain \in SUBSET Anywhere
    BY <1>3
  <2>3. /\ CallsTo(T, chain) \in Seq(Calls) /\ Len(CallsTo(T, chain)) \in Nat
        /\ Len(CallsTo(T, chain)) <= Cardinality(Anywhere)
        /\ \A i \in 1..Len(CallsTo(T, chain)) :
             /\ CallsTo(T, chain)[i].chain = chain
             /\ CallsTo(T, chain)[i].address \in T
        /\ \A b \in T : \E i \in 1..Len(CallsTo(T, chain)) :
             CallsTo(T, chain)[i].address = b
    BY ONLY <2>1, <2>2, CallsOnward
  <2> HIDE DEF onward
  <2>4. onward = CallsTo(T, chain)
    BY DEF onward, T
  <2> QED
    BY <2>3, <2>4 DEF T
<1>5. next = [calls |-> onward \o Tail(walk.calls),
              visited |-> walk.visited \cup {x},
              loop |-> Cardinality(Head(walk.calls).chain) >= MaxDepth]
  BY DEF Visit, CallsTo
<1> DEFINE all == onward \o Tail(walk.calls)
           k == Len(onward)
<1> HIDE DEF onward
<1>6. /\ all \in Seq(Calls) /\ Len(all) = k + Len(walk.calls) - 1
      /\ \A i \in 1..k : all[i] = onward[i]
      /\ \A i \in 2..Len(walk.calls) : all[k + i - 1] = walk.calls[i]
      /\ \A j \in k + 1..Len(all) :
           j - k + 1 \in 2..Len(walk.calls) /\ all[j] = walk.calls[j - k + 1]
  BY <1>1, <1>4, Pushed
<1> HIDE DEF all, x, k, next, chain
<1>7. /\ next.calls = all /\ next.visited = walk.visited \cup {x}
      /\ next \in [calls : Seq(Calls), visited : SUBSET Anywhere, loop : BOOLEAN]
  BY <1>1, <1>3, <1>5, <1>6 DEF all
<1>8. k \in Nat /\ k <= A /\ A \in Nat
  BY <1>4, AnywhereIsFinite DEF k
<1>9. n + 1 + Len(all) <= 1 + Cardinality(next.visited) * A
  <2>1. IsFiniteSet(walk.visited) /\ Cardinality(walk.visited) \in Nat
    BY <1>1, AnywhereIsFinite, FS_Subset, FS_CardinalityType
  <2>2. Cardinality(next.visited) = Cardinality(walk.visited) + 1
    <3>1. x \notin walk.visited
      BY DEF x
    <3> QED
      BY <1>7, <2>1, <3>1, FS_AddElement
  <2>3. \A c, m \in Nat : (c + 1) * m = c * m + m /\ c * m \in Nat
    BY Z3
  <2>4. n + Len(walk.calls) <= 1 + Cardinality(walk.visited) * A
    BY <1>1 DEF Walking
  <2> DEFINE c == Cardinality(walk.visited)
             l == Len(walk.calls)
  <2>5. (c + 1) * A = c * A + A /\ c * A \in Nat
    BY <1>8, <2>1, <2>3
  <2>6. /\ n + l <= 1 + c * A /\ l \in Nat
        /\ Len(all) = k + l - 1
    BY <1>2, <1>6, <2>4
  <2> HIDE DEF A, c, l
  <2>7. n + 1 + (k + l - 1) <= 1 + (c * A + A)
    BY <1>8, <2>5, <2>6
  <2>8. n + 1 + Len(all) <= 1 + (c + 1) * A
    BY <2>5, <2>6, <2>7
  <2> QED
    BY <2>2, <2>8 DEF c
<1>10. x \in chain /\ (n # 0 => a \in chain) /\ (n = 0 => x = a)
  <2>1. x \in chain
    BY DEF chain, x
  <2>2. CASE n = 0
    <3>1. walk.calls = <<Call(a, {})>>
      BY <1>1, <2>2 DEF Walking
    <3>2. Head(walk.calls) = Call(a, {})
      BY <3>1
    <3> QED
      BY <2>1, <2>2, <3>2 DEF x, Call
  <2>3. CASE n # 0
    <3>1. a \in walk.calls[1].chain
      BY <1>1, <1>2, <2>3 DEF Walking
    <3> QED
      BY <1>2, <2>1, <2>3, <3>1 DEF chain
  <2> QED
    BY <2>2, <2>3
<1>11. \A i \in 1..Len(all) : a \in all[i].chain
  <2> SUFFICES ASSUME NEW i \in 1..Len(all) PROVE a \in all[i].chain
    OBVIOUS
  <2>1. CASE i <= k
    <3>1. i \in 1..Len(onward)
      BY <1>8, <2>1 DEF k
    <3>2. all[i].chain = chain
      BY <1>4, <1>6, <3>1 DEF k
    <3> QED
      BY <1>10, <3>2
  <2>2. CASE ~(i <= k)
    <3>1. i \in k + 1..Len(all)
      BY <1>2, <1>6, <1>8, <2>2
    <3>2. i - k + 1 \in 2..Len(walk.calls) /\ all[i] = walk.calls[i - k + 1]
      BY <1>6, <3>1
    <3>3. n # 0
      <4>1. n = 0 => Len(walk.calls) = 1
        <5>1. n = 0 => walk.calls = <<Call(a, {})>>
          BY <1>1 DEF Walking
        <5>2. Len(<<Call(a, {})>>) = 1
          OBVIOUS
        <5> QED
          BY <5>1, <5>2
      <4> QED
        BY <3>2, <4>1
    <3> QED
      BY <1>1, <1>2, <3>2, <3>3 DEF Walking
  <2> QED
    BY <2>1, <2>2
<1>12. ASSUME NEW v \in next.visited, NEW b \in Onward(v, to)
       PROVE  Pending(next, b) \/ b \in next.visited \ {a}
  <2>1. CASE v = x
    <3>1. PICK i \in 1..Len(onward) : onward[i].address = b
      BY <1>4, <2>1
    <3>2. i \in 1..Len(all) /\ all[i] = onward[i]
      BY <1>2, <1>6, <1>8 DEF k
    <3> QED
      BY <1>7, <3>1, <3>2 DEF Pending
  <2>2. CASE v \in walk.visited
    <3>1. n # 0 /\ a \in walk.visited
      BY <1>1, <2>2 DEF Walking
    <3>2. x # a
      BY <3>1 DEF x
    <3>3. CASE b \in walk.visited \ {a}
      BY <1>7, <3>3
    <3>4. CASE Pending(walk, b)
      <4>1. PICK i \in 1..Len(walk.calls) : walk.calls[i].address = b
        BY <3>4 DEF Pending
      <4>2. CASE i = 1
        <5>1. b = x
          BY <1>2, <4>1, <4>2 DEF x
        <5> QED
          BY <1>7, <3>2, <5>1
      <4>3. CASE i # 1
        <5>1. i \in 2..Len(walk.calls) /\ k + i - 1 \in 1..Len(all)
          BY <1>2, <1>6, <1>8, <4>1, <4>3
        <5>2. all[k + i - 1].address = b
          BY <1>6, <4>1, <5>1
        <5> QED
          BY <1>7, <5>1, <5>2 DEF Pending
      <4> QED
        BY <4>2, <4>3
    <3> QED
      BY <1>1, <2>2, <3>1, <3>3, <3>4 DEF Walking
  <2> QED
    BY <1>7, <2>1, <2>2
<1>13. Walking(next, n + 1, a, to)
  <2>1. a \in next.visited
    BY <1>1, <1>7, <1>10 DEF Walking
  <2> QED
    BY <1>7, <1>9, <1>11, <1>12, <2>1 DEF Walking
<1> QED
  BY <1>7, <1>13 DEF WalkOK, next

\* The function Walk is defined by.
Start(a) == [calls |-> <<Call(a, {})>>, visited |-> {}, loop |-> FALSE]
Steps(a, to, last, walk) ==
  walk = [n \in 0..last |-> IF n = 0 THEN Start(a) ELSE Visit(walk[n - 1], to)]

LEMMA StepsExist ==
  ASSUME NEW a, NEW to
  PROVE  \E walk : Steps(a, to, MaxCalls, walk) /\ Walk(a, to) = walk[MaxCalls]
<1> DEFINE S == {n \in Nat : \E walk : Steps(a, to, n, walk)}
<1>1. 0 \in S
  <2>1. Steps(a, to, 0, [n \in 0..0 |-> Start(a)])
    BY DEF Steps
  <2> QED
    BY <2>1
<1>2. ASSUME NEW n \in S PROVE n + 1 \in S
  <2>1. PICK g : Steps(a, to, n, g)
    OBVIOUS
  <2> DEFINE h == [m \in 0..n + 1 |->
                     IF m = 0 THEN Start(a) ELSE Visit(g[m - 1], to)]
  <2>2. ASSUME NEW m \in 0..n PROVE h[m] = g[m]
    BY <2>1 DEF Steps
  <2>3. ASSUME NEW m \in 0..n + 1
        PROVE  (IF m = 0 THEN Start(a) ELSE Visit(g[m - 1], to))
                 = IF m = 0 THEN Start(a) ELSE Visit(h[m - 1], to)
    <3>1. CASE m = 0
      BY <3>1
    <3>2. CASE m # 0
      <4>1. m - 1 \in 0..n
        BY <3>2
      <4> HIDE DEF h
      <4> QED
        BY <2>2, <3>2, <4>1
    <3> QED
      BY <3>1, <3>2
  <2>4. Steps(a, to, n + 1, h)
    BY <2>3 DEF Steps
  <2>5. \E walk : Steps(a, to, n + 1, walk)
    <3> HIDE DEF h
    <3> QED
      BY <2>4
  <2> QED
    BY <2>5
<1>3. MaxCalls \in S
  <2>1. IsFiniteSet(Anywhere \X Anywhere)
    BY AnywhereIsFinite, FS_Product
  <2>2. MaxCalls \in Nat
    BY <2>1, FS_CardinalityType DEF MaxCalls
  <2> HIDE DEF S
  <2>3. S = Nat
    BY <1>1, <1>2, Counting DEF S
  <2> QED
    BY <2>2, <2>3
<1>4. Steps(a, to, MaxCalls, CHOOSE walk : Steps(a, to, MaxCalls, walk))
  BY <1>3
<1>5. Walk(a, to) = (CHOOSE walk : Steps(a, to, MaxCalls, walk))[MaxCalls]
  BY DEF Walk, Steps, Start
<1> QED
  BY <1>4, <1>5

\* Every call leaves the walk in a state like that.
LEMMA EveryCall ==
  ASSUME NEW to, \A b \in DOMAIN to : to[b] \subseteq Anywhere,
         NEW a \in Anywhere, NEW walk, Steps(a, to, MaxCalls, walk)
  PROVE  \A n \in 0..MaxCalls : WalkOK(walk[n], n, a, to)
<1> DEFINE A == Cardinality(Anywhere)
           S == {n \in Nat : n <= MaxCalls => WalkOK(walk[n], n, a, to)}
<1>1. A \in Nat /\ MaxCalls = A * A + 1 /\ A * A \in Nat /\ MaxCalls \in Nat
  <2>1. MaxCalls = A * A + 1 /\ A \in Nat
    BY AnywhereIsFinite, FS_Product DEF MaxCalls
  <2>2. A * A \in Nat
    <3> HIDE DEF A
    <3> QED
      BY <2>1
  <2> HIDE DEF A
  <2> QED
    BY <2>1, <2>2
<1>2. 0 \in S
  <2>1. walk[0] = Start(a)
    BY <1>1 DEF Steps
  <2>2. WalkOK(Start(a), 0, a, to)
    <3>1. <<Call(a, {})>> \in Seq(Calls) /\ Len(<<Call(a, {})>>) = 1
      BY DEF Calls, Call
    <3>2. Cardinality({}) = 0
      BY FS_EmptySet
    <3>3. Walking(Start(a), 0, a, to)
      BY <1>1, <3>1, <3>2 DEF Walking, Start
    <3>4. Start(a) \in [calls : Seq(Calls), visited : SUBSET Anywhere,
                        loop : BOOLEAN]
      BY <3>1 DEF Start
    <3> QED
      BY <3>3, <3>4 DEF WalkOK
  <2> QED
    BY <2>1, <2>2
<1>3. ASSUME NEW n \in S PROVE n + 1 \in S
  <2> SUFFICES ASSUME n + 1 <= MaxCalls
               PROVE  WalkOK(walk[n + 1], n + 1, a, to)
    OBVIOUS
  <2> DEFINE w == walk[n]
  <2>1. WalkOK(w, n, a, to) /\ n \in Nat
    BY <1>1
  <2>2. walk[n + 1] = Visit(w, to)
    BY <1>1, <2>1 DEF Steps
  <2> HIDE DEF w
  <2>3. CASE w.loop \/ w.calls = <<>>
    <3>1. Visit(w, to) = w
      BY <2>3 DEF Visit
    <3>2. WalkOK(w, n + 1, a, to)
      <4>1. CASE w.loop
        BY <2>1, <4>1 DEF WalkOK
      <4>2. CASE ~w.loop
        <5>1. Walking(w, n, a, to) /\ w.calls = <<>>
          BY <2>1, <2>3, <4>2 DEF WalkOK
        <5>2. n # 0
          BY <5>1 DEF Walking
        <5>3. Walking(w, n + 1, a, to)
          BY <2>1, <5>1, <5>2 DEF Walking
        <5> QED
          BY <2>1, <5>3 DEF WalkOK
      <4> QED
        BY <4>1, <4>2
    <3> QED
      BY <2>2, <3>1, <3>2
  <2>4. CASE ~w.loop /\ w.calls # <<>>
    BY <2>1, <2>2, <2>4, MetAgain, Expanded
  <2> QED
    BY <2>3, <2>4
<1>4. S = Nat
  <2> HIDE DEF S
  <2> QED
    BY <1>2, <1>3, Counting DEF S
<1> QED
  BY <1>1, <1>4

\* A walk that reports nothing ends for want of calls.
LEMMA WalkEnds ==
  ASSUME NEW to, \A b \in DOMAIN to : to[b] \subseteq Anywhere,
         NEW a \in Anywhere, NEW walk, Steps(a, to, MaxCalls, walk),
         ~walk[MaxCalls].loop
  PROVE  LET end == walk[MaxCalls] IN
         /\ end.visited \subseteq Anywhere /\ Walking(end, MaxCalls, a, to)
         /\ end.calls = <<>> /\ MaxCalls # 0
<1> DEFINE A == Cardinality(Anywhere)
<1>1. A \in Nat /\ MaxCalls = A * A + 1 /\ A * A \in Nat /\ MaxCalls \in Nat
  <2>1. MaxCalls = A * A + 1 /\ A \in Nat
    BY AnywhereIsFinite, FS_Product DEF MaxCalls
  <2>2. A * A \in Nat
    <3> HIDE DEF A
    <3> QED
      BY <2>1
  <2> HIDE DEF A
  <2> QED
    BY <2>1, <2>2
<1>2. WalkOK(walk[MaxCalls], MaxCalls, a, to)
  <2>1. \A n \in 0..MaxCalls : WalkOK(walk[n], n, a, to)
    BY EveryCall
  <2>2. MaxCalls \in 0..MaxCalls
    BY <1>1
  <2> QED
    BY <2>1, <2>2
<1> DEFINE end == walk[MaxCalls]
           c == Cardinality(end.visited)
<1>3. /\ end.calls \in Seq(Calls) /\ end.visited \subseteq Anywhere
      /\ Walking(end, MaxCalls, a, to)
  BY <1>2 DEF WalkOK
<1>4. end.calls = <<>>
  <2>1. c \in Nat /\ c <= A
    BY <1>3, AnywhereIsFinite, FS_Subset, FS_CardinalityType
  <2>2. c * A <= A * A
    <3>1. \A x, y \in Nat : x <= y => x * y <= y * y
      BY Z3
    <3> HIDE DEF c, A
    <3> QED
      BY <1>1, <2>1, <3>1
  <2>3. end.calls = <<>> \/ Len(end.calls) \in Nat \ {0}
    BY <1>3, EmptySeq
  <2>4. end.calls = <<>> \/ MaxCalls + Len(end.calls) <= 1 + c * A
    BY <1>3 DEF Walking
  <2>5. c * A \in Nat
    <3> HIDE DEF c, A
    <3> QED
      BY <1>1, <2>1
  <2> SUFFICES ASSUME end.calls # <<>> PROVE FALSE
    OBVIOUS
  <2> DEFINE l == Len(end.calls)
             square == A * A
             product == c * A
  <2>6. /\ l \in Nat \ {0} /\ MaxCalls + l <= 1 + product
        /\ MaxCalls = square + 1 /\ square \in Nat
        /\ product \in Nat /\ product <= square
    BY <1>1, <2>2, <2>3, <2>4, <2>5
  <2> HIDE DEF l, square, product
  <2> QED
    BY ONLY <2>6
<1> QED
  BY <1>1, <1>3, <1>4

\* An address whose mail never comes back to it.
Closed(V, a, to) == a \in V /\ \A v \in V : Onward(v, to) \subseteq V \ {a}

\* Where the walk reports no loop, mail sent to the address never comes back to
\* it: the walk passes over no way back, and ends for want of calls.
LEMMA NoLoopFound ==
  ASSUME NEW to, \A b \in DOMAIN to : to[b] \subseteq Anywhere,
         NEW a \in Anywhere, ~LoopFrom(a, to)
  PROVE  \E V \in SUBSET Anywhere : Closed(V, a, to)
<1>1. PICK walk : Steps(a, to, MaxCalls, walk) /\ Walk(a, to) = walk[MaxCalls]
  BY StepsExist
<1> DEFINE end == walk[MaxCalls]
<1>2. /\ end.visited \subseteq Anywhere /\ Walking(end, MaxCalls, a, to)
      /\ end.calls = <<>> /\ MaxCalls # 0
  BY <1>1, WalkEnds DEF LoopFrom
<1>3. \A b : ~Pending(end, b)
  BY <1>2 DEF Pending
<1>4. Closed(end.visited, a, to)
  <2> HIDE DEF end
  <2> QED
    BY <1>2, <1>3 DEF Walking, Closed
<1> QED
  BY <1>2, <1>4

---------------------------------------------------------------------------
(* Where the walk does report a loop, mail does come round: the calls still *)
(* to be made branch off one path, on which the walk stands, and what it    *)
(* has left behind leads nowhere in a circle.                               *)

\* What is over and done with: it leads only to itself, and nowhere in a circle.
Over(F, to) ==
  /\ \A v \in F : Onward(v, to) \subseteq F
  /\ \A S \in SUBSET F : S # {} => \E v \in S : Onward(v, to) \cap S = {}

\* The path from the start a to the address expanded last, and how far along it
\* each call still to be made was asked for.  R is wherever a can lead.
Upto(path, i) == {path[j] : j \in 1..i}
Trail(V, calls, k, path, depth, a, to, R) ==
  LET F == V \ Upto(path, k) IN
  /\ k \in Nat /\ path \in [1..k -> R] /\ depth \in [1..Len(calls) -> 0..k]
  /\ V \subseteq R /\ Upto(path, k) \subseteq V
  /\ \A i, l \in 1..k : path[i] = path[l] => i = l
  /\ k > 0 => path[1] = a
  /\ \A i \in 1..k - 1 : path[i + 1] \in Onward(path[i], to)
  /\ \A m \in 1..Len(calls) :
       /\ calls[m].chain = Upto(path, depth[m])
       /\ IF depth[m] = 0 THEN calls[m].address = a
          ELSE calls[m].address \in Onward(path[depth[m]], to)
  /\ \A m, l \in 1..Len(calls) : m <= l => depth[l] <= depth[m]
  /\ \A i \in 1..k : \A y \in Onward(path[i], to) :
       \/ y \in F
       \/ \E l \in i + 1..k : path[l] = y
       \/ \E m \in 1..Len(calls) : depth[m] = i /\ calls[m].address = y
  /\ Over(F, to)

LEMMA Deepest ==
  ASSUME NEW k \in Nat, NEW I \in SUBSET (1..k), I # {}
  PROVE  \E i \in I : \A l \in I : l <= i
<1> DEFINE J == {k - i : i \in I}
<1>1. J \subseteq Nat /\ J # {}
  <2>1. \A i \in I : k - i \in Nat
    OBVIOUS
  <2>2. PICK i \in I : TRUE
    OBVIOUS
  <2>3. k - i \in J
    OBVIOUS
  <2> QED
    BY <2>1, <2>3
<1>2. IsWellFoundedOn(Below, Nat)
  <2>1. OpToRel(<, Nat) = Below
    BY DEF OpToRel, Below
  <2> QED
    BY <2>1, NatLessThanWellFounded
<1>3. PICK j \in J : \A m \in J : ~(<<m, j>> \in Below)
  <2> HIDE DEF J
  <2> QED
    BY <1>1, <1>2, WFMin
<1>4. PICK i \in I : j = k - i
  OBVIOUS
<1>5. ASSUME NEW l \in I PROVE l <= i
  <2>1. k - l \in J /\ k - l \in Nat /\ j \in Nat /\ l \in Nat /\ i \in Nat
    BY <1>1, <1>4
  <2>2. ~(k - l < j)
    <3> HIDE DEF J
    <3> QED
      BY <1>3, <2>1 DEF Below
  <2> QED
    BY <1>4, <2>1, <2>2
<1> QED
  BY <1>5

LEMMA Backtracks ==
  ASSUME NEW V, NEW calls, Len(calls) \in Nat, NEW k, NEW path, NEW depth, NEW a,
         NEW to, NEW R, Trail(V, calls, k, path, depth, a, to, R),
         NEW j \in Nat, j <= k, \A m \in 1..Len(calls) : depth[m] <= j
  PROVE  Trail(V, calls, j, [i \in 1..j |-> path[i]], depth, a, to, R)
<1> DEFINE back == [i \in 1..j |-> path[i]]
           F == V \ Upto(path, k)
           G == V \ Upto(path, j)
<1>1. /\ k \in Nat /\ path \in [1..k -> R] /\ depth \in [1..Len(calls) -> 0..k]
      /\ V \subseteq R /\ Upto(path, k) \subseteq V
      /\ \A i, l \in 1..k : path[i] = path[l] => i = l
      /\ Over(F, to)
  BY DEF Trail
<1>2. \A i \in 1..k : \A y \in Onward(path[i], to) :
        \/ y \in F
        \/ \E l \in i + 1..k : path[l] = y
        \/ \E m \in 1..Len(calls) : depth[m] = i /\ calls[m].address = y
  BY DEF Trail
<1>3. \A i \in 0..j : Upto(back, i) = Upto(path, i)
  <2>1. \A x \in 1..j : back[x] = path[x]
    OBVIOUS
  <2>2. \A i \in 0..j : \A x \in 1..i : x \in 1..j
    OBVIOUS
  <2> HIDE DEF back
  <2> QED
    BY <2>1, <2>2 DEF Upto
<1>4. /\ F \subseteq G
      /\ \A l \in j + 1..k : path[l] \in G
      /\ \A v \in G : v \in F \/ \E l \in j + 1..k : v = path[l]
  <2>1. \A l \in j + 1..k : path[l] \in V /\ path[l] \notin Upto(path, j)
    BY <1>1 DEF Upto
  <2>2. Upto(path, j) \subseteq Upto(path, k)
    BY <1>1 DEF Upto
  <2>3. \A v \in Upto(path, k) : v \in Upto(path, j) \/ \E l \in j + 1..k : v = path[l]
    BY <1>1 DEF Upto
  <2> QED
    BY <2>1, <2>2, <2>3
<1> HIDE DEF F, G
\* What is left behind leads to what was done with before, or further along.
<1>5. ASSUME NEW i \in j + 1..k, NEW y \in Onward(path[i], to)
      PROVE  y \in F \/ \E l \in i + 1..k : path[l] = y
  BY <1>1, <1>2
<1>6. Over(G, to)
  <2>1. ASSUME NEW v \in G, NEW y \in Onward(v, to) PROVE y \in G
    <3>1. CASE v \in F
      BY <1>1, <1>4, <3>1 DEF Over
    <3>2. CASE v \notin F
      <4>1. PICK i \in j + 1..k : v = path[i]
        BY <1>4, <3>2
      <4>2. y \in F \/ \E l \in i + 1..k : path[l] = y
        BY <1>5, <4>1
      <4>3. \A l \in i + 1..k : l \in j + 1..k
        BY <1>1, <4>1
      <4> QED
        BY <1>4, <4>2, <4>3
    <3> QED
      BY <3>1, <3>2
  <2>2. ASSUME NEW S \in SUBSET G, S # {}, \A v \in S : Onward(v, to) \cap S # {}
        PROVE  FALSE
    <3>1. S \cap F = {}
      <4> SUFFICES ASSUME S \cap F # {} PROVE FALSE
        OBVIOUS
      <4>1. PICK v \in S \cap F : Onward(v, to) \cap (S \cap F) = {}
        BY <1>1 DEF Over
      <4>2. Onward(v, to) \subseteq F
        BY <1>1 DEF Over
      <4> QED
        BY <2>2, <4>1, <4>2
    <3> DEFINE I == {i \in j + 1..k : path[i] \in S}
    <3>2. I \in SUBSET (1..k) /\ I # {}
      BY <1>1, <1>4, <2>2, <3>1
    <3>3. PICK i \in I : \A l \in I : l <= i
      <4> HIDE DEF I
      <4> QED
        BY <1>1, <3>2, Deepest
    <3>4. PICK y \in Onward(path[i], to) : y \in S
      BY <2>2
    <3>5. y \in F \/ \E l \in i + 1..k : path[l] = y
      BY <1>5, <3>4
    <3>6. PICK l \in i + 1..k : path[l] = y
      BY <3>1, <3>4, <3>5
    <3>7. l \in I /\ l > i
      BY <1>1, <3>4, <3>6
    <3> QED
      BY <1>1, <3>3, <3>7
  <2> QED
    BY <2>1, <2>2 DEF Over
<1>7. \A i \in 1..j : \A y \in Onward(back[i], to) :
        \/ y \in G
        \/ \E l \in i + 1..j : back[l] = y
        \/ \E m \in 1..Len(calls) : depth[m] = i /\ calls[m].address = y
  <2> SUFFICES ASSUME NEW i \in 1..j, NEW y \in Onward(path[i], to)
               PROVE  \/ y \in G
                      \/ \E l \in i + 1..j : back[l] = y
                      \/ \E m \in 1..Len(calls) :
                           depth[m] = i /\ calls[m].address = y
    OBVIOUS
  <2>1. \/ y \in F
        \/ \E l \in i + 1..k : path[l] = y
        \/ \E m \in 1..Len(calls) : depth[m] = i /\ calls[m].address = y
    BY <1>1, <1>2
  <2>2. ASSUME NEW l \in i + 1..k, path[l] = y
        PROVE  y \in G \/ \E n \in i + 1..j : back[n] = y
    <3>1. CASE l <= j
      BY <2>2, <3>1
    <3>2. CASE ~(l <= j)
      BY <1>1, <1>4, <2>2, <3>2
    <3> QED
      BY <3>1, <3>2
  <2> QED
    BY <1>4, <2>1, <2>2
<1>8. /\ back \in [1..j -> R] /\ depth \in [1..Len(calls) -> 0..j]
      /\ Upto(back, j) \subseteq V /\ G = V \ Upto(back, j)
      /\ \A i, l \in 1..j : back[i] = back[l] => i = l
  <2>1. Upto(path, j) \subseteq Upto(path, k)
    BY <1>1 DEF Upto
  <2>2. depth \in [1..Len(calls) -> 0..j]
    BY <1>1
  <2>3. \A x \in 1..j : back[x] = path[x] /\ x \in 1..k
    BY <1>1
  <2>4. back \in [1..j -> R]
    BY <1>1
  <2>5. Upto(back, j) = Upto(path, j)
    BY <1>3
  <2> HIDE DEF back
  <2> QED
    BY <1>1, <2>1, <2>2, <2>3, <2>4, <2>5 DEF G
<1>9. /\ j > 0 => back[1] = a
      /\ \A i \in 1..j - 1 : back[i + 1] \in Onward(back[i], to)
  BY <1>1 DEF Trail
<1>10. \A m \in 1..Len(calls) :
         /\ calls[m].chain = Upto(back, depth[m])
         /\ IF depth[m] = 0 THEN calls[m].address = a
            ELSE calls[m].address \in Onward(back[depth[m]], to)
  <2> SUFFICES ASSUME NEW m \in 1..Len(calls)
               PROVE  /\ calls[m].chain = Upto(back, depth[m])
                      /\ IF depth[m] = 0 THEN calls[m].address = a
                         ELSE calls[m].address \in Onward(back[depth[m]], to)
    OBVIOUS
  <2>1. depth[m] \in 0..j /\ Upto(back, depth[m]) = Upto(path, depth[m])
    BY <1>3, <1>8
  <2>2. depth[m] # 0 => back[depth[m]] = path[depth[m]]
    BY <2>1
  <2>3. /\ calls[m].chain = Upto(path, depth[m])
        /\ IF depth[m] = 0 THEN calls[m].address = a
           ELSE calls[m].address \in Onward(path[depth[m]], to)
    BY DEF Trail
  <2> QED
    BY <2>1, <2>2, <2>3
<1>11. \A m, l \in 1..Len(calls) : m <= l => depth[l] <= depth[m]
  BY DEF Trail
<1> HIDE DEF back
<1>12. Trail(V, calls, j, back, depth, a, to, R)
  BY <1>1, <1>6, <1>7, <1>8, <1>9, <1>10, <1>11 DEF Trail
<1> QED
  BY <1>12 DEF back

\* A call passed over, for an address that was done with before.
LEMMA PassedOver ==
  ASSUME NEW V, NEW calls \in Seq(Calls), calls # <<>>, NEW k, NEW path, NEW depth,
         NEW a, NEW to, NEW R, Trail(V, calls, k, path, depth, a, to, R),
         depth[1] = k, calls[1].address \in V, calls[1].address \notin calls[1].chain
  PROVE  Trail(V, Tail(calls), k, path, [m \in 1..Len(calls) - 1 |-> depth[m + 1]],
               a, to, R)
<1> DEFINE rest == Tail(calls)
           later == [m \in 1..Len(calls) - 1 |-> depth[m + 1]]
           F == V \ Upto(path, k)
<1>1. /\ Len(calls) \in Nat \ {0} /\ Len(rest) = Len(calls) - 1
      /\ \A m \in 1..Len(rest) : rest[m] = calls[m + 1]
  BY HeadTailProperties, EmptySeq
<1> HIDE DEF rest
<1>2. /\ k \in Nat /\ path \in [1..k -> R] /\ depth \in [1..Len(calls) -> 0..k]
      /\ calls[1].chain = Upto(path, k)
  BY <1>1 DEF Trail
<1>3. \A m \in 1..Len(rest) : m + 1 \in 1..Len(calls) /\ later[m] = depth[m + 1]
  BY <1>1
<1>4. later \in [1..Len(rest) -> 0..k]
  BY <1>1, <1>2
<1> HIDE DEF later, F
<1>5. \A m \in 1..Len(rest) :
        /\ rest[m].chain = Upto(path, later[m])
        /\ IF later[m] = 0 THEN rest[m].address = a
           ELSE rest[m].address \in Onward(path[later[m]], to)
  <2> SUFFICES ASSUME NEW m \in 1..Len(rest)
               PROVE  /\ rest[m].chain = Upto(path, later[m])
                      /\ IF later[m] = 0 THEN rest[m].address = a
                         ELSE rest[m].address \in Onward(path[later[m]], to)
    OBVIOUS
  <2>1. rest[m] = calls[m + 1] /\ later[m] = depth[m + 1] /\ m + 1 \in 1..Len(calls)
    BY <1>1, <1>3
  <2> QED
    BY <2>1 DEF Trail
<1>6. \A m, l \in 1..Len(rest) : m <= l => later[l] <= later[m]
  <2> SUFFICES ASSUME NEW m \in 1..Len(rest), NEW l \in 1..Len(rest), m <= l
               PROVE  later[l] <= later[m]
    OBVIOUS
  <2>1. m + 1 \in 1..Len(calls) /\ l + 1 \in 1..Len(calls) /\ m + 1 <= l + 1
    BY <1>1
  <2> QED
    BY <1>3, <2>1 DEF Trail
<1>7. \A i \in 1..k : \A y \in Onward(path[i], to) :
        \/ y \in F
        \/ \E l \in i + 1..k : path[l] = y
        \/ \E m \in 1..Len(rest) : later[m] = i /\ rest[m].address = y
  <2> SUFFICES ASSUME NEW i \in 1..k, NEW y \in Onward(path[i], to),
                      NEW m \in 1..Len(calls), depth[m] = i, calls[m].address = y
               PROVE  \/ y \in F
                      \/ \E n \in 1..Len(rest) : later[n] = i /\ rest[n].address = y
    BY DEF Trail, F
  <2>1. CASE m = 1
    BY <1>2, <2>1 DEF F
  <2>2. CASE m # 1
    <3>1. m - 1 \in 1..Len(rest) /\ (m - 1) + 1 = m
      BY <1>1, <2>2
    <3>2. later[m - 1] = depth[m] /\ rest[m - 1] = calls[m]
      BY <1>1, <1>3, <3>1
    <3> QED
      BY <3>1, <3>2
  <2> QED
    BY <2>1, <2>2
<1>8. Trail(V, rest, k, path, later, a, to, R)
  BY <1>2, <1>4, <1>5, <1>6, <1>7 DEF Trail, F
<1> QED
  BY <1>8 DEF rest, later

\* A call for an address that is new: the path goes on to it.
LEMMA GoesOn ==
  ASSUME NEW V, NEW calls \in Seq(Calls), calls # <<>>, NEW k, NEW path, NEW depth,
         NEW a, NEW to, NEW R, Trail(V, calls, k, path, depth, a, to, R),
         depth[1] = k, NEW x \in R, x = calls[1].address, x \notin V,
         NEW more \in Seq(Calls),
         \A i \in 1..Len(more) : /\ more[i].chain = calls[1].chain \cup {x}
                                 /\ more[i].address \in Onward(x, to),
         \A b \in Onward(x, to) : \E i \in 1..Len(more) : more[i].address = b
  PROVE  Trail(V \cup {x}, more \o Tail(calls), k + 1,
               [i \in 1..k + 1 |-> IF i <= k THEN path[i] ELSE x],
               [m \in 1..Len(more \o Tail(calls)) |->
                  IF m <= Len(more) THEN k + 1 ELSE depth[m - Len(more) + 1]],
               a, to, R)
<1> DEFINE all == more \o Tail(calls)
           n == Len(more)
           on == [i \in 1..k + 1 |-> IF i <= k THEN path[i] ELSE x]
           deep == [m \in 1..Len(all) |->
                      IF m <= n THEN k + 1 ELSE depth[m - n + 1]]
           W == V \cup {x}
           F == V \ Upto(path, k)
<1>1. /\ all \in Seq(Calls) /\ Len(all) = n + Len(calls) - 1
      /\ n \in Nat /\ Len(calls) \in Nat \ {0}
      /\ \A i \in 1..n : all[i] = more[i]
      /\ \A i \in 2..Len(calls) : all[n + i - 1] = calls[i]
      /\ \A j \in n + 1..Len(all) :
           j - n + 1 \in 2..Len(calls) /\ all[j] = calls[j - n + 1]
  BY Pushed
<1>2. /\ k \in Nat /\ path \in [1..k -> R] /\ depth \in [1..Len(calls) -> 0..k]
      /\ V \subseteq R /\ Upto(path, k) \subseteq V /\ 1 \in 1..Len(calls)
      /\ \A i, l \in 1..k : path[i] = path[l] => i = l
      /\ Over(F, to)
  BY <1>1 DEF Trail
<1>3. /\ \A m \in 1..n : m \in 1..Len(all) /\ deep[m] = k + 1
      /\ \A m \in n + 1..Len(all) : deep[m] = depth[m - n + 1]
      /\ DOMAIN deep = 1..Len(all)
  BY <1>1
<1>4. /\ \A i \in 1..k : on[i] = path[i] /\ i \in 1..k + 1
      /\ on[k + 1] = x /\ on \in [1..k + 1 -> R]
  BY <1>2
<1>5. deep \in [1..Len(all) -> 0..k + 1]
  <2>1. ASSUME NEW m \in 1..Len(all)
        PROVE  (IF m <= n THEN k + 1 ELSE depth[m - n + 1]) \in 0..k + 1
    <3>1. CASE m <= n
      BY <1>2, <3>1
    <3>2. CASE ~(m <= n)
      <4>1. m \in n + 1..Len(all)
        BY <1>1, <3>2
      <4>2. m - n + 1 \in 1..Len(calls)
        BY <1>1, <4>1
      <4>3. depth[m - n + 1] \in 0..k
        BY <1>2, <4>2
      <4> QED
        BY <1>2, <3>2, <4>3
    <3> QED
      BY <3>1, <3>2
  <2> QED
    BY <2>1
<1> HIDE DEF all, n, on, deep
<1>6. ASSUME NEW m \in 1..Len(all), ~(m <= n)
      PROVE  /\ m \in n + 1..Len(all) /\ m - n + 1 \in 2..Len(calls)
             /\ all[m] = calls[m - n + 1] /\ deep[m] = depth[m - n + 1]
             /\ deep[m] \in 0..k
  <2>1. m \in n + 1..Len(all)
    BY <1>1, <1>6
  <2>2. m - n + 1 \in 2..Len(calls) /\ all[m] = calls[m - n + 1]
    BY <1>1, <2>1
  <2>3. m - n + 1 \in 1..Len(calls)
    BY <2>2
  <2> QED
    BY <1>2, <1>3, <2>1, <2>2, <2>3
<1>7. /\ \A i \in 0..k : Upto(on, i) = Upto(path, i)
      /\ Upto(on, k + 1) = Upto(path, k) \cup {x}
  <2>1. \A i \in 0..k : Upto(on, i) = Upto(path, i)
    <3> SUFFICES ASSUME NEW i \in 0..k PROVE Upto(on, i) = Upto(path, i)
      OBVIOUS
    <3>1. \A y \in 1..i : on[y] = path[y]
      BY <1>2, <1>4
    <3>2. Upto(on, i) \subseteq Upto(path, i) /\ Upto(path, i) \subseteq Upto(on, i)
      BY ONLY <3>1, Zenon DEF Upto
    <3> QED
      BY ONLY <3>2, Zenon
  <2>2. \A y : y \in 1..k + 1 <=> y \in 1..k \/ y = k + 1
    BY <1>2
  <2>3. Upto(on, k + 1) = Upto(on, k) \cup {on[k + 1]}
    BY <2>2 DEF Upto
  <2> QED
    BY <1>2, <1>4, <2>1, <2>3
<1>8. x \notin Upto(path, k) /\ F = W \ Upto(on, k + 1)
  BY <1>2, <1>7
<1> HIDE DEF F, W
<1>9. \A i, l \in 1..k + 1 : on[i] = on[l] => i = l
  <2>1. \A i \in 1..k : path[i] # x
    BY <1>8 DEF Upto
  <2>2. \A i \in 1..k + 1 : i \in 1..k \/ i = k + 1
    BY <1>2
  <2> QED
    BY <1>2, <1>4, <2>1, <2>2
<1>10. /\ on[1] = a
       /\ \A i \in 1..k : on[i + 1] \in Onward(on[i], to)
  <2>1. IF k = 0 THEN x = a ELSE x \in Onward(path[k], to)
    <3>1. IF depth[1] = 0 THEN calls[1].address = a
          ELSE calls[1].address \in Onward(path[depth[1]], to)
      BY <1>2 DEF Trail
    <3> QED
      BY <3>1
  <2>2. k > 0 => path[1] = a
    BY DEF Trail
  <2>3. on[1] = a
    <3>1. CASE k = 0
      BY <1>4, <2>1, <3>1
    <3>2. CASE k # 0
      <4>1. k > 0 /\ 1 \in 1..k
        BY <1>2, <3>2
      <4> QED
        BY <1>4, <2>2, <4>1
    <3> QED
      BY <3>1, <3>2
  <2>4. ASSUME NEW i \in 1..k PROVE on[i + 1] \in Onward(on[i], to)
    <3>1. CASE i = k
      BY <1>2, <1>4, <2>1, <3>1
    <3>2. CASE i # k
      <4>1. i \in 1..k - 1 /\ i + 1 \in 1..k
        BY <1>2, <3>2
      <4>2. path[i + 1] \in Onward(path[i], to)
        BY <4>1 DEF Trail
      <4> QED
        BY <1>4, <4>1, <4>2
    <3> QED
      BY <3>1, <3>2
  <2> QED
    BY <2>3, <2>4
<1>11. ASSUME NEW m \in 1..Len(all)
       PROVE  /\ all[m].chain = Upto(on, deep[m])
              /\ IF deep[m] = 0 THEN all[m].address = a
                 ELSE all[m].address \in Onward(on[deep[m]], to)
  <2>1. CASE m <= n
    <3>1. m \in 1..n
      BY <1>1, <2>1
    <3>2. calls[1].chain = Upto(path, k)
      BY <1>2 DEF Trail
    <3>3. /\ all[m] = more[m] /\ deep[m] = k + 1
          /\ more[m].chain = Upto(path, k) \cup {x}
          /\ more[m].address \in Onward(x, to)
      BY <1>1, <1>3, <3>1, <3>2 DEF n
    <3> QED
      BY <1>2, <1>4, <1>7, <3>3
  <2>2. CASE ~(m <= n)
    <3> DEFINE q == m - n + 1
    <3>1. /\ q \in 1..Len(calls) /\ all[m] = calls[q] /\ deep[m] = depth[q]
          /\ depth[q] \in 0..k
      BY <1>6, <2>2
    <3> HIDE DEF q
    <3>2. /\ calls[q].chain = Upto(path, depth[q])
          /\ IF depth[q] = 0 THEN calls[q].address = a
             ELSE calls[q].address \in Onward(path[depth[q]], to)
      BY <3>1 DEF Trail
    <3>3. depth[q] # 0 => on[depth[q]] = path[depth[q]]
      BY <1>2, <1>4, <3>1
    <3> QED
      BY <1>7, <3>1, <3>2, <3>3
  <2> QED
    BY <2>1, <2>2
<1>12. ASSUME NEW m \in 1..Len(all), NEW l \in 1..Len(all), m <= l
       PROVE  deep[l] <= deep[m]
  <2>1. CASE m <= n
    <3>1. m \in 1..n
      BY <1>1, <2>1
    <3>2. deep[m] = k + 1 /\ deep[l] \in 0..k + 1
      BY <1>3, <1>5, <3>1
    <3> QED
      BY <1>2, <3>2
  <2>2. CASE ~(m <= n)
    <3>1. ~(l <= n) /\ m - n + 1 <= l - n + 1
      BY <1>1, <1>12, <2>2
    <3>2. /\ m - n + 1 \in 1..Len(calls) /\ deep[m] = depth[m - n + 1]
          /\ l - n + 1 \in 1..Len(calls) /\ deep[l] = depth[l - n + 1]
      BY <1>6, <2>2, <3>1
    <3> QED
      BY <3>1, <3>2 DEF Trail
  <2> QED
    BY <2>1, <2>2
<1>13. ASSUME NEW i \in 1..k + 1, NEW y \in Onward(on[i], to)
       PROVE  \/ y \in F
              \/ \E l \in i + 1..k + 1 : on[l] = y
              \/ \E m \in 1..Len(all) : deep[m] = i /\ all[m].address = y
  <2>1. CASE i = k + 1
    <3>1. PICK m \in 1..n : more[m].address = y
      BY <1>4, <2>1 DEF n
    <3>2. m \in 1..Len(all) /\ deep[m] = i /\ all[m].address = y
      BY <1>1, <1>3, <2>1, <3>1
    <3> QED
      BY <3>2
  <2>2. CASE i # k + 1
    <3>1. i \in 1..k /\ on[i] = path[i]
      BY <1>2, <1>4, <2>2
    <3>2. \/ y \in F
          \/ \E l \in i + 1..k : path[l] = y
          \/ \E m \in 1..Len(calls) : depth[m] = i /\ calls[m].address = y
      <4>1. \A z \in Onward(path[i], to) :
              \/ z \in F
              \/ \E l \in i + 1..k : path[l] = z
              \/ \E m \in 1..Len(calls) : depth[m] = i /\ calls[m].address = z
        BY <3>1 DEF Trail, F
      <4> QED
        BY <3>1, <4>1
    <3>3. ASSUME NEW l \in i + 1..k, path[l] = y
          PROVE  \E q \in i + 1..k + 1 : on[q] = y
      <4>1. l \in 1..k /\ l \in i + 1..k + 1
        BY <1>2, <3>1
      <4> QED
        BY <1>4, <3>3, <4>1
    <3>4. ASSUME NEW m \in 1..Len(calls), depth[m] = i, calls[m].address = y
          PROVE  \/ \E q \in i + 1..k + 1 : on[q] = y
                 \/ \E q \in 1..Len(all) : deep[q] = i /\ all[q].address = y
      <4>1. CASE m = 1
        <5>1. i = k /\ y = x /\ k + 1 \in i + 1..k + 1
          BY <1>2, <3>4, <4>1
        <5> QED
          BY <1>4, <5>1
      <4>2. CASE m # 1
        <5>1. m \in 2..Len(calls) /\ n + m - 1 \in 1..Len(all) /\ ~(n + m - 1 <= n)
              /\ (n + m - 1) - n + 1 = m
          BY <1>1, <4>2
        <5>2. deep[n + m - 1] = depth[m] /\ all[n + m - 1] = calls[m]
          BY <1>6, <5>1
        <5> QED
          BY <3>4, <5>1, <5>2
      <4> QED
        BY <4>1, <4>2
    <3> QED
      BY <3>2, <3>3, <3>4
  <2> QED
    BY <2>1, <2>2
<1>14. Trail(W, all, k + 1, on, deep, a, to, R)
  <2>1. k + 1 \in Nat /\ W \subseteq R /\ Upto(on, k + 1) \subseteq W
    BY <1>2, <1>7 DEF W
  <2>2. \A i \in 1..(k + 1) - 1 : on[i + 1] \in Onward(on[i], to)
    BY <1>2, <1>10
  <2> QED
    BY <1>2, <1>4, <1>5, <1>8, <1>9, <1>10, <1>11, <1>12, <1>13, <2>1, <2>2
    DEF Trail
<1> QED
  BY <1>14 DEF W, all, on, deep, n

\* The walk stands where the next call was asked for.
Stood(calls, depth) == IF calls = <<>> THEN 0 ELSE depth[1]
Going(V, calls, a, to, R) ==
  \E path, depth : Trail(V, calls, Stood(calls, depth), path, depth, a, to, R)

\* From wherever the path has led, the walk falls back to the next call.
LEMMA FallsBack ==
  ASSUME NEW V, NEW calls \in Seq(Calls), NEW k, NEW path, NEW depth, NEW a,
         NEW to, NEW R, Trail(V, calls, k, path, depth, a, to, R)
  PROVE  Going(V, calls, a, to, R)
<1> DEFINE j == Stood(calls, depth)
<1>1. /\ k \in Nat /\ depth \in [1..Len(calls) -> 0..k]
      /\ \A m, l \in 1..Len(calls) : m <= l => depth[l] <= depth[m]
      /\ Len(calls) \in Nat
  BY LenProperties DEF Trail
<1>2. j \in Nat /\ j <= k /\ \A m \in 1..Len(calls) : depth[m] <= j
  <2>1. CASE calls = <<>>
    BY <1>1, <2>1 DEF Stood
  <2>2. CASE calls # <<>>
    <3>1. 1 \in 1..Len(calls) /\ j = depth[1]
      BY <1>1, <2>2, EmptySeq DEF Stood
    <3> QED
      BY <1>1, <3>1
  <2> QED
    BY <2>1, <2>2
<1> HIDE DEF j
<1>3. Trail(V, calls, j, [i \in 1..j |-> path[i]], depth, a, to, R)
  BY <1>1, <1>2, Backtracks
<1> QED
  BY <1>3 DEF Going, j

\* Mail that sets out from a can run for ever, or a can lead to more addresses
\* than a chain may have.
ComesRound(a, to, R) ==
  \E S \in SUBSET R : a \in S /\ \A v \in S : Onward(v, to) \cap S # {}
Warranted(a, to, R) == ComesRound(a, to, R) \/ Cardinality(R) > MaxDepth
TrailOK(walk, a, to, R) ==
  IF walk.loop THEN Warranted(a, to, R)
  ELSE Going(walk.visited, walk.calls, a, to, R)

\* An address met again in its own chain: the path comes round.
LEMMA PathCloses ==
  ASSUME NEW V, NEW calls \in Seq(Calls), calls # <<>>, NEW k, NEW path, NEW depth,
         NEW a, NEW to, NEW R, Trail(V, calls, k, path, depth, a, to, R),
         depth[1] = k, calls[1].address \in calls[1].chain
  PROVE  ComesRound(a, to, R)
<1> DEFINE S == Upto(path, k)
           x == calls[1].address
<1>1. 1 \in 1..Len(calls)
  BY EmptySeq, LenProperties
<1>2. /\ k \in Nat /\ path \in [1..k -> R] /\ x \in S
      /\ IF k = 0 THEN x = a ELSE x \in Onward(path[k], to)
  BY <1>1 DEF Trail
<1>3. k # 0
  BY <1>2 DEF Upto
<1>4. a \in S /\ S \subseteq R
  <2>1. path[1] = a /\ 1 \in 1..k
    BY <1>2, <1>3 DEF Trail
  <2> QED
    BY <1>2, <2>1 DEF Upto
<1>5. ASSUME NEW v \in S PROVE Onward(v, to) \cap S # {}
  <2>1. PICK i \in 1..k : v = path[i]
    BY DEF Upto
  <2>2. CASE i = k
    BY <1>2, <1>3, <2>1, <2>2
  <2>3. CASE i # k
    <3>1. i \in 1..k - 1 /\ i + 1 \in 1..k
      BY <1>2, <2>3
    <3>2. path[i + 1] \in Onward(path[i], to) /\ path[i + 1] \in S
      BY <3>1 DEF Trail, Upto
    <3> QED
      BY <2>1, <3>2
  <2> QED
    BY <2>2, <2>3
<1> QED
  BY <1>4, <1>5 DEF ComesRound

\* What a call does to the path, whichever way it goes.
LEMMA TrailGoesOn ==
  ASSUME NEW to, \A b \in DOMAIN to : to[b] \subseteq Anywhere,
         NEW R \in SUBSET Anywhere, \A v \in R : Onward(v, to) \subseteq R,
         NEW a \in R, NEW n, NEW walk,
         WalkOK(walk, n, a, to), TrailOK(walk, a, to, R)
  PROVE  TrailOK(Visit(walk, to), a, to, R)
<1> DEFINE V == walk.visited
           calls == walk.calls
           x == calls[1].address
           chain == calls[1].chain
           next == Visit(walk, to)
<1>1. walk \in [calls : Seq(Calls), visited : SUBSET Anywhere, loop : BOOLEAN]
  BY DEF WalkOK
<1>2. CASE walk.loop \/ calls = <<>>
  <2>1. next = walk
    BY <1>2 DEF Visit
  <2> QED
    BY <2>1
<1>3. CASE ~walk.loop /\ calls # <<>>
  <2>1. /\ calls \in Seq(Calls) /\ Head(calls) = calls[1] /\ 1 \in 1..Len(calls)
        /\ Tail(calls) \in Seq(Calls) /\ Len(calls) \in Nat \ {0}
        /\ calls[1] \in Calls
    BY <1>1, <1>3, HeadTailProperties, EmptySeq, LenProperties
  <2>2. PICK path, depth : Trail(V, calls, depth[1], path, depth, a, to, R)
    BY <1>3 DEF TrailOK, Going, Stood
  <2> DEFINE k == depth[1]
  <2>3. /\ k \in Nat /\ path \in [1..k -> R] /\ V \subseteq R
        /\ chain = Upto(path, k) /\ Upto(path, k) \subseteq V
        /\ IF k = 0 THEN x = a ELSE x \in Onward(path[k], to)
    BY <2>1, <2>2 DEF Trail
  <2>4. x \in R
    BY <2>3
  <2>5. CASE x \in V
    <3>1. /\ next.calls = Tail(calls) /\ next.visited = V
          /\ next.loop = (x \in chain)
      BY <1>1, <1>3, <2>1, <2>5 DEF Visit
    <3>2. CASE x \in chain
      <4>1. ComesRound(a, to, R)
        BY <1>3, <2>1, <2>2, <3>2, PathCloses
      <4> QED
        BY <3>1, <3>2, <4>1 DEF TrailOK, Warranted
    <3>3. CASE x \notin chain
      <4>1. Trail(V, Tail(calls), k, path,
                  [m \in 1..Len(calls) - 1 |-> depth[m + 1]], a, to, R)
        BY <1>3, <2>1, <2>2, <2>5, <3>3, PassedOver
      <4>2. Going(V, Tail(calls), a, to, R)
        BY <2>1, <4>1, FallsBack
      <4> QED
        BY <3>1, <3>3, <4>2 DEF TrailOK
    <3> QED
      BY <3>2, <3>3
  <2>6. CASE x \notin V
    <3> DEFINE more == CallsTo(Onward(x, to), chain \cup {x})
    <3>1. /\ next.calls = more \o Tail(calls) /\ next.visited = V \cup {x}
          /\ next.loop = (Cardinality(chain) >= MaxDepth)
      BY <1>1, <1>3, <2>1, <2>6 DEF Visit, CallsTo
    <3>2. CASE Cardinality(chain) >= MaxDepth
      <4>1. chain \cup {x} \subseteq R /\ x \notin chain
        BY <2>3, <2>4, <2>6
      <4>2. IsFiniteSet(R) /\ Cardinality(R) \in Nat
        BY AnywhereIsFinite, FS_Subset, FS_CardinalityType
      <4>3. IsFiniteSet(chain) /\ Cardinality(chain) \in Nat
        BY <4>1, <4>2, FS_Subset, FS_CardinalityType
      <4>4. /\ Cardinality(chain \cup {x}) = Cardinality(chain) + 1
            /\ Cardinality(chain \cup {x}) <= Cardinality(R)
        BY <4>1, <4>2, <4>3, FS_AddElement, FS_Subset
      <4>5. Cardinality(R) > MaxDepth
        BY <3>2, <4>2, <4>3, <4>4, MailAssumption
      <4> QED
        BY <3>1, <3>2, <4>5 DEF TrailOK, Warranted
    <3>3. CASE ~(Cardinality(chain) >= MaxDepth)
      <4> DEFINE T == Onward(x, to)
                 longer == chain \cup {x}
      <4>1. T \in SUBSET Anywhere /\ longer \in SUBSET Anywhere
        BY <2>1, <2>3, <2>4, OnwardIsSomewhere DEF Calls
      <4> HIDE DEF T, longer, x, chain
      <4>2. /\ CallsTo(T, longer) \in Seq(Calls)
            /\ \A i \in 1..Len(CallsTo(T, longer)) :
                 /\ CallsTo(T, longer)[i].chain = longer
                 /\ CallsTo(T, longer)[i].address \in T
            /\ \A b \in T : \E i \in 1..Len(CallsTo(T, longer)) :
                 CallsTo(T, longer)[i].address = b
        BY <4>1, CallsOnward
      <4>3. /\ more \in Seq(Calls)
            /\ \A i \in 1..Len(more) : /\ more[i].chain = chain \cup {x}
                                       /\ more[i].address \in Onward(x, to)
            /\ \A b \in Onward(x, to) : \E i \in 1..Len(more) : more[i].address = b
        BY <4>2 DEF T, longer
      <4> HIDE DEF more
      <4>4. \E p, d : Trail(V \cup {x}, more \o Tail(calls), k + 1, p, d, a, to, R)
        BY <1>3, <2>1, <2>2, <2>4, <2>6, <4>3, GoesOn DEF x, chain
      <4>5. more \o Tail(calls) \in Seq(Calls)
        BY <2>1, <4>3, ConcatProperties
      <4>6. Going(V \cup {x}, more \o Tail(calls), a, to, R)
        BY <4>4, <4>5, FallsBack
      <4> QED
        BY <3>1, <3>3, <4>6 DEF TrailOK
    <3> QED
      BY <3>2, <3>3
  <2> QED
    BY <2>5, <2>6
<1> QED
  BY <1>2, <1>3

\* LoopFrom reports a loop wherever mail can run for ever, and elsewhere only
\* where there are more addresses than MAX_DEPTH.
LEMMA WalkIsRight ==
  ASSUME NEW to, \A b \in DOMAIN to : to[b] \subseteq Anywhere,
         NEW R \in SUBSET Anywhere, \A v \in R : Onward(v, to) \subseteq R,
         NEW a \in R
  PROVE  /\ ComesRound(a, to, R) => LoopFrom(a, to)
         /\ LoopFrom(a, to) => Warranted(a, to, R)
<1>1. PICK walk : Steps(a, to, MaxCalls, walk) /\ Walk(a, to) = walk[MaxCalls]
  BY StepsExist
<1>2. \A n \in 0..MaxCalls : WalkOK(walk[n], n, a, to)
  BY <1>1, EveryCall
<1>3. MaxCalls \in Nat
  <2>1. IsFiniteSet(Anywhere \X Anywhere)
    BY AnywhereIsFinite, FS_Product
  <2> QED
    BY <2>1, FS_CardinalityType DEF MaxCalls
<1> DEFINE S == {n \in Nat : n <= MaxCalls => TrailOK(walk[n], a, to, R)}
<1>4. 0 \in S
  <2> DEFINE calls == <<Call(a, {})>>
  <2>1. walk[0] = Start(a)
    BY <1>1, <1>3 DEF Steps
  <2>2. /\ calls \in Seq(Calls) /\ Len(calls) = 1 /\ calls # <<>>
        /\ calls[1].address = a /\ calls[1].chain = {}
    BY DEF Calls, Call
  <2> HIDE DEF calls
  <2> DEFINE p == [i \in 1..0 |-> a]
             d == [m \in 1..1 |-> 0]
  <2>3. p \in [1..0 -> R] /\ d \in [1..Len(calls) -> 0..0]
    BY <2>2
  <2>4. \A m \in 1..Len(calls) : m = 1 /\ d[m] = 0
    BY <2>2
  <2>5. Upto(p, 0) = {} /\ {} \ Upto(p, 0) = {}
    BY DEF Upto
  <2>6. Over({} \ Upto(p, 0), to)
    BY <2>5 DEF Over
  <2> HIDE DEF p, d
  <2>7. Trail({}, calls, 0, p, d, a, to, R)
    <3>1. \A m \in 1..Len(calls) :
            /\ calls[m].chain = Upto(p, d[m])
            /\ IF d[m] = 0 THEN calls[m].address = a
               ELSE calls[m].address \in Onward(p[d[m]], to)
      BY <2>2, <2>4, <2>5
    <3>2. \A m, l \in 1..Len(calls) : m <= l => d[l] <= d[m]
      BY <2>4
    <3>3. {} \subseteq R /\ Upto(p, 0) \subseteq {}
      BY <2>5
    <3>4. \A i \in 1..0 : FALSE
      OBVIOUS
    <3> QED
      BY <2>3, <2>6, <3>1, <3>2, <3>3, <3>4 DEF Trail
  <2>8. Going({}, calls, a, to, R)
    BY <2>2, <2>7, FallsBack
  <2>9. /\ walk[0].loop = FALSE /\ walk[0].visited = {}
        /\ walk[0].calls = calls
    BY <2>1 DEF Start, calls
  <2>10. TrailOK(walk[0], a, to, R)
    BY <2>8, <2>9 DEF TrailOK
  <2> QED
    BY <2>10
<1>5. ASSUME NEW n \in S PROVE n + 1 \in S
  <2> SUFFICES ASSUME n + 1 <= MaxCalls PROVE TrailOK(walk[n + 1], a, to, R)
    OBVIOUS
  <2>1. /\ walk[n + 1] = Visit(walk[n], to) /\ TrailOK(walk[n], a, to, R)
        /\ WalkOK(walk[n], n, a, to)
    BY <1>1, <1>2, <1>3 DEF Steps
  <2> QED
    BY <2>1, TrailGoesOn
<1>6. TrailOK(walk[MaxCalls], a, to, R)
  <2> HIDE DEF S
  <2>1. S = Nat
    BY <1>4, <1>5, Counting DEF S
  <2> QED
    BY <1>3, <2>1 DEF S
<1> DEFINE end == walk[MaxCalls]
<1>7. ASSUME ~end.loop, NEW C \in SUBSET R, a \in C,
             \A v \in C : Onward(v, to) \cap C # {}
      PROVE  FALSE
  <2>1. /\ Walking(end, MaxCalls, a, to) /\ end.calls = <<>> /\ MaxCalls # 0
    BY <1>1, <1>7, WalkEnds
  <2>2. a \in end.visited
    BY <2>1 DEF Walking
  <2>3. PICK path, depth : Trail(end.visited, <<>>, 0, path, depth, a, to, R)
    BY <1>6, <1>7, <2>1 DEF TrailOK, Going, Stood
  <2> DEFINE V == end.visited
  <2> HIDE DEF V
  <2>4. V \ Upto(path, 0) = V
    BY DEF Upto
  <2>5. Over(V \ Upto(path, 0), to)
    BY <2>3 DEF Trail, V
  <2>6. Over(V, to) /\ a \in V
    BY <2>2, <2>4, <2>5 DEF V
  <2>7. PICK v \in C \cap V : Onward(v, to) \cap (C \cap V) = {}
    BY <1>7, <2>6 DEF Over
  <2>8. Onward(v, to) \subseteq V
    BY <2>6 DEF Over
  <2> QED
    BY <1>7, <2>7, <2>8
<1>8. LoopFrom(a, to) = end.loop
  BY <1>1 DEF LoopFrom
<1> QED
  BY <1>6, <1>7, <1>8 DEF TrailOK, ComesRound

---------------------------------------------------------------------------
(* The mail.  What a request has read stays true of the row it read it of, *)
(* as long as that row is there; what it has read of the addresses stays   *)
(* true until a write races with it.                                       *)

Reads == {"count", "writeMailbox", "check", "writeAlias"}
FlowType ==
  {Idle}
  \cup [at : {"verify"}, domain : Domains, id : Nat]
  \cup [at : {"count", "writeMailbox"}, a : Anywhere, id : Nat, owner : Customers]
  \cup [at : {"check", "writeAlias"}, a : Anywhere, id : Nat,
        targets : Targets, update : BOOLEAN]
DomainType ==
  [owner : Customers, id : Nat, status : {"PENDING_VERIFICATION", "ACTIVE"}]

MailTypes ==
  /\ rows \in Nat /\ raced \in BOOLEAN
  /\ DOMAIN domain \subseteq Domains
  /\ \A d \in DOMAIN domain : domain[d] \in DomainType
  /\ mailbox \subseteq Anywhere /\ DOMAIN alias \subseteq Anywhere
  /\ \A a \in DOMAIN alias : alias[a] \in Targets
  /\ flow \in [Clients -> FlowType]

\* The ids of the rows that were made.
Numbered ==
  /\ \A d \in DOMAIN domain : domain[d].id <= rows
  /\ \A c \in Clients : flow[c].at # "idle" => flow[c].id <= rows

\* The row a request has read, if it is still there.
Reading(c) == flow[c].at \in Reads
Stands(c) == Reading(c) /\ Row(flow[c].a[1], flow[c].id)
RowsHold ==
  \A c \in Clients :
    Stands(c) => LET d == domain[flow[c].a[1]] IN
                 /\ d.status = "ACTIVE"
                 /\ flow[c].at \in {"count", "writeMailbox"} => d.owner = flow[c].owner

\* Mailboxes that have been counted, and are about to be written.
Promised(t) ==
  {c \in Clients : flow[c].at = "writeMailbox" /\ flow[c].owner = t}
Rooms ==
  \A t \in Customers :
    IF Limit[t] = 0 THEN Boxes(t) = {} /\ Promised(t) = {}
    ELSE Cardinality(Boxes(t)) + Cardinality(Promised(t))
           <= Limit[t] + Cardinality(Clients) - 1

\* What a request has read of the addresses.
Proposed(a, targets) ==
  [b \in DOMAIN alias \cup {a} |-> IF b = a THEN targets ELSE alias[b]]
Harmless(a, targets) ==
  a[2] = CatchAll \/ \E V \in SUBSET Anywhere : Closed(V, a, Proposed(a, targets))
ReadsHold ==
  \A c \in Clients :
    Stands(c) =>
      LET f == flow[c] IN
      /\ f.at \in {"count", "writeMailbox"} => f.a \notin mailbox \cup DOMAIN alias
      /\ f.at \in {"check", "writeAlias"} => f.a \notin mailbox
      /\ f.at = "writeAlias" => Harmless(f.a, f.targets)

NoNamedCircle ==
  \A S \in SUBSET DOMAIN alias : Circle(S) => \E a \in S : a[2] = CatchAll
Loopless ==
  raced \/ (NoNamedCircle /\ mailbox \cap DOMAIN alias = {} /\ ReadsHold)

MailInv ==
  /\ MailTypes /\ Numbered /\ CarriesOnlyProved /\ RowsHold /\ Rooms
  /\ Loopless

LEMMA Fields ==
  ASSUME MailTypes, NEW c \in Clients
  PROVE  LET f == flow[c] IN
         /\ f \in FlowType
         /\ f.at = "verify" => f \in [at : {"verify"}, domain : Domains, id : Nat]
         /\ f.at \in {"count", "writeMailbox"} =>
              f \in [at : {"count", "writeMailbox"}, a : Anywhere, id : Nat,
                     owner : Customers]
         /\ f.at \in {"check", "writeAlias"} =>
              f \in [at : {"check", "writeAlias"}, a : Anywhere, id : Nat,
                     targets : Targets, update : BOOLEAN]
<1>1. flow[c] \in FlowType
  BY DEF MailTypes
<1> QED
  BY <1>1 DEF FlowType, Idle

\* What a request must hold when it has read the tables as they are.
Sound(f) ==
  /\ f \in FlowType
  /\ f.at # "idle" => f.id <= rows
  /\ f.at \in Reads /\ Row(f.a[1], f.id) =>
       /\ domain[f.a[1]].status = "ACTIVE"
       /\ f.at \in {"count", "writeMailbox"} => domain[f.a[1]].owner = f.owner
       /\ \/ raced
          \/ /\ f.at \in {"count", "writeMailbox"} =>
                  f.a \notin mailbox \cup DOMAIN alias
             /\ f.at \in {"check", "writeAlias"} => f.a \notin mailbox
             /\ f.at = "writeAlias" => Harmless(f.a, f.targets)

LEMMA SoundWhileHeld ==
  ASSUME MailInv, NEW c \in Clients
  PROVE  Sound(flow[c])
<1>1. flow[c] \in FlowType
  BY DEF MailInv, MailTypes
<1> QED
  BY <1>1 DEF MailInv, Sound, Numbered, RowsHold, Loopless, ReadsHold, Stands,
              Reading

Tables == <<domain, txt, mailbox, alias, rows, raced>>

\* A step that leaves the tables alone, all but the count of mailboxes.
LEMMA FlowStep ==
  ASSUME MailInv, NEW c \in Clients, NEW f, Step(c, f), Sound(f),
         UNCHANGED Tables
  PROVE  /\ MailTypes' /\ Numbered' /\ CarriesOnlyProved' /\ RowsHold'
         /\ Loopless'
<1>1. /\ flow \in [Clients -> FlowType] /\ flow'[c] = f
      /\ \A o \in Clients : o # c => flow'[o] = flow[o]
      /\ DOMAIN flow' = Clients /\ flow' \in [Clients -> FlowType]
  BY DEF MailInv, MailTypes, Step, Sound
<1>2. UNCHANGED <<domain, txt, mailbox, alias, rows, raced>>
  BY DEF Tables
<1>3. MailTypes'
  BY <1>1, <1>2 DEF MailInv, MailTypes
<1>4. Numbered'
  BY <1>1, <1>2 DEF MailInv, Numbered, Sound
<1>5. CarriesOnlyProved'
  BY <1>2 DEF MailInv, CarriesOnlyProved
<1>6. RowsHold'
  BY <1>1, <1>2 DEF MailInv, RowsHold, Stands, Reading, Row, Sound
<1>7. Loopless'
  <2>1. NoNamedCircle' = NoNamedCircle
    BY <1>2 DEF NoNamedCircle, Circle, Onward
  <2>2. \A a, targets : Harmless(a, targets)' = Harmless(a, targets)
    BY <1>2 DEF Harmless, Closed, Proposed, Onward
  <2>3. ASSUME ReadsHold, ~raced PROVE ReadsHold'
    BY <1>1, <1>2, <2>2, <2>3 DEF ReadsHold, Stands, Reading, Row, Sound
  <2> QED
    BY <1>2, <2>1, <2>3 DEF MailInv, Loopless
<1> QED
  BY <1>3, <1>4, <1>5, <1>6, <1>7

LEMMA BoxesAreFinite ==
  ASSUME MailTypes, NEW t
  PROVE  /\ IsFiniteSet(Boxes(t)) /\ Cardinality(Boxes(t)) \in Nat
         /\ IsFiniteSet(Promised(t)) /\ Cardinality(Promised(t)) \in Nat
         /\ Cardinality(Promised(t)) <= Cardinality(Clients)
         /\ Cardinality(Clients) \in Nat
<1>1. Boxes(t) \subseteq Anywhere
  BY DEF Boxes, MailTypes
<1>2. Promised(t) \subseteq Clients
  BY DEF Promised
<1>3. IsFiniteSet(Boxes(t)) /\ IsFiniteSet(Promised(t)) /\ IsFiniteSet(Clients)
  BY <1>1, <1>2, AnywhereIsFinite, MailAssumption, FS_Subset
<1> QED
  BY <1>2, <1>3, FS_Subset, FS_CardinalityType

\* Whatever takes mailboxes away, or promises none, leaves room.
LEMMA RoomsStay ==
  ASSUME MailInv, MailTypes', \A t \in Customers :
           Boxes(t)' \subseteq Boxes(t) /\ Promised(t)' \subseteq Promised(t)
  PROVE  Rooms'
<1> SUFFICES ASSUME NEW t \in Customers
             PROVE  IF Limit[t] = 0 THEN Boxes(t)' = {} /\ Promised(t)' = {}
                    ELSE Cardinality(Boxes(t)') + Cardinality(Promised(t)')
                           <= Limit[t] + Cardinality(Clients) - 1
  BY DEF Rooms
<1>1. MailTypes /\ Rooms
  BY DEF MailInv
<1>2. CASE Limit[t] = 0
  BY <1>1, <1>2 DEF Rooms
<1>3. CASE Limit[t] # 0
  <2> DEFINE b == Cardinality(Boxes(t))
             p == Cardinality(Promised(t))
             b1 == Cardinality(Boxes(t)')
             p1 == Cardinality(Promised(t)')
             n == Cardinality(Clients)
  <2>1. b \in Nat /\ p \in Nat /\ n \in Nat /\ Limit[t] \in Nat
    BY <1>1, BoxesAreFinite, MailAssumption
  <2>2. b1 \in Nat /\ p1 \in Nat /\ b1 <= b /\ p1 <= p
    BY <1>1, BoxesAreFinite, FS_Subset, FS_CardinalityType
  <2>3. b + p <= Limit[t] + n - 1
    BY <1>1, <1>3 DEF Rooms
  <2> HIDE DEF b, p, b1, p1, n
  <2>4. b1 + p1 <= Limit[t] + n - 1
    BY <2>1, <2>2, <2>3
  <2> QED
    BY <1>3, <2>4 DEF b1, p1, n
<1> QED
  BY <1>2, <1>3

\* A request begins, goes on or ends, and promises nothing by it.
LEMMA QuietFlow ==
  ASSUME MailInv, NEW c \in Clients, NEW f, Step(c, f), Sound(f),
         UNCHANGED Tables, f.at # "writeMailbox"
  PROVE  MailInv'
<1>1. /\ MailTypes' /\ Numbered' /\ CarriesOnlyProved' /\ RowsHold' /\ Loopless'
  BY FlowStep
<1>2. /\ flow'[c] = f /\ UNCHANGED <<mailbox, domain>>
      /\ \A o \in Clients : o # c => flow'[o] = flow[o]
  BY DEF MailInv, MailTypes, Step, Tables
<1>3. ASSUME NEW t \in Customers
      PROVE  Boxes(t)' \subseteq Boxes(t) /\ Promised(t)' \subseteq Promised(t)
  BY <1>2 DEF Boxes, Promised
<1>4. Rooms'
  BY <1>1, <1>3, RoomsStay
<1> QED
  BY <1>1, <1>4 DEF MailInv

\* An idle request holds nothing.
LEMMA IdleIsSound == Sound(Idle)
BY DEF Sound, FlowType, Idle, Reads

---------------------------------------------------------------------------
(* Requests that begin.                                                    *)

LEMMA VerifyBegins ==
  ASSUME MailInv, NEW c \in Clients, NEW d \in DOMAIN domain, VerifyRead(c, d)
  PROVE  MailInv'
<1> DEFINE f == [at |-> "verify", domain |-> d, id |-> domain[d].id]
<1>1. d \in Domains /\ domain[d].id \in Nat /\ domain[d].id <= rows
  BY DEF MailInv, MailTypes, DomainType, Numbered
<1>2. Sound(f)
  BY <1>1 DEF Sound, FlowType, Reads
<1>3. Step(c, f) /\ UNCHANGED Tables
  BY DEF VerifyRead, Tables
<1> QED
  BY <1>2, <1>3, QuietFlow

LEMMA MailboxBegins ==
  ASSUME MailInv, NEW c \in Clients, NEW a \in Anywhere, MailboxCheck(c, a)
  PROVE  MailInv'
<1> DEFINE f == [at |-> "count", a |-> a, id |-> domain[a[1]].id,
                 owner |-> domain[a[1]].owner]
<1>1. /\ a[1] \in DOMAIN domain /\ domain[a[1]].status = "ACTIVE"
      /\ a \notin mailbox \cup DOMAIN alias
  BY DEF MailboxCheck, Free
<1>2. /\ domain[a[1]].id \in Nat /\ domain[a[1]].id <= rows
      /\ domain[a[1]].owner \in Customers
  BY <1>1 DEF MailInv, MailTypes, DomainType, Numbered
<1>3. f \in FlowType
  BY <1>2 DEF FlowType
<1>4. Sound(f)
  BY <1>1, <1>2, <1>3 DEF Sound
<1>5. Step(c, f) /\ UNCHANGED Tables
  BY DEF MailboxCheck, Tables
<1> QED
  BY <1>4, <1>5, QuietFlow

LEMMA AliasBegins ==
  ASSUME MailInv, NEW c \in Clients, NEW a \in Anywhere, NEW T \in Targets,
         AliasCheck(c, a, T) \/ AliasOwned(c, a, T)
  PROVE  MailInv'
<1>1. PICK update \in BOOLEAN :
        /\ Step(c, [at |-> "check", a |-> a, id |-> domain[a[1]].id,
                    targets |-> T, update |-> update])
        /\ UNCHANGED Tables
        /\ update => a \in DOMAIN alias
        /\ ~update => Free(a)
  BY DEF AliasCheck, AliasOwned, Tables
<1> DEFINE f == [at |-> "check", a |-> a, id |-> domain[a[1]].id,
                 targets |-> T, update |-> update]
<1>2. /\ a[1] \in DOMAIN domain /\ domain[a[1]].status = "ACTIVE"
      /\ raced \/ a \notin mailbox
  BY <1>1 DEF Free, MailInv, CarriesOnlyProved, Loopless
<1>3. domain[a[1]].id \in Nat /\ domain[a[1]].id <= rows
  BY <1>2 DEF MailInv, MailTypes, DomainType, Numbered
<1>4. f \in FlowType
  <2>1. f \in [at : {"check", "writeAlias"}, a : Anywhere, id : Nat,
               targets : Targets, update : BOOLEAN]
    BY <1>3
  <2> QED
    BY <2>1 DEF FlowType
<1>5. /\ f.at = "check" /\ f.a = a /\ f.id = domain[a[1]].id
  OBVIOUS
<1> HIDE DEF f
<1>6. Sound(f)
  BY <1>2, <1>3, <1>4, <1>5 DEF Sound
<1> QED
  BY <1>1, <1>5, <1>6, QuietFlow DEF f

---------------------------------------------------------------------------
(* Requests that go on, and requests that end without a write.             *)

LEMMA Ends ==
  ASSUME MailInv, NEW c \in Clients, Finish(c), UNCHANGED Tables
  PROVE  MailInv'
<1>1. Step(c, Idle) /\ Idle.at # "writeMailbox"
  BY DEF Finish, Idle
<1> QED
  BY <1>1, IdleIsSound, QuietFlow

\* The count that lets a request go on has room for one more, and the other
\* requests promise one each at the most.
LEMMA Counted ==
  ASSUME MailInv, NEW c \in Clients, MailboxCount(c)
  PROVE  MailInv'
<1>1. UNCHANGED Tables /\ flow[c].at = "count"
  BY DEF MailboxCount, Tables
<1>2. CASE ~MayCreate(flow[c].owner)
  BY <1>1, <1>2, Ends DEF MailboxCount
<1>3. CASE MayCreate(flow[c].owner)
  <2> DEFINE old == flow[c]
             f == [old EXCEPT !.at = "writeMailbox"]
             t0 == old.owner
  <2>1. old \in [at : {"count", "writeMailbox"}, a : Anywhere, id : Nat,
                 owner : Customers]
    BY <1>1, Fields DEF MailInv
  <2>2. /\ f \in [at : {"count", "writeMailbox"}, a : Anywhere, id : Nat,
                  owner : Customers]
        /\ f.at = "writeMailbox" /\ f.a = old.a /\ f.id = old.id
        /\ f.owner = t0 /\ t0 \in Customers
    BY <2>1
  <2>3. f \in FlowType
    BY <2>2 DEF FlowType
  <2>4. Step(c, f)
    BY <1>3 DEF MailboxCount
  <2> HIDE DEF f
  <2>5. Sound(f)
    BY <1>1, <2>2, <2>3, SoundWhileHeld DEF Sound, Reads
  <2>6. /\ MailTypes' /\ Numbered' /\ CarriesOnlyProved' /\ RowsHold' /\ Loopless'
    BY <1>1, <2>4, <2>5, FlowStep
  <2>7. /\ flow'[c] = f /\ UNCHANGED <<mailbox, domain>>
        /\ \A o \in Clients : o # c => flow'[o] = flow[o]
    BY <1>1, <2>4 DEF MailInv, MailTypes, Step, Tables
  <2>8. \A t : Boxes(t)' = Boxes(t)
    BY <2>7 DEF Boxes
  <2>9. Rooms'
    <3> SUFFICES ASSUME NEW t \in Customers
                 PROVE  IF Limit[t] = 0 THEN Boxes(t)' = {} /\ Promised(t)' = {}
                        ELSE Cardinality(Boxes(t)') + Cardinality(Promised(t)')
                               <= Limit[t] + Cardinality(Clients) - 1
      BY DEF Rooms
    <3> DEFINE b == Cardinality(Boxes(t))
               p == Cardinality(Promised(t))
               p1 == Cardinality(Promised(t)')
               n == Cardinality(Clients)
    <3>1. /\ b \in Nat /\ p \in Nat /\ n \in Nat /\ Limit[t] \in Nat
          /\ IsFiniteSet(Promised(t)) /\ IsFiniteSet(Boxes(t))
      BY BoxesAreFinite, MailAssumption DEF MailInv
    <3>2. p1 \in Nat /\ p1 <= n
      <4>1. Promised(t)' \subseteq Clients
        BY DEF Promised
      <4> QED
        BY <4>1, MailAssumption, FS_Subset, FS_CardinalityType
    <3>3. CASE t # t0
      <4>1. Promised(t)' \subseteq Promised(t)
        BY <2>2, <2>7, <3>3 DEF Promised
      <4>2. p1 <= p
        BY <3>1, <4>1, FS_Subset
      <4>3. IF Limit[t] = 0 THEN Boxes(t) = {} /\ Promised(t) = {}
            ELSE b + p <= Limit[t] + n - 1
        BY DEF MailInv, Rooms
      <4> HIDE DEF b, p, p1, n
      <4>4. CASE Limit[t] = 0
        BY <2>8, <4>1, <4>3, <4>4
      <4>5. CASE Limit[t] # 0
        <5>1. b + p1 <= Limit[t] + n - 1
          BY <3>1, <3>2, <4>2, <4>3, <4>5
        <5> QED
          BY <2>8, <4>5, <5>1 DEF b, p1, n
      <4> QED
        BY <4>4, <4>5
    <3>4. CASE t = t0
      <4>1. b + 1 <= Limit[t]
        BY <1>3, <3>4 DEF MayCreate
      <4> HIDE DEF b, p, p1, n
      <4>2. Limit[t] # 0 /\ b + p1 <= Limit[t] + n - 1
        BY <3>1, <3>2, <4>1
      <4> QED
        BY <2>8, <4>2 DEF b, p1, n
    <3> QED
      BY <3>3, <3>4
  <2> QED
    BY <2>6, <2>9 DEF MailInv
<1> QED
  BY <1>2, <1>3

\* The targets of an alias are somewhere.
LEMMA TargetsAreSomewhere ==
  ASSUME MailTypes, NEW a, NEW targets \in Targets
  PROVE  /\ \A b \in DOMAIN alias : alias[b] \subseteq Anywhere
         /\ \A b \in DOMAIN Proposed(a, targets) :
              Proposed(a, targets)[b] \subseteq Anywhere
<1>1. \A T \in Targets : T \subseteq Anywhere
  BY DEF Anywhere
<1> QED
  BY <1>1 DEF MailTypes, Proposed

LEMMA Checked ==
  ASSUME MailInv, NEW c \in Clients, AssertNoLoop(c)
  PROVE  MailInv'
<1>1. UNCHANGED Tables /\ flow[c].at = "check"
  BY DEF AssertNoLoop, Tables
<1>2. CASE WouldLoop(flow[c].a, flow[c].targets)
  BY <1>1, <1>2, Ends DEF AssertNoLoop
<1>3. CASE ~WouldLoop(flow[c].a, flow[c].targets)
  <2> DEFINE old == flow[c]
             f == [old EXCEPT !.at = "writeAlias"]
  <2>1. old \in [at : {"check", "writeAlias"}, a : Anywhere, id : Nat,
                 targets : Targets, update : BOOLEAN]
    BY <1>1, Fields DEF MailInv
  <2>2. /\ f \in [at : {"check", "writeAlias"}, a : Anywhere, id : Nat,
                  targets : Targets, update : BOOLEAN]
        /\ f.at = "writeAlias" /\ f.a = old.a /\ f.id = old.id
        /\ f.targets = old.targets /\ f.a \in Anywhere /\ f.targets \in Targets
    BY <2>1
  <2>3. f \in FlowType
    BY <2>2 DEF FlowType
  <2>4. Step(c, f)
    BY <1>3 DEF AssertNoLoop
  <2> HIDE DEF f
  <2>5. ASSUME f.a[1] \in DOMAIN domain, f.a[2] # CatchAll
        PROVE  \E V \in SUBSET Anywhere : Closed(V, f.a, Proposed(f.a, f.targets))
    <3>1. ~LoopFrom(f.a, Proposed(f.a, f.targets))
      BY <1>3, <2>2, <2>5 DEF WouldLoop, Proposed
    <3>2. \A b \in DOMAIN Proposed(f.a, f.targets) :
            Proposed(f.a, f.targets)[b] \subseteq Anywhere
      BY <2>2, TargetsAreSomewhere DEF MailInv
    <3> QED
      BY <2>2, <3>1, <3>2, NoLoopFound
  <2>6. Row(f.a[1], f.id) => Harmless(f.a, f.targets)
    BY <2>5 DEF Row, Harmless
  <2>7. Sound(f)
    BY <1>1, <2>2, <2>3, <2>6, SoundWhileHeld DEF Sound, Reads
  <2> QED
    BY <1>1, <2>2, <2>4, <2>7, QuietFlow
<1> QED
  BY <1>2, <1>3

---------------------------------------------------------------------------
(* Domains come and go.                                                    *)

\* Onward, of the names of the domains and the mailboxes.
Leads(a, to, names, boxes) ==
  IF a[1] \notin names \/ a \in boxes THEN Leaf
  ELSE IF a \in DOMAIN to THEN to[a]
  ELSE IF <<a[1], CatchAll>> \in DOMAIN to THEN to[<<a[1], CatchAll>>]
  ELSE Leaf

\* Where the mail of an address leads nowhere new, a proposal stays harmless
\* and no circle forms.
LEMMA HarmlessStays ==
  ASSUME NEW a, NEW targets, Harmless(a, targets),
         \A b : Leads(b, Proposed(a, targets)', DOMAIN domain', mailbox')
                  \subseteq Leads(b, Proposed(a, targets), DOMAIN domain, mailbox)
  PROVE  Harmless(a, targets)'
<1>1. CASE a[2] = CatchAll
  BY <1>1 DEF Harmless
<1>2. CASE a[2] # CatchAll
  <2>1. PICK V \in SUBSET Anywhere : Closed(V, a, Proposed(a, targets))
    BY <1>2 DEF Harmless
  <2>2. a \in V
    BY <2>1 DEF Closed
  <2>3. \A v \in V : Leads(v, Proposed(a, targets), DOMAIN domain, mailbox)
                       \subseteq V \ {a}
    BY <2>1 DEF Closed, Onward, Leads
  <2>4. \A v \in V : Leads(v, Proposed(a, targets)', DOMAIN domain', mailbox')
                       \subseteq V \ {a}
    BY <2>3
  <2>5. Closed(V, a, Proposed(a, targets))'
    BY <2>2, <2>4 DEF Closed, Onward, Leads
  <2> QED
    BY <2>5 DEF Harmless
<1> QED
  BY <1>1, <1>2

LEMMA CirclesStay ==
  ASSUME NoNamedCircle, DOMAIN alias' \subseteq DOMAIN alias,
         \A b \in DOMAIN alias' :
            Leads(b, alias', DOMAIN domain', mailbox')
              \subseteq Leads(b, alias, DOMAIN domain, mailbox)
  PROVE  NoNamedCircle'
<1> SUFFICES ASSUME NEW S \in SUBSET DOMAIN alias', Circle(S)'
             PROVE  \E a \in S : a[2] = CatchAll
  BY DEF NoNamedCircle
<1>1. S # {} /\ \A b \in S : Leads(b, alias', DOMAIN domain', mailbox') \cap S # {}
  BY DEF Circle, Onward, Leads
<1>2. \A b \in S : Leads(b, alias, DOMAIN domain, mailbox) \cap S # {}
  BY <1>1
<1>3. Circle(S)
  BY <1>1, <1>2 DEF Circle, Onward, Leads
<1> QED
  BY <1>3 DEF NoNamedCircle

\* A new domain has nothing on it, and a row no request has read.
LEMMA DomainAdded ==
  ASSUME MailInv, NEW t \in Customers, NEW d \in Domains, AddDomain(t, d)
  PROVE  MailInv'
<1> DEFINE row == [owner |-> t, id |-> rows + 1, status |-> "PENDING_VERIFICATION"]
<1>1. /\ d \notin DOMAIN domain /\ rows \in Nat /\ rows' = rows + 1
      /\ DOMAIN domain' = DOMAIN domain \cup {d}
      /\ domain'[d] = row
      /\ \A e \in DOMAIN domain : domain'[e] = domain[e]
      /\ UNCHANGED <<txt, mailbox, alias, flow, raced>>
  BY DEF AddDomain, Put, MailInv, MailTypes
<1>2. row \in DomainType /\ row.id = rows' /\ row.status # "ACTIVE"
  BY <1>1 DEF DomainType
<1> HIDE DEF row
<1>3. \A a \in mailbox \cup DOMAIN alias : a[1] \in DOMAIN domain
  BY DEF MailInv, CarriesOnlyProved
<1>4. MailTypes'
  BY <1>1, <1>2 DEF MailInv, MailTypes
<1>5. Numbered'
  <2>1. ASSUME NEW e \in DOMAIN domain' PROVE domain'[e].id <= rows'
    <3>1. CASE e = d
      BY <1>1, <1>2, <3>1
    <3>2. CASE e # d
      <4>1. domain[e].id \in Nat /\ domain[e].id <= rows
        BY <1>1, <3>2 DEF MailInv, MailTypes, DomainType, Numbered
      <4> QED
        BY <1>1, <3>2, <4>1
    <3> QED
      BY <3>1, <3>2
  <2>2. ASSUME NEW c \in Clients, flow'[c].at # "idle" PROVE flow'[c].id <= rows'
    <3>1. flow[c].id <= rows
      BY <1>1, <2>2 DEF MailInv, Numbered
    <3>2. flow[c].id \in Nat
      <4>1. flow[c] \in FlowType
        BY DEF MailInv, MailTypes
      <4> QED
        BY <1>1, <2>2, <4>1 DEF FlowType, Idle
    <3> QED
      BY <1>1, <3>1, <3>2
  <2> QED
    BY <2>1, <2>2 DEF Numbered
<1>6. CarriesOnlyProved'
  BY <1>1, <1>2 DEF MailInv, CarriesOnlyProved
<1>7. \A c \in Clients : Stands(c)' => Stands(c) /\ flow[c].a[1] # d
  <2> SUFFICES ASSUME NEW c \in Clients, Stands(c)'
               PROVE  Stands(c) /\ flow[c].a[1] # d
    OBVIOUS
  <2>1. Reading(c) /\ flow[c].at # "idle" /\ Row(flow[c].a[1], flow[c].id)'
    BY <1>1 DEF Stands, Reading, Reads
  <2>2. flow[c].id <= rows
    BY <2>1 DEF MailInv, Numbered
  <2>3. flow[c].a[1] # d
    <3> SUFFICES ASSUME flow[c].a[1] = d PROVE FALSE
      OBVIOUS
    <3>1. flow[c].id = rows + 1
      BY <1>1, <1>2, <2>1 DEF Row
    <3> QED
      BY <1>1, <2>2, <3>1
  <2> QED
    BY <1>1, <2>1, <2>3 DEF Stands, Row
<1>8. RowsHold'
  <2>1. \A c \in Clients : Stands(c)' =>
          flow[c].a[1] \in DOMAIN domain /\ flow[c].a[1] # d
    BY <1>7 DEF Stands, Row
  <2> QED
    BY <1>1, <1>7, <2>1 DEF MailInv, RowsHold
<1>9. Rooms'
  BY <1>1, <1>3 DEF MailInv, Rooms, Boxes, Promised
<1>10. \A b, to : b[1] # d \/ (b \notin DOMAIN to /\ <<d, CatchAll>> \notin DOMAIN to)
           => Onward(b, to)' = Onward(b, to)
  BY <1>1 DEF Onward, Leaf
<1>11. \A b : b[1] = d => b \notin DOMAIN alias
  BY <1>1, <1>3
<1>12. <<d, CatchAll>> \notin DOMAIN alias
  <2>1. <<d, CatchAll>>[1] = d
    OBVIOUS
  <2> QED
    BY <1>11, <2>1
<1>13. \A b : Onward(b, alias)' = Onward(b, alias)
  BY <1>1, <1>10, <1>11, <1>12
<1>14. Loopless'
  <2> SUFFICES ASSUME ~raced
               PROVE  NoNamedCircle' /\ (mailbox \cap DOMAIN alias = {})' /\ ReadsHold'
    BY <1>1 DEF Loopless
  <2>1. NoNamedCircle /\ mailbox \cap DOMAIN alias = {} /\ ReadsHold
    BY DEF MailInv, Loopless
  <2>2. NoNamedCircle'
    BY <1>1, <1>13, <2>1 DEF NoNamedCircle, Circle
  <2>3. ASSUME NEW c \in Clients, Stands(c)', flow[c].at = "writeAlias",
               Harmless(flow[c].a, flow[c].targets)
        PROVE  Harmless(flow[c].a, flow[c].targets)'
    <3> DEFINE a == flow[c].a
               to == Proposed(a, flow[c].targets)
    <3>1. a[1] # d
      BY <1>7, <2>3
    <3>2. DOMAIN to = DOMAIN alias \cup {a} /\ to' = to
      BY <1>1 DEF Proposed
    <3>3. \A b : Onward(b, to)' = Onward(b, to)
      <4>1. <<d, CatchAll>> # a
        BY <3>1
      <4> HIDE DEF a, to
      <4> QED
        BY <1>10, <1>11, <1>12, <3>1, <3>2, <4>1
    <3> HIDE DEF to
    <3>4. \A V : Closed(V, a, to)' = Closed(V, a, to)
      BY <1>1, <3>2, <3>3 DEF Closed
    <3> QED
      BY <1>1, <2>3, <3>2, <3>4 DEF Harmless, to
  <2>4. ReadsHold'
    BY <1>1, <1>7, <2>1, <2>3 DEF ReadsHold
  <2> QED
    BY <1>1, <2>1, <2>2, <2>4
<1> QED
  BY <1>4, <1>5, <1>6, <1>8, <1>9, <1>14 DEF MailInv

LEMMA Published ==
  ASSUME MailInv, NEW d \in DOMAIN domain, Publish(d)
  PROVE  MailInv'
<1>1. txt \subseteq txt' /\ UNCHANGED <<domain, mailbox, alias, flow, rows, raced>>
  BY DEF Publish
<1>2. MailTypes' /\ Numbered' /\ RowsHold' /\ Rooms'
  BY <1>1 DEF MailInv, MailTypes, Numbered, RowsHold, Rooms, Stands, Reading,
              Row, Boxes, Promised
<1>3. CarriesOnlyProved'
  BY <1>1 DEF MailInv, CarriesOnlyProved
<1>4. \A a, targets : Harmless(a, targets)' = Harmless(a, targets)
  BY <1>1 DEF Harmless, Closed, Proposed, Onward
<1>5. ReadsHold' = ReadsHold
  BY <1>1, <1>4 DEF ReadsHold, Stands, Reading, Row
<1>6. Loopless'
  BY <1>1, <1>5 DEF MailInv, Loopless, NoNamedCircle, Circle, Onward
<1> QED
  BY <1>2, <1>3, <1>6 DEF MailInv

\* A domain takes all that is on it along: what is left is as it was.
LEMMA DomainRemoved ==
  ASSUME MailInv, NEW d \in DOMAIN domain, RemoveDomain(d)
  PROVE  MailInv'
<1>1. /\ DOMAIN domain' = DOMAIN domain \ {d}
      /\ \A e \in DOMAIN domain : e # d => domain'[e] = domain[e]
      /\ mailbox' = {a \in mailbox : a[1] # d}
      /\ DOMAIN alias' = {a \in DOMAIN alias : a[1] # d}
      /\ \A a \in DOMAIN alias' : alias'[a] = alias[a]
      /\ UNCHANGED <<txt, flow, rows, raced>>
  BY DEF RemoveDomain, Drop, At
<1>2. MailTypes'
  BY <1>1 DEF MailInv, MailTypes
<1>3. Numbered'
  BY <1>1 DEF MailInv, Numbered
<1>4. CarriesOnlyProved'
  BY <1>1 DEF MailInv, CarriesOnlyProved
<1>5. \A c \in Clients : Stands(c)' => Stands(c) /\ flow[c].a[1] # d
  BY <1>1 DEF Stands, Reading, Row
<1>6. RowsHold'
  <2>1. \A c \in Clients : Stands(c) => flow[c].a[1] \in DOMAIN domain
    BY DEF Stands, Row
  <2> QED
    BY <1>1, <1>5, <2>1 DEF MailInv, RowsHold
<1>7. \A t \in Customers : Boxes(t)' \subseteq Boxes(t) /\ Promised(t)' \subseteq Promised(t)
  <2>1. \A a \in mailbox' : a \in mailbox /\ domain'[a[1]] = domain[a[1]]
    BY <1>1 DEF MailInv, CarriesOnlyProved
  <2> QED
    BY <1>1, <2>1 DEF Boxes, Promised
<1>8. Rooms'
  BY <1>2, <1>7, RoomsStay
<1>9. ASSUME NEW to, NEW to1, NEW b,
             \A e : e[1] # d => (e \in DOMAIN to1 <=> e \in DOMAIN to),
             \A e \in DOMAIN to1 : e[1] # d => to1[e] = to[e]
      PROVE  Leads(b, to1, DOMAIN domain', mailbox')
               \subseteq Leads(b, to, DOMAIN domain, mailbox)
  <2>1. CASE b[1] = d
    BY <1>1, <2>1 DEF Leads, Leaf
  <2>2. CASE b[1] # d
    <3>1. /\ b \in DOMAIN to1 <=> b \in DOMAIN to
          /\ b \in DOMAIN to1 => to1[b] = to[b]
          /\ <<b[1], CatchAll>> \in DOMAIN to1 <=> <<b[1], CatchAll>> \in DOMAIN to
          /\ <<b[1], CatchAll>> \in DOMAIN to1 =>
                to1[<<b[1], CatchAll>>] = to[<<b[1], CatchAll>>]
      BY <1>9, <2>2
    <3>2. b \in mailbox' <=> b \in mailbox
      BY <1>1, <2>2
    <3>3. b[1] \in DOMAIN domain' <=> b[1] \in DOMAIN domain
      BY <1>1, <2>2
    <3> QED
      BY <3>1, <3>2, <3>3 DEF Leads
  <2> QED
    BY <2>1, <2>2
<1>10. Loopless'
  <2> SUFFICES ASSUME ~raced
               PROVE  NoNamedCircle' /\ (mailbox \cap DOMAIN alias = {})' /\ ReadsHold'
    BY <1>1 DEF Loopless
  <2>1. NoNamedCircle /\ mailbox \cap DOMAIN alias = {} /\ ReadsHold
    BY DEF MailInv, Loopless
  <2>2. NoNamedCircle'
    <3>1. \A b : Leads(b, alias', DOMAIN domain', mailbox')
                   \subseteq Leads(b, alias, DOMAIN domain, mailbox)
      BY <1>1, <1>9
    <3> QED
      BY <1>1, <2>1, <3>1, CirclesStay
  <2>3. ASSUME NEW c \in Clients, Stands(c)', Harmless(flow[c].a, flow[c].targets)
        PROVE  Harmless(flow[c].a, flow[c].targets)'
    <3>1. ASSUME NEW a, NEW targets, a[1] # d, Harmless(a, targets)
          PROVE  Harmless(a, targets)'
      <4> DEFINE to == Proposed(a, targets)
                 to1 == [b \in DOMAIN alias' \cup {a} |->
                           IF b = a THEN targets ELSE alias'[b]]
      <4>1. /\ \A e : e[1] # d => (e \in DOMAIN to1 <=> e \in DOMAIN to)
            /\ \A e \in DOMAIN to1 : e[1] # d => to1[e] = to[e]
        <5>1. /\ DOMAIN to = DOMAIN alias \cup {a}
              /\ \A b \in DOMAIN to : to[b] = IF b = a THEN targets ELSE alias[b]
              /\ DOMAIN to1 = DOMAIN alias' \cup {a}
              /\ \A b \in DOMAIN to1 : to1[b] = IF b = a THEN targets ELSE alias'[b]
          BY DEF Proposed
        <5> HIDE DEF to, to1
        <5>2. \A e : e[1] # d => (e \in DOMAIN alias' <=> e \in DOMAIN alias)
          BY <1>1
        <5>3. \A e \in DOMAIN alias' : alias'[e] = alias[e] /\ e \in DOMAIN alias
          BY <1>1
        <5>4. \A e : e[1] # d => (e \in DOMAIN to1 <=> e \in DOMAIN to)
          BY <5>1, <5>2
        <5> QED
          BY <5>1, <5>3, <5>4
      <4>2. to1 = Proposed(a, targets)'
        BY DEF Proposed
      <4> HIDE DEF to, to1
      <4>3. \A b : Leads(b, to1, DOMAIN domain', mailbox')
                     \subseteq Leads(b, to, DOMAIN domain, mailbox)
        BY <1>9, <4>1
      <4> QED
        BY <3>1, <4>2, <4>3, HarmlessStays DEF to
    <3>2. flow[c].a[1] # d
      BY <1>5, <2>3
    <3> QED
      BY <1>1, <2>3, <3>1, <3>2
  <2>4. ReadsHold'
    BY <1>1, <1>5, <2>1, <2>3 DEF ReadsHold
  <2> QED
    BY <1>1, <2>1, <2>2, <2>4
<1> QED
  BY <1>2, <1>3, <1>4, <1>6, <1>8, <1>10 DEF MailInv

---------------------------------------------------------------------------
(* Writes.                                                                 *)

\* A request that ends reads and promises nothing any more.
LEMMA Finished ==
  ASSUME MailInv, NEW c \in Clients, Finish(c)
  PROVE  /\ flow' \in [Clients -> FlowType] /\ flow'[c] = Idle
         /\ \A o \in Clients : o # c => flow'[o] = flow[o]
         /\ \A o \in Clients : flow'[o] = flow[o] \/ flow'[o] = Idle
         /\ \A t : Promised(t)' \subseteq Promised(t)
         /\ \A o \in Clients : Reading(o)' => o # c /\ flow'[o] = flow[o]
<1>1. /\ flow' \in [Clients -> FlowType] /\ flow'[c] = Idle
      /\ \A o \in Clients : o # c => flow'[o] = flow[o]
  <2>1. Idle \in FlowType
    BY DEF FlowType
  <2> QED
    BY <2>1 DEF Finish, Step, MailInv, MailTypes
<1>2. Idle.at = "idle"
  BY DEF Idle
<1> QED
  BY <1>1, <1>2 DEF Promised, Reading, Reads

\* A row becomes active by its id, and only on its own token.
LEMMA Verified ==
  ASSUME MailInv, NEW c \in Clients, VerifyWrite(c)
  PROVE  MailInv'
<1> DEFINE d == flow[c].domain
<1>1. flow[c].at = "verify" /\ Finish(c) /\ UNCHANGED <<txt, mailbox, alias, rows, raced>>
  BY DEF VerifyWrite
<1>2. CASE ~(flow[c].id \in txt /\ Row(d, flow[c].id))
  BY <1>1, <1>2, Ends DEF VerifyWrite, Tables
<1>3. CASE flow[c].id \in txt /\ Row(d, flow[c].id)
  <2>1. /\ DOMAIN domain' = DOMAIN domain
        /\ \A e \in DOMAIN domain : e # d => domain'[e] = domain[e]
        /\ d \in DOMAIN domain
        /\ domain[d].id \in txt
        /\ domain' = [domain EXCEPT ![d].status = "ACTIVE"]
    BY <1>3 DEF VerifyWrite, Row
  <2>2. domain[d] \in DomainType
    BY <2>1 DEF MailInv, MailTypes
  <2>3. domain'[d] = [domain[d] EXCEPT !.status = "ACTIVE"]
    BY <2>1
  <2>4. /\ domain'[d] \in DomainType
        /\ domain'[d].id = domain[d].id /\ domain'[d].owner = domain[d].owner
        /\ domain'[d].status = "ACTIVE"
    BY <2>2, <2>3 DEF DomainType
  <2> HIDE DEF d
  <2>5. \A e \in DOMAIN domain :
          /\ domain'[e].id = domain[e].id /\ domain'[e].owner = domain[e].owner
          /\ domain[e].status = "ACTIVE" => domain'[e].status = "ACTIVE"
    BY <2>1, <2>4
  <2>6. MailTypes'
    BY <1>1, <2>1, <2>4, Finished DEF MailInv, MailTypes
  <2>7. Numbered'
    <3>1. \A o \in Clients : flow'[o].at # "idle" => flow'[o] = flow[o]
      BY <1>1, Finished DEF Idle
    <3> QED
      BY <1>1, <2>1, <2>5, <3>1 DEF MailInv, Numbered
  <2>8. CarriesOnlyProved'
    <3>1. \A e \in DOMAIN domain : domain'[e].status = "ACTIVE" => domain'[e].id \in txt
      BY <2>1, <2>4 DEF MailInv, CarriesOnlyProved
    <3> QED
      BY <1>1, <2>1, <2>5, <3>1 DEF MailInv, CarriesOnlyProved
  <2>9. \A o \in Clients : Stands(o)' => Stands(o) /\ flow'[o] = flow[o]
    BY <1>1, <2>1, <2>5, Finished DEF Stands, Reading, Row
  <2>10. RowsHold'
    <3>1. \A o \in Clients : Stands(o) => flow[o].a[1] \in DOMAIN domain
      BY DEF Stands, Row
    <3> QED
      BY <2>5, <2>9, <3>1 DEF MailInv, RowsHold
  <2>11. Rooms'
    <3>1. \A a \in mailbox : a[1] \in DOMAIN domain
      BY DEF MailInv, CarriesOnlyProved
    <3>2. \A t \in Customers : Boxes(t)' \subseteq Boxes(t)
      BY <1>1, <2>5, <3>1 DEF Boxes
    <3> QED
      BY <1>1, <2>6, <3>2, Finished, RoomsStay
  <2>12. Loopless'
    <3>1. NoNamedCircle' = NoNamedCircle
      BY <1>1, <2>1 DEF NoNamedCircle, Circle, Onward
    <3>2. \A a, targets : Harmless(a, targets)' = Harmless(a, targets)
      BY <1>1, <2>1 DEF Harmless, Closed, Proposed, Onward
    <3>3. ReadsHold => ReadsHold'
      BY <1>1, <2>9, <3>2 DEF ReadsHold
    <3> QED
      BY <1>1, <3>1, <3>3 DEF MailInv, Loopless
  <2> QED
    BY <2>6, <2>7, <2>8, <2>10, <2>11, <2>12 DEF MailInv
<1> QED
  BY <1>2, <1>3

\* When a write leaves nobody behind the times, nobody is reading.
LEMMA NobodyReads ==
  ASSUME MailInv, NEW c \in Clients, Finish(c), Changed(Clients \ {c}), ~raced'
  PROVE  ~raced /\ \A o \in Clients : ~Reading(o)'
BY Finished DEF Changed, Reading, Reads

\* The row that a mailbox is written for still has the owner it was counted
\* for, and the mailbox takes the place that it was promised.
LEMMA MailboxWritten ==
  ASSUME MailInv, NEW c \in Clients, MailboxWrite(c)
  PROVE  MailInv'
<1> DEFINE a == flow[c].a
           t0 == flow[c].owner
<1>1. flow[c].at = "writeMailbox" /\ Finish(c) /\ UNCHANGED <<domain, txt, alias, rows>>
  BY DEF MailboxWrite
<1>2. CASE ~(Row(a[1], flow[c].id) /\ a \notin mailbox)
  BY <1>1, <1>2, Ends DEF MailboxWrite, Tables
<1>3. CASE Row(a[1], flow[c].id) /\ a \notin mailbox
  <2>1. mailbox' = mailbox \cup {a} /\ Changed(Clients \ {c})
    BY <1>3 DEF MailboxWrite
  <2>2. a \in Anywhere /\ t0 \in Customers
    BY <1>1, Fields DEF MailInv
  <2>3. Stands(c)
    BY <1>1, <1>3 DEF Stands, Reading, Reads
  <2>4. /\ a[1] \in DOMAIN domain /\ domain[a[1]].status = "ACTIVE"
        /\ domain[a[1]].owner = t0
    BY <1>1, <1>3, <2>3 DEF MailInv, RowsHold, Row
  <2>5. ~raced => a \notin DOMAIN alias
    BY <1>1, <2>3 DEF MailInv, Loopless, ReadsHold
  <2> HIDE DEF a, t0
  <2>6. MailTypes'
    BY <1>1, <2>1, <2>2, Finished DEF MailInv, MailTypes, Changed
  <2>7. Numbered'
    <3>1. \A o \in Clients : flow'[o].at # "idle" => flow'[o] = flow[o]
      BY <1>1, Finished DEF Idle
    <3> QED
      BY <1>1, <3>1 DEF MailInv, Numbered
  <2>8. CarriesOnlyProved'
    BY <1>1, <2>1, <2>4 DEF MailInv, CarriesOnlyProved
  <2>9. RowsHold'
    <3>1. \A o \in Clients : Stands(o)' => Stands(o) /\ flow'[o] = flow[o]
      BY <1>1, Finished DEF Stands, Reading, Row
    <3> QED
      BY <1>1, <3>1 DEF MailInv, RowsHold
  <2>10. Rooms'
    <3> SUFFICES ASSUME NEW t \in Customers
                 PROVE  IF Limit[t] = 0 THEN Boxes(t)' = {} /\ Promised(t)' = {}
                        ELSE Cardinality(Boxes(t)') + Cardinality(Promised(t)')
                               <= Limit[t] + Cardinality(Clients) - 1
      BY DEF Rooms
    <3> DEFINE b == Cardinality(Boxes(t))
               p == Cardinality(Promised(t))
               b1 == Cardinality(Boxes(t)')
               p1 == Cardinality(Promised(t)')
               n == Cardinality(Clients)
    <3>1. /\ b \in Nat /\ p \in Nat /\ n \in Nat /\ Limit[t] \in Nat
          /\ IsFiniteSet(Promised(t)) /\ IsFiniteSet(Boxes(t))
      BY BoxesAreFinite, MailAssumption DEF MailInv
    <3>2. Promised(t)' \subseteq Promised(t)
      BY <1>1, Finished
    <3>3. p1 \in Nat /\ p1 <= p
      BY <3>1, <3>2, FS_Subset, FS_CardinalityType
    <3>4. IF Limit[t] = 0 THEN Boxes(t) = {} /\ Promised(t) = {}
          ELSE b + p <= Limit[t] + n - 1
      BY DEF MailInv, Rooms
    <3>5. CASE t # t0
      <4>1. Boxes(t)' = Boxes(t)
        BY <1>1, <2>1, <2>4, <3>5 DEF Boxes
      <4> HIDE DEF b, p, b1, p1, n
      <4>2. CASE Limit[t] = 0
        BY <3>2, <3>4, <4>1, <4>2
      <4>3. CASE Limit[t] # 0
        <5>1. b1 = b
          BY <4>1 DEF b, b1
        <5>2. b1 + p1 <= Limit[t] + n - 1
          BY <3>1, <3>3, <3>4, <4>3, <5>1
        <5> QED
          BY <4>3, <5>2 DEF b1, p1, n
      <4> QED
        BY <4>2, <4>3
    <3>6. CASE t = t0
      <4>1. Boxes(t)' = Boxes(t) \cup {a} /\ a \notin Boxes(t)
        BY <1>1, <1>3, <2>1, <2>4, <3>6 DEF Boxes, a
      <4>2. b1 = b + 1
        BY <3>1, <4>1, FS_AddElement
      <4>3. c \in Promised(t)
        BY <1>1, <3>6 DEF Promised, t0
      <4>4. c \notin Promised(t)'
        BY <1>1, Finished DEF Promised, Idle
      <4>5. p1 + 1 <= p
        <5>1. Promised(t)' \subseteq Promised(t) \ {c}
          BY <3>2, <4>4
        <5>2. IsFiniteSet(Promised(t) \ {c}) /\ Cardinality(Promised(t) \ {c}) = p - 1
          BY <3>1, <4>3, FS_RemoveElement
        <5>3. p1 <= Cardinality(Promised(t) \ {c})
          BY <5>1, <5>2, FS_Subset
        <5> HIDE DEF p, p1
        <5> QED
          BY <3>1, <3>3, <5>2, <5>3
      <4>6. Limit[t] # 0
        BY <3>4, <4>3
      <4> HIDE DEF b, p, b1, p1, n
      <4>7. b1 + p1 <= Limit[t] + n - 1
        BY <3>1, <3>3, <3>4, <4>2, <4>5, <4>6
      <4> QED
        BY <4>6, <4>7 DEF b1, p1, n
    <3> QED
      BY <3>5, <3>6
  <2>11. Loopless'
    <3> SUFFICES ASSUME ~raced'
                 PROVE  NoNamedCircle' /\ (mailbox \cap DOMAIN alias = {})' /\ ReadsHold'
      BY DEF Loopless
    <3>1. ~raced /\ \A o \in Clients : ~Reading(o)'
      BY <1>1, <2>1, NobodyReads
    <3>2. NoNamedCircle /\ mailbox \cap DOMAIN alias = {}
      BY <3>1 DEF MailInv, Loopless
    <3>3. \A b, to : Leads(b, to, DOMAIN domain', mailbox')
                       \subseteq Leads(b, to, DOMAIN domain, mailbox)
      BY <1>1, <2>1 DEF Leads, Leaf
    <3>4. NoNamedCircle'
      BY <1>1, <3>2, <3>3, CirclesStay
    <3>5. ReadsHold'
      BY <3>1 DEF ReadsHold, Stands
    <3> QED
      BY <1>1, <2>1, <2>5, <3>1, <3>2, <3>4, <3>5
  <2> QED
    BY <2>6, <2>7, <2>8, <2>9, <2>10, <2>11 DEF MailInv
<1> QED
  BY <1>2, <1>3

\* A removal uncovers at most the catch-all.
LEMMA MailboxRemoved ==
  ASSUME MailInv, NEW a \in mailbox, MailboxRemove(a)
  PROVE  MailInv'
<1>1. /\ mailbox' = mailbox \ {a} /\ Changed(Clients)
      /\ UNCHANGED <<domain, txt, alias, flow, rows>>
  BY DEF MailboxRemove
<1>2. MailTypes' /\ Numbered' /\ CarriesOnlyProved' /\ RowsHold'
  BY <1>1 DEF MailInv, MailTypes, Numbered, CarriesOnlyProved, RowsHold, Stands,
              Reading, Row, Changed
<1>3. Rooms'
  <2>1. \A t \in Customers :
          Boxes(t)' \subseteq Boxes(t) /\ Promised(t)' \subseteq Promised(t)
    BY <1>1 DEF Boxes, Promised
  <2> QED
    BY <1>2, <2>1, RoomsStay
<1>4. Loopless'
  <2> SUFFICES ASSUME ~raced'
               PROVE  NoNamedCircle' /\ (mailbox \cap DOMAIN alias = {})' /\ ReadsHold'
    BY DEF Loopless
  <2>1. ~raced /\ \A o \in Clients : ~Reading(o)'
    BY <1>1 DEF Changed, Reading, Reads
  <2>2. NoNamedCircle /\ mailbox \cap DOMAIN alias = {}
    BY <2>1 DEF MailInv, Loopless
  <2>3. \A b \in DOMAIN alias : Leads(b, alias, DOMAIN domain', mailbox')
                                  \subseteq Leads(b, alias, DOMAIN domain, mailbox)
    BY <1>1, <2>2 DEF Leads
  <2>4. NoNamedCircle'
    BY <1>1, <2>2, <2>3, CirclesStay
  <2>5. ReadsHold'
    BY <2>1 DEF ReadsHold, Stands
  <2> QED
    BY <1>1, <2>2, <2>4, <2>5
<1> QED
  BY <1>2, <1>3, <1>4 DEF MailInv

LEMMA AliasRemoved ==
  ASSUME MailInv, NEW a \in DOMAIN alias, AliasRemove(a)
  PROVE  MailInv'
<1>1. /\ DOMAIN alias' = DOMAIN alias \ {a}
      /\ \A b \in DOMAIN alias' : alias'[b] = alias[b]
      /\ Changed(Clients)
      /\ UNCHANGED <<domain, txt, mailbox, rows>>
  BY DEF AliasRemove, Drop
<1>2. /\ \A o \in Clients : flow'[o] = flow[o] \/ flow'[o] = Idle
      /\ flow' \in [Clients -> FlowType]
  <2>1. Idle \in FlowType
    BY DEF FlowType
  <2> QED
    BY <2>1 DEF AliasRemove, MailInv, MailTypes
<1>3. \A o \in Clients : flow'[o].at # "idle" => flow'[o] = flow[o]
  BY <1>2 DEF Idle
<1>4. \A o \in Clients : Reading(o)' => Reading(o) /\ flow'[o] = flow[o]
  BY <1>3 DEF Reading, Reads
<1>5. MailTypes'
  BY <1>1, <1>2 DEF MailInv, MailTypes, Changed
<1>6. Numbered' /\ CarriesOnlyProved'
  BY <1>1, <1>3 DEF MailInv, Numbered, CarriesOnlyProved
<1>7. RowsHold'
  <2>1. \A o \in Clients : Stands(o)' => Stands(o) /\ flow'[o] = flow[o]
    BY <1>1, <1>4 DEF Stands, Row
  <2> QED
    BY <1>1, <2>1 DEF MailInv, RowsHold
<1>8. Rooms'
  <2>1. \A t \in Customers :
          Boxes(t)' \subseteq Boxes(t) /\ Promised(t)' \subseteq Promised(t)
    BY <1>1, <1>3 DEF Boxes, Promised
  <2> QED
    BY <1>5, <2>1, RoomsStay
<1>9. Loopless'
  <2> SUFFICES ASSUME ~raced'
               PROVE  NoNamedCircle' /\ (mailbox \cap DOMAIN alias = {})' /\ ReadsHold'
    BY DEF Loopless
  <2>1. ~raced /\ \A o \in Clients : ~Reading(o)'
    BY <1>1, <1>4 DEF Changed, Reading, Reads
  <2>2. NoNamedCircle /\ mailbox \cap DOMAIN alias = {}
    BY <2>1 DEF MailInv, Loopless
  <2>3. \A b \in DOMAIN alias' : Leads(b, alias', DOMAIN domain', mailbox')
                                   \subseteq Leads(b, alias, DOMAIN domain, mailbox)
    BY <1>1 DEF Leads
  <2>4. NoNamedCircle'
    BY <1>1, <2>2, <2>3, CirclesStay
  <2>5. ReadsHold'
    BY <2>1 DEF ReadsHold, Stands
  <2> QED
    BY <1>1, <2>2, <2>4, <2>5
<1> QED
  BY <1>5, <1>6, <1>7, <1>8, <1>9 DEF MailInv

\* A named circle through an alias that was checked would have gone on without
\* it before: the mail of the alias never comes back.
LEMMA AliasWritten ==
  ASSUME MailInv, NEW c \in Clients, AliasWrite(c)
  PROVE  MailInv'
<1> DEFINE a == flow[c].a
           T == flow[c].targets
<1>1. flow[c].at = "writeAlias" /\ Finish(c) /\ UNCHANGED <<domain, txt, mailbox, rows>>
  BY DEF AliasWrite
<1>2. CASE ~(Row(a[1], flow[c].id) /\ (flow[c].update <=> a \in DOMAIN alias))
  <2>1. UNCHANGED <<alias, raced>>
    BY <1>2 DEF AliasWrite
  <2> QED
    BY <1>1, <2>1, Ends DEF Tables
<1>3. CASE Row(a[1], flow[c].id) /\ (flow[c].update <=> a \in DOMAIN alias)
  <2>1. alias' = Put(alias, a, T) /\ Changed(Clients \ {c})
    BY <1>3 DEF AliasWrite
  <2>2. a \in Anywhere /\ T \in Targets
    BY <1>1, Fields DEF MailInv
  <2>3. Stands(c)
    BY <1>1, <1>3 DEF Stands, Reading, Reads
  <2>4. a[1] \in DOMAIN domain /\ domain[a[1]].status = "ACTIVE"
    BY <1>3, <2>3 DEF MailInv, RowsHold, Row
  <2>5. ~raced => a \notin mailbox /\ Harmless(a, T)
    BY <1>1, <2>3 DEF MailInv, Loopless, ReadsHold
  <2> HIDE DEF a, T
  <2>6. /\ alias' = Proposed(a, T)
        /\ DOMAIN alias' = DOMAIN alias \cup {a} /\ alias'[a] = T
        /\ \A b \in DOMAIN alias : b # a => alias'[b] = alias[b]
    BY <2>1 DEF Put, Proposed
  <2>7. MailTypes'
    BY <1>1, <2>1, <2>2, <2>6, Finished DEF MailInv, MailTypes, Changed
  <2>8. Numbered'
    <3>1. \A o \in Clients : flow'[o].at # "idle" => flow'[o] = flow[o]
      BY <1>1, Finished DEF Idle
    <3> QED
      BY <1>1, <3>1 DEF MailInv, Numbered
  <2>9. CarriesOnlyProved'
    BY <1>1, <2>4, <2>6 DEF MailInv, CarriesOnlyProved
  <2>10. RowsHold'
    <3>1. \A o \in Clients : Stands(o)' => Stands(o) /\ flow'[o] = flow[o]
      BY <1>1, Finished DEF Stands, Reading, Row
    <3> QED
      BY <1>1, <3>1 DEF MailInv, RowsHold
  <2>11. Rooms'
    <3>1. \A t \in Customers :
            Boxes(t)' \subseteq Boxes(t) /\ Promised(t)' \subseteq Promised(t)
      BY <1>1, Finished DEF Boxes
    <3> QED
      BY <2>7, <3>1, RoomsStay
  <2>12. Loopless'
    <3> SUFFICES ASSUME ~raced'
                 PROVE  NoNamedCircle' /\ (mailbox \cap DOMAIN alias = {})' /\ ReadsHold'
      BY DEF Loopless
    <3>1. ~raced /\ \A o \in Clients : ~Reading(o)'
      BY <1>1, <2>1, NobodyReads
    <3>2. NoNamedCircle /\ mailbox \cap DOMAIN alias = {}
      BY <3>1 DEF MailInv, Loopless
    <3>3. NoNamedCircle'
      <4> SUFFICES ASSUME NEW S \in SUBSET DOMAIN alias', Circle(S)',
                          \A b \in S : b[2] # CatchAll
                   PROVE  FALSE
        BY DEF NoNamedCircle
      <4>1. \A b \in S : Onward(b, Proposed(a, T)) \cap S # {}
        BY <1>1, <2>6 DEF Circle, Onward
      <4>2. \A b \in DOMAIN alias : b # a => Onward(b, Proposed(a, T)) = Onward(b, alias)
        BY DEF Onward, Proposed
      <4>3. \A S1 \in SUBSET DOMAIN alias :
              (\A b \in S1 : b[2] # CatchAll) => ~Circle(S1)
        BY <3>2 DEF NoNamedCircle
      <4>4. CASE a \notin S
        <5>1. S \in SUBSET DOMAIN alias
          BY <2>6, <4>4
        <5>2. Circle(S)
          BY <4>1, <4>2, <4>4, <5>1 DEF Circle
        <5> QED
          BY <4>3, <5>1, <5>2
      <4>5. CASE a \in S
        <5>1. PICK V \in SUBSET Anywhere : Closed(V, a, Proposed(a, T))
          BY <2>5, <3>1, <4>5 DEF Harmless
        <5> DEFINE S1 == (S \cap V) \ {a}
        <5>2. \A b \in S \cap V : Onward(b, Proposed(a, T)) \cap S1 # {}
          BY <4>1, <5>1 DEF Closed
        <5>3. a \in S \cap V
          BY <4>5, <5>1 DEF Closed
        <5>4. S1 \in SUBSET DOMAIN alias /\ \A b \in S1 : b \in S \cap V /\ b # a
          BY <2>6
        <5>5. S1 # {}
          BY <5>2, <5>3
        <5> HIDE DEF S1
        <5>6. Circle(S1)
          BY <4>2, <5>2, <5>4, <5>5 DEF Circle
        <5> QED
          BY <4>3, <5>4, <5>6
      <4> QED
        BY <4>4, <4>5
    <3>4. ReadsHold'
      BY <3>1 DEF ReadsHold, Stands
    <3> QED
      BY <1>1, <2>5, <2>6, <3>1, <3>2, <3>3, <3>4
  <2> QED
    BY <2>7, <2>8, <2>9, <2>10, <2>11, <2>12 DEF MailInv
<1> QED
  BY <1>2, <1>3

---------------------------------------------------------------------------
(* MailInv is inductive; three properties of Mail follow.                  *)

LEMMA MailBegins == Init => MailInv
<1> SUFFICES ASSUME Init PROVE MailInv
  OBVIOUS
<1>1. /\ DOMAIN domain = {} /\ mailbox = {} /\ DOMAIN alias = {} /\ txt = {}
      /\ rows = 0 /\ raced = FALSE
      /\ flow = [c \in Clients |-> Idle]
  BY DEF Init
<1>2. \A c \in Clients : flow[c].at = "idle"
  BY <1>1 DEF Idle
<1>3. MailTypes
  BY <1>1 DEF MailTypes, FlowType
<1>4. Numbered /\ CarriesOnlyProved /\ RowsHold
  BY <1>1, <1>2 DEF Numbered, CarriesOnlyProved, RowsHold, Stands, Reading, Reads
<1>5. Rooms
  <2> SUFFICES ASSUME NEW t \in Customers
               PROVE  IF Limit[t] = 0 THEN Boxes(t) = {} /\ Promised(t) = {}
                      ELSE Cardinality(Boxes(t)) + Cardinality(Promised(t))
                             <= Limit[t] + Cardinality(Clients) - 1
    BY DEF Rooms
  <2> DEFINE n == Cardinality(Clients)
  <2>1. Boxes(t) = {} /\ Promised(t) = {}
    BY <1>1, <1>2 DEF Boxes, Promised
  <2>2. Cardinality(Boxes(t)) = 0 /\ Cardinality(Promised(t)) = 0
    BY <2>1, FS_EmptySet
  <2>3. n \in Nat /\ Limit[t] \in Nat
    BY MailAssumption, FS_CardinalityType
  <2> HIDE DEF n
  <2>4. Limit[t] # 0 => 0 + 0 <= Limit[t] + n - 1
    BY <2>3
  <2> QED
    BY <2>1, <2>2, <2>4 DEF n
<1>6. Loopless
  BY <1>1, <1>2 DEF Loopless, NoNamedCircle, Circle, ReadsHold, Stands, Reading, Reads
<1> QED
  BY <1>3, <1>4, <1>5, <1>6 DEF MailInv

LEMMA MailGoesOn == MailInv /\ [Next]_vars => MailInv'
<1> SUFFICES ASSUME MailInv, [Next]_vars PROVE MailInv'
  OBVIOUS
<1>1. ASSUME NEW d \in Domains, NEW t \in Customers, AddDomain(t, d) PROVE MailInv'
  BY <1>1, DomainAdded
<1>2. ASSUME NEW d \in DOMAIN domain, Publish(d) PROVE MailInv'
  BY <1>2, Published
<1>3. ASSUME NEW d \in DOMAIN domain, RemoveDomain(d) PROVE MailInv'
  BY <1>3, DomainRemoved
<1>4. ASSUME NEW d \in DOMAIN domain, NEW c \in Clients, VerifyRead(c, d)
      PROVE  MailInv'
  BY <1>4, VerifyBegins
<1>5. ASSUME NEW c \in Clients, VerifyWrite(c) PROVE MailInv'
  BY <1>5, Verified
<1>6. ASSUME NEW c \in Clients, MailboxCount(c) PROVE MailInv'
  BY <1>6, Counted
<1>7. ASSUME NEW c \in Clients, MailboxWrite(c) PROVE MailInv'
  BY <1>7, MailboxWritten
<1>8. ASSUME NEW c \in Clients, AssertNoLoop(c) PROVE MailInv'
  BY <1>8, Checked
<1>9. ASSUME NEW c \in Clients, AliasWrite(c) PROVE MailInv'
  BY <1>9, AliasWritten
<1>10. /\ Domains \X LocalParts \subseteq Anywhere
       /\ \A d \in Domains : <<d, CatchAll>> \in Anywhere
  BY DEF Anywhere
<1>11. ASSUME NEW c \in Clients, NEW a \in Domains \X LocalParts, MailboxCheck(c, a)
       PROVE  MailInv'
  BY <1>10, <1>11, MailboxBegins
<1>12. ASSUME NEW c \in Clients, NEW a \in Anywhere, NEW T \in Targets,
              AliasCheck(c, a, T) \/ AliasOwned(c, a, T)
       PROVE  MailInv'
  BY <1>12, AliasBegins
<1>13. ASSUME NEW a \in mailbox, MailboxRemove(a) PROVE MailInv'
  BY <1>13, MailboxRemoved
<1>14. ASSUME NEW a \in DOMAIN alias, AliasRemove(a) PROVE MailInv'
  BY <1>14, AliasRemoved
<1>15. CASE UNCHANGED vars
  <2>1. UNCHANGED <<domain, txt, mailbox, alias, flow, rows, raced>>
    BY <1>15 DEF vars
  <2>2. MailTypes' /\ Numbered' /\ CarriesOnlyProved' /\ RowsHold' /\ Rooms'
    BY <2>1 DEF MailInv, MailTypes, Numbered, CarriesOnlyProved, RowsHold, Rooms,
                Boxes, Promised, Stands, Reading, Row
  <2>3. NoNamedCircle' = NoNamedCircle
    BY <2>1 DEF NoNamedCircle, Circle, Onward
  <2>4. \A a, targets : Harmless(a, targets)' = Harmless(a, targets)
    BY <2>1 DEF Harmless, Closed, Proposed, Onward
  <2>5. ReadsHold' = ReadsHold
    BY <2>1, <2>4 DEF ReadsHold, Stands, Reading, Row
  <2> QED
    BY <2>1, <2>2, <2>3, <2>5 DEF MailInv, Loopless
<1> QED
  BY <1>1, <1>2, <1>3, <1>4, <1>5, <1>6, <1>7, <1>8, <1>9, <1>10, <1>11, <1>12,
     <1>13, <1>14, <1>15 DEF Next

\* Every reachable state satisfies the inductive invariant.
THEOREM MailInvariant == Spec => []MailInv
<1>1. Init => MailInv
  BY MailBegins
<1>2. MailInv /\ [Next]_vars => MailInv'
  BY MailGoesOn
<1> QED
  BY <1>1, <1>2, PTL DEF Spec

\* While no write has overtaken another request's reads, mail goes round for
\* ever only through a catch-all, and no alias lies behind a mailbox: the check
\* of wouldCreateLoop is enough, in tables of any size, wherever the bound of
\* MAX_DEPTH lies.
THEOREM LoopsHold == Spec => []LoopsNeedCatchAll
<1>1. MailInv => LoopsNeedCatchAll
  BY DEF MailInv, Loopless, NoNamedCircle, LoopsNeedCatchAll
<1> QED
  BY <1>1, MailInvariant, PTL

\* The walk of resolveAddress tells an endless circle from a diamond in tables of
\* any size and shape, whatever wrote them: it reports a loop wherever mail could
\* run for ever, and elsewhere only where there are more addresses than MAX_DEPTH.
THEOREM WalkHolds == Spec => []WalkFindsLoops
<1>1. MailTypes => WalkFindsLoops
  <2> SUFFICES ASSUME MailTypes, NEW a \in Addresses
               PROVE  LET endless == \E S \in SUBSET Addresses : a \in S /\ Circle(S)
                      IN  /\ endless => LoopFrom(a, alias)
                          /\ LoopFrom(a, alias) =>
                               endless \/ Cardinality(Addresses) > MaxDepth
    BY DEF WalkFindsLoops
  <2>1. /\ Addresses \in SUBSET Anywhere
        /\ \A b \in DOMAIN alias : /\ alias[b] \subseteq Anywhere
                                  /\ alias[b] \subseteq Addresses
    BY DEF MailTypes, Addresses, Anywhere
  <2>2. \A v \in Addresses : Onward(v, alias) \subseteq Addresses
    BY <2>1 DEF Onward, Leaf
  <2>3. /\ ComesRound(a, alias, Addresses) => LoopFrom(a, alias)
        /\ LoopFrom(a, alias) => Warranted(a, alias, Addresses)
    BY <2>1, <2>2, WalkIsRight
  <2>4. ComesRound(a, alias, Addresses)
          <=> \E S \in SUBSET Addresses : a \in S /\ Circle(S)
    BY DEF ComesRound, Circle
  <2> QED
    BY <2>3, <2>4 DEF Warranted
<1> QED
  BY <1>1, MailInvariant, PTL DEF MailInv

\* Whatever the requests and their order, a customer never has more mailboxes
\* than the plan gives plus one for each request beside the first.
THEOREM OversellHolds == Spec => []OversellBounded
<1>1. MailInv => OversellBounded
  <2> SUFFICES ASSUME MailInv, NEW t \in Customers
               PROVE  Cardinality(Boxes(t)) <= IF Limit[t] = 0 THEN 0
                                    ELSE Limit[t] + Cardinality(Clients) - 1
    BY DEF OversellBounded
  <2> DEFINE b == Cardinality(Boxes(t))
             p == Cardinality(Promised(t))
             n == Cardinality(Clients)
  <2>1. b \in Nat /\ p \in Nat /\ n \in Nat /\ Limit[t] \in Nat
    BY BoxesAreFinite, MailAssumption DEF MailInv
  <2>2. CASE Limit[t] = 0
    BY <2>2, FS_EmptySet DEF MailInv, Rooms
  <2>3. CASE Limit[t] # 0
    <3>1. b + p <= Limit[t] + n - 1
      BY <2>3 DEF MailInv, Rooms
    <3> HIDE DEF b, p, n
    <3>2. b <= Limit[t] + n - 1
      BY <2>1, <3>1
    <3> QED
      BY <2>3, <3>2 DEF b, n
  <2> QED
    BY <2>2, <2>3
<1> QED
  BY <1>1, MailInvariant, PTL

\* A domain is active only on the token of its present row, and addresses exist
\* only on active domains.
THEOREM ProvedHolds == Spec => []CarriesOnlyProved
<1>1. MailInv => CarriesOnlyProved
  BY DEF MailInv
<1> QED
  BY <1>1, MailInvariant, PTL
=============================================================================
