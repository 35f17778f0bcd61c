-------------------------------- MODULE Zone --------------------------------
(***************************************************************************)
(* The DNS records of one domain, edited by its customer and by staff, and *)
(* the copy of them at the hosting provider.                               *)
(*                                                                         *)
(* An edit is validated against the records it reads and written later, in *)
(* no transaction; a publication reads the zone, replaces the provider's   *)
(* with it, and marks every record published.  Any number of these overlap,*)
(* and a publication that times out may still land afterwards.             *)
(*                                                                         *)
(* Abstractions.  A record's content is its name and value in lower case,  *)
(* its type, its priority, and whether each field is well formed; TTL,     *)
(* weight and port are left out, and so is the flag that a record is       *)
(* WebEdge's own, which no rule reads.  Who may edit is Access's subject.   *)
(***************************************************************************)
EXTENDS Naturals, FiniteSets

CONSTANTS
  Contents,    \* what an edit may ask for
  Policy,      \* [values -> {"none", "spf", "dmarc"}]: what a TXT value declares
  None,        \* no priority
  Requests,    \* requests being served at one time
  MaxOrders    \* bound: requests served

VARIABLES
  zone,        \* dns_records: id -> content, synced (providerSyncedAt is set);
               \* history: the records it was validated against, and whether it
               \* was written while a publication was under way
  upstream,    \* the zone at the provider
  adrift,      \* zones sent by publications that timed out
  request,     \* what each request holds between two awaits
  orders       \* requests begun; also the source of ids

zoneVars == <<zone, upstream, adrift, request, orders>>

NoRequest == [at |-> "idle"]
Seen == SUBSET (Nat \X Contents)
Record == [content : Contents, synced : BOOLEAN, saw : Seen, late : BOOLEAN]

ZoneInit ==
  /\ zone = <<>> /\ upstream = {} /\ adrift = {}
  /\ request = [c \in Requests |-> NoRequest] /\ orders = 0

Proceed(c, f) == request' = [request EXCEPT ![c] = f]
Begin(c, f) ==
  /\ request[c] = NoRequest /\ orders < MaxOrders
  /\ orders' = orders + 1
  /\ Proceed(c, f)

---------------------------------------------------------------------------
(* dns-validation.ts                                                       *)

\* What a name, an address, a host name, a text and a TTL must look like: one
\* flag, set where every field passes.
WellFormed(r) == r.wellFormed

\* validateRecord.
RecordOk(r) ==
  /\ WellFormed(r)
  /\ r.name = "@" => r.type \notin {"CNAME", "NS"}
  /\ r.type = "MX" => r.priority # None

Declares(r, policy) == r.type = "TXT" /\ Policy[r.value] = policy

\* validateAgainstZone: r cannot join a zone that has s.
ClashSlip(r, s) ==  \* forgets records that join a CNAME
  /\ r.name = s.name
  /\ \/ r.type = "CNAME"
     \/ r.name = "_dmarc" /\ Declares(r, "dmarc") /\ Declares(s, "dmarc")
     \/ Declares(r, "spf") /\ Declares(s, "spf")
     \/ r.type = s.type /\ r.value = s.value /\ r.priority = s.priority
Clash(r, s) ==
  /\ r.name = s.name
  /\ \/ r.type = "CNAME" \/ s.type = "CNAME"
     \/ r.name = "_dmarc" /\ Declares(r, "dmarc") /\ Declares(s, "dmarc")
     \/ Declares(r, "spf") /\ Declares(s, "spf")
     \/ r.type = s.type /\ r.value = s.value /\ r.priority = s.priority

---------------------------------------------------------------------------
(* dns.service.ts and admin-dns.service.ts                                 *)

\* A publication has read the zone and may yet replace the provider's with it.
Publishing ==
  \/ adrift # {}
  \/ \E c \in Requests : request[c].at \in {"push", "mark"}

\* An edit reads the zone but for the record it changes, and is refused or not.
Others(id) == {<<i, zone[i].content>> : i \in DOMAIN zone \ {id}}
Edit(c, at, id, r) ==
  /\ RecordOk(r) /\ \A s \in Others(id) : ~Clash(r, s[2])
  /\ Begin(c, [at |-> at, id |-> id, content |-> r, saw |-> Others(id)])
  /\ UNCHANGED <<zone, upstream, adrift>>
Create(c, r) == Edit(c, "insert", orders + 1, r)
Update(c, id, r) == id \in DOMAIN zone /\ Edit(c, "update", id, r)

Written(f) == [content |-> f.content, synced |-> FALSE, saw |-> f.saw,
               late |-> Publishing]

Insert(c) ==
  /\ request[c].at = "insert"
  /\ zone' = [i \in DOMAIN zone \cup {request[c].id} |->
       IF i = request[c].id THEN Written(request[c]) ELSE zone[i]]
  /\ Proceed(c, NoRequest)
  /\ UNCHANGED <<upstream, adrift, orders>>

ReplaceSlip(c) ==  \* leaves providerSyncedAt as it is
  LET f == request[c] IN
  /\ f.at = "update" /\ f.id \in DOMAIN zone
  /\ zone' = [zone EXCEPT ![f.id] =
       [Written(f) EXCEPT !.synced = zone[f.id].synced]]
  /\ Proceed(c, NoRequest)
  /\ UNCHANGED <<upstream, adrift, orders>>
Replace(c) ==
  LET f == request[c] IN
  /\ f.at = "update" /\ f.id \in DOMAIN zone
  /\ zone' = [zone EXCEPT ![f.id] = Written(f)]
  /\ Proceed(c, NoRequest)
  /\ UNCHANGED <<upstream, adrift, orders>>

RemoveRecord(c, id) ==
  /\ id \in DOMAIN zone
  /\ Begin(c, NoRequest)
  /\ zone' = [i \in DOMAIN zone \ {id} |-> zone[i]]
  /\ UNCHANGED <<upstream, adrift>>

\* An await that fails, or a record that is gone when it is to be changed.
Fail(c) ==
  /\ request[c].at \in {"insert", "update"}
  /\ Proceed(c, NoRequest)
  /\ UNCHANGED <<zone, upstream, adrift, orders>>

---------------------------------------------------------------------------
(* provider-hosting.service.ts: pushZone                                   *)

\* Only the name, the type and the values of a record are sent.
Sent(r) == [name |-> r.name, type |-> r.type, value |-> r.value]

PublishZone(c) ==
  /\ Begin(c, [at |-> "push",
               entries |-> {Sent(zone[i].content) : i \in DOMAIN zone}])
  /\ UNCHANGED <<zone, upstream, adrift>>

\* The provider replaces its zone, and answers.
Push(c) ==
  /\ request[c].at = "push"
  /\ upstream' = request[c].entries
  /\ Proceed(c, [at |-> "mark"])
  /\ UNCHANGED <<zone, adrift, orders>>

\* The provider refuses, or the write fails before it is sent.
Refuse(c) ==
  /\ request[c].at = "push"
  /\ Proceed(c, NoRequest)
  /\ UNCHANGED <<zone, upstream, adrift, orders>>

\* No answer in time; the request may still be served.
TimeOut(c) ==
  /\ request[c].at = "push"
  /\ adrift' = adrift \cup {request[c].entries}
  /\ Proceed(c, NoRequest)
  /\ UNCHANGED <<zone, upstream, orders>>
Land(entries) ==
  /\ adrift' = adrift \ {entries}
  /\ upstream' \in {entries, upstream}
  /\ UNCHANGED <<zone, request, orders>>

\* Every record the domain has by now is marked, whether or not it was sent.
Mark(c) ==
  /\ request[c].at = "mark"
  /\ zone' = [i \in DOMAIN zone |-> [zone[i] EXCEPT !.synced = TRUE]]
  /\ Proceed(c, NoRequest)
  /\ UNCHANGED <<upstream, adrift, orders>>

ZoneNext ==
  \/ \E c \in Requests :
       \/ \E r \in Contents : Create(c, r)
       \/ \E r \in Contents, id \in DOMAIN zone : Update(c, id, r)
       \/ \E id \in DOMAIN zone : RemoveRecord(c, id)
       \/ Insert(c) \/ Replace(c) \/ Fail(c)
       \/ PublishZone(c) \/ Push(c) \/ Refuse(c) \/ TimeOut(c) \/ Mark(c)
  \/ \E entries \in adrift : Land(entries)

ZoneSpec == ZoneInit /\ [][ZoneNext]_zoneVars

---------------------------------------------------------------------------
(* Properties                                                              *)

\* Between two awaits an edit holds the record it will write and the records it
\* was compared with, and a publication what it will send.
FlowOK(f) ==
  \/ f \in {NoRequest, [at |-> "mark"]}
  \/ f \in [at : {"insert", "update"}, id : Nat, content : Contents,
            saw : Seen]
  \/ f \in [at : {"push"}, entries : SUBSET {Sent(r) : r \in Contents}]

TypeOK ==
  /\ orders \in Nat
  /\ DOMAIN zone \subseteq Nat
  /\ \A i \in DOMAIN zone : zone[i] \in Record
  /\ DOMAIN request = Requests
  /\ \A c \in Requests : FlowOK(request[c])

\* What is in the zone, or about to be, was compared with all it saw.
Compared ==
  /\ \A i \in DOMAIN zone : \A s \in zone[i].saw : ~Clash(zone[i].content, s[2])
  /\ \A c \in Requests :
       request[c].at \in {"insert", "update"} =>
         \A s \in request[c].saw : ~Clash(request[c].content, s[2])

\* A record that no publication overtook is in whatever may still replace the
\* provider's zone, and is there once a publication is about to mark it.
Carried ==
  \A i \in DOMAIN zone :
    ~zone[i].late =>
      LET r == Sent(zone[i].content) IN
      /\ \A e \in adrift : r \in e
      /\ \A c \in Requests : request[c].at = "push" => r \in request[c].entries
      /\ \A c \in Requests : request[c].at = "mark" => r \in upstream
      /\ zone[i].synced => r \in upstream

ZoneInv == TypeOK /\ Compared /\ Carried

\* Two records of the zone break its rules (a CNAME with company, two SPF or two
\* DMARC records, a duplicate) only when neither edit could see the other: the
\* rules survive every edit that overlaps no other, however records are changed
\* and removed (assertValid of both services, read and write apart).
RulesUnlessSideBySide ==
  \A i, j \in DOMAIN zone :
    i # j /\ Clash(zone[i].content, zone[j].content) =>
      /\ <<j, zone[j].content>> \notin zone[i].saw
      /\ <<i, zone[i].content>> \notin zone[j].saw

\* A record shown as published is at the provider as it stands, unless it was
\* written while some publication had read the zone and not yet finished (the
\* marking of pushZone, and the reset of an edit).
PublishedIsUpstream ==
  \A i \in DOMAIN zone :
    zone[i].synced /\ ~zone[i].late => Sent(zone[i].content) \in upstream
=============================================================================
