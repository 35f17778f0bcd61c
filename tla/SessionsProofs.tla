--------------------------- MODULE SessionsProofs ---------------------------
(***************************************************************************)
(* Refresh tokens, for any number of users, tenants and requests.  How     *)
(* often a token is replaced is counted against the requests that already  *)
(* held it when it was retired; who is signed in after a suspension is     *)
(* followed through each step another request may take.                    *)
(***************************************************************************)
EXTENDS Sessions, FiniteSetTheorems, SequenceTheorems, TLAPS

Token == [user : Emails, expiresAt : Nat, revoked : BOOLEAN, from : Nat]

\* A request in flight is for a user who exists, and rotates a token there is.
FlowOK(f) ==
  /\ f.at \in {"idle", "verify", "issue", "retire", "punish"}
  /\ f.at # "idle" => f.user \in Emails /\ Exists(f.user)
  /\ f.at = "issue" => f.from \in 0..Len(token)
  /\ f.at = "retire" => f.from \in 1..Len(token)

\* So is every token, and it came of one there was.
TokensOK ==
  /\ token \in Seq(Token)
  /\ \A i \in 1..Len(token) :
       Exists(token[i].user) /\ token[i].from \in 0..Len(token)

SessionsOK ==
  /\ tenantOf \in [Emails -> Tenants \cup {Staff, Nobody}]
  /\ DOMAIN status = Tenants
  /\ now \in Nat /\ faults \in Nat
  /\ TokensOK
  /\ DOMAIN flow = Clients
  /\ \A c \in Clients : FlowOK(flow[c])

\* What replaced a token, and the requests about to replace or to retire it.
Heirs(t) == {h \in DOMAIN token : token[h].from = t}
Holding(at, t) == {c \in Clients : flow[c].at = at /\ flow[c].from = t}

\* Until a token is retired its heirs are of requests about to do so, or dead;
\* and whoever is yet to replace it held it before.
SpendOK(t) ==
  /\ ~token[t].revoked =>
       Cardinality(Heirs(t)) <= Cardinality(Holding("retire", t)) + faults
  /\ Cardinality(Heirs(t)) + Cardinality(Holding("issue", t))
       <= Cardinality(Clients) + faults

SessionsInv == SessionsOK /\ \A t \in 1..Len(token) : SpendOK(t)

---------------------------------------------------------------------------
(* What steps have in common.                                              *)

\* A request that begins, goes on or ends leaves the others as they are.
LEMMA StepsAlone ==
  ASSUME DOMAIN flow = Clients, NEW c \in Clients, NEW f, Step(c, f)
  PROVE  /\ DOMAIN flow' = Clients
         /\ flow'[c] = f
         /\ \A d \in Clients : d # c => flow'[d] = flow[d]
BY DEF Step

\* What is known of a token, and of whose it is.
LEMMA Issued ==
  ASSUME TokensOK, NEW r \in DOMAIN token
  PROVE  /\ Len(token) \in Nat /\ r \in 1..Len(token) /\ token[r] \in Token
         /\ token[r].user \in Emails /\ Exists(token[r].user)
<1>1. token \in Seq(Token) /\ Len(token) \in Nat /\ DOMAIN token = 1..Len(token)
  BY DEF TokensOK
<1>2. token[r] \in Token
  BY <1>1
<1> QED
  BY <1>1, <1>2 DEF Token, TokensOK

\* Revoking changes nothing of a token but that it is revoked.
LEMMA Revoking ==
  ASSUME TokensOK, NEW S, Revoke(S)
  PROVE  /\ token' \in Seq(Token) /\ Len(token') = Len(token)
         /\ DOMAIN token' = 1..Len(token)
         /\ \A i \in 1..Len(token) :
              /\ token'[i].user = token[i].user
              /\ token'[i].expiresAt = token[i].expiresAt
              /\ token'[i].from = token[i].from
              /\ token'[i].revoked <=> token[i].revoked \/ i \in S
<1>1. token \in Seq(Token) /\ Len(token) \in Nat /\ DOMAIN token = 1..Len(token)
      /\ \A i \in 1..Len(token) : token[i] \in Token
  BY DEF TokensOK
<1>2. /\ DOMAIN token' = 1..Len(token)
      /\ \A i \in 1..Len(token) :
           token'[i] = [token[i] EXCEPT !.revoked = @ \/ i \in S]
  BY <1>1 DEF Revoke
<1>3. \A i \in 1..Len(token) :
        /\ token'[i] \in Token
        /\ token'[i].user = token[i].user
        /\ token'[i].expiresAt = token[i].expiresAt
        /\ token'[i].from = token[i].from
        /\ token'[i].revoked <=> token[i].revoked \/ i \in S
  BY <1>1, <1>2 DEF Token
<1>4. token' = [i \in 1..Len(token) |-> token'[i]]
  BY <1>1 DEF Revoke
<1>5. token' \in [1..Len(token) -> Token]
  BY <1>3, <1>4
<1>6. token' \in Seq(Token) /\ Len(token') = Len(token)
  BY <1>1, <1>2, <1>5, SeqDef, LenProperties
<1> QED
  BY <1>2, <1>3, <1>6

\* The counts are of finite sets, and no request is in two places.
LEMMA Counts ==
  ASSUME SessionsOK, NEW t
  PROVE  /\ IsFiniteSet(Heirs(t)) /\ Cardinality(Heirs(t)) \in Nat
         /\ \A at : /\ IsFiniteSet(Holding(at, t))
                    /\ Cardinality(Holding(at, t)) \in Nat
         /\ Cardinality(Clients) \in Nat
         /\ \A c \in Clients : flow[c].at \notin {"issue", "retire"} =>
              Cardinality(Holding("issue", t)) + Cardinality(Holding("retire", t))
                < Cardinality(Clients)
<1>1. IsFiniteSet(Clients) /\ Cardinality(Clients) \in Nat
  BY SessionsAssumption, FS_CardinalityType
<1>2. \A at : Holding(at, t) \subseteq Clients
  BY DEF Holding
<1>3. \A at : IsFiniteSet(Holding(at, t)) /\ Cardinality(Holding(at, t)) \in Nat
  BY <1>1, <1>2, FS_Subset, FS_CardinalityType
<1>4. IsFiniteSet(Heirs(t))
  <2>1. Heirs(t) \subseteq 1..Len(token) /\ Len(token) \in Nat
    BY DEF Heirs, SessionsOK, TokensOK
  <2> QED
    <3>1. IsFiniteSet(1..Len(token))
      BY <2>1, FS_Interval
    <3> QED
      BY <2>1, <3>1, FS_Subset
<1>5. Holding("issue", t) \cap Holding("retire", t) = {}
  BY DEF Holding
<1>6. Cardinality(Holding("issue", t) \cup Holding("retire", t))
        = Cardinality(Holding("issue", t)) + Cardinality(Holding("retire", t))
  <2> DEFINE I == Holding("issue", t)
             R == Holding("retire", t)
  <2>1. Cardinality(I \cup R)
          = Cardinality(I) + Cardinality(R) - Cardinality(I \cap R)
    <3> HIDE DEF I, R
    <3>1. IsFiniteSet(I) /\ IsFiniteSet(R)
      BY <1>3 DEF I, R
    <3> QED
      BY <3>1, FS_Union
  <2>2. Cardinality(I \cap R) = 0
    BY <1>5, FS_EmptySet
  <2> QED
    BY <1>3, <2>1, <2>2
<1>7. ASSUME NEW c \in Clients, flow[c].at \notin {"issue", "retire"}
      PROVE  Cardinality(Holding("issue", t) \cup Holding("retire", t))
               < Cardinality(Clients)
  <2> DEFINE busy == Holding("issue", t) \cup Holding("retire", t)
             others == Clients \ {c}
  <2>1. busy \subseteq others
    BY <1>7 DEF Holding
  <2>2. IsFiniteSet(others) /\ Cardinality(others) = Cardinality(Clients) - 1
    BY <1>1, FS_RemoveElement
  <2>3. Cardinality(busy) <= Cardinality(others)
    <3> HIDE DEF busy, others
    <3> QED
      BY <2>1, <2>2, FS_Subset
  <2>4. Cardinality(busy) \in Nat
    BY <1>3, <1>6
  <2> QED
    BY <1>1, <2>2, <2>3, <2>4
<1> QED
  BY <1>1, <1>3, <1>4, <1>6, <1>7, FS_CardinalityType

\* A step of one request moves it from one count to another.
LEMMA Moves ==
  ASSUME SessionsOK, NEW c \in Clients, NEW f, Step(c, f), NEW at, NEW t
  PROVE  Cardinality(Holding(at, t)')
           = Cardinality(Holding(at, t))
             + (IF f.at = at /\ f.from = t THEN 1 ELSE 0)
             - (IF c \in Holding(at, t) THEN 1 ELSE 0)
<1> DEFINE others == Holding(at, t) \ {c}
<1>1. IsFiniteSet(Holding(at, t)) /\ Cardinality(Holding(at, t)) \in Nat
  BY Counts
<1>2. IsFiniteSet(others)
      /\ Cardinality(others) = Cardinality(Holding(at, t))
                               - (IF c \in Holding(at, t) THEN 1 ELSE 0)
  BY <1>1, FS_RemoveElement
<1>3. Cardinality(others \cup {c}) = Cardinality(others) + 1
  BY <1>2, FS_AddElement
<1>4. /\ flow'[c] = f
      /\ \A d \in Clients : d # c => flow'[d] = flow[d]
  BY StepsAlone DEF SessionsOK
<1>5. CASE f.at = at /\ f.from = t
  <2>1. Holding(at, t)' = others \cup {c}
    BY <1>4, <1>5 DEF Holding
  <2> QED
    BY <1>1, <1>2, <1>3, <1>5, <2>1
<1>6. CASE ~(f.at = at /\ f.from = t)
  <2>1. Holding(at, t)' = others
    BY <1>4, <1>6 DEF Holding
  <2> QED
    BY <1>1, <1>2, <1>6, <2>1
<1> QED
  BY <1>5, <1>6

---------------------------------------------------------------------------
(* Steps that issue no token.                                              *)

\* Tokens stay whose they are and of what they came; none is taken back.
Kept ==
  /\ token' \in Seq(Token) /\ Len(token') = Len(token)
  /\ \A i \in 1..Len(token) :
       /\ token'[i].user = token[i].user /\ token'[i].from = token[i].from
       /\ token[i].revoked => token'[i].revoked

\* Users come, and stay with their tenants.
Joining ==
  /\ tenantOf' \in [Emails -> Tenants \cup {Staff, Nobody}]
  /\ \A u \in Emails : Exists(u) => tenantOf'[u] = tenantOf[u]

LEMMA Keeping ==
  ASSUME TokensOK
  PROVE  /\ UNCHANGED token => Kept
         /\ \A S : Revoke(S) => Kept
BY Revoking DEF Kept, TokensOK

LEMMA Staying ==
  ASSUME SessionsOK, UNCHANGED tenantOf
  PROVE  Joining
BY DEF Joining, SessionsOK

LEMMA KeptTokens ==
  ASSUME SessionsOK, Kept, Joining
  PROVE  /\ TokensOK'
         /\ \A f : FlowOK(f) => FlowOK(f)'
         /\ \A t : Heirs(t)' = Heirs(t)
<1>1. /\ token \in Seq(Token) /\ Len(token) \in Nat
      /\ DOMAIN token = 1..Len(token) /\ DOMAIN token' = 1..Len(token)
      /\ \A i \in 1..Len(token) : token[i] \in Token /\ token[i].user \in Emails
  <2>1. token \in Seq(Token) /\ token' \in Seq(Token) /\ Len(token') = Len(token)
    BY DEF SessionsOK, TokensOK, Kept
  <2>2. \A i \in 1..Len(token) : token[i] \in Token
    BY <2>1
  <2> QED
    BY <2>1, <2>2 DEF Token
<1>2. TokensOK'
  BY <1>1 DEF SessionsOK, TokensOK, Kept, Joining, Exists
<1>3. ASSUME NEW f, FlowOK(f) PROVE FlowOK(f)'
  BY <1>3 DEF FlowOK, Kept, Joining, Exists
<1>4. \A t : Heirs(t)' = Heirs(t)
  BY <1>1 DEF Heirs, Kept
<1> QED
  BY <1>2, <1>3, <1>4

\* While every request stays where it is, revoking can only help.
LEMMA AtRest ==
  ASSUME SessionsInv, UNCHANGED <<flow, faults>>, Kept, Joining,
         now' \in Nat, DOMAIN status' = Tenants
  PROVE  SessionsInv'
<1>1. SessionsOK /\ \A t \in 1..Len(token) : SpendOK(t)
  BY DEF SessionsInv
<1>2. TokensOK' /\ \A f : FlowOK(f) => FlowOK(f)'
  BY <1>1, KeptTokens
<1>3. \A c \in Clients : FlowOK(flow[c])'
  BY <1>1, <1>2 DEF SessionsOK
<1>4. SessionsOK'
  BY <1>1, <1>2, <1>3 DEF SessionsOK, Joining
<1>5. ASSUME NEW t \in 1..Len(token) PROVE SpendOK(t)'
  <2>1. Heirs(t)' = Heirs(t)
    BY <1>1, KeptTokens
  <2>2. \A at : Holding(at, t)' = Holding(at, t)
    BY DEF Holding
  <2>3. token[t].revoked => token'[t].revoked
    BY DEF Kept
  <2> QED
    BY <1>1, <2>1, <2>2, <2>3 DEF SpendOK
<1> QED
  BY <1>4, <1>5 DEF SessionsInv, Kept

\* A request goes on, and no token is issued.
LEMMA GoesOn ==
  ASSUME SessionsOK, NEW c \in Clients, NEW f, Step(c, f), FlowOK(f), Kept,
         UNCHANGED <<tenantOf, status, now>>, faults' \in Nat
  PROVE  SessionsOK'
<1>1. Joining
  BY Staying
<1>2. TokensOK' /\ \A g : FlowOK(g) => FlowOK(g)'
  BY <1>1, KeptTokens
<1>3. \A d \in Clients : flow'[d] = f \/ flow'[d] = flow[d]
  BY StepsAlone DEF SessionsOK
<1>4. \A d \in Clients : FlowOK(flow[d])
  BY DEF SessionsOK
<1>5. \A d \in Clients : FlowOK(flow[d])'
  BY <1>2, <1>3, <1>4
<1>6. DOMAIN flow' = Clients
  BY StepsAlone DEF SessionsOK
<1> QED
  BY <1>2, <1>5, <1>6 DEF SessionsOK

\* So it does, and the token it rotates is counted elsewhere.
LEMMA CountedElsewhere ==
  ASSUME SessionsOK, NEW t \in 1..Len(token), SpendOK(t),
         NEW c \in Clients, NEW f, Step(c, f), Kept,
         UNCHANGED tenantOf,
         faults' = faults \/ faults' = faults + 1,
         \* it leaves the counts, or is known to take no more than its place
         f.at = "issue" /\ f.from = t => flow[c].at = "idle" /\ ~token[t].revoked,
         flow[c].at = "retire" /\ flow[c].from = t /\ ~token'[t].revoked
           => faults' = faults + 1,
         ~(f.at = "retire" /\ f.from = t)
  PROVE  SpendOK(t)'
<1> DEFINE K == Cardinality(Heirs(t))
           I == Cardinality(Holding("issue", t))
           R == Cardinality(Holding("retire", t))
           N == Cardinality(Clients)
<1>1. K \in Nat /\ I \in Nat /\ R \in Nat /\ N \in Nat
      /\ (flow[c].at = "idle" => I + R < N)
  BY Counts
<1>2. K' = K
  BY Staying, KeptTokens
<1>3. I' = I + (IF f.at = "issue" /\ f.from = t THEN 1 ELSE 0)
             - (IF c \in Holding("issue", t) THEN 1 ELSE 0)
  BY Moves
<1>4. R' = R - (IF c \in Holding("retire", t) THEN 1 ELSE 0)
  <2>1. R' = R + (IF f.at = "retire" /\ f.from = t THEN 1 ELSE 0)
               - (IF c \in Holding("retire", t) THEN 1 ELSE 0)
    BY Moves
  <2>2. (IF f.at = "retire" /\ f.from = t THEN 1 ELSE 0) = 0
    OBVIOUS
  <2> QED
    BY <1>1, <2>1, <2>2
<1>5. /\ c \in Holding("issue", t) <=> flow[c].at = "issue" /\ flow[c].from = t
      /\ c \in Holding("retire", t) <=> flow[c].at = "retire" /\ flow[c].from = t
  BY DEF Holding
<1>6. /\ token[t].revoked => token'[t].revoked
      /\ faults \in Nat
  BY DEF Kept, SessionsOK
<1>7. ~token[t].revoked => K <= R + faults
  BY DEF SpendOK
<1>8. K + I <= N + faults
  BY DEF SpendOK
<1>9. ~token'[t].revoked => K' <= R' + faults'
  BY <1>1, <1>2, <1>4, <1>5, <1>6, <1>7
<1>10. K' + I' <= N + faults'
  BY <1>1, <1>2, <1>3, <1>5, <1>6, <1>7, <1>8
<1> QED
  BY <1>9, <1>10 DEF SpendOK

---------------------------------------------------------------------------
(* The steps of a request.                                                 *)

\* A sign-in replaces no token.
LEMMA LoginReadOK ==
  ASSUME SessionsInv, NEW c \in Clients, NEW u \in Emails, LoginRead(c, u)
  PROVE  SessionsInv'
<1> DEFINE f == [at |-> "verify", user |-> u, count |-> user[u].failed]
<1>1. /\ flow[c] = Idle /\ Exists(u) /\ Step(c, f)
      /\ UNCHANGED <<tenantOf, user, status, token, now, orders, faults>>
  BY DEF LoginRead, MayTry
<1>2. SessionsOK /\ \A t \in 1..Len(token) : SpendOK(t)
  BY DEF SessionsInv
<1>3. Kept /\ Len(token') = Len(token)
  BY <1>1, <1>2, Keeping DEF SessionsOK
<1>4. FlowOK(f) /\ f.at = "verify" /\ flow[c].at = "idle"
  BY <1>1 DEF FlowOK, Idle
<1>5. SessionsOK'
  BY <1>1, <1>2, <1>3, <1>4, GoesOn DEF SessionsOK
<1>6. ASSUME NEW t \in 1..Len(token) PROVE SpendOK(t)'
  BY <1>1, <1>2, <1>3, <1>4, <1>6, CountedElsewhere
<1> QED
  BY <1>3, <1>5, <1>6 DEF SessionsInv

LEMMA LoginWrongOK ==
  ASSUME SessionsInv, NEW c \in Clients, LoginWrong(c)
  PROVE  SessionsInv'
<1>1. /\ flow[c].at = "verify" /\ Step(c, Idle)
      /\ UNCHANGED <<tenantOf, status, token, now, orders, faults>>
  BY DEF LoginWrong
<1>2. SessionsOK /\ \A t \in 1..Len(token) : SpendOK(t)
  BY DEF SessionsInv
<1>3. Kept /\ Len(token') = Len(token)
  BY <1>1, <1>2, Keeping DEF SessionsOK
<1>4. FlowOK(Idle) /\ Idle.at = "idle"
  BY DEF FlowOK, Idle
<1>5. SessionsOK'
  BY <1>1, <1>2, <1>3, <1>4, GoesOn DEF SessionsOK
<1>6. ASSUME NEW t \in 1..Len(token) PROVE SpendOK(t)'
  BY <1>1, <1>2, <1>3, <1>4, <1>6, CountedElsewhere
<1> QED
  BY <1>3, <1>5, <1>6 DEF SessionsInv

LEMMA LoginRightOK ==
  ASSUME SessionsInv, NEW c \in Clients, LoginRight(c)
  PROVE  SessionsInv'
<1> DEFINE f == [at |-> "issue", user |-> flow[c].user, from |-> 0]
<1>1. /\ flow[c].at = "verify" /\ Step(c, f)
      /\ UNCHANGED <<tenantOf, status, token, now, orders, faults>>
  BY DEF LoginRight
<1>2. /\ SessionsOK /\ FlowOK(flow[c]) /\ Len(token) \in Nat
      /\ \A t \in 1..Len(token) : SpendOK(t)
  BY DEF SessionsInv, SessionsOK, TokensOK
<1>3. Kept /\ Len(token') = Len(token)
  BY <1>1, <1>2, Keeping DEF SessionsOK
<1>4. FlowOK(f) /\ f.at = "issue" /\ f.from = 0
  BY <1>1, <1>2 DEF FlowOK
<1>5. SessionsOK'
  BY <1>1, <1>2, <1>3, <1>4, GoesOn DEF SessionsOK
<1>6. ASSUME NEW t \in 1..Len(token) PROVE SpendOK(t)'
  <2>1. t # 0
    BY <1>2
  <2> QED
    BY <1>1, <1>2, <1>3, <1>4, <2>1, CountedElsewhere
<1> QED
  BY <1>3, <1>5, <1>6 DEF SessionsInv

\* A request that reads a token still in force is one more to replace it.
LEMMA RotateReadOK ==
  ASSUME SessionsInv, NEW c \in Clients, NEW r \in DOMAIN token,
         RotateRead(c, r)
  PROVE  SessionsInv'
<1> DEFINE f == IF token[r].revoked
                THEN [at |-> "punish", user |-> token[r].user]
                ELSE [at |-> "issue", user |-> token[r].user, from |-> r]
<1>1. /\ flow[c].at = "idle" /\ Step(c, f)
      /\ UNCHANGED <<tenantOf, user, status, token, now, orders, faults>>
  BY DEF RotateRead, Idle
<1>2. /\ SessionsOK /\ Len(token) \in Nat /\ r \in 1..Len(token)
      /\ token[r].user \in Emails /\ Exists(token[r].user)
      /\ \A t \in 1..Len(token) : SpendOK(t)
  BY Issued DEF SessionsInv, SessionsOK
<1>3. Kept /\ Len(token') = Len(token)
  BY <1>1, <1>2, Keeping DEF SessionsOK
<1>4. /\ FlowOK(f) /\ f.at # "retire"
      /\ f.at = "issue" => f.from = r /\ ~token[r].revoked
  BY <1>2 DEF FlowOK
<1>5. SessionsOK'
  <2> HIDE DEF f
  <2> QED
    BY <1>1, <1>2, <1>3, <1>4, GoesOn DEF SessionsOK
<1>6. ASSUME NEW t \in 1..Len(token) PROVE SpendOK(t)'
  <2> HIDE DEF f
  <2> QED
    BY <1>1, <1>2, <1>3, <1>4, <1>6, CountedElsewhere
<1> QED
  BY <1>3, <1>5, <1>6 DEF SessionsInv

\* One heir more, and one request less to bring one.
LEMMA IssueOK ==
  ASSUME SessionsInv, NEW c \in Clients, Issue(c)
  PROVE  SessionsInv'
<1> DEFINE new  == [user |-> flow[c].user, expiresAt |-> now + RefreshTTL,
                    revoked |-> FALSE, from |-> flow[c].from]
           f    == IF flow[c].from = 0 THEN Idle
                   ELSE [at |-> "retire", user |-> flow[c].user,
                         from |-> flow[c].from]
           last == Len(token) + 1
<1>1. /\ flow[c].at = "issue" /\ Step(c, f) /\ token' = Append(token, new)
      /\ UNCHANGED <<tenantOf, user, status, now, orders, faults>>
  BY DEF Issue
<1>2. /\ SessionsOK /\ TokensOK /\ FlowOK(flow[c])
      /\ token \in Seq(Token) /\ Len(token) \in Nat /\ last \in Nat
      /\ \A t \in 1..Len(token) : SpendOK(t)
  BY DEF SessionsInv, SessionsOK, TokensOK
<1>3. /\ flow[c].user \in Emails /\ Exists(flow[c].user)
      /\ flow[c].from \in 0..Len(token)
  BY <1>1, <1>2 DEF FlowOK
<1>4. new \in Token
  BY <1>2, <1>3, SessionsAssumption DEF Token, SessionsOK
<1>5. /\ token' \in Seq(Token) /\ Len(token') = last
      /\ token'[last] = new /\ DOMAIN token' = 1..last
      /\ \A i \in 1..Len(token) : token'[i] = token[i]
  BY <1>1, <1>2, <1>4, AppendProperties
<1>6. TokensOK'
  <2>1. \A i \in 1..last : Exists(token'[i].user) /\ token'[i].from \in 0..last
    <3>1. \A i \in 1..Len(token) :
            Exists(token'[i].user) /\ token'[i].from \in 0..last
      BY <1>2, <1>5 DEF TokensOK
    <3>2. Exists(token'[last].user) /\ token'[last].from \in 0..last
      BY <1>2, <1>3, <1>5
    <3> QED
      BY <1>2, <3>1, <3>2
  <2> QED
    BY <1>1, <1>5, <2>1 DEF TokensOK, Exists
<1>7. \A g : FlowOK(g) => FlowOK(g)'
  BY <1>1, <1>2, <1>5 DEF FlowOK, Exists
<1>8. FlowOK(f)
  BY <1>2, <1>3 DEF FlowOK, Idle
<1>9. SessionsOK'
  <2>1. \A d \in Clients : FlowOK(flow[d]) /\ (flow'[d] = f \/ flow'[d] = flow[d])
    BY <1>1, <1>2, StepsAlone DEF SessionsOK
  <2>2. \A d \in Clients : FlowOK(flow[d])'
    BY <1>7, <1>8, <2>1
  <2>3. DOMAIN flow' = Clients
    BY <1>1, <1>2, StepsAlone DEF SessionsOK
  <2> QED
    BY <1>1, <1>2, <1>6, <2>2, <2>3 DEF SessionsOK
<1>10. ASSUME NEW t \in 1..Len(token) PROVE SpendOK(t)'
  <2> DEFINE K == Cardinality(Heirs(t))
             I == Cardinality(Holding("issue", t))
             R == Cardinality(Holding("retire", t))
             N == Cardinality(Clients)
             one == IF flow[c].from = t THEN 1 ELSE 0
  <2>1. K \in Nat /\ I \in Nat /\ R \in Nat /\ N \in Nat /\ faults \in Nat
        /\ IsFiniteSet(Heirs(t))
    BY <1>2, Counts DEF SessionsOK
  <2>2. K' = K + one
    <3>1. last \notin Heirs(t)
      BY <1>2 DEF Heirs
    <3>2. Heirs(t)' = Heirs(t) \cup (IF flow[c].from = t THEN {last} ELSE {})
      BY <1>2, <1>5 DEF Heirs
    <3>3. Cardinality(Heirs(t) \cup {last}) = K + 1
      BY <2>1, <3>1, FS_AddElement
    <3>4. CASE flow[c].from = t
      BY <3>2, <3>3, <3>4
    <3>5. CASE flow[c].from # t
      <4>1. Heirs(t)' = Heirs(t)
        BY <3>2, <3>5
      <4> QED
        BY <2>1, <3>5, <4>1
    <3> QED
      BY <3>4, <3>5
  <2>3. I' = I - one
    <3>1. c \in Holding("issue", t) <=> flow[c].from = t
      BY <1>1 DEF Holding
    <3>2. f.at # "issue"
      BY DEF Idle
    <3>3. I' = I + (IF f.at = "issue" /\ f.from = t THEN 1 ELSE 0)
                 - (IF c \in Holding("issue", t) THEN 1 ELSE 0)
      <4> HIDE DEF f
      <4> QED
        BY <1>1, <1>2, Moves
    <3> QED
      BY <2>1, <3>1, <3>2, <3>3
  <2>4. R' = R + one
    <3>1. c \notin Holding("retire", t)
      BY <1>1 DEF Holding
    <3>2. f.at = "retire" /\ f.from = t <=> flow[c].from = t
      BY <1>2 DEF Idle
    <3>3. R' = R + (IF f.at = "retire" /\ f.from = t THEN 1 ELSE 0)
                 - (IF c \in Holding("retire", t) THEN 1 ELSE 0)
      <4> HIDE DEF f
      <4> QED
        BY <1>1, <1>2, Moves
    <3> QED
      BY <2>1, <3>1, <3>2, <3>3
  <2>5. token'[t].revoked <=> token[t].revoked
    BY <1>5
  <2>6. (~token[t].revoked => K <= R + faults) /\ K + I <= N + faults
    BY <1>2 DEF SpendOK
  <2>7. (~token'[t].revoked => K' <= R' + faults) /\ K' + I' <= N + faults
    BY <2>1, <2>2, <2>3, <2>4, <2>5, <2>6
  <2> QED
    BY <1>1, <2>7 DEF SpendOK
<1>11. ASSUME NEW t, t = last PROVE SpendOK(t)'
  <2>1. Heirs(t)' = {}
    BY <1>2, <1>3, <1>5, <1>11 DEF Heirs, TokensOK
  <2>2. Holding("issue", t)' = {}
    BY <1>1, <1>2, <1>3, <1>11, StepsAlone DEF Holding, SessionsOK, FlowOK, Idle
  <2>3. Cardinality(Heirs(t)') = 0 /\ Cardinality(Holding("issue", t)') = 0
    BY <2>1, <2>2, FS_EmptySet
  <2>4. Cardinality(Holding("retire", t)') \in Nat
    <3>1. Holding("retire", t)' \subseteq Clients
      BY DEF Holding
    <3> QED
      BY <3>1, SessionsAssumption, FS_Subset, FS_CardinalityType
  <2>5. faults' \in Nat /\ Cardinality(Clients) \in Nat
    BY <1>1, <1>2, SessionsAssumption, FS_CardinalityType DEF SessionsOK
  <2> QED
    BY <2>3, <2>4, <2>5 DEF SpendOK
<1>12. \A t \in 1..Len(token') : SpendOK(t)'
  <2>1. \A t \in 1..Len(token') : t \in 1..Len(token) \/ t = last
    BY <1>2, <1>5
  <2> QED
    BY <1>10, <1>11, <2>1
<1> QED
  BY <1>9, <1>12 DEF SessionsInv

\* The token it came with is retired, and so its heirs are no longer counted.
LEMMA RetireOK ==
  ASSUME SessionsInv, NEW c \in Clients, Retire(c)
  PROVE  SessionsInv'
<1> DEFINE r == flow[c].from
<1>1. /\ flow[c].at = "retire" /\ Step(c, Idle) /\ Revoke({r})
      /\ UNCHANGED <<tenantOf, user, status, now, orders, faults>>
  BY DEF Retire
<1>2. SessionsOK /\ TokensOK /\ \A t \in 1..Len(token) : SpendOK(t)
  BY DEF SessionsInv, SessionsOK
<1>3. Kept /\ Len(token') = Len(token)
  BY <1>1, <1>2, Keeping DEF Kept
<1>4. \A t \in 1..Len(token) : t = r => token'[t].revoked
  BY <1>1, <1>2, Revoking
<1>5. FlowOK(Idle) /\ Idle.at = "idle"
  BY DEF FlowOK, Idle
<1>6. SessionsOK'
  BY <1>1, <1>2, <1>3, <1>5, GoesOn DEF SessionsOK
<1>7. ASSUME NEW t \in 1..Len(token) PROVE SpendOK(t)'
  BY <1>1, <1>2, <1>3, <1>4, <1>5, <1>7, CountedElsewhere
<1> QED
  BY <1>3, <1>6, <1>7 DEF SessionsInv

LEMMA PunishOK ==
  ASSUME SessionsInv, NEW c \in Clients, Punish(c)
  PROVE  SessionsInv'
<1> DEFINE S == OfUsers({flow[c].user})
<1>1. /\ flow[c].at = "punish" /\ Step(c, Idle) /\ Revoke(S)
      /\ UNCHANGED <<tenantOf, user, status, now, orders, faults>>
  BY DEF Punish
<1>2. SessionsOK /\ TokensOK /\ \A t \in 1..Len(token) : SpendOK(t)
  BY DEF SessionsInv, SessionsOK
<1>3. Kept /\ Len(token') = Len(token)
  BY <1>1, <1>2, Keeping DEF Kept
<1>4. FlowOK(Idle) /\ Idle.at = "idle"
  BY DEF FlowOK, Idle
<1>5. SessionsOK'
  BY <1>1, <1>2, <1>3, <1>4, GoesOn DEF SessionsOK
<1>6. ASSUME NEW t \in 1..Len(token) PROVE SpendOK(t)'
  BY <1>1, <1>2, <1>3, <1>4, <1>6, CountedElsewhere
<1> QED
  BY <1>3, <1>5, <1>6 DEF SessionsInv

\* A request that dies before it retires its token is a fault the count allows.
LEMMA DieOK ==
  ASSUME SessionsInv, NEW c \in Clients, Die(c)
  PROVE  SessionsInv'
<1>1. /\ faults' = faults + 1 /\ Step(c, Idle)
      /\ UNCHANGED <<tenantOf, user, status, token, now, orders>>
  BY DEF Die
<1>2. /\ SessionsOK /\ TokensOK /\ faults \in Nat
      /\ \A t \in 1..Len(token) : SpendOK(t)
  BY DEF SessionsInv, SessionsOK
<1>3. Kept /\ Len(token') = Len(token)
  BY <1>1, <1>2, Keeping DEF Kept
<1>4. FlowOK(Idle) /\ Idle.at = "idle"
  BY DEF FlowOK, Idle
<1>5. SessionsOK'
  BY <1>1, <1>2, <1>3, <1>4, GoesOn DEF SessionsOK
<1>6. ASSUME NEW t \in 1..Len(token) PROVE SpendOK(t)'
  BY <1>1, <1>2, <1>3, <1>4, <1>6, CountedElsewhere
<1> QED
  BY <1>3, <1>5, <1>6 DEF SessionsInv

---------------------------------------------------------------------------
(* The steps of the staff, of time, and of a client that signs out.        *)

LEMMA LogoutOK ==
  ASSUME SessionsInv, NEW t \in DOMAIN token, Logout(t)
  PROVE  SessionsInv'
<1>1. Revoke({t}) /\ UNCHANGED <<tenantOf, user, status, flow, now, orders, faults>>
  BY DEF Logout
<1>2. SessionsOK /\ TokensOK
  BY DEF SessionsInv, SessionsOK
<1> QED
  BY <1>1, <1>2, Keeping, Staying, AtRest DEF SessionsOK

LEMMA SetStatusOK ==
  ASSUME SessionsInv, NEW t \in Tenants, NEW s \in Statuses, SetStatus(t, s)
  PROVE  SessionsInv'
<1>1. SessionsOK /\ TokensOK
  BY DEF SessionsInv, SessionsOK
<1>2. UNCHANGED <<flow, faults, now, tenantOf>> /\ DOMAIN status' = Tenants
  BY <1>1 DEF SetStatus, Order, SessionsOK
<1>3. Kept
  BY <1>1, Keeping DEF SetStatus
<1> QED
  BY <1>1, <1>2, <1>3, Staying, AtRest DEF SessionsOK

LEMMA JoiningOK ==
  ASSUME SessionsOK, NEW t \in Tenants, NEW u \in Emails, ~Exists(u),
         tenantOf' = [tenantOf EXCEPT ![u] = t]
  PROVE  Joining
BY DEF Joining, SessionsOK, Exists

LEMMA StaffOK ==
  ASSUME SessionsInv, NEW t \in Tenants, NEW u \in Emails,
         Create(t, u) \/ AddUser(t, u)
           \/ \E s \in Statuses : SetUserStatus(u, s)
  PROVE  SessionsInv'
<1>1. SessionsOK /\ TokensOK
  BY DEF SessionsInv, SessionsOK
<1>2. Joining
  BY <1>1, JoiningOK, Staying DEF Create, AddUser, SetUserStatus
<1>3. Kept
  BY <1>1, Keeping DEF Create, AddUser, SetUserStatus
<1>4. UNCHANGED <<flow, faults, status>> /\ now' \in Nat
  BY <1>1 DEF Create, AddUser, SetUserStatus, Order, SessionsOK
<1> QED
  BY <1>1, <1>2, <1>3, <1>4, AtRest DEF SessionsOK

---------------------------------------------------------------------------
(* The theorems.                                                           *)

LEMMA SessionsInvInit == Init => SessionsInv
<1> SUFFICES ASSUME Init PROVE SessionsInv
  OBVIOUS
<1>1. token = <<>> /\ Len(token) = 0
  BY DEF Init
<1>2. TokensOK
  BY <1>1 DEF TokensOK
<1>3. \A c \in Clients : FlowOK(flow[c])
  BY DEF Init, FlowOK, Idle
<1>4. SessionsOK
  BY <1>2, <1>3, SessionsAssumption DEF Init, SessionsOK
<1> QED
  BY <1>1, <1>4 DEF SessionsInv

LEMMA SessionsInvNext == SessionsInv /\ [Next]_vars => SessionsInv'
<1> SUFFICES ASSUME SessionsInv, [Next]_vars PROVE SessionsInv'
  OBVIOUS
<1>1. ASSUME NEW c \in Clients, NEW u \in Emails, LoginRead(c, u)
      PROVE  SessionsInv'
  BY <1>1, LoginReadOK
<1>2. ASSUME NEW c \in Clients, NEW t \in DOMAIN token, RotateRead(c, t)
      PROVE  SessionsInv'
  BY <1>2, RotateReadOK
<1>3. ASSUME NEW c \in Clients,
             \/ LoginWrong(c) \/ LoginRight(c) \/ Issue(c)
             \/ Retire(c) \/ Punish(c) \/ Die(c)
      PROVE  SessionsInv'
  BY <1>3, LoginWrongOK, LoginRightOK, IssueOK, RetireOK, PunishOK, DieOK
<1>4. ASSUME NEW t \in DOMAIN token, Logout(t) PROVE SessionsInv'
  BY <1>4, LogoutOK
<1>5. ASSUME NEW t \in Tenants, NEW s \in Statuses, SetStatus(t, s)
      PROVE  SessionsInv'
  BY <1>5, SetStatusOK
<1>6. ASSUME NEW u \in Emails, NEW s \in Statuses, SetUserStatus(u, s)
      PROVE  SessionsInv'
  <2>1. tenantOf[u] \in Tenants
    BY <1>6 DEF SetUserStatus
  <2> QED
    BY <1>6, <2>1, StaffOK
<1>7. ASSUME NEW t \in Tenants, NEW u \in Emails, Create(t, u) \/ AddUser(t, u)
      PROVE  SessionsInv'
  BY <1>7, StaffOK
<1>8. CASE Tick \/ UNCHANGED vars
  <2>1. SessionsOK /\ TokensOK
    BY DEF SessionsInv, SessionsOK
  <2>2. UNCHANGED <<flow, faults, status, tenantOf, token>> /\ now' \in Nat
    BY <1>8, <2>1 DEF Tick, vars, SessionsOK
  <2> QED
    BY <2>1, <2>2, Keeping, Staying, AtRest DEF SessionsOK
<1> QED
  BY <1>1, <1>2, <1>3, <1>4, <1>5, <1>6, <1>7, <1>8 DEF Next

\* However many requests rotate one token at once, it is replaced no more often
\* than there are requests, and rotations that died before they retired it.
THEOREM SpentHolds == Spec => []SpentOnce
<1>1. SessionsInv => SpentOnce
  <2> SUFFICES ASSUME SessionsInv, NEW t \in DOMAIN token
               PROVE  Cardinality({h \in DOMAIN token : token[h].from = t})
                        <= Cardinality(Clients) + faults
    BY DEF SpentOnce
  <2>1. SessionsOK /\ t \in 1..Len(token) /\ SpendOK(t)
    BY Issued DEF SessionsInv, SessionsOK
  <2>2. /\ Cardinality(Heirs(t)) \in Nat /\ Cardinality(Clients) \in Nat
        /\ Cardinality(Holding("issue", t)) \in Nat /\ faults \in Nat
    BY <2>1, Counts DEF SessionsOK
  <2>3. Cardinality(Heirs(t)) <= Cardinality(Clients) + faults
    BY <2>1, <2>2 DEF SpendOK
  <2> QED
    BY <2>3 DEF Heirs
<1> QED
  BY <1>1, SessionsInvInit, SessionsInvNext, PTL DEF Spec

---------------------------------------------------------------------------
(* Who is out stays out.                                                   *)

Busy == {"verify", "issue", "retire"}

\* A tenant's users are the ones it had, and newcomers nobody is signed in as.
LEMMA Newcomers ==
  ASSUME Joining, NEW t, NEW u \in Emails, Exists(u), u \in Users(t)'
  PROVE  u \in Users(t)
BY DEF Joining, Users

\* Revoking tokens, the passing of time and new users let nobody in.
LEMMA NobodyIn ==
  ASSUME SessionsOK, NEW t, ~SignedIn(Users(t)), Joining,
         now' \in Nat, now' >= now,
         UNCHANGED token \/ \E S : Revoke(S)
  PROVE  ~SignedIn(Users(t))'
<1> SUFFICES ASSUME NEW i \in DOMAIN token',
                    token'[i].user \in Users(t)', ~token'[i].revoked,
                    ~(token'[i].expiresAt <= now')
             PROVE  FALSE
  BY DEF SignedIn, Expired
<1>1. TokensOK /\ now \in Nat
  BY DEF SessionsOK
<1>2. /\ i \in DOMAIN token /\ token'[i].user = token[i].user
      /\ token'[i].expiresAt = token[i].expiresAt /\ ~token[i].revoked
  <2>1. DOMAIN token = 1..Len(token)
    BY <1>1 DEF TokensOK
  <2>2. CASE UNCHANGED token
    BY <2>2
  <2>3. CASE \E S : Revoke(S)
    BY <1>1, <2>1, <2>3, Revoking
  <2> QED
    BY <2>2, <2>3
<1>3. /\ token[i].user \in Emails /\ Exists(token[i].user)
      /\ token[i].expiresAt \in Nat
  BY <1>1, <1>2, Issued DEF Token
<1>4. token[i].user \in Users(t)
  BY <1>2, <1>3, Newcomers
<1>5. ~Expired(i)
  BY <1>1, <1>2, <1>3 DEF Expired
<1> QED
  BY <1>2, <1>4, <1>5 DEF SignedIn

\* Nor does it put a request on its way.
LEMMA NobodyComes ==
  ASSUME SessionsOK, NEW t, ~Signing(Users(t)), Joining, UNCHANGED flow
  PROVE  ~Signing(Users(t))'
<1> SUFFICES ASSUME NEW c \in Clients, flow'[c].at \in Busy,
                    flow'[c].user \in Users(t)'
             PROVE  FALSE
  BY DEF Signing, Busy
<1>1. FlowOK(flow[c]) /\ flow'[c] = flow[c]
  BY DEF SessionsOK
<1>2. flow[c].user \in Emails /\ Exists(flow[c].user)
  BY <1>1 DEF FlowOK, Busy
<1> QED
  BY <1>1, <1>2, Newcomers DEF Signing, Busy

\* A request that goes on for somebody else is no way in either.
LEMMA NobodyFollows ==
  ASSUME SessionsOK, NEW t, ~Signing(Users(t)), UNCHANGED tenantOf,
         NEW c \in Clients, NEW f, Step(c, f),
         f.at \in Busy => f.user \notin Users(t)
  PROVE  ~Signing(Users(t))'
<1>1. /\ flow'[c] = f
      /\ \A d \in Clients : d # c => flow'[d] = flow[d]
  BY StepsAlone DEF SessionsOK
<1>2. Users(t)' = Users(t)
  BY DEF Users
<1> QED
  BY <1>1, <1>2 DEF Signing, Busy

\* The token a request issues is for whom the request is.
LEMMA NobodyIssued ==
  ASSUME SessionsOK, NEW t, ~SignedIn(Users(t)), NEW c \in Clients, Issue(c),
         flow[c].user \notin Users(t)
  PROVE  ~SignedIn(Users(t))'
<1> DEFINE new == [user |-> flow[c].user, expiresAt |-> now + RefreshTTL,
                   revoked |-> FALSE, from |-> flow[c].from]
<1>1. token' = Append(token, new) /\ UNCHANGED <<tenantOf, now>>
  BY DEF Issue
<1>2. token \in Seq(Token) /\ Len(token) \in Nat
  BY DEF SessionsOK, TokensOK
<1>3. /\ DOMAIN token' = 1..(Len(token) + 1) /\ DOMAIN token = 1..Len(token)
      /\ token'[Len(token) + 1] = new
      /\ \A i \in 1..Len(token) : token'[i] = token[i]
  BY <1>1, <1>2, AppendProperties
<1>4. Users(t)' = Users(t)
  BY <1>1 DEF Users
<1>5. \A i \in DOMAIN token' : i \in DOMAIN token \/ token'[i].user \notin Users(t)
  BY <1>2, <1>3
<1> QED
  BY <1>1, <1>3, <1>4, <1>5 DEF SignedIn, Expired

\* A suspended tenant with nobody signed in or on the way stays like that.
LEMMA StaysOut ==
  ASSUME SessionsOK, [Next]_vars, NEW t \in Tenants,
         status[t] # "ACTIVE", ~Signing(Users(t)), ~SignedIn(Users(t))
  PROVE  (~SignedIn(Users(t)) /\ ~Signing(Users(t)))'
<1> DEFINE Out == ~SignedIn(Users(t)) /\ ~Signing(Users(t))
<1>0. TokensOK /\ now \in Nat
  BY DEF SessionsOK
<1>1. ASSUME NEW c \in Clients, NEW f, Step(c, f), UNCHANGED <<tenantOf, now>>,
             UNCHANGED token \/ \E S : Revoke(S),
             f.at \in Busy => f.user \notin Users(t)
      PROVE  Out'
  BY <1>0, <1>1, Staying, NobodyIn, NobodyFollows
<1>2. ASSUME UNCHANGED flow, Joining, now' \in Nat, now' >= now,
             UNCHANGED token \/ \E S : Revoke(S)
      PROVE  Out'
  BY <1>2, NobodyIn, NobodyComes
<1>3. ASSUME NEW c \in Clients, NEW u \in Emails, LoginRead(c, u)
      PROVE  Out'
  <2>1. u \notin Users(t)
    BY <1>3, SessionsAssumption DEF LoginRead, MayTry, Users
  <2> QED
    BY <1>1, <1>3, <2>1 DEF LoginRead
<1>4. ASSUME NEW c \in Clients, NEW r \in DOMAIN token, RotateRead(c, r)
      PROVE  Out'
  <2> DEFINE f == IF token[r].revoked
                  THEN [at |-> "punish", user |-> token[r].user]
                  ELSE [at |-> "issue", user |-> token[r].user, from |-> r]
  <2>1. Step(c, f) /\ UNCHANGED <<tenantOf, token, now>>
    BY <1>4 DEF RotateRead
  <2>2. f.at \in Busy => ~token[r].revoked /\ ~Expired(r) /\ f.user = token[r].user
    BY <1>4 DEF RotateRead, Busy
  <2>3. f.at \in Busy => f.user \notin Users(t)
    BY <2>2 DEF SignedIn
  <2> HIDE DEF f
  <2> QED
    BY <1>1, <2>1, <2>3
<1>5. ASSUME NEW c \in Clients, LoginWrong(c) \/ Retire(c) \/ Punish(c) \/ Die(c)
      PROVE  Out'
  <2>1. Step(c, Idle) /\ UNCHANGED <<tenantOf, now>>
        /\ (UNCHANGED token \/ \E S : Revoke(S))
    BY <1>5 DEF LoginWrong, Retire, Punish, Die
  <2>2. Idle.at \notin Busy
    BY DEF Idle, Busy
  <2> QED
    BY <1>1, <2>1, <2>2
<1>6. ASSUME NEW c \in Clients, LoginRight(c)
      PROVE  Out'
  <2>1. flow[c].user \notin Users(t)
    BY <1>6 DEF LoginRight, Signing
  <2> QED
    BY <1>1, <1>6, <2>1 DEF LoginRight
<1>7. ASSUME NEW c \in Clients, Issue(c)
      PROVE  Out'
  <2> DEFINE f == IF flow[c].from = 0 THEN Idle
                  ELSE [at |-> "retire", user |-> flow[c].user,
                        from |-> flow[c].from]
  <2>1. Step(c, f) /\ UNCHANGED tenantOf /\ flow[c].at = "issue"
    BY <1>7 DEF Issue
  <2>2. flow[c].user \notin Users(t)
    BY <2>1 DEF Signing
  <2>3. f.at \in Busy => f.user \notin Users(t)
    BY <2>2 DEF Idle, Busy
  <2>4. ~SignedIn(Users(t))'
    BY <1>7, <2>2, NobodyIssued
  <2>5. ~Signing(Users(t))'
    <3> HIDE DEF f
    <3> QED
      BY <2>1, <2>3, NobodyFollows
  <2> QED
    BY <2>4, <2>5
<1>8. ASSUME NEW r \in DOMAIN token, Logout(r)
      PROVE  Out'
  BY <1>0, <1>2, <1>8, Staying DEF Logout
<1>9. ASSUME NEW v \in Tenants, NEW s \in Statuses, SetStatus(v, s)
      PROVE  Out'
  BY <1>0, <1>2, <1>9, Staying DEF SetStatus, Order
<1>10. ASSUME NEW u \in Emails, NEW s \in Statuses, SetUserStatus(u, s)
       PROVE  Out'
  BY <1>0, <1>2, <1>10, Staying DEF SetUserStatus, Order
<1>11. ASSUME NEW v \in Tenants, NEW u \in Emails, Create(v, u) \/ AddUser(v, u)
       PROVE  Out'
  <2>1. Joining
    BY <1>11, JoiningOK DEF Create, AddUser
  <2> QED
    BY <1>0, <1>2, <1>11, <2>1 DEF Create, AddUser, Order
<1>12. CASE Tick \/ UNCHANGED vars
  BY <1>0, <1>2, <1>12, Staying DEF Tick, vars
<1> QED
  BY <1>3, <1>4, <1>5, <1>6, <1>7, <1>8, <1>9, <1>10, <1>11, <1>12 DEF Next

\* The step that suspends a tenant revokes every token of its users.
LEMMA SuspendingClears ==
  ASSUME SessionsOK, [Next]_vars, NEW t \in Tenants,
         status[t] = "ACTIVE", status'[t] = "SUSPENDED", ~Signing(Users(t))
  PROVE  (~SignedIn(Users(t)) /\ ~Signing(Users(t)))'
<1>1. PICK v \in Tenants, s \in Statuses : SetStatus(v, s)
  <2>1. status' # status
    OBVIOUS
  <2> QED
    BY <2>1 DEF Next, vars, LoginRead, RotateRead, LoginWrong, LoginRight, Issue,
                Retire, Punish, Die, Logout, SetUserStatus, Create, AddUser, Tick
<1>2. status' = [status EXCEPT ![v] = s] /\ DOMAIN status = Tenants
  BY <1>1 DEF SetStatus, SessionsOK
<1>3. v = t /\ s = "SUSPENDED"
  BY <1>2
<1>4. Revoke(OfUsers(Users(t))) /\ UNCHANGED <<tenantOf, flow>>
  BY <1>1, <1>3 DEF SetStatus, Order
<1>5. TokensOK
  BY DEF SessionsOK
<1>6. \A i \in DOMAIN token' : token'[i].user \in Users(t) => token'[i].revoked
  BY <1>4, <1>5, Revoking DEF OfUsers, TokensOK
<1>7. Users(t)' = Users(t)
  BY <1>4 DEF Users
<1>8. ~Signing(Users(t))'
  BY <1>4, <1>7 DEF Signing
<1> QED
  BY <1>6, <1>7, <1>8 DEF SignedIn

\* A suspension with no sign-in or rotation in flight leaves nobody signed in,
\* and until the tenant is reinstated nobody is, or is on the way.
THEOREM SuspendedHolds == Spec => SuspendedStaysOut
<1> DEFINE Held == \A t \in Tenants :
      (status'[t] = "SUSPENDED" /\ ~Signing(Users(t))
         /\ (status[t] = "ACTIVE" \/ ~SignedIn(Users(t))))
      => (~SignedIn(Users(t)) /\ ~Signing(Users(t)))'
<1>1. SessionsInv /\ [Next]_vars => Held
  BY SuspendingClears, StaysOut DEF SessionsInv
<1>2. SessionsInv /\ [Next]_vars => [Held]_vars
  BY <1>1
<1> QED
  BY <1>2, SessionsInvInit, SessionsInvNext, PTL DEF Spec, SuspendedStaysOut
=============================================================================
