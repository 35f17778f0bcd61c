------------------------------ MODULE Sessions ------------------------------
(***************************************************************************)
(* Signing in, refresh tokens, and what the staff do to accounts.          *)
(*                                                                         *)
(* A sign-in and a rotation are several statements of the database, with   *)
(* nothing that holds them together: each action is the code between two   *)
(* awaits, and what a flow read before may be stale when it writes.  A     *)
(* flow may die between any two of them.                                   *)
(*                                                                         *)
(* Abstractions.  A login name stands for its user; a password is right or *)
(* wrong; times are ticks; a token is its place in the sequence of all     *)
(* tokens issued.  Access tokens are not kept: every request looks its     *)
(* user up again (module Access).                                          *)
(***************************************************************************)
EXTENDS Naturals, Sequences, FiniteSets

CONSTANTS
  Emails,       \* login names, in use or not yet
  Tenants,      \* customer accounts, existing or not yet
  Staff,        \* stands for the tenant of an administrator
  Nobody,       \* no such user
  Clients,      \* requests being served at one time
  MaxFailed,    \* MAX_FAILED_LOGINS
  Lockout,      \* LOCKOUT_MINUTES, in ticks
  RefreshTTL,   \* the life of a refresh token, in ticks
  Initially,    \* [Emails -> Tenants \cup {Staff, Nobody}], the first users
  MaxTokens,    \* bound: tokens ever issued
  MaxTime,      \* bound: the last tick
  MaxOrders,    \* bound: what the staff do
  MaxFaults     \* bound: requests that die half way

Statuses == {"ACTIVE", "SUSPENDED"}  \* all others are refused like SUSPENDED

ASSUME SessionsAssumption ==
  /\ Staff \notin Tenants /\ Nobody \notin Tenants \cup {Staff}
  /\ IsFiniteSet(Clients)
  /\ MaxFailed \in Nat \ {0} /\ Lockout \in Nat /\ RefreshTTL \in Nat
  /\ Initially \in [Emails -> Tenants \cup {Staff, Nobody}]
  /\ MaxTokens \in Nat /\ MaxTime \in Nat /\ MaxOrders \in Nat
  /\ MaxFaults \in Nat

VARIABLES
  tenantOf,  \* the tenant of each user, Nobody where there is no user
  user,      \* status, failedLoginCount and lockedUntil of each user
  status,    \* the status of each tenant
  token,     \* every refresh token ever issued, in that order
  flow,      \* what each request holds between two statements
  now,       \* the clock
  orders,    \* bound: what the staff did so far
  faults     \* bound: requests that died so far

vars == <<tenantOf, user, status, token, flow, now, orders, faults>>

Idle == [at |-> "idle"]
NewUser == [status |-> "ACTIVE", failed |-> 0, lockedUntil |-> 0]

Init ==
  /\ tenantOf = Initially
  /\ user = [u \in Emails |-> NewUser]
  /\ status = [t \in Tenants |-> "ACTIVE"]
  /\ token = <<>>
  /\ flow = [c \in Clients |-> Idle]
  /\ now = 1
  /\ orders = 0
  /\ faults = 0

Step(c, f) == flow' = [flow EXCEPT ![c] = f]
Exists(u) == tenantOf[u] # Nobody
Users(t) == {u \in Emails : tenantOf[u] = t}

\* Why a sign-in is let as far as the password.  An administrator has no tenant.
MayTry(u) ==
  /\ Exists(u)
  /\ user[u].lockedUntil <= now
  /\ user[u].status = "ACTIVE"
  /\ tenantOf[u] = Staff \/ status[tenantOf[u]] = "ACTIVE"

\* The row is read, and the password hash is slow.
LoginRead(c, u) ==
  /\ flow[c] = Idle
  /\ MayTry(u)
  /\ Step(c, [at |-> "verify", user |-> u, count |-> user[u].failed])
  /\ UNCHANGED <<tenantOf, user, status, token, now, orders, faults>>

\* registerFailedLogin writes what it read before, plus one.
Failed(count) ==
  [failed |-> count + 1,
   lockedUntil |-> IF count + 1 >= MaxFailed THEN now + Lockout ELSE 0]

LoginWrong(c) ==
  /\ flow[c].at = "verify"
  /\ user' = [user EXCEPT ![flow[c].user].failed = Failed(flow[c].count).failed,
                          ![flow[c].user].lockedUntil =
                                Failed(flow[c].count).lockedUntil]
  /\ Step(c, Idle)
  /\ UNCHANGED <<tenantOf, status, token, now, orders, faults>>

LoginRight(c) ==
  /\ flow[c].at = "verify"
  /\ user' = [user EXCEPT ![flow[c].user].failed = 0,
                          ![flow[c].user].lockedUntil = 0]
  /\ Step(c, [at |-> "issue", user |-> flow[c].user, from |-> 0])
  /\ UNCHANGED <<tenantOf, status, token, now, orders, faults>>

Expired(t) == token[t].expiresAt <= now

\* A token that was retired before tells of a replay.
RotateRead(c, t) ==
  /\ flow[c] = Idle
  /\ token[t].revoked \/ ~Expired(t)
  /\ Step(c, IF token[t].revoked
             THEN [at |-> "punish", user |-> token[t].user]
             ELSE [at |-> "issue", user |-> token[t].user, from |-> t])
  /\ UNCHANGED <<tenantOf, user, status, token, now, orders, faults>>

\* TokenService.issue, for a sign-in (from = 0) and for a rotation.
Issue(c) ==
  /\ flow[c].at = "issue"
  /\ Len(token) < MaxTokens
  /\ token' = Append(token, [user |-> flow[c].user,
                             expiresAt |-> now + RefreshTTL,
                             revoked |-> FALSE, from |-> flow[c].from])
  /\ Step(c, IF flow[c].from = 0 THEN Idle
             ELSE [at |-> "retire", user |-> flow[c].user,
                   from |-> flow[c].from])
  /\ UNCHANGED <<tenantOf, user, status, now, orders, faults>>

Revoke(S) ==
  token' = [t \in DOMAIN token |-> [token[t] EXCEPT !.revoked = @ \/ t \in S]]
OfUsersSlip(U) ==  \* forgets the tokens that came of a rotation
  {t \in DOMAIN token : token[t].user \in U /\ token[t].from = 0}
OfUsers(U) == {t \in DOMAIN token : token[t].user \in U}

RetireSlip(c) ==  \* never retires the token it replaced
  /\ flow[c].at = "retire"
  /\ Step(c, Idle)
  /\ UNCHANGED <<tenantOf, user, status, token, now, orders, faults>>
Retire(c) ==
  /\ flow[c].at = "retire"
  /\ Revoke({flow[c].from})
  /\ Step(c, Idle)
  /\ UNCHANGED <<tenantOf, user, status, now, orders, faults>>

Punish(c) ==
  /\ flow[c].at = "punish"
  /\ Revoke(OfUsers({flow[c].user}))
  /\ Step(c, Idle)
  /\ UNCHANGED <<tenantOf, user, status, now, orders, faults>>

Logout(t) ==
  /\ ~token[t].revoked
  /\ Revoke({t})
  /\ UNCHANGED <<tenantOf, user, status, flow, now, orders, faults>>

Order ==
  /\ orders < MaxOrders
  /\ orders' = orders + 1
  /\ UNCHANGED <<now, faults, flow>>

\* One transaction writes the status and revokes what it sees.
SetStatus(t, s) ==
  /\ Order
  /\ Users(t) # {}
  /\ status' = [status EXCEPT ![t] = s]
  /\ IF s = "ACTIVE" THEN UNCHANGED token ELSE Revoke(OfUsers(Users(t)))
  /\ UNCHANGED <<tenantOf, user>>

SetUserStatus(u, s) ==
  /\ Order
  /\ tenantOf[u] \in Tenants
  /\ user' = [user EXCEPT ![u].status = s]
  /\ UNCHANGED <<tenantOf, status, token>>

\* Both refuse an address in use, by a check and then by the unique index.
\* create makes the tenant and its first user in one transaction.
Create(t, u) ==
  /\ Order
  /\ Users(t) = {} /\ ~Exists(u)
  /\ tenantOf' = [tenantOf EXCEPT ![u] = t]
  /\ UNCHANGED <<user, status, token>>

AddUser(t, u) ==
  /\ Order
  /\ Users(t) # {} /\ ~Exists(u)
  /\ tenantOf' = [tenantOf EXCEPT ![u] = t]
  /\ UNCHANGED <<user, status, token>>

Die(c) ==
  /\ faults < MaxFaults
  /\ flow[c] # Idle
  /\ faults' = faults + 1
  /\ Step(c, Idle)
  /\ UNCHANGED <<tenantOf, user, status, token, now, orders>>

Tick ==
  /\ now < MaxTime
  /\ now' = now + 1
  /\ UNCHANGED <<tenantOf, user, status, token, flow, orders, faults>>

Next ==
  \/ \E c \in Clients :
        \/ \E u \in Emails : LoginRead(c, u)
        \/ \E t \in DOMAIN token : RotateRead(c, t)
        \/ LoginWrong(c) \/ LoginRight(c) \/ Issue(c)
        \/ Retire(c) \/ Punish(c) \/ Die(c)
  \/ \E t \in DOMAIN token : Logout(t)
  \/ \E t \in Tenants, s \in Statuses : SetStatus(t, s)
  \/ \E u \in Emails, s \in Statuses : SetUserStatus(u, s)
  \/ \E t \in Tenants, u \in Emails : Create(t, u) \/ AddUser(t, u)
  \/ Tick

Spec == Init /\ [][Next]_vars

---------------------------------------------------------------------------
(* Properties.                                                             *)

\* What a request in flight may still bring into the world for a user.
Signing(U) ==
  \E c \in Clients :
     flow[c].at \in {"verify", "issue", "retire"} /\ flow[c].user \in U
SignedIn(U) ==
  \E t \in DOMAIN token :
     token[t].user \in U /\ ~token[t].revoked /\ ~Expired(t)

\* "Suspension must end existing sessions, not just block new sign-ins"
\* (customers.service.ts:321): with no sign-in or rotation in flight, the step
\* that suspends a tenant leaves nobody signed in, and until it is reinstated
\* nobody is, or is even on the way, whatever else is done to its users.
SuspendedStaysOut ==
  [][\A t \in Tenants :
       (status'[t] = "SUSPENDED" /\ ~Signing(Users(t))
          /\ (status[t] = "ACTIVE" \/ ~SignedIn(Users(t))))
       => (~SignedIn(Users(t)) /\ ~Signing(Users(t)))']_vars

\* A refresh token is spent by its first rotation: it is replaced once for
\* every request that was already rotating it, and once more for every rotation
\* that died before it retired the token, never more often.
SpentOnce ==
  \A t \in DOMAIN token :
     Cardinality({h \in DOMAIN token : token[h].from = t})
       <= Cardinality(Clients) + faults
=============================================================================
