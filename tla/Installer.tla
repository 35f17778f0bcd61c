----------------------------- MODULE Installer -----------------------------
(***************************************************************************)
(* The setup wizard: from an empty server to a configuration file, a       *)
(* database with its schema, roles and administrator, and the lock that    *)
(* closes the wizard for good.                                             *)
(*                                                                         *)
(* An installation is a sequence of steps, each of which may fail and end  *)
(* it; the whole is then submitted again.  Wizards are processes of their  *)
(* own, of which two may share the state directory, and serve several      *)
(* requests at a time; each may die between any two steps.  The migrations *)
(* are applied one by one by `prisma migrate deploy`, a process that may   *)
(* outlive the step, or the wizard, that waits for it: it holds prisma's   *)
(* lock on the database, and where it is interrupted in a migration no     *)
(* other will go on until somebody resolves that migration by hand.        *)
(*                                                                         *)
(* Abstractions.  A request is the database it names, the administrator's  *)
(* password, for which its client stands, and what it asks to be seeded.   *)
(* The rest of the form, and the keys written to the file, are left out.   *)
(* What goes wrong, or is done otherwise than it should be, is counted and *)
(* bounded, so that it ends.                                               *)
(***************************************************************************)
EXTENDS Naturals

CONSTANTS
  Wizards,     \* wizard processes, on ports of their own
  Clients,     \* install requests being served at one time
  Databases,   \* databases a request may name
  None,        \* no file, nobody
  Migrations,  \* how many directories prisma/migrations holds
  MaxTrouble   \* bound: failures, deaths and deviations

ASSUME InstallerAssumption ==
  None \notin Databases \cup Clients /\ Migrations \in Nat \ {0}

VARIABLES
  env,         \* .env: the database it names
  db,          \* per database: the migrations applied, whether one stands as
               \* failed, the administrator, and SUPER_ADMIN, which is absent
               \* ("none"), without keys ("bare") or "full"
  deploy,      \* per database: for whom prisma is at work on it
  token,       \* install.token: the wizard that wrote it
  lock,        \* install.lock; history: the request it was written for
  running,     \* the wizards that are up, or just about to write their token
  job,         \* per client: the wizard, the request and the next step
  overlap,     \* history: two installations were under way at one time
  trouble      \* bound: what went wrong so far

vars == <<env, db, deploy, token, lock, running, job, overlap, trouble>>

NoJob == [step |-> "none"]

Init ==
  /\ env = None /\ token = None /\ lock = None
  /\ db = [d \in Databases |->
       [schema |-> 0, broken |-> FALSE, role |-> "none", admin |-> None]]
  /\ deploy = [d \in Databases |-> None]
  /\ running = [w \in Wizards |-> "off"]
  /\ job = [c \in Clients |-> NoJob]
  /\ overlap = FALSE /\ trouble = 0

Goes(c, step) == job' = [job EXCEPT ![c].step = step]
Ends(c) == job' = [job EXCEPT ![c] = NoJob]
Trouble == trouble < MaxTrouble /\ trouble' = trouble + 1
Busy(w) == \E c \in Clients : job[c] # NoJob /\ job[c].wizard = w
Quiet == \A w \in Wizards : running[w] = "off"

---------------------------------------------------------------------------
(* cli.ts and lock.ts: a wizard starts, and stops.                         *)

\* A second wizard while one is up is a deviation.
Start(w) ==
  /\ running[w] = "off" /\ lock = None
  /\ IF Quiet THEN UNCHANGED trouble ELSE Trouble
  /\ running' = [running EXCEPT ![w] = "starting"]
  /\ UNCHANGED <<env, db, deploy, token, lock, job, overlap>>

IssueToken(w) ==
  /\ running[w] = "starting"
  /\ token' = w
  /\ running' = [running EXCEPT ![w] = "up"]
  /\ UNCHANGED <<env, db, deploy, lock, job, overlap, trouble>>

\* Ctrl-C: the server closes once its requests are answered, and the token goes,
\* whoever wrote it.  Without a token of its own a wizard is of no use.
Stop(w) ==
  /\ running[w] = "up" /\ ~Busy(w)
  /\ IF token = w /\ lock = None THEN Trouble ELSE UNCHANGED trouble
  /\ running' = [running EXCEPT ![w] = "off"]
  /\ token' = None
  /\ UNCHANGED <<env, db, deploy, lock, job, overlap>>

Die(w) ==
  /\ running[w] # "off" /\ Trouble
  /\ running' = [running EXCEPT ![w] = "off"]
  /\ job' = [c \in Clients |->
       IF job[c] # NoJob /\ job[c].wizard = w THEN NoJob ELSE job[c]]
  /\ UNCHANGED <<env, db, deploy, token, lock, overlap>>

\* rm install.lock, from a shell.
Reopen ==
  /\ lock # None /\ Trouble
  /\ lock' = None
  /\ UNCHANGED <<env, db, deploy, token, running, job, overlap>>

---------------------------------------------------------------------------
(* server.ts: POST /api/install, past the lock and the token.              *)

\* A request carries the token its own wizard printed.
VerifyToken(w) == token = w
Whole(request) == request.schema /\ request.roles
Requests(c) ==
  [db : Databases, password : {c}, schema : BOOLEAN, roles : BOOLEAN]

\* A request that leaves something out, or overlaps another, is a deviation.
Submit(c, w, request) ==
  /\ running[w] = "up" /\ lock = None /\ VerifyToken(w)
  /\ job[c] = NoJob
  /\ LET alone == \A b \in Clients : job[b] = NoJob
     IN /\ IF alone /\ Whole(request) THEN UNCHANGED trouble ELSE Trouble
        /\ overlap' = (overlap \/ ~alone)
  /\ job' = [job EXCEPT ![c] =
       [step |-> "assert", wizard |-> w, request |-> request]]
  /\ UNCHANGED <<env, db, deploy, token, lock, running>>

---------------------------------------------------------------------------
(* install.ts: the steps                                                   *)

Request(c) == job[c].request
Target(c) == db[Request(c).db]
Writes(c, field, value) == db' = [db EXCEPT ![Request(c).db][field] = value]

AssertNotInstalled(c) ==
  /\ job[c].step = "assert"
  /\ IF lock = None THEN Goes(c, "database") ELSE Ends(c)
  /\ UNCHANGED <<env, db, deploy, token, lock, running, overlap, trouble>>

\* Whether it answers, is recent enough and lets this user create; it may not.
VerifyDatabase(c) ==
  /\ job[c].step = "database"
  /\ Goes(c, "configuration")
  /\ UNCHANGED <<env, db, deploy, token, lock, running, overlap, trouble>>

FileForSlip(old, request) == IF old = None THEN request.db ELSE old
FileFor(old, request) == request.db  \* the old file is copied aside

WriteConfiguration(c) ==
  /\ job[c].step = "configuration"
  /\ env' = FileFor(env, Request(c))
  /\ Goes(c, "migrations")
  /\ UNCHANGED <<db, deploy, token, lock, running, overlap, trouble>>

RunMigrationsSlip(c) ==  \* started and not awaited
  /\ job[c].step = "migrations"
  /\ IF Request(c).schema
     THEN /\ deploy[Request(c).db] = None /\ ~Target(c).broken
          /\ deploy' = [deploy EXCEPT ![Request(c).db] = c]
     ELSE UNCHANGED deploy
  /\ Goes(c, "roles")
  /\ UNCHANGED <<env, db, token, lock, running, overlap, trouble>>
RunMigrations(c) ==
  /\ job[c].step = "migrations"
  /\ IF Request(c).schema
     THEN /\ deploy[Request(c).db] = None /\ ~Target(c).broken
          /\ deploy' = [deploy EXCEPT ![Request(c).db] = c]
          /\ Goes(c, "deploying")
     ELSE UNCHANGED deploy /\ Goes(c, "roles")
  /\ UNCHANGED <<env, db, token, lock, running, overlap, trouble>>

\* prisma migrate deploy: each migration is a transaction of its own.
Apply(d) ==
  /\ deploy[d] # None /\ db[d].schema < Migrations
  /\ db' = [db EXCEPT ![d].schema = @ + 1]
  /\ UNCHANGED <<env, deploy, token, lock, running, job, overlap, trouble>>

\* Its exit is the end of the step, if that has not timed out meanwhile.
DeployEnds(d) ==
  LET c == deploy[d] IN
  /\ c # None /\ db[d].schema = Migrations
  /\ deploy' = [deploy EXCEPT ![d] = None]
  /\ IF job[c].step = "deploying" /\ Request(c).db = d
     THEN Goes(c, "roles") ELSE UNCHANGED job
  /\ UNCHANGED <<env, db, token, lock, running, overlap, trouble>>

\* It ends before it is done: between two migrations, or in one, which then
\* stands as failed, be it that its script is undone or that it went through and
\* only its end was not recorded.
Interrupt(d) ==
  /\ deploy[d] # None /\ Trouble
  /\ deploy' = [deploy EXCEPT ![d] = None]
  /\ \/ UNCHANGED db
     \/ /\ db[d].schema < Migrations
        /\ \E n \in 0..1 :
             db' = [db EXCEPT ![d].broken = TRUE, ![d].schema = @ + n]
  /\ UNCHANGED <<env, token, lock, running, job, overlap>>

\* prisma migrate resolve, from a shell: the administrator looks at what is there
\* and marks the migration as rolled back or as applied, whichever it is.
Resolve(d) ==
  /\ db[d].broken
  /\ db' = [db EXCEPT ![d].broken = FALSE]
  /\ UNCHANGED <<env, deploy, token, lock, running, job, overlap, trouble>>

\* The roles, and an administrator where there is none with this address.  The
\* first migration has the tables for that, as no later one alters them.
SeedRoles(c) ==
  /\ job[c].step = "roles"
  /\ Request(c).roles => Target(c).schema > 0
  /\ IF Request(c).roles THEN Writes(c, "role", "full") ELSE UNCHANGED db
  /\ Goes(c, IF Request(c).roles THEN "firstadmin" ELSE "administrator")
  /\ UNCHANGED <<env, deploy, token, lock, running, overlap, trouble>>
SeedAdmin(c) ==
  /\ job[c].step = "firstadmin"
  /\ IF Target(c).admin = None THEN Writes(c, "admin", Request(c).password)
     ELSE UNCHANGED db
  /\ Goes(c, "administrator")
  /\ UNCHANGED <<env, deploy, token, lock, running, overlap, trouble>>

CreateAdministratorSlip(c) ==  \* a create where the upsert is
  /\ job[c].step = "administrator"
  /\ Target(c).role # "none" /\ Target(c).admin = None
  /\ Writes(c, "admin", Request(c).password)
  /\ Goes(c, "revoke")
  /\ UNCHANGED <<env, deploy, token, lock, running, overlap, trouble>>
CreateAdministrator(c) ==
  /\ job[c].step = "administrator"
  /\ Target(c).role # "none"
  /\ Writes(c, "admin", Request(c).password)
  /\ Goes(c, "revoke")
  /\ UNCHANGED <<env, deploy, token, lock, running, overlap, trouble>>

\* finalise: the token first, whoever wrote it, and then the lock.  A lock that is
\* there is read-only, which stops every account but root.
RevokeToken(c) ==
  /\ job[c].step = "revoke"
  /\ token' = None
  /\ Goes(c, "lock")
  /\ UNCHANGED <<env, db, deploy, lock, running, overlap, trouble>>
Lock(c) ==
  /\ job[c].step = "lock"
  /\ lock' \in {Request(c)} \cup ({lock} \ {None})
  /\ Ends(c)
  /\ UNCHANGED <<env, db, deploy, token, running, overlap, trouble>>

\* A step that cannot do its work ends the installation; what earlier steps
\* wrote stays, and so may what the step itself wrote before it failed.  Prisma
\* refuses a database another is at work on, or where a migration has failed.
Impossible(c) ==
  \/ /\ job[c].step = "migrations" /\ Request(c).schema
     /\ deploy[Request(c).db] # None \/ Target(c).broken
  \/ job[c].step = "deploying" /\ deploy[Request(c).db] # c
  \/ job[c].step = "roles" /\ Request(c).roles /\ Target(c).schema = 0
  \/ job[c].step = "administrator" /\ Target(c).role = "none"
GiveUp(c) ==
  /\ Impossible(c)
  /\ Ends(c)
  /\ UNCHANGED <<env, db, deploy, token, lock, running, overlap, trouble>>

\* A deployment whose step fails, by its time-out, goes on by itself.
StepFails(c) ==
  /\ job[c] # NoJob /\ Trouble
  /\ \/ UNCHANGED db
     \/ /\ job[c].step = "roles" /\ Request(c).roles /\ Target(c).schema > 0
        /\ Writes(c, "role", "bare")
  /\ Ends(c)
  /\ UNCHANGED <<env, deploy, token, lock, running, overlap>>

Proceed(c) ==
  \/ AssertNotInstalled(c) \/ VerifyDatabase(c) \/ WriteConfiguration(c)
  \/ RunMigrations(c) \/ SeedRoles(c) \/ SeedAdmin(c) \/ CreateAdministrator(c)
  \/ RevokeToken(c) \/ Lock(c) \/ GiveUp(c)

Next ==
  \/ Reopen
  \/ \E w \in Wizards : Start(w) \/ IssueToken(w) \/ Stop(w) \/ Die(w)
  \/ \E d \in Databases : Apply(d) \/ DeployEnds(d) \/ Interrupt(d) \/ Resolve(d)
  \/ \E c \in Clients :
       \/ Proceed(c) \/ StepFails(c)
       \/ \E w \in Wizards, request \in Requests(c) : Submit(c, w, request)

Spec == Init /\ [][Next]_vars

\* The processes run what they have begun, and the administrator keeps at it:
\* starts a wizard when none is up, stops one whose token is not on disk, and
\* submits the whole installation again while nothing is installed.  And somebody
\* resolves a migration that stands as failed, which no message or page of the
\* wizard asks for: trying again alone would be refused for ever.
Retry(c, w) == \E request \in Requests(c) : Whole(request) /\ Submit(c, w, request)
Useless(w) == token # w /\ lock = None /\ Stop(w)
FairSpec ==
  /\ Spec
  /\ \A c \in Clients : WF_vars(Proceed(c))
  /\ \A d \in Databases :
       WF_vars(Apply(d)) /\ WF_vars(DeployEnds(d)) /\ WF_vars(Resolve(d))
  /\ \A w \in Wizards : WF_vars(IssueToken(w)) /\ WF_vars(Useless(w))
  /\ WF_vars(\E w \in Wizards : Quiet /\ Start(w))
  /\ WF_vars(\E c \in Clients, w \in Wizards :
       (\A b \in Clients : job[b] = NoJob) /\ Retry(c, w))

---------------------------------------------------------------------------
(* Properties                                                              *)

\* The lock comes last: while it stands, the database it was written for has the
\* tables the application signs in with, the SUPER_ADMIN role and an administrator
\* and there is a .env; its schema is complete if this installation was asked to
\* migrate it, whatever an earlier one or a deployment nobody waits for any more
\* left there, and even when installations overlapped.  When none ever did, that
\* .env names the very database, the password shown on the last screen is the
\* administrator's, and the role has its keys if this installation was asked to
\* seed it (run, runMigrations and finalise, over failed steps, deaths,
\* interrupted deployments and other requests before).
LockedIsWhole ==
  lock # None =>
    LET d == db[lock.db] IN
    /\ env # None /\ d.schema > 0 /\ d.role # "none" /\ d.admin # None
    /\ lock.schema => d.schema = Migrations /\ ~d.broken
    /\ ~overlap => /\ env = lock.db /\ d.admin = lock.password
                   /\ lock.roles => d.role = "full"

\* No failed step, death, interrupted deployment, half-done request or second
\* wizard leaves a server that cannot be installed by trying again, once a failed
\* migration is resolved by hand (run stops at the first failure and every step
\* may be repeated; finalise revokes the token before it locks).
EndsLocked == []<>(lock # None)
=============================================================================
