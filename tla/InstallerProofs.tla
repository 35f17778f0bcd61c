-------------------------- MODULE InstallerProofs --------------------------
(***************************************************************************)
(* The lock is the last thing written, for any number of wizards, requests *)
(* and databases, whatever fails and however often it is tried again.      *)
(***************************************************************************)
EXTENDS Installer, TLAPS

Forms ==
  [db : Databases, password : Clients, schema : BOOLEAN, roles : BOOLEAN]
Steps == {"assert", "database", "configuration", "migrations", "deploying", "roles",
          "firstadmin", "administrator", "revoke", "lock"}
Contents ==
  [schema : 0..Migrations, broken : BOOLEAN, role : {"none", "bare", "full"},
   admin : Clients \cup {None}]

TypesOK ==
  /\ env \in Databases \cup {None}
  /\ db \in [Databases -> Contents]
  /\ lock \in Forms \cup {None}
  /\ job \in [Clients -> {NoJob} \cup
                [step : Steps, wizard : Wizards, request : Forms]]
  /\ overlap \in BOOLEAN

\* What an installation has behind it, by the step it is at.
Configured == {"migrations", "deploying", "roles", "firstadmin", "administrator",
               "revoke", "lock"}
Migrated == {"roles", "firstadmin", "administrator", "revoke", "lock"}
Filled == {"firstadmin", "administrator", "revoke", "lock"}
Closing == {"revoke", "lock"}

\* Nothing undoes this much, whoever else is installing.
RolesNeedSchema == \A d \in Databases : db[d].role # "none" => db[d].schema > 0
Complete(d) == db[d].schema = Migrations /\ ~db[d].broken
Behind(c) ==
  /\ job[c].step \in Configured => env # None
  /\ job[c].step \in Migrated /\ Request(c).schema => Complete(Request(c).db)
  /\ job[c].step \in Closing => Target(c).role # "none" /\ Target(c).admin # None

\* This much an installation leaves behind it while it is alone.
Undisturbed(c) ==
  /\ lock = None \/ job[c] = NoJob
  /\ job[c].step \in Configured => env = Request(c).db
  /\ job[c].step \in Filled /\ Request(c).roles => Target(c).role = "full"
  /\ job[c].step \in Closing => Target(c).admin = Request(c).password

\* Prisma is at work only where no migration has failed.
DeployOK ==
  /\ deploy \in [Databases -> Clients \cup {None}]
  /\ \A d \in Databases : deploy[d] # None => ~db[d].broken

Single == \A b, c \in Clients : job[b] = NoJob \/ job[c] = NoJob \/ b = c

InstallerInv ==
  /\ TypesOK
  /\ DeployOK
  /\ RolesNeedSchema
  /\ \A c \in Clients : Behind(c)
  /\ ~overlap => Single /\ \A c \in Clients : Undisturbed(c)
  /\ LockedIsWhole

---------------------------------------------------------------------------
(* What steps have in common.                                              *)

LEMMA AtWork ==
  ASSUME TypesOK, NEW c \in Clients, job[c].step # "none"
  PROVE  /\ job[c] # NoJob
         /\ job[c] \in [step : Steps, wizard : Wizards, request : Forms]
         /\ Request(c) \in Forms /\ Target(c) \in Contents
BY DEF TypesOK, NoJob, Request, Target, Forms

\* The next step of an installation, which keeps its request.
LEMMA Going ==
  ASSUME TypesOK, NEW c \in Clients, job[c].step # "none",
         NEW s \in Steps, Goes(c, s)
  PROVE  /\ job' \in [Clients -> {NoJob} \cup
                        [step : Steps, wizard : Wizards, request : Forms]]
         /\ job'[c].step = s /\ job'[c].request = job[c].request /\ job'[c] # NoJob
         /\ \A b \in Clients : b # c => job'[b] = job[b]
BY AtWork DEF Goes, TypesOK, NoJob, Steps

LEMMA Ending ==
  ASSUME TypesOK, NEW c \in Clients, Ends(c)
  PROVE  /\ job' \in [Clients -> {NoJob} \cup
                        [step : Steps, wizard : Wizards, request : Forms]]
         /\ job'[c] = NoJob /\ NoJob.step = "none"
         /\ \A b \in Clients : b # c => job'[b] = job[b]
BY DEF Ends, TypesOK, NoJob

\* What one field of one database becomes, and that all else stays.
LEMMA Writing ==
  ASSUME TypesOK, NEW c \in Clients, job[c].step # "none",
         NEW field \in {"role", "admin"}, NEW value,
         [Target(c) EXCEPT ![field] = value] \in Contents, Writes(c, field, value)
  PROVE  /\ db' \in [Databases -> Contents]
         /\ db'[Request(c).db][field] = value
         /\ \A f \in {"schema", "broken", "role", "admin"} :
              f # field => db'[Request(c).db][f] = db[Request(c).db][f]
         /\ \A d \in Databases : d # Request(c).db => db'[d] = db[d]
<1>1. Request(c) \in Forms /\ Target(c) \in Contents /\ Request(c).db \in Databases
  BY AtWork DEF Forms
<1>2. db' = [db EXCEPT ![Request(c).db] = [Target(c) EXCEPT ![field] = value]]
  BY DEF Writes, Target
<1> QED
  BY <1>1, <1>2 DEF TypesOK, Contents, Target

---------------------------------------------------------------------------
(* The steps of an installation.                                           *)

\* A step that goes on and writes nothing but its own place.
LEMMA GoesOn ==
  ASSUME InstallerInv, NEW c \in Clients, job[c].step # "none",
         NEW s \in Steps, Goes(c, s), UNCHANGED <<env, db, lock, overlap>>, DeployOK',
         s \in Configured => job[c].step \in Configured,
         s \in Migrated /\ Request(c).schema =>
           job[c].step \in Migrated \/ Complete(Request(c).db),
         s \in Filled /\ Request(c).roles => job[c].step \in Filled,
         s \in Closing => job[c].step \in Closing
  PROVE  InstallerInv'
<1>1. TypesOK
  BY DEF InstallerInv
<1>2. TypesOK'
  BY <1>1, Going DEF TypesOK
<1>3. RolesNeedSchema' /\ LockedIsWhole'
  BY DEF InstallerInv, RolesNeedSchema, LockedIsWhole
<1>4. ASSUME NEW b \in Clients PROVE Behind(b)'
  BY <1>1, Going DEF InstallerInv, Behind, Target, Request, Complete
<1>5. ASSUME ~overlap, NEW b \in Clients PROVE Undisturbed(b)'
  BY <1>1, <1>5, Going, AtWork DEF InstallerInv, Undisturbed, Target, Request
<1>6. ~overlap => Single'
  BY <1>1, Going, AtWork DEF InstallerInv, Single
<1> QED
  BY <1>2, <1>3, <1>4, <1>5, <1>6 DEF InstallerInv

\* An installation that ends leaves what it wrote, and no lock.
LEMMA GoesNot ==
  ASSUME InstallerInv, NEW c \in Clients, Ends(c),
         UNCHANGED <<env, db, deploy, lock, overlap>>
  PROVE  InstallerInv'
<1>1. TypesOK
  BY DEF InstallerInv
<1>2. TypesOK'
  BY <1>1, Ending DEF TypesOK
<1>3. RolesNeedSchema' /\ LockedIsWhole' /\ DeployOK'
  BY DEF InstallerInv, RolesNeedSchema, LockedIsWhole, DeployOK
<1>4. ASSUME NEW b \in Clients PROVE Behind(b)'
  BY <1>1, Ending DEF InstallerInv, Behind, Target, Request, Complete,
                      Configured, Migrated, Closing
<1>5. ASSUME ~overlap, NEW b \in Clients PROVE Undisturbed(b)'
  BY <1>1, <1>5, Ending DEF InstallerInv, Undisturbed, Target, Request,
                              Configured, Filled, Closing
<1>6. ~overlap => Single'
  BY <1>1, Ending DEF InstallerInv, Single
<1> QED
  BY <1>2, <1>3, <1>4, <1>5, <1>6 DEF InstallerInv

\* A step that writes to its database takes nothing from what others count on,
\* and has what its own next place demands.
More ==
  \A d \in Databases :
    /\ db[d].schema > 0 => db'[d].schema > 0
    /\ Complete(d) => Complete(d)'
    /\ db[d].role # "none" => db'[d].role # "none"
    /\ db[d].admin # None => db'[d].admin # None

LEMMA Adds ==
  ASSUME InstallerInv, NEW c \in Clients, job[c].step # "none",
         Ends(c) \/ \E s \in Steps : Goes(c, s),
         UNCHANGED <<env, lock, overlap>>,
         db' \in [Databases -> Contents], DeployOK', More, RolesNeedSchema',
         Behind(c)', ~overlap => Undisturbed(c)'
  PROVE  InstallerInv'
<1>1. TypesOK /\ job[c] # NoJob
  BY AtWork DEF InstallerInv
<1>2. /\ job' \in [Clients -> {NoJob} \cup
                      [step : Steps, wizard : Wizards, request : Forms]]
      /\ \A b \in Clients : b # c => job'[b] = job[b]
  BY <1>1, Going, Ending
<1>3. TypesOK'
  BY <1>1, <1>2 DEF TypesOK
<1>4. ASSUME NEW b \in Clients PROVE Behind(b)'
  <2>1. CASE b # c
    <3>1. job'[b] = job[b] /\ Behind(b)
      BY <1>2, <2>1 DEF InstallerInv
    <3>2. job[b].step \in Migrated \cup Closing => Request(b).db \in Databases
      BY <1>1, AtWork DEF Migrated, Closing, Forms
    <3> QED
      BY <3>1, <3>2 DEF Behind, Target, Request, More, Complete
  <2> QED
    BY <2>1
<1>5. ASSUME ~overlap PROVE Single' /\ lock = None /\ \A b \in Clients : Undisturbed(b)'
  <2>1. \A b \in Clients : b # c => job[b] = NoJob /\ job'[b] = NoJob
    BY <1>1, <1>2, <1>5 DEF InstallerInv, Single
  <2>2. \A b \in Clients : b # c => Undisturbed(b)'
    BY <2>1 DEF Undisturbed, NoJob, Configured, Filled, Closing
  <2>3. Single'
    BY <2>1 DEF Single
  <2>4. lock = None
    BY <1>1, <1>5 DEF InstallerInv, Undisturbed
  <2>5. Undisturbed(c)'
    BY <1>5
  <2>6. ASSUME NEW b \in Clients PROVE Undisturbed(b)'
    BY <2>2, <2>5
  <2> QED
    BY <2>3, <2>4, <2>6
<1>6. LockedIsWhole'
  <2>1. CASE lock = None
    BY <2>1 DEF LockedIsWhole
  <2>2. CASE lock # None
    <3>1. lock.db \in Databases /\ overlap
      BY <1>1, <1>5, <2>2 DEF TypesOK, Forms
    <3> QED
      BY <2>2, <3>1 DEF InstallerInv, LockedIsWhole, More, Complete
  <2> QED
    BY <2>1, <2>2
<1> QED
  BY <1>3, <1>4, <1>5, <1>6 DEF InstallerInv

\* What happens to the schema of a database while every installation stays where
\* it is.
LEMMA Shifts ==
  ASSUME InstallerInv, UNCHANGED <<env, job, lock, overlap>>,
         db' \in [Databases -> Contents], DeployOK', More,
         \A d \in Databases :
           db'[d].role = db[d].role /\ db'[d].admin = db[d].admin
  PROVE  InstallerInv'
<1>1. TypesOK
  BY DEF InstallerInv
<1>2. TypesOK'
  BY <1>1 DEF TypesOK
<1>3. RolesNeedSchema'
  BY DEF InstallerInv, RolesNeedSchema, More
<1>4. ASSUME NEW c \in Clients
      PROVE  Behind(c)' /\ (~overlap => Undisturbed(c)')
  <2>1. /\ Behind(c) /\ (~overlap => Undisturbed(c))
        /\ job[c].step # "none" => Request(c).db \in Databases
    BY <1>1, AtWork DEF InstallerInv, Forms
  <2>2. /\ UNCHANGED <<env, job, lock>>
        /\ Request(c)' = Request(c)
        /\ job[c].step # "none" => /\ Target(c)'.role = Target(c).role
                                   /\ Target(c)'.admin = Target(c).admin
                                   /\ Complete(Request(c).db) => Complete(Request(c).db)'
    BY <2>1 DEF Request, Target, More
  <2>3. Behind(c)'
    BY <2>1, <2>2 DEF Behind, Configured, Migrated, Closing
  <2>4. ~overlap => Undisturbed(c)'
    BY <2>1, <2>2 DEF Undisturbed, Configured, Filled, Closing
  <2> QED
    BY <2>3, <2>4
<1>5. ~overlap => Single'
  BY DEF InstallerInv, Single
<1>6. LockedIsWhole'
  <2>1. lock # None => lock.db \in Databases
    BY <1>1 DEF TypesOK, Forms
  <2> QED
    BY <2>1 DEF InstallerInv, LockedIsWhole, More, Complete
<1> QED
  BY <1>2, <1>3, <1>4, <1>5, <1>6 DEF InstallerInv

LEMMA MigrationsKeep ==
  ASSUME InstallerInv, NEW c \in Clients, RunMigrations(c)
  PROVE  InstallerInv'
<1>1. job[c].step = "migrations" /\ UNCHANGED <<env, db, lock, overlap>>
  BY DEF RunMigrations
<1>2. DeployOK /\ Request(c).db \in Databases
  BY <1>1, AtWork DEF InstallerInv, Forms
<1>3. CASE ~Request(c).schema
  <2>1. Goes(c, "roles") /\ DeployOK'
    BY <1>1, <1>2, <1>3 DEF RunMigrations, DeployOK
  <2> QED
    BY <1>1, <1>3, <2>1, GoesOn DEF Steps, Configured, Migrated, Filled, Closing
<1>4. CASE Request(c).schema
  <2>1. /\ Goes(c, "deploying") /\ ~Target(c).broken
        /\ deploy' = [deploy EXCEPT ![Request(c).db] = c]
    BY <1>1, <1>4 DEF RunMigrations
  <2>2. DeployOK'
    BY <1>1, <1>2, <2>1 DEF DeployOK, Target
  <2> QED
    BY <1>1, <2>1, <2>2, GoesOn DEF Steps, Configured, Migrated, Filled, Closing
<1> QED
  BY <1>3, <1>4

\* A migration more, a failed one resolved, or an interruption in the middle of
\* one: a schema that is complete stays so.
LEMMA SchemaKeeps ==
  ASSUME InstallerInv, NEW d \in Databases,
         \/ Apply(d) \/ Resolve(d)
         \/ Interrupt(d) /\ ~UNCHANGED db
  PROVE  InstallerInv'
<1>1. /\ TypesOK /\ DeployOK /\ db[d] \in Contents
      /\ db[d].schema \in 0..Migrations /\ db[d].broken \in BOOLEAN
      /\ Migrations \in Nat
  BY InstallerAssumption DEF InstallerInv, TypesOK, Contents
<1>2. UNCHANGED <<env, job, lock, overlap>>
  BY DEF Apply, Resolve, Interrupt
<1>3. PICK n \in 0..Migrations, x \in BOOLEAN :
        /\ db' = [db EXCEPT ![d].schema = n, ![d].broken = x]
        /\ db[d].schema <= n
        /\ Complete(d) => n = db[d].schema /\ ~x
        /\ deploy' \in [Databases -> Clients \cup {None}]
        /\ deploy'[d] # None => ~x
        /\ \A e \in Databases : e # d => deploy'[e] = deploy[e]
  <2>1. CASE Apply(d)
    <3>1. /\ db[d].schema + 1 \in 0..Migrations /\ db[d].schema <= db[d].schema + 1
          /\ ~Complete(d)
      BY <1>1, <2>1 DEF Apply, Complete
    <3>3. db' = [db EXCEPT ![d].schema = db[d].schema + 1, ![d].broken = db[d].broken]
      BY <1>1, <2>1 DEF Apply, Contents, TypesOK
    <3>2. db[d].broken \in BOOLEAN /\ deploy' = deploy /\ (deploy[d] # None => ~db[d].broken)
      BY <1>1, <2>1 DEF Apply, DeployOK, Contents
    <3> QED
      BY <1>1, <3>1, <3>2, <3>3 DEF DeployOK
  <2>2. CASE Resolve(d)
    <3>1. /\ db' = [db EXCEPT ![d].schema = db[d].schema, ![d].broken = FALSE]
          /\ deploy' = deploy
      BY <1>1, <2>2 DEF Resolve, Contents, TypesOK
    <3>2. db[d].schema <= db[d].schema
      BY <1>1
    <3> QED
      BY <1>1, <3>1, <3>2 DEF DeployOK
  <2>3. CASE Interrupt(d) /\ ~UNCHANGED db
    <3>1. PICK m \in 0..1 :
            /\ db' = [db EXCEPT ![d].broken = TRUE, ![d].schema = @ + m]
            /\ db[d].schema < Migrations
            /\ deploy' = [deploy EXCEPT ![d] = None]
      BY <2>3 DEF Interrupt
    <3>2. /\ db[d].schema + m \in 0..Migrations /\ db[d].schema <= db[d].schema + m
          /\ ~Complete(d)
      BY <1>1, <3>1 DEF Complete
    <3>3. db' = [db EXCEPT ![d].schema = db[d].schema + m, ![d].broken = TRUE]
      BY <1>1, <3>1 DEF Contents, TypesOK
    <3> QED
      BY <1>1, <3>1, <3>2, <3>3 DEF DeployOK
  <2> QED
    BY <2>1, <2>2, <2>3
<1>4. /\ db' \in [Databases -> Contents]
      /\ db'[d].schema = n /\ db'[d].broken = x
      /\ db'[d].role = db[d].role /\ db'[d].admin = db[d].admin
      /\ \A e \in Databases : e # d => db'[e] = db[e]
  BY <1>1, <1>3 DEF TypesOK, Contents
<1>5. DeployOK'
  BY <1>1, <1>3, <1>4 DEF DeployOK
<1>6. More
  <2>1. db[d].schema \in Nat /\ n \in Nat
    BY <1>1, InstallerAssumption DEF Contents
  <2> QED
    BY <1>3, <1>4, <2>1 DEF More, Complete
<1> QED
  BY <1>2, <1>4, <1>5, <1>6, Shifts

LEMMA RolesKeep ==
  ASSUME InstallerInv, NEW c \in Clients, SeedRoles(c)
  PROVE  InstallerInv'
<1>1. job[c].step = "roles" /\ UNCHANGED <<env, lock, overlap>>
  BY DEF SeedRoles
<1>2. CASE ~Request(c).roles
  <2>1. Goes(c, "administrator") /\ UNCHANGED <<db, deploy>>
    BY <1>2 DEF SeedRoles
  <2>2. DeployOK'
    BY <2>1 DEF InstallerInv, DeployOK
  <2> QED
    BY <1>1, <1>2, <2>1, <2>2, GoesOn DEF Steps, Configured, Migrated, Filled, Closing
<1>3. CASE Request(c).roles
  <2>1. /\ TypesOK /\ Behind(c) /\ (~overlap => Undisturbed(c))
        /\ Request(c).db \in Databases /\ Target(c) \in Contents
        /\ db[Request(c).db].schema > 0 /\ Goes(c, "firstadmin") /\ deploy' = deploy
    BY <1>1, <1>3, AtWork DEF InstallerInv, Forms, SeedRoles, Target
  <2>2. /\ db' \in [Databases -> Contents]
        /\ db'[Request(c).db].role = "full"
        /\ db'[Request(c).db].schema = db[Request(c).db].schema
        /\ db'[Request(c).db].broken = db[Request(c).db].broken
        /\ db'[Request(c).db].admin = db[Request(c).db].admin
        /\ \A d \in Databases : d # Request(c).db => db'[d] = db[d]
    BY <1>1, <1>3, <2>1, Writing DEF SeedRoles, Contents
  <2>3. job'[c].step = "firstadmin" /\ Request(c)' = Request(c) /\ job'[c] # NoJob
    BY <1>1, <2>1, Going DEF Request, Steps
  <2>4. More /\ RolesNeedSchema' /\ DeployOK'
    BY <1>1, <2>1, <2>2 DEF More, Complete, RolesNeedSchema, DeployOK, InstallerInv
  <2>5. Behind(c)' /\ (~overlap => Undisturbed(c)')
    BY <1>1, <2>1, <2>2, <2>3, AtWork
       DEF Behind, Undisturbed, Complete, Configured, Migrated, Filled, Closing, Target
  <2> QED
    BY <1>1, <2>1, <2>2, <2>4, <2>5, Adds DEF Steps
<1> QED
  BY <1>2, <1>3

\* An administrator's password is the client's, which is nobody's absence.
LEMMA AdminKeeps ==
  ASSUME InstallerInv, NEW c \in Clients, SeedAdmin(c) \/ CreateAdministrator(c)
  PROVE  InstallerInv'
<1> DEFINE s == IF job[c].step = "firstadmin" THEN "administrator" ELSE "revoke"
<1>1. /\ job[c].step \in {"firstadmin", "administrator"} /\ Goes(c, s)
      /\ UNCHANGED <<env, deploy, lock, overlap>>
      /\ job[c].step = "administrator" => Target(c).role # "none"
  BY DEF SeedAdmin, CreateAdministrator
<1>2. CASE db' = db /\ job[c].step = "firstadmin"
  <2>1. DeployOK'
    BY <1>1, <1>2 DEF InstallerInv, DeployOK
  <2> QED
    BY <1>1, <1>2, <2>1, GoesOn DEF Steps, Configured, Migrated, Filled, Closing
<1>3. CASE Writes(c, "admin", Request(c).password)
  <2>1. /\ TypesOK /\ Behind(c) /\ (~overlap => Undisturbed(c))
        /\ Request(c).db \in Databases /\ Target(c) \in Contents
        /\ Request(c).password \in Clients /\ Request(c).password # None
    BY <1>1, AtWork, InstallerAssumption DEF InstallerInv, Forms
  <2>2. /\ db' \in [Databases -> Contents]
        /\ db'[Request(c).db].admin = Request(c).password
        /\ db'[Request(c).db].schema = db[Request(c).db].schema
        /\ db'[Request(c).db].broken = db[Request(c).db].broken
        /\ db'[Request(c).db].role = db[Request(c).db].role
        /\ \A d \in Databases : d # Request(c).db => db'[d] = db[d]
    <3>1. [Target(c) EXCEPT !["admin"] = Request(c).password] \in Contents
      BY <2>1 DEF Contents
    <3> QED
      BY <1>1, <1>3, <2>1, <3>1, Writing
  <2>3. job'[c].step = s /\ Request(c)' = Request(c) /\ job'[c] # NoJob
    BY <1>1, <2>1, Going DEF Request, Steps
  <2>4. More /\ RolesNeedSchema' /\ DeployOK'
    BY <1>1, <2>1, <2>2 DEF More, Complete, RolesNeedSchema, DeployOK, InstallerInv
  <2>5. Behind(c)' /\ (~overlap => Undisturbed(c)')
    BY <1>1, <2>1, <2>2, <2>3, AtWork
       DEF Behind, Undisturbed, Complete, Configured, Migrated, Filled, Closing, Target
  <2>6. \E n \in Steps : Goes(c, n)
    BY <1>1 DEF Steps
  <2> QED
    BY <1>1, <2>1, <2>2, <2>4, <2>5, <2>6, Adds
<1> QED
  BY <1>2, <1>3 DEF SeedAdmin, CreateAdministrator

\* From here on .env names the database of this installation; another one may
\* write it again, but then they overlap.
LEMMA ConfigurationKeeps ==
  ASSUME InstallerInv, NEW c \in Clients, WriteConfiguration(c)
  PROVE  InstallerInv'
<1>1. /\ job[c].step = "configuration" /\ Goes(c, "migrations")
      /\ env' = Request(c).db /\ UNCHANGED <<db, deploy, lock, overlap>>
  BY DEF WriteConfiguration, FileFor
<1>2. /\ TypesOK /\ job[c] # NoJob /\ Request(c).db \in Databases
      /\ (~overlap => Undisturbed(c))
  BY <1>1, AtWork DEF InstallerInv, Forms
<1>3. /\ job' \in [Clients -> {NoJob} \cup
                      [step : Steps, wizard : Wizards, request : Forms]]
      /\ job'[c].step = "migrations" /\ Request(c)' = Request(c)
      /\ job'[c] # NoJob
      /\ \A b \in Clients : b # c => job'[b] = job[b]
  BY <1>1, <1>2, Going DEF Steps, Request
<1>4. TypesOK'
  BY <1>1, <1>2, <1>3 DEF TypesOK
<1>5. ASSUME NEW b \in Clients PROVE Behind(b)'
  <2>1. env' # None
    BY <1>1, <1>2, InstallerAssumption
  <2>2. CASE b = c
    BY <1>3, <2>1, <2>2 DEF Behind, Migrated, Closing
  <2>3. CASE b # c
    BY <1>1, <1>3, <2>1, <2>3 DEF InstallerInv, Behind, Target, Request, Complete
  <2> QED
    BY <2>2, <2>3
<1>6. ASSUME ~overlap PROVE lock = None /\ Single' /\ \A b \in Clients : Undisturbed(b)'
  <2>1. \A b \in Clients : b # c => job[b] = NoJob /\ job'[b] = NoJob
    BY <1>2, <1>3, <1>6 DEF InstallerInv, Single
  <2>2. lock = None
    BY <1>2, <1>6 DEF Undisturbed
  <2>3. ASSUME NEW b \in Clients PROVE Undisturbed(b)'
    <3>1. CASE b = c
      BY <1>1, <1>3, <2>2, <3>1 DEF Undisturbed, Filled, Closing
    <3>2. CASE b # c
      BY <2>1, <3>2 DEF Undisturbed, NoJob, Configured, Filled, Closing
    <3> QED
      BY <3>1, <3>2
  <2> QED
    BY <2>1, <2>2, <2>3 DEF Single
<1>7. RolesNeedSchema' /\ LockedIsWhole' /\ DeployOK'
  BY <1>1, <1>2, <1>6, InstallerAssumption
     DEF InstallerInv, RolesNeedSchema, LockedIsWhole, DeployOK
<1> QED
  BY <1>1, <1>4, <1>5, <1>6, <1>7 DEF InstallerInv

\* By now everything is there.
LEMMA LockKeeps ==
  ASSUME InstallerInv, NEW c \in Clients, Lock(c)
  PROVE  InstallerInv'
<1>1. /\ job[c].step = "lock" /\ Ends(c) /\ UNCHANGED <<env, db, deploy, overlap>>
      /\ lock' \in {Request(c)} \cup ({lock} \ {None})
  BY DEF Lock
<1>2. /\ TypesOK /\ job[c] # NoJob /\ Request(c) \in Forms
      /\ Request(c).db \in Databases
      /\ Behind(c) /\ (~overlap => Undisturbed(c))
  BY <1>1, AtWork DEF InstallerInv, Forms
<1>3. /\ job' \in [Clients -> {NoJob} \cup
                      [step : Steps, wizard : Wizards, request : Forms]]
      /\ job'[c] = NoJob /\ NoJob.step = "none"
      /\ \A b \in Clients : b # c => job'[b] = job[b]
  BY <1>1, <1>2, Ending
<1>4. TypesOK'
  BY <1>1, <1>2, <1>3 DEF TypesOK
<1>5. ASSUME NEW b \in Clients PROVE Behind(b)'
  BY <1>1, <1>3 DEF InstallerInv, Behind, Target, Request, Complete,
                    Configured, Migrated, Closing
<1>6. ASSUME ~overlap PROVE lock' = Request(c) /\ \A b \in Clients : job'[b] = NoJob
  BY <1>1, <1>2, <1>3, <1>6 DEF InstallerInv, Single, Undisturbed
<1>7. ~overlap => Single' /\ \A b \in Clients : Undisturbed(b)'
  BY <1>3, <1>6 DEF Single, Undisturbed, Configured, Filled, Closing
<1>8. LockedIsWhole'
  <2>1. /\ env # None /\ Target(c).role # "none" /\ Target(c).admin # None
        /\ Target(c).schema > 0 /\ (Request(c).schema => Complete(Request(c).db))
    BY <1>1, <1>2
       DEF Behind, Configured, Migrated, Closing, InstallerInv, RolesNeedSchema, Target
  <2>2. ~overlap => /\ env = Request(c).db /\ Target(c).admin = Request(c).password
                    /\ Request(c).roles => Target(c).role = "full"
    BY <1>1, <1>2 DEF Undisturbed, Configured, Filled, Closing
  <2>3. CASE lock' = Request(c)
    BY <1>1, <2>1, <2>2, <2>3 DEF LockedIsWhole, Target, Complete
  <2>4. CASE lock' = lock /\ lock # None /\ overlap
    BY <1>1, <2>4 DEF LockedIsWhole, InstallerInv
  <2> QED
    BY <1>1, <1>6, <2>3, <2>4
<1>9. RolesNeedSchema' /\ DeployOK'
  BY <1>1 DEF InstallerInv, RolesNeedSchema, DeployOK
<1> QED
  BY <1>1, <1>4, <1>5, <1>7, <1>8, <1>9 DEF InstallerInv

\* A step that fails may have half done its work.
LEMMA FailKeeps ==
  ASSUME InstallerInv, NEW c \in Clients, StepFails(c)
  PROVE  InstallerInv'
<1>1. job[c] # NoJob /\ Ends(c) /\ UNCHANGED <<env, deploy, lock, overlap>>
  BY DEF StepFails
<1>2. TypesOK
  BY DEF InstallerInv
<1>3. CASE UNCHANGED db
  BY <1>1, <1>3, GoesNot
<1>4. CASE job[c].step = "roles" /\ Target(c).schema > 0 /\ Writes(c, "role", "bare")
  <2>1. job'[c] = NoJob /\ NoJob.step = "none"
    BY <1>1, <1>2, Ending
  <2>2. Behind(c)' /\ Undisturbed(c)'
    BY <2>1 DEF Behind, Undisturbed, Configured, Migrated, Filled, Closing
  <2>3. Request(c).db \in Databases /\ Target(c) \in Contents
    BY <1>2, <1>4, AtWork DEF Forms
  <2>4. /\ db' \in [Databases -> Contents]
        /\ db'[Request(c).db].role = "bare"
        /\ db'[Request(c).db].schema = db[Request(c).db].schema
        /\ db'[Request(c).db].broken = db[Request(c).db].broken
        /\ db'[Request(c).db].admin = db[Request(c).db].admin
        /\ \A d \in Databases : d # Request(c).db => db'[d] = db[d]
    <3>1. [Target(c) EXCEPT !["role"] = "bare"] \in Contents
      BY <2>3 DEF Contents
    <3> QED
      BY <1>2, <1>4, <3>1, Writing
  <2>5. More /\ RolesNeedSchema' /\ DeployOK'
    BY <1>1, <1>4, <2>3, <2>4
       DEF More, Complete, RolesNeedSchema, DeployOK, InstallerInv, Target
  <2> QED
    BY <1>1, <1>4, <2>2, <2>4, <2>5, Adds
<1> QED
  BY <1>3, <1>4 DEF StepFails

---------------------------------------------------------------------------
(* The steps of the wizards, and the theorem.                              *)

\* A new installation has nothing behind it; it is alone or they overlap.
LEMMA SubmitKeeps ==
  ASSUME InstallerInv, NEW c \in Clients, NEW w \in Wizards,
         NEW request \in Requests(c), Submit(c, w, request)
  PROVE  InstallerInv'
<1> DEFINE alone == \A b \in Clients : job[b] = NoJob
           new   == [step |-> "assert", wizard |-> w, request |-> request]
<1>1. /\ lock = None /\ job' = [job EXCEPT ![c] = new]
      /\ overlap' = (overlap \/ ~alone) /\ UNCHANGED <<env, db, deploy, lock>>
  BY DEF Submit
<1>2. TypesOK /\ new \in [step : Steps, wizard : Wizards, request : Forms]
  BY DEF InstallerInv, Requests, Forms, Steps
<1>3. /\ job' \in [Clients -> {NoJob} \cup
                      [step : Steps, wizard : Wizards, request : Forms]]
      /\ job'[c].step = "assert"
      /\ \A b \in Clients : b # c => job'[b] = job[b]
  BY <1>1, <1>2 DEF TypesOK
<1>4. TypesOK'
  <2>1. overlap' \in BOOLEAN
    BY <1>1
  <2> QED
    BY <1>1, <1>2, <1>3, <2>1 DEF TypesOK
<1>5. ASSUME NEW b \in Clients PROVE Behind(b)'
  BY <1>1, <1>3 DEF InstallerInv, Behind, Target, Request, Complete,
                    Configured, Migrated, Closing
<1>6. ASSUME ~overlap' PROVE Single' /\ \A b \in Clients : Undisturbed(b)'
  <2>1. \A b \in Clients : b # c => job'[b] = NoJob
    BY <1>1, <1>3, <1>6
  <2>2. lock' = None
    BY <1>1
  <2> QED
    BY <1>3, <2>1, <2>2
       DEF Single, Undisturbed, NoJob, Configured, Filled, Closing
<1>7. RolesNeedSchema' /\ LockedIsWhole' /\ DeployOK'
  BY <1>1 DEF InstallerInv, RolesNeedSchema, LockedIsWhole, DeployOK
<1> QED
  BY <1>4, <1>5, <1>6, <1>7 DEF InstallerInv

\* Installations that end with their wizard, a lock that is taken away, or a
\* deployment that ends unattended, leave the rest as it is.
LEMMA LessKeeps ==
  ASSUME InstallerInv, UNCHANGED <<env, db, overlap>>, DeployOK',
         lock' = lock \/ lock' = None,
         \/ job' = job
         \/ \E w \in Wizards :
              job' = [c \in Clients |->
                IF job[c] # NoJob /\ job[c].wizard = w THEN NoJob ELSE job[c]]
  PROVE  InstallerInv'
<1>1. TypesOK
  BY DEF InstallerInv
<1>2. \A c \in Clients : job'[c] = job[c] \/ job'[c] = NoJob
  BY <1>1 DEF TypesOK
<1>3. TypesOK'
  BY <1>1 DEF TypesOK
<1>4. ASSUME NEW b \in Clients PROVE Behind(b)'
  BY <1>2 DEF InstallerInv, Behind, Target, Request, Complete, NoJob,
              Configured, Migrated, Closing
<1>5. ASSUME ~overlap, NEW b \in Clients PROVE Undisturbed(b)'
  BY <1>2, <1>5 DEF InstallerInv, Undisturbed, Target, Request, NoJob,
                    Configured, Filled, Closing
<1>6. ~overlap => Single'
  BY <1>2 DEF InstallerInv, Single
<1>7. RolesNeedSchema' /\ LockedIsWhole'
  BY DEF InstallerInv, RolesNeedSchema, LockedIsWhole
<1> QED
  BY <1>3, <1>4, <1>5, <1>6, <1>7 DEF InstallerInv

LEMMA UnattendedKeeps ==
  ASSUME InstallerInv, NEW d \in Databases,
         \/ Interrupt(d) /\ UNCHANGED db
         \/ DeployEnds(d) /\ UNCHANGED job
  PROVE  InstallerInv'
<1>1. /\ UNCHANGED <<env, db, job, lock, overlap>>
      /\ deploy' = [deploy EXCEPT ![d] = None]
  BY DEF Interrupt, DeployEnds
<1>2. DeployOK'
  BY <1>1 DEF InstallerInv, DeployOK
<1> QED
  BY <1>1, <1>2, LessKeeps

\* The exit of a deployment someone waits for: all is applied and none has failed.
LEMMA DeployEndsKeeps ==
  ASSUME InstallerInv, NEW d \in Databases, DeployEnds(d), ~UNCHANGED job
  PROVE  InstallerInv'
<1> DEFINE c == deploy[d]
<1>1. TypesOK /\ DeployOK /\ c \in Clients
  BY DEF InstallerInv, DeployEnds, DeployOK
<1>2. /\ UNCHANGED <<env, db, lock, overlap>>
      /\ deploy' = [deploy EXCEPT ![d] = None]
      /\ job[c].step = "deploying" /\ Request(c).db = d /\ Goes(c, "roles")
  BY DEF DeployEnds
<1>3. Complete(Request(c).db) /\ DeployOK'
  BY <1>1, <1>2 DEF Complete, DeployOK, DeployEnds
<1> HIDE DEF c
<1> QED
  BY <1>1, <1>2, <1>3, GoesOn DEF Steps, Configured, Migrated, Filled, Closing

LEMMA ProceedKeeps ==
  ASSUME InstallerInv, NEW c \in Clients, Proceed(c)
  PROVE  InstallerInv'
<1>1. CASE AssertNotInstalled(c) \/ VerifyDatabase(c) \/ RevokeToken(c)
  <2>1. UNCHANGED <<env, db, deploy, lock, overlap>> /\ DeployOK'
    BY <1>1 DEF AssertNotInstalled, VerifyDatabase, RevokeToken, InstallerInv, DeployOK
  <2> QED
    BY <1>1, <2>1, GoesOn, GoesNot
       DEF AssertNotInstalled, VerifyDatabase, RevokeToken,
           Steps, Configured, Migrated, Filled, Closing
<1>2. CASE GiveUp(c)
  BY <1>2, GoesNot DEF GiveUp
<1>3. CASE WriteConfiguration(c) \/ RunMigrations(c) \/ SeedRoles(c) \/ SeedAdmin(c)
             \/ CreateAdministrator(c) \/ Lock(c)
  BY <1>3, ConfigurationKeeps, MigrationsKeep, RolesKeep, AdminKeeps, LockKeeps
<1> QED
  BY <1>1, <1>2, <1>3 DEF Proceed

LEMMA InstallerInit == Init => InstallerInv
<1> SUFFICES ASSUME Init PROVE InstallerInv
  OBVIOUS
<1>1. TypesOK
  <2>1. 0 \in 0..Migrations
    BY InstallerAssumption
  <2>2. [schema |-> 0, broken |-> FALSE, role |-> "none", admin |-> None] \in Contents
    BY <2>1 DEF Contents
  <2> QED
    BY <2>2 DEF Init, TypesOK
<1>2. NoJob.step = "none" /\ \A c \in Clients : job[c] = NoJob
  BY DEF Init, NoJob
<1>3. \A c \in Clients : Behind(c) /\ Undisturbed(c)
  BY <1>2 DEF Behind, Undisturbed, Configured, Migrated, Filled, Closing
<1>4. Single /\ RolesNeedSchema /\ LockedIsWhole /\ DeployOK
  BY <1>2 DEF Init, Single, RolesNeedSchema, LockedIsWhole, DeployOK
<1> QED
  BY <1>1, <1>3, <1>4 DEF InstallerInv

LEMMA InstallerNext == InstallerInv /\ [Next]_vars => InstallerInv'
<1> SUFFICES ASSUME InstallerInv, [Next]_vars PROVE InstallerInv'
  OBVIOUS
<1>1. CASE Reopen \/ UNCHANGED vars
  <2>1. UNCHANGED <<db, deploy>> /\ DeployOK'
    BY <1>1 DEF Reopen, vars, InstallerInv, DeployOK
  <2> QED
    BY <1>1, <2>1, LessKeeps DEF Reopen, vars
<1>2. ASSUME NEW w \in Wizards, Start(w) \/ IssueToken(w) \/ Stop(w) \/ Die(w)
      PROVE  InstallerInv'
  <2>1. UNCHANGED <<db, deploy>> /\ DeployOK'
    BY <1>2 DEF Start, IssueToken, Stop, Die, InstallerInv, DeployOK
  <2> QED
    BY <1>2, <2>1, LessKeeps DEF Start, IssueToken, Stop, Die
<1>3. ASSUME NEW c \in Clients, Proceed(c) \/ StepFails(c)
      PROVE  InstallerInv'
  BY <1>3, ProceedKeeps, FailKeeps
<1>4. ASSUME NEW c \in Clients, NEW w \in Wizards, NEW request \in Requests(c),
             Submit(c, w, request)
      PROVE  InstallerInv'
  BY <1>4, SubmitKeeps
<1>5. ASSUME NEW d \in Databases,
             Apply(d) \/ DeployEnds(d) \/ Interrupt(d) \/ Resolve(d)
      PROVE  InstallerInv'
  <2>1. CASE Apply(d)
    BY ONLY <2>1, SchemaKeeps, InstallerInv, d \in Databases
  <2>4. CASE Resolve(d)
    BY ONLY <2>4, SchemaKeeps, InstallerInv, d \in Databases
  <2>2. CASE Interrupt(d)
    BY <2>2, SchemaKeeps, UnattendedKeeps
  <2>3. CASE DeployEnds(d)
    BY <2>3, UnattendedKeeps, DeployEndsKeeps
  <2> QED
    BY <1>5, <2>1, <2>2, <2>3, <2>4
<1> QED
  BY <1>1, <1>2, <1>3, <1>4, <1>5 DEF Next

\* However the installations before it ended, the one that locks has its schema,
\* its role and an administrator behind it, and, where none ever overlapped, the
\* very database and password it was asked for.
THEOREM LockedHolds == Spec => []LockedIsWhole
<1>1. InstallerInv => LockedIsWhole
  BY DEF InstallerInv
<1> QED
  BY <1>1, InstallerInit, InstallerNext, PTL DEF Spec
=============================================================================
