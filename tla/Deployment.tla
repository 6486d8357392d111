----------------------------- MODULE Deployment -----------------------------
(***************************************************************************)
(* Deploying the estimate service: scripts/start_results.sh, which prepares*)
(* credentials, migrates the database (scripts/bootstrap_results.py,       *)
(* Database.migrate), builds the image and recreates the containers; the   *)
(* dart-migrate command, which may run beside it; and the queue between    *)
(* the API and the worker, which are recreated one after the other.  Any   *)
(* of them may die between two steps.                                      *)
(***************************************************************************)
EXTENDS Integers, Sequences, FiniteSetsExt, Functions, TLC

CONSTANTS
  Migrator,      \* runs of dart-migrate
  Script,        \* the process that runs start_results.sh
  Release,       \* releases of the source, numbered
  Scripts,       \* Scripts[r]: how many migrations release r has
  Profiles,      \* Profiles[r]: [name and version -> definition]
  Supplied,      \* the password of the secrets file; 0: it has none
  MaxCrashes,    \* bound: processes that die
  MaxJobs,       \* bound: jobs submitted
  None

Session == Migrator \union {Script}

ASSUME DeploymentAssumption ==
  /\ Script \notin Migrator /\ None \notin Session
  /\ Release \subseteq Nat \ {0} /\ Scripts \in [Release -> Nat \ {0}]
  /\ Supplied \in {0, 1} /\ MaxCrashes \in Nat /\ MaxJobs \in Nat

VARIABLES
  file,      \* the password in the runtime file; 0: it has none
  drawn,     \* passwords drawn so far
  schema,    \* the migrations executed, in order
  stored,    \* [name and version -> definition] of the profile tables
  lock,      \* who holds the advisory lock
  role,      \* the password of dart_app; 0: no such role
  image,     \* the release in dart-estimates:local; 0: none
  api, worker,  \* containers: their release (0: none) and their password
  session,   \* where each migrating process is
  queue,     \* the jobs submitted: release of the API that wrote them, status
  crashes

database == <<schema, stored, lock, role>>
services == <<image, api, worker>>
deploymentVars == <<file, drawn, database, services, session, queue, crashes>>

Idle == [at |-> "idle", release |-> 0, password |-> 0, again |-> FALSE,
         todo |-> {}, ran |-> <<>>]
Stopped == [release |-> 0, password |-> 0]

DeploymentInit ==
  /\ file = 0 /\ drawn = Supplied
  /\ schema = <<>> /\ stored = [p \in {} |-> None] /\ lock = None /\ role = 0
  /\ image = 0 /\ api = Stopped /\ worker = Stopped
  /\ session = [m \in Session |-> Idle]
  /\ queue = <<>> /\ crashes = 0

At(m, step) == session[m].at = step
Running(m) == session[m].at \notin {"idle", "done"}
Goto(m, step) == session' = [session EXCEPT ![m].at = step]

-----------------------------------------------------------------------------
(* prepare, which start_results.sh calls twice: with --prepare-only for     *)
(* compose, and again before it migrates.                                   *)

(* Releases are deployed in order. *)
RunScript(r) ==
  /\ ~Running(Script) /\ image <= r
  /\ session' = [session EXCEPT ![Script] =
                   [Idle EXCEPT !.at = "prepare", !.release = r]]
  /\ UNCHANGED <<file, drawn, database, services, queue, crashes>>

(* The password of the file, of the secrets, or a new one; then the file is *)
(* opened with O_TRUNC.                                                     *)
OpenRuntimeFile ==
  /\ At(Script, "prepare")
  /\ LET fresh == file = 0 /\ Supplied = 0
         password == CASE file # 0 -> file [] fresh -> drawn + 1 [] OTHER -> Supplied
     IN  /\ drawn' = IF fresh THEN drawn + 1 ELSE drawn
         /\ session' = [session EXCEPT ![Script].at = "writing",
                                       ![Script].password = password]
  /\ file' = 0
  /\ UNCHANGED <<database, services, queue, crashes>>

WriteRuntimeFile ==
  /\ At(Script, "writing")
  /\ file' = session[Script].password
  /\ session' = [session EXCEPT ![Script].at = IF session[Script].again THEN "migrate" ELSE "prepare",
                                ![Script].again = TRUE]
  /\ UNCHANGED <<drawn, database, services, queue, crashes>>

-----------------------------------------------------------------------------
(* migrate: one transaction, whose effects the others see when it commits. *)

RunMigrator(m, r) ==
  /\ m \in Migrator /\ At(m, "idle")
  /\ session' = [session EXCEPT ![m] = [Idle EXCEPT !.at = "migrate", !.release = r]]
  /\ UNCHANGED <<file, drawn, database, services, queue, crashes>>

(* Mutant: what has been applied is looked up before the lock is taken.     *)
LockLate(m) ==
  /\ At(m, "migrate")
  /\ UNCHANGED lock
  /\ Goto(m, "locked")
  /\ UNCHANGED <<file, drawn, schema, stored, role, services, queue, crashes>>

(* pg_advisory_xact_lock, held until the transaction ends *)
Lock(m) ==
  /\ At(m, "migrate")
  /\ lock = None
  /\ lock' = m
  /\ Goto(m, "locked")
  /\ UNCHANGED <<file, drawn, schema, stored, role, services, queue, crashes>>

Unlocked(m) == IF lock = m THEN None ELSE lock

(* SELECT version FROM schema_migrations *)
ReadApplied(m) ==
  /\ At(m, "locked")
  /\ session' = [session EXCEPT ![m].at = "applying",
                   ![m].todo = (1..Scripts[session[m].release]) \ Range(schema)]
  /\ UNCHANGED <<file, drawn, database, services, queue, crashes>>

(* The scripts are sorted by name. *)
ApplyScript(m) ==
  /\ At(m, "applying")
  /\ LET todo == session[m].todo IN
     IF todo = {} THEN Goto(m, "seeding")
     ELSE session' = [session EXCEPT ![m].todo = @ \ {Min(todo)},
                                     ![m].ran = Append(@, Min(todo))]
  /\ UNCHANGED <<file, drawn, database, services, queue, crashes>>

(* What is stored with the profiles that are not there yet.                 *)
Seeded(mine) ==
  [p \in DOMAIN stored \cup DOMAIN mine |->
     IF p \in DOMAIN stored THEN stored[p] ELSE mine[p]]

(* Mutant: a profile that is there is overwritten.                          *)
SeedOver(m) ==
  LET mine == Profiles[session[m].release] IN
  /\ At(m, "seeding")
  /\ schema' = schema \o session[m].ran
  /\ stored' = mine @@ stored
  /\ Goto(m, IF m = Script THEN "roles" ELSE "idle")
  /\ lock' = Unlocked(m)
  /\ UNCHANGED <<file, drawn, role, services, queue, crashes>>

(* Mutant: start_results.sh goes on when a command has failed.              *)
SeedRegardless(m) ==
  LET mine == Profiles[session[m].release]
      changed == {p \in DOMAIN mine \cap DOMAIN stored : mine[p] # stored[p]}
  IN
  /\ At(m, "seeding")
  /\ IF changed = {}
     THEN schema' = schema \o session[m].ran /\ stored' = Seeded(mine)
     ELSE UNCHANGED <<schema, stored>>
  /\ Goto(m, IF m = Script THEN "roles" ELSE "idle")
  /\ lock' = Unlocked(m)
  /\ UNCHANGED <<file, drawn, role, services, queue, crashes>>

(* _seed_profiles: insert what is not there, raise if a definition differs, *)
(* and with the exception everything is rolled back; else commit.           *)
Seed(m) ==
  LET mine == Profiles[session[m].release]
      changed == {p \in DOMAIN mine \cap DOMAIN stored : mine[p] # stored[p]}
  IN
  /\ At(m, "seeding")
  /\ IF changed = {}
     THEN /\ schema' = schema \o session[m].ran
          /\ stored' = Seeded(mine)
          /\ session' = [session EXCEPT
               ![m] = IF m = Script THEN [@ EXCEPT !.at = "roles"] ELSE Idle]
     ELSE /\ session' = [session EXCEPT ![m] = Idle]
          /\ UNCHANGED <<schema, stored>>
  /\ lock' = Unlocked(m)
  /\ UNCHANGED <<file, drawn, role, services, queue, crashes>>

-----------------------------------------------------------------------------
(* The rest of start_results.sh.                                           *)

(* bootstrap's second transaction: roles, passwords and grants *)
SetRoles ==
  /\ At(Script, "roles")
  /\ role' = session[Script].password
  /\ Goto(Script, "build")
  /\ UNCHANGED <<file, drawn, schema, stored, lock, services, queue, crashes>>

Build ==
  /\ At(Script, "build")
  /\ image' = session[Script].release
  /\ Goto(Script, "up_api")
  /\ UNCHANGED <<file, drawn, database, api, worker, queue, crashes>>

(* docker compose up: containers whose image or environment changed are     *)
(* recreated, one after the other.                                          *)
Container == [release |-> image, password |-> file]

UpApi ==
  /\ At(Script, "up_api")
  /\ api' = Container
  /\ Goto(Script, "up_worker")
  /\ UNCHANGED <<file, drawn, database, image, worker, queue, crashes>>

UpWorker ==
  /\ At(Script, "up_worker")
  /\ worker' = Container
  /\ session' = [session EXCEPT ![Script] = [Idle EXCEPT !.at = "done"]]
  /\ UNCHANGED <<file, drawn, database, image, api, queue, crashes>>

(* A process dies: PostgreSQL rolls its transaction back and frees the lock.*)
Crash(m) ==
  /\ Running(m) /\ crashes < MaxCrashes
  /\ crashes' = crashes + 1
  /\ session' = [session EXCEPT ![m] = Idle]
  /\ lock' = Unlocked(m)
  /\ UNCHANGED <<file, drawn, schema, stored, role, services, queue>>

-----------------------------------------------------------------------------
(* The queue, as far as releases matter to it.                             *)

(* submit_estimate stores the configuration as the API's models write it. A *)
(* pool that is connected outlives a change of the password.                *)
Submit ==
  /\ api.release # 0 /\ Len(queue) < MaxJobs
  /\ queue' = Append(queue, [written |-> api.release, status |-> "queued"])
  /\ UNCHANGED <<file, drawn, database, services, session, crashes>>

(* StrictModel forbids fields it does not know; fields it misses have       *)
(* defaults.                                                                *)
Readable(job) == job.written <= worker.release

Queued == {i \in DOMAIN queue : queue[i].status = "queued"}
Oldest(S) == CHOOSE i \in S : \A k \in S : i <= k

(* Mutant: a job the worker cannot read fails for good.                     *)
ClaimOrFail ==
  /\ worker.release # 0 /\ worker.password = role
  /\ Queued # {}
  /\ queue' = [queue EXCEPT ![Oldest(Queued)].status =
                 IF Readable(queue[Oldest(Queued)]) THEN "claimed" ELSE "failed"]
  /\ UNCHANGED <<file, drawn, database, services, session, crashes>>

(* claim_job: the oldest, and its configuration is validated before the     *)
(* transaction commits; if it cannot be, the job stays the oldest.          *)
Claim ==
  /\ worker.release # 0 /\ worker.password = role
  /\ Queued # {} /\ Readable(queue[Oldest(Queued)])
  /\ queue' = [queue EXCEPT ![Oldest(Queued)].status = "claimed"]
  /\ UNCHANGED <<file, drawn, database, services, session, crashes>>

-----------------------------------------------------------------------------
MigrationStep(m) == Lock(m) \/ ReadApplied(m) \/ ApplyScript(m) \/ Seed(m)
ScriptStep ==
  \/ OpenRuntimeFile \/ WriteRuntimeFile
  \/ SetRoles \/ Build \/ UpApi \/ UpWorker

DeploymentNext ==
  \/ \E m \in Session : MigrationStep(m) \/ Crash(m)
  \/ \E m \in Migrator, r \in Release : RunMigrator(m, r)
  \/ \E r \in Release : RunScript(r)
  \/ ScriptStep \/ Submit \/ Claim

(* Processes that run go on, a waiting one gets the lock in the end, and an *)
(* operator whose deployment failed tries again, also with another release. *)
DeploymentSpec ==
  /\ DeploymentInit /\ [][DeploymentNext]_deploymentVars
  /\ \A m \in Session :
       /\ SF_deploymentVars(Lock(m))
       /\ WF_deploymentVars(ReadApplied(m) \/ ApplyScript(m) \/ Seed(m))
  /\ WF_deploymentVars(ScriptStep)
  /\ \A r \in Release : SF_deploymentVars(RunScript(r))
  /\ WF_deploymentVars(Claim)

-----------------------------------------------------------------------------
(* Properties                                                              *)

(* However many processes migrate at once and wherever they die, every      *)
(* migration has run once, in order, and none is missing before a later one.*)
MigrationsRunOnce == schema = [i \in 1..Len(schema) |-> i]

(* A profile version keeps the definition that estimates refer to.          *)
ProfilesKeepTheirMeaning ==
  [][\A p \in DOMAIN stored : p \in DOMAIN stored' /\ stored'[p] = stored[p]]_deploymentVars

(* No container runs a release whose migrations are not in the database or  *)
(* whose profiles have another definition there, though the image is shared *)
(* by every run of the script and a failed run leaves the old containers.   *)
ServicesFitTheDatabase ==
  \A c \in {api, worker} :
    c.release # 0 =>
      /\ Scripts[c.release] <= Len(schema)
      /\ \A p \in DOMAIN Profiles[c.release] :
           p \in DOMAIN stored /\ stored[p] = Profiles[c.release][p]

(* After a deployment that succeeded the containers hold the password of    *)
(* the role, which is the one in the runtime file, whatever earlier runs    *)
(* left of that file.                                                       *)
CredentialsAgree ==
  At(Script, "done") =>
    /\ api.password = role /\ worker.password = role /\ file = role /\ role # 0

(* A job is claimed in the end, although between the recreation of the API  *)
(* and that of the worker the oldest job may be one the worker cannot read, *)
(* which stops the whole queue.                                             *)
Claimed == {i \in DOMAIN queue : queue[i].status = "claimed"}
QueueMoves == \A i \in 1..MaxJobs : (i \in Queued) ~> (i \in Claimed)

(* Whatever a deployment leaves running fits what it leaves in the database.*)
ServicesAgree == ServicesFitTheDatabase /\ CredentialsAgree
=============================================================================
