---------------------------- MODULE EstimateQueue ----------------------------
(***************************************************************************)
(* The lease-fenced work queue of the estimate service,                    *)
(* dart/service/database.py over the tables of dart/service/migrations.    *)
(*                                                                         *)
(* Every public method of Database is one PostgreSQL transaction that      *)
(* locks the job row it decides about (FOR UPDATE, or the insert itself),  *)
(* so each is one action here.  Workers are not modelled in this module:   *)
(* whoever was ever handed a claim may use it at any later moment, in any  *)
(* order and any number of times.  That is the most general client, and it *)
(* includes the worker that stalled past its lease, the one that restarted *)
(* under the same worker ID and the heartbeat thread that outlived its     *)
(* job.  EstimateWorker restricts it to what worker.py does.               *)
(***************************************************************************)
EXTENDS Integers, FiniteSets

CONSTANTS
  Job,          \* the jobs that can be submitted (rows of jobs/estimates)
  WorkerId,     \* the values of settings.worker_id
  NoOne,        \* lease_owner IS NULL
  MaxAttempts,  \* settings.max_attempts, stored in the job row
  LeaseTicks,   \* settings.lease_seconds, in clock ticks
  BackoffTicks  \* BackoffTicks[n]: the retry delay after attempt n, in ticks

ASSUME ConstantsAssumption ==
  /\ MaxAttempts \in Nat \ {0}
  /\ LeaseTicks \in Nat \ {0}
  /\ BackoffTicks \in [1 .. MaxAttempts -> Nat]
  /\ NoOne \notin WorkerId

VARIABLES
  jobs,       \* the jobs table, one row per job
  runs,       \* the job_runs table: runs[j][n] is the status of attempt n
  estimates,  \* the estimates row and the rows that reference it
  claims      \* every ClaimedJob a claim_job call has returned

vars == <<jobs, runs, estimates, claims>>

Terminal   == {"succeeded", "failed", "canceled"}
Executing  == {"resolving_inputs", "loading_telemetry", "running"}
Attempt    == 1 .. MaxAttempts
RunStatus  == {"none", "running"} \cup Terminal
JobError   == {"none", "lease_expired", "attempt_failed", "optimizer_failed"}

(* lease_expires_at minus the clock; NoLease stands for NULL, which no      *)
(* comparison of the SQL accepts.                                           *)
NoLease == -1

Claim == [job : Job, attempt : Attempt, worker : WorkerId]

JobRow ==
  [status : {"absent", "queued"} \cup Executing \cup Terminal,
   attempt_count : 0 .. MaxAttempts,
   cancel_requested : BOOLEAN,
   lease_owner : WorkerId \cup {NoOne},
   lease : -1 .. LeaseTicks,
   delay : Nat,                \* available_at minus the clock, 0 when past
   terminal_error : JobError]

EstimateRow ==
  [prior : 0 .. MaxAttempts,         \* the attempt that froze it, 0 for NULL
   fit_rows : SUBSET Attempt,        \* attempts whose parameters, diagnostics
                                     \* and output artifacts are stored
   published_run : 0 .. MaxAttempts] \* 0 for NULL

NewJob ==
  [status |-> "queued", attempt_count |-> 0, cancel_requested |-> FALSE,
   lease_owner |-> NoOne, lease |-> NoLease, delay |-> 0,
   terminal_error |-> "none"]

AbsentJob == [NewJob EXCEPT !.status = "absent"]

NewEstimate == [prior |-> 0, fit_rows |-> {}, published_run |-> 0]

Init ==
  /\ jobs = [j \in Job |-> AbsentJob]
  /\ runs = [j \in Job |-> [n \in Attempt |-> "none"]]
  /\ estimates = [j \in Job |-> NewEstimate]
  /\ claims = {}

-----------------------------------------------------------------------------
(* The statements the transactions share.                                  *)

(* Mutant: the fence is the worker ID and the lease, not the attempt.       *)
OwnedByWorker(c) ==
  LET job == jobs[c.job] IN
  job.lease_owner = c.worker /\ job.lease > 0 /\ job.status \notin Terminal

(* Mutant: the fence forgets that the lease may have expired.               *)
OwnedThoughExpired(c) ==
  LET job == jobs[c.job] IN
  /\ job.attempt_count = c.attempt
  /\ job.lease_owner = c.worker
  /\ job.status \notin Terminal

(* _owned_job: the row a worker may change.  The run of a claim always has  *)
(* the claim's attempt as its ordinal (job_runs rows are never renumbered). *)
Owned(c) ==
  LET job == jobs[c.job] IN
  /\ job.attempt_count = c.attempt
  /\ runs[c.job][c.attempt] # "none"
  /\ job.lease_owner = c.worker
  /\ job.lease > 0
  /\ job.status \notin Terminal

Released(job) == [job EXCEPT !.lease_owner = NoOne, !.lease = NoLease]

(* _terminal: the job leaves the queue and its run gets the same outcome.   *)
Finished(job, outcome, error) ==
  [Released(job) EXCEPT !.status = outcome, !.terminal_error = error]

Finish(c, outcome, error) ==
  /\ jobs' = [jobs EXCEPT ![c.job] = Finished(@, outcome, error)]
  /\ runs' = [runs EXCEPT ![c.job][c.attempt] = outcome]

-----------------------------------------------------------------------------
(* The API's transactions.                                                  *)

(* submit_estimate, the insert; a replay of the same key changes nothing.   *)
Submit(j) ==
  /\ jobs[j].status = "absent"
  /\ jobs' = [jobs EXCEPT ![j] = NewJob]
  /\ estimates' = [estimates EXCEPT ![j] = NewEstimate]
  /\ UNCHANGED <<runs, claims>>

(* cancel_job by the owner: a queued job is canceled on the spot, a job in  *)
(* execution only carries the request until its worker or a recovery sees   *)
(* it, a finished job is left alone.                                        *)
Cancel(j) ==
  /\ jobs[j].status \notin Terminal \cup {"absent"}
  /\ jobs' = [jobs EXCEPT ![j].cancel_requested = TRUE,
                          ![j].status = IF @ = "queued" THEN "canceled" ELSE @]
  /\ UNCHANGED <<runs, estimates, claims>>

-----------------------------------------------------------------------------
(* The worker's transactions.                                               *)

Claimable(j) ==
  /\ jobs[j].status = "queued"
  /\ jobs[j].delay = 0
  /\ ~jobs[j].cancel_requested
  /\ jobs[j].attempt_count < MaxAttempts

Claimed(job, w) ==
  [job EXCEPT !.status = "resolving_inputs",
              !.attempt_count = @ + 1,
              !.lease_owner = w,
              !.lease = LeaseTicks,
              !.terminal_error = "none"]

(* claim_job.  Any claimable row may be the one: SKIP LOCKED passes over    *)
(* an older row while a cancellation or another claim holds it.             *)
ClaimJob(w, j) ==
  LET attempt == jobs[j].attempt_count + 1 IN
  /\ Claimable(j)
  /\ jobs' = [jobs EXCEPT ![j] = Claimed(@, w)]
  /\ runs' = [runs EXCEPT ![j][attempt] = "running"]
  /\ claims' = claims \cup {[job |-> j, attempt |-> attempt, worker |-> w]}
  /\ UNCHANGED estimates

(* heartbeat *)
Heartbeat(c) ==
  /\ Owned(c)
  /\ jobs' = [jobs EXCEPT ![c.job].lease = LeaseTicks]
  /\ UNCHANGED <<runs, estimates, claims>>

(* set_stage *)
SetStage(c, stage) ==
  /\ Owned(c)
  /\ \/ /\ jobs[c.job].cancel_requested
        /\ Finish(c, "canceled", "none")
     \/ /\ ~jobs[c.job].cancel_requested
        /\ jobs' = [jobs EXCEPT ![c.job].status = stage]
        /\ UNCHANGED runs
  /\ UNCHANGED <<estimates, claims>>

(* Mutant: the inputs are stored without the ownership check.               *)
StorePriorUnfenced(c) ==
  /\ estimates[c.job].prior = 0
  /\ estimates' = [estimates EXCEPT ![c.job].prior = c.attempt]
  /\ UNCHANGED <<jobs, runs, claims>>

(* store_prior; with the prior already there it raises and rolls back.      *)
StorePrior(c) ==
  /\ Owned(c)
  /\ estimates[c.job].prior = 0
  /\ estimates' = [estimates EXCEPT ![c.job].prior = c.attempt]
  /\ UNCHANGED <<jobs, runs, claims>>

(* persist_estimate_result; the primary keys of estimate_parameters and     *)
(* estimate_diagnostics refuse, and roll back, a second set of fit rows.    *)
PersistResult(c, success) ==
  /\ Owned(c)
  /\ \/ /\ jobs[c.job].cancel_requested
        /\ Finish(c, "canceled", "none")
        /\ UNCHANGED estimates
     \/ /\ ~jobs[c.job].cancel_requested
        /\ estimates[c.job].fit_rows = {}
        /\ estimates' = [estimates EXCEPT ![c.job].fit_rows = {c.attempt},
                                          ![c.job].published_run = c.attempt]
        /\ IF success THEN Finish(c, "succeeded", "none")
                      ELSE Finish(c, "failed", "optimizer_failed")
  /\ UNCHANGED claims

Rescheduled(job, delay, error) ==
  [Released(job) EXCEPT !.status = "queued", !.delay = delay,
                        !.terminal_error = error]

(* fail_or_retry *)
FailOrRetry(c, retryable) ==
  LET retry == retryable /\ c.attempt < MaxAttempts IN
  /\ Owned(c)
  /\ \/ /\ jobs[c.job].cancel_requested
        /\ Finish(c, "canceled", "none")
     \/ /\ ~jobs[c.job].cancel_requested /\ ~retry
        /\ Finish(c, "failed", "attempt_failed")
     \/ /\ ~jobs[c.job].cancel_requested /\ retry
        /\ runs' = [runs EXCEPT ![c.job][c.attempt] = "failed"]
        /\ jobs' = [jobs EXCEPT ![c.job] =
                      Rescheduled(@, BackoffTicks[c.attempt], "attempt_failed")]
  /\ UNCHANGED <<estimates, claims>>

-----------------------------------------------------------------------------
(* recover_expired_leases, run by every worker before it claims.            *)

(* Mutant: jobs without an attempt left are not recovered.                  *)
ExpiredWithAttempts ==
  {j \in Job : /\ jobs[j].lease = 0 /\ jobs[j].status \notin Terminal
               /\ jobs[j].attempt_count < MaxAttempts}

Expired == {j \in Job : jobs[j].lease = 0 /\ jobs[j].status \notin Terminal}

(* Mutant: the requested cancellation is forgotten.                         *)
RecoveredUncanceled(job) ==
  IF job.attempt_count < MaxAttempts THEN "queued" ELSE "failed"

RecoveredStatus(job) ==
  IF job.cancel_requested THEN "canceled"
  ELSE IF job.attempt_count < MaxAttempts THEN "queued" ELSE "failed"

(* _recover, for one row *)
RecoveredJob(job) ==
  [Released(job) EXCEPT !.status = RecoveredStatus(job),
                        !.delay = 0,
                        !.terminal_error = "lease_expired"]

(* Mutant: the run of the expired attempt stays open.                       *)
RecoverJobsOnly(S) ==
  /\ S # {}
  /\ S \subseteq Expired
  /\ jobs' = [j \in Job |-> IF j \in S THEN RecoveredJob(jobs[j]) ELSE jobs[j]]
  /\ UNCHANGED <<runs, estimates, claims>>

(* One transaction recovers every expired row that no other transaction has *)
(* locked (SKIP LOCKED): any non-empty part of Expired.                     *)
RecoverExpiredLeases(S) ==
  /\ S # {}
  /\ S \subseteq Expired
  /\ jobs' = [j \in Job |-> IF j \in S THEN RecoveredJob(jobs[j]) ELSE jobs[j]]
  /\ runs' = [j \in Job |->
                IF j \in S
                THEN [runs[j] EXCEPT ![jobs[j].attempt_count] = "failed"]
                ELSE runs[j]]
  /\ UNCHANGED <<estimates, claims>>

(* The database clock advances. *)
Older(job) ==
  [job EXCEPT !.lease = IF @ > 0 THEN @ - 1 ELSE @,
              !.delay = IF @ > 0 THEN @ - 1 ELSE @]

Tick ==
  /\ jobs' = [j \in Job |-> Older(jobs[j])]
  /\ UNCHANGED <<runs, estimates, claims>>

-----------------------------------------------------------------------------

UseClaim(c) ==
  \/ Heartbeat(c)
  \/ \E stage \in Executing : SetStage(c, stage)
  \/ StorePrior(c)
  \/ \E success \in BOOLEAN : PersistResult(c, success)
  \/ \E retryable \in BOOLEAN : FailOrRetry(c, retryable)

Next ==
  \/ \E j \in Job : Submit(j) \/ Cancel(j)
  \/ \E w \in WorkerId, j \in Job : ClaimJob(w, j)
  \/ \E c \in claims : UseClaim(c)
  \/ \E S \in SUBSET Job : RecoverExpiredLeases(S)
  \/ Tick

Spec == Init /\ [][Next]_vars

-----------------------------------------------------------------------------
(* Type invariant: every table holds rows of its declared columns.          *)
TypeOK ==
  /\ jobs \in [Job -> JobRow]
  /\ runs \in [Job -> [Attempt -> RunStatus]]
  /\ estimates \in [Job -> EstimateRow]
  /\ claims \subseteq Claim

(* A job_runs row is open exactly for the attempt in execution: the rows    *)
(* of earlier attempts are all closed, however they ended (retry, expired   *)
(* lease, cancellation), and there are as many rows as attempt_count says.  *)
RunsMatch(job, run) ==
  \A n \in Attempt :
    /\ run[n] = "running" <=> job.status \in Executing /\ n = job.attempt_count
    /\ run[n] # "none" <=> n <= job.attempt_count

OneOpenRun == \A j \in Job : RunsMatch(jobs[j], runs[j])

(* No job is stranded.  One that waits is unleased, not canceled and has an *)
(* attempt left, so claim_job's condition becomes true for it by the mere   *)
(* passing of time; one in execution holds a lease, so recovery can see it. *)
Reachable(job) ==
  /\ job.status = "queued" =>
       ~job.cancel_requested /\ job.attempt_count < MaxAttempts
  /\ job.status \in Executing <=> job.lease # NoLease
  /\ job.lease # NoLease <=> job.lease_owner # NoOne

NoOrphanedJob == \A j \in Job : Reachable(jobs[j])

(* Fit rows, published run and outcome commit together: fit rows exist      *)
(* exactly when a run is published, they are that run's, that run is the    *)
(* last one and carries the job's own outcome; success implies publication  *)
(* and a canceled job has published nothing.                                *)
PublishedTogether(job, run, estimate) ==
  LET published == estimate.published_run IN
  /\ estimate.fit_rows = IF published = 0 THEN {} ELSE {published}
  /\ published # 0 => /\ job.status \in {"succeeded", "failed"}
                      /\ published = job.attempt_count
                      /\ run[published] = job.status
  /\ job.status = "succeeded" => published # 0

PublishedWithOutcome ==
  \A j \in Job : PublishedTogether(jobs[j], runs[j], estimates[j])

(* The stored error explains the outcome: a failure always has one, a       *)
(* success never keeps the error of an earlier attempt, and the optimizer   *)
(* is blamed exactly when its own diagnostics were published.               *)
Explained(job, estimate) ==
  /\ job.status = "failed" => job.terminal_error # "none"
  /\ job.status \in Executing \cup {"succeeded"} => job.terminal_error = "none"
  /\ job.terminal_error = "optimizer_failed" <=>
       job.status = "failed" /\ estimate.published_run # 0

OutcomeExplained == \A j \in Job : Explained(jobs[j], estimates[j])

(* The four tables agree in every state any order of transactions reaches,  *)
(* though each transaction writes two or three of them.                     *)
TablesAgree ==
  OneOpenRun /\ NoOrphanedJob /\ PublishedWithOutcome /\ OutcomeExplained

(* Fencing: whatever changes in an estimate is the work of the attempt that *)
(* holds the live lease at that moment, and is stamped with that attempt; a *)
(* frozen prior never changes, nor does a published run.                    *)
FencedEffects ==
  [][\A j \in Job :
       LET old == estimates[j]  new == estimates'[j]  job == jobs[j] IN
       new # old =>
         /\ job.status \in Executing /\ job.lease > 0
         /\ new.prior # old.prior => old.prior = 0 /\ new.prior = job.attempt_count
         /\ new.published_run # old.published_run =>
              old.published_run = 0 /\ new.published_run = job.attempt_count
    ]_vars

(* An expired lease is never revived: the next thing that happens to it is  *)
(* its recovery, so a heartbeat that comes late cannot take a job back.     *)
NoLeaseRevival ==
  [][\A j \in Job : jobs[j].lease = 0 => jobs'[j].lease \in {0, NoLease}]_vars

(* A finished job is final: its row, its runs and its estimate never change *)
(* again, whatever its old workers and its owner still send.                *)
TerminalIsFinal ==
  [][\A j \in Job :
       jobs[j].status \in Terminal =>
         /\ jobs'[j].status = jobs[j].status
         /\ jobs'[j].cancel_requested = jobs[j].cancel_requested
         /\ jobs'[j].terminal_error = jobs[j].terminal_error
         /\ runs'[j] = runs[j]
         /\ estimates'[j] = estimates[j]]_vars

(* What is over stays over: an expired lease and a finished job.            *)
NothingRevives == NoLeaseRevival /\ TerminalIsFinal

-----------------------------------------------------------------------------
(* The queue implements the promise of JobLifecycle: leases, attempts,      *)
(* claims and the clock are its way of keeping it.                          *)
PhaseOf(status) ==
  CASE status = "queued" -> "waiting"
    [] status \in Executing -> "attempted"
    [] OTHER -> status

Lifecycle == INSTANCE JobLifecycle WITH
  phase     <- [j \in Job |-> PhaseOf(jobs[j].status)],
  inputs    <- [j \in Job |-> estimates[j].prior # 0],
  published <- [j \in Job |-> estimates[j].published_run # 0]

(* Refinement: every behaviour of the queue is one of the job lifecycle.    *)
ImplementsLifecycle == Lifecycle!LifecycleSpec
=============================================================================
