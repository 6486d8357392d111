--------------------------- MODULE EstimateProofs ---------------------------
(***************************************************************************)
(* Theorems about estimates: the queue under its most general client       *)
(* (EstimateQueue), the workers that use it (EstimateWorker), the form that*)
(* submits them (EstimateSubmission) and the work itself, the resolution of*)
(* an estimate's inputs and the fit (InputResolution, OrbitFit), for any   *)
(* values of the constants.                                                *)
(***************************************************************************)
EXTENDS EstimateWorker, EstimateSubmission, OrbitFit, OrderingProofs, SequenceTheorems, TLAPS

-----------------------------------------------------------------------------
(***************************************************************************)
(* The queue.                                                              *)
(***************************************************************************)

(* What the row updates of the transactions preserve: the columns' types.   *)

(* A lease is live, expired or absent.                                      *)
LEMMA LeaseValues ==
  /\ LeaseTicks \in -1 .. LeaseTicks
  /\ NoLease \in -1 .. LeaseTicks
  /\ LeaseTicks > 0
BY ConstantsAssumption DEF ConstantsAssumption, NoLease

(* The fields of well-typed rows.                                           *)
LEMMA RowsTyped ==
  /\ NewJob \in JobRow
  /\ AbsentJob \in JobRow
  /\ NewEstimate \in EstimateRow
<1>1. NewJob \in JobRow
  BY LeaseValues, ConstantsAssumption
  DEF ConstantsAssumption, NewJob, JobRow, JobError, Executing, Terminal
<1>2. AbsentJob \in JobRow
  BY <1>1 DEF AbsentJob, JobRow
<1>3. NewEstimate \in EstimateRow
  BY ConstantsAssumption DEF ConstantsAssumption, NewEstimate, EstimateRow, Attempt
<1> QED
  BY <1>1, <1>2, <1>3

(* What each update of a job row makes is a job row: finishing,             *)
LEMMA FinishedTyped ==
  ASSUME NEW job \in JobRow, NEW outcome \in Terminal, NEW error \in JobError
  PROVE  Finished(job, outcome, error) \in JobRow
BY LeaseValues DEF Finished, Released, JobRow

(* ... rescheduling,                                                        *)
LEMMA RescheduledTyped ==
  ASSUME NEW job \in JobRow, NEW delay \in Nat, NEW error \in JobError
  PROVE  Rescheduled(job, delay, error) \in JobRow
BY LeaseValues DEF Rescheduled, Released, JobRow

(* ... claiming,                                                            *)
LEMMA ClaimedTyped ==
  ASSUME NEW job \in JobRow, job.attempt_count + 1 \in Attempt,
         NEW w \in WorkerId
  PROVE  Claimed(job, w) \in JobRow
<1>1. job.attempt_count + 1 \in 0 .. MaxAttempts
  BY ConstantsAssumption DEF ConstantsAssumption, Attempt
<1> QED
  BY <1>1, LeaseValues DEF Claimed, JobRow, Executing, JobError

(* ... recovering,                                                          *)
LEMMA RecoveredTyped ==
  ASSUME NEW job \in JobRow PROVE RecoveredJob(job) \in JobRow
<1>1. RecoveredStatus(job) \in {"queued"} \cup Terminal
  BY DEF RecoveredStatus, Terminal
<1> QED
  BY <1>1, LeaseValues DEF RecoveredJob, Released, JobRow, JobError

(* ... and a tick of the clock.                                             *)
LEMMA OlderTyped ==
  ASSUME NEW job \in JobRow PROVE Older(job) \in JobRow
<1>1. ASSUME NEW x \in -1 .. LeaseTicks, x > 0
      PROVE  x - 1 \in -1 .. LeaseTicks
  BY <1>1, ConstantsAssumption DEF ConstantsAssumption
<1>2. ASSUME NEW x \in Nat, x > 0 PROVE x - 1 \in Nat
  BY <1>2
<1> QED
  BY <1>1, <1>2 DEF Older, JobRow

-----------------------------------------------------------------------------
(* Type correctness. *)

(* The empty tables are well typed,                                         *)
LEMMA InitTypeOK == Init => TypeOK
BY RowsTyped DEF Init, TypeOK, RunStatus

(* What _terminal does to the two tables keeps them typed. *)
LEMMA FinishTypeOK ==
  ASSUME TypeOK, NEW c \in Claim, NEW outcome \in Terminal, NEW error \in JobError,
         Finish(c, outcome, error)
  PROVE  /\ jobs' \in [Job -> JobRow]
         /\ runs' \in [Job -> [Attempt -> RunStatus]]
<1> USE DEF TypeOK
<1>1. c.job \in Job /\ c.attempt \in Attempt
  BY DEF Claim
<1>2. Finished(jobs[c.job], outcome, error) \in JobRow
  BY <1>1, FinishedTyped
<1> QED
  BY <1>1, <1>2 DEF Finish, RunStatus

(* ... and no transaction changes that.                                     *)
LEMMA NextTypeOK == TypeOK /\ [Next]_vars => TypeOK'
<1> SUFFICES ASSUME TypeOK, [Next]_vars PROVE TypeOK'
  OBVIOUS
<1> USE DEF TypeOK
<1>0. ASSUME NEW c \in claims PROVE c \in Claim /\ c.job \in Job /\ c.attempt \in Attempt
  BY DEF Claim
<1>1. ASSUME NEW j \in Job, Submit(j) PROVE TypeOK'
  BY <1>1, RowsTyped DEF Submit
<1>2. ASSUME NEW j \in Job, Cancel(j) PROVE TypeOK'
  <2>1. jobs'[j] \in JobRow
    BY <1>2 DEF Cancel, JobRow, Terminal
  <2> QED
    BY <1>2, <2>1 DEF Cancel
<1>3. ASSUME NEW w \in WorkerId, NEW j \in Job, ClaimJob(w, j) PROVE TypeOK'
  <2>1. jobs[j].attempt_count + 1 \in Attempt
    BY <1>3, ConstantsAssumption
    DEF ConstantsAssumption, ClaimJob, Claimable, JobRow, Attempt
  <2>2. Claimed(jobs[j], w) \in JobRow
    BY <2>1, ClaimedTyped
  <2>3. runs' \in [Job -> [Attempt -> RunStatus]]
    BY <1>3, <2>1 DEF ClaimJob, RunStatus
  <2>4. claims' \subseteq Claim
    BY <1>3, <2>1 DEF ClaimJob, Claim
  <2> QED
    BY <1>3, <2>2, <2>3, <2>4 DEF ClaimJob
<1>4. ASSUME NEW c \in claims, Heartbeat(c) PROVE TypeOK'
  <2>1. jobs'[c.job] \in JobRow
    BY <1>0, <1>4, LeaseValues DEF Heartbeat, JobRow
  <2> QED
    BY <1>0, <1>4, <2>1 DEF Heartbeat
<1>5. ASSUME NEW c \in claims, NEW status \in Executing, SetStage(c, status)
      PROVE  TypeOK'
  <2>1. CASE Finish(c, "canceled", "none")
    BY <1>0, <1>5, <2>1, FinishTypeOK DEF SetStage, Terminal, JobError
  <2>2. CASE jobs' = [jobs EXCEPT ![c.job].status = status] /\ UNCHANGED runs
    <3>1. jobs'[c.job] \in JobRow
      BY <1>0, <2>2 DEF JobRow
    <3> QED
      BY <1>0, <1>5, <2>2, <3>1 DEF SetStage
  <2> QED
    BY <1>5, <2>1, <2>2 DEF SetStage
<1>6. ASSUME NEW c \in claims, StorePrior(c) PROVE TypeOK'
  <2>0. c.attempt \in 0 .. MaxAttempts
    BY <1>0, ConstantsAssumption DEF ConstantsAssumption, Attempt
  <2>1. estimates'[c.job] \in EstimateRow
    BY <1>0, <1>6, <2>0 DEF StorePrior, EstimateRow
  <2> QED
    BY <1>0, <1>6, <2>1 DEF StorePrior
<1>7. ASSUME NEW c \in claims, NEW success \in BOOLEAN, PersistResult(c, success)
      PROVE  TypeOK'
  <2>1. jobs' \in [Job -> JobRow] /\ runs' \in [Job -> [Attempt -> RunStatus]]
    BY <1>0, <1>7, FinishTypeOK DEF PersistResult, Terminal, JobError
  <2>2. estimates' \in [Job -> EstimateRow]
    <3>1. CASE UNCHANGED estimates
      BY <3>1
    <3>2. CASE estimates' = [estimates EXCEPT ![c.job].fit_rows = {c.attempt},
                                              ![c.job].published_run = c.attempt]
      <4>1. c.attempt \in 0 .. MaxAttempts /\ {c.attempt} \in SUBSET Attempt
        BY <1>0, ConstantsAssumption DEF ConstantsAssumption, Attempt
      <4>2. estimates'[c.job] \in EstimateRow
        BY <1>0, <3>2, <4>1 DEF EstimateRow
      <4> QED
        BY <1>0, <3>2, <4>2
    <3> QED
      BY <1>7, <3>1, <3>2 DEF PersistResult
  <2> QED
    BY <1>7, <2>1, <2>2 DEF PersistResult
<1>8. ASSUME NEW c \in claims, NEW retryable \in BOOLEAN, FailOrRetry(c, retryable)
      PROVE  TypeOK'
  <2>1. CASE Finish(c, "canceled", "none") \/ Finish(c, "failed", "attempt_failed")
    BY <1>0, <1>8, <2>1, FinishTypeOK DEF FailOrRetry, Terminal, JobError
  <2>2. CASE /\ runs' = [runs EXCEPT ![c.job][c.attempt] = "failed"]
             /\ jobs' = [jobs EXCEPT ![c.job] =
                           Rescheduled(@, BackoffTicks[c.attempt], "attempt_failed")]
    <3>1. Rescheduled(jobs[c.job], BackoffTicks[c.attempt], "attempt_failed") \in JobRow
      BY <1>0, ConstantsAssumption, RescheduledTyped
      DEF ConstantsAssumption, Attempt, JobError
    <3> QED
      BY <1>0, <1>8, <2>2, <3>1 DEF FailOrRetry, RunStatus, Terminal
  <2> QED
    BY <1>8, <2>1, <2>2 DEF FailOrRetry
<1>9. ASSUME NEW S \in SUBSET Job, RecoverExpiredLeases(S) PROVE TypeOK'
  <2>1. jobs' \in [Job -> JobRow]
    BY <1>9, RecoveredTyped DEF RecoverExpiredLeases
  <2>2. runs' \in [Job -> [Attempt -> RunStatus]]
    BY <1>9 DEF RecoverExpiredLeases, RunStatus, Terminal
  <2> QED
    BY <1>9, <2>1, <2>2 DEF RecoverExpiredLeases
<1>10. ASSUME Tick PROVE TypeOK'
  BY <1>10, OlderTyped DEF Tick
<1>11. CASE UNCHANGED vars
  BY <1>11 DEF vars
<1> QED
  BY <1>1, <1>2, <1>3, <1>4, <1>5, <1>6, <1>7, <1>8, <1>9, <1>10, <1>11
  DEF Next, UseClaim

(* Type correctness: every row the transactions of database.py write has    *)
(* columns of the declared types.                                           *)
THEOREM TypeCorrect == Spec => []TypeOK
BY InitTypeOK, NextTypeOK, PTL DEF Spec

-----------------------------------------------------------------------------
(* The inductive invariant.  The four invariants of EstimateQueue lean on   *)
(* each other (a claim may only act on an executing row because leases and  *)
(* execution coincide; nothing is published before the last step because a  *)
(* published job is terminal), and on the row of a job not yet submitted.   *)
RowInv(job, run, estimate) ==
  /\ RunsMatch(job, run)
  /\ Reachable(job)
  /\ PublishedTogether(job, run, estimate)
  /\ Explained(job, estimate)
  /\ job.status = "absent" => job.attempt_count = 0 /\ estimate = NewEstimate

IInv == TypeOK /\ \A j \in Job : RowInv(jobs[j], runs[j], estimates[j])

(* A row some claim owns is in execution, and has published nothing.        *)
LEMMA OwnedIsExecuting ==
  ASSUME NEW job \in JobRow, NEW run, NEW estimate, RowInv(job, run, estimate),
         job.lease > 0
  PROVE  job.status \in Executing /\ estimate.published_run = 0
BY DEF RowInv, Reachable, PublishedTogether, NoLease, Executing

(* _terminal, when the fit is not published in the same transaction. *)
LEMMA FinishedRowInv ==
  ASSUME NEW job \in JobRow, NEW run \in [Attempt -> RunStatus],
         NEW estimate \in EstimateRow, RowInv(job, run, estimate),
         job.lease > 0, job.attempt_count \in Attempt,
         NEW outcome, NEW error,
         \/ outcome = "canceled" /\ error = "none"
         \/ outcome = "failed" /\ error = "attempt_failed"
  PROVE  RowInv(Finished(job, outcome, error),
                [run EXCEPT ![job.attempt_count] = outcome], estimate)
<1> DEFINE new == Finished(job, outcome, error)
           newRun == [run EXCEPT ![job.attempt_count] = outcome]
<1>1. job.status \in Executing /\ estimate.published_run = 0
  BY OwnedIsExecuting
<1>2. /\ new.status = outcome /\ new.terminal_error = error
      /\ new.lease = NoLease /\ new.lease_owner = NoOne
      /\ new.attempt_count = job.attempt_count
  BY DEF Finished, Released, JobRow
<1>3. RunsMatch(new, newRun)
  BY <1>1, <1>2 DEF RowInv, RunsMatch, Executing
<1>4. Reachable(new)
  BY <1>2 DEF Reachable, Executing
<1>5. PublishedTogether(new, newRun, estimate)
  BY <1>1, <1>2 DEF RowInv, PublishedTogether
<1>6. Explained(new, estimate)
  BY <1>1, <1>2 DEF Explained, Executing
<1> QED
  BY <1>2, <1>3, <1>4, <1>5, <1>6 DEF RowInv

(* persist_estimate_result: fit rows, published run and outcome together. *)
LEMMA PublishedRowInv ==
  ASSUME NEW job \in JobRow, NEW run \in [Attempt -> RunStatus],
         NEW estimate \in EstimateRow, RowInv(job, run, estimate),
         job.lease > 0, job.attempt_count \in Attempt,
         NEW outcome, NEW error,
         \/ outcome = "succeeded" /\ error = "none"
         \/ outcome = "failed" /\ error = "optimizer_failed"
  PROVE  RowInv(Finished(job, outcome, error),
                [run EXCEPT ![job.attempt_count] = outcome],
                [estimate EXCEPT !.fit_rows = {job.attempt_count},
                                 !.published_run = job.attempt_count])
<1> DEFINE new == Finished(job, outcome, error)
           newRun == [run EXCEPT ![job.attempt_count] = outcome]
           newEstimate == [estimate EXCEPT !.fit_rows = {job.attempt_count},
                                           !.published_run = job.attempt_count]
<1>1. job.status \in Executing
  BY OwnedIsExecuting
<1>2. /\ new.status = outcome /\ new.terminal_error = error
      /\ new.lease = NoLease /\ new.lease_owner = NoOne
      /\ new.attempt_count = job.attempt_count
  BY DEF Finished, Released, JobRow
<1>3. /\ newEstimate.fit_rows = {job.attempt_count}
      /\ newEstimate.published_run = job.attempt_count
      /\ job.attempt_count # 0
  BY ConstantsAssumption DEF ConstantsAssumption, EstimateRow, Attempt
<1>4. RunsMatch(new, newRun)
  BY <1>1, <1>2 DEF RowInv, RunsMatch, Executing
<1>5. Reachable(new)
  BY <1>2 DEF Reachable, Executing
<1>6. PublishedTogether(new, newRun, newEstimate)
  BY <1>2, <1>3 DEF PublishedTogether
<1>7. Explained(new, newEstimate)
  BY <1>2, <1>3 DEF Explained, Executing
<1> QED
  BY <1>2, <1>4, <1>5, <1>6, <1>7 DEF RowInv

(* fail_or_retry, when it requeues; the job has an attempt left. *)
LEMMA RescheduledRowInv ==
  ASSUME NEW job \in JobRow, NEW run \in [Attempt -> RunStatus],
         NEW estimate \in EstimateRow, RowInv(job, run, estimate),
         job.lease > 0, job.attempt_count \in Attempt,
         ~job.cancel_requested, job.attempt_count < MaxAttempts,
         NEW delay \in Nat
  PROVE  RowInv(Rescheduled(job, delay, "attempt_failed"),
                [run EXCEPT ![job.attempt_count] = "failed"], estimate)
<1> DEFINE new == Rescheduled(job, delay, "attempt_failed")
           newRun == [run EXCEPT ![job.attempt_count] = "failed"]
<1>1. job.status \in Executing /\ estimate.published_run = 0
  BY OwnedIsExecuting
<1>2. /\ new.status = "queued" /\ new.terminal_error = "attempt_failed"
      /\ new.lease = NoLease /\ new.lease_owner = NoOne
      /\ new.attempt_count = job.attempt_count
      /\ new.cancel_requested = job.cancel_requested
  BY DEF Rescheduled, Released, JobRow
<1>3. RunsMatch(new, newRun)
  BY <1>1, <1>2 DEF RowInv, RunsMatch, Executing
<1>4. Reachable(new)
  BY <1>2 DEF Reachable, Executing
<1>5. PublishedTogether(new, newRun, estimate)
  BY <1>1, <1>2 DEF RowInv, PublishedTogether
<1>6. Explained(new, estimate)
  BY <1>1, <1>2 DEF Explained, Executing
<1> QED
  BY <1>2, <1>3, <1>4, <1>5, <1>6 DEF RowInv

(* _recover: the expired attempt is closed, whatever the job becomes. *)
LEMMA RecoveredRowInv ==
  ASSUME NEW job \in JobRow, NEW run \in [Attempt -> RunStatus],
         NEW estimate \in EstimateRow, RowInv(job, run, estimate),
         job.lease = 0, job.status \notin Terminal
  PROVE  RowInv(RecoveredJob(job),
                [run EXCEPT ![job.attempt_count] = "failed"], estimate)
<1> DEFINE new == RecoveredJob(job)
           newRun == [run EXCEPT ![job.attempt_count] = "failed"]
<1>1. job.status \in Executing /\ estimate.published_run = 0
  BY DEF RowInv, Reachable, PublishedTogether, NoLease, Executing
<1>2. /\ new.status = RecoveredStatus(job) /\ new.terminal_error = "lease_expired"
      /\ new.lease = NoLease /\ new.lease_owner = NoOne
      /\ new.attempt_count = job.attempt_count
      /\ new.cancel_requested = job.cancel_requested
  BY DEF RecoveredJob, Released, JobRow
<1>3. /\ RecoveredStatus(job) \in {"queued", "failed", "canceled"}
      /\ RecoveredStatus(job) = "queued" =>
           ~job.cancel_requested /\ job.attempt_count < MaxAttempts
  BY DEF RecoveredStatus
<1>4. RunsMatch(new, newRun)
  BY <1>1, <1>2, <1>3 DEF RowInv, RunsMatch, Executing
<1>5. Reachable(new)
  BY <1>2, <1>3 DEF Reachable, Executing
<1>6. PublishedTogether(new, newRun, estimate)
  BY <1>1, <1>2, <1>3 DEF RowInv, PublishedTogether
<1>7. Explained(new, estimate)
  BY <1>1, <1>2, <1>3 DEF Explained, Executing
<1> QED
  BY <1>2, <1>3, <1>4, <1>5, <1>6, <1>7 DEF RowInv

(* claim_job: the next attempt opens its run. *)
LEMMA ClaimedRowInv ==
  ASSUME NEW job \in JobRow, NEW run \in [Attempt -> RunStatus],
         NEW estimate \in EstimateRow, RowInv(job, run, estimate),
         job.status = "queued", job.attempt_count + 1 \in Attempt,
         NEW w \in WorkerId
  PROVE  RowInv(Claimed(job, w),
                [run EXCEPT ![job.attempt_count + 1] = "running"], estimate)
<1> DEFINE new == Claimed(job, w)
           newRun == [run EXCEPT ![job.attempt_count + 1] = "running"]
<1>1. /\ new.status = "resolving_inputs" /\ new.terminal_error = "none"
      /\ new.lease = LeaseTicks /\ new.lease_owner = w
      /\ new.attempt_count = job.attempt_count + 1
  BY DEF Claimed, JobRow
<1>2. estimate.published_run = 0
  BY DEF RowInv, PublishedTogether
<1>3. RunsMatch(new, newRun)
  <2>1. job.attempt_count \in Nat
    BY ConstantsAssumption DEF ConstantsAssumption, JobRow
  <2>2. \A n \in Attempt : n <= job.attempt_count + 1 <=>
                             n <= job.attempt_count \/ n = job.attempt_count + 1
    BY <2>1, ConstantsAssumption DEF ConstantsAssumption, Attempt
  <2>3. \A n \in Attempt : run[n] # "running"
    BY DEF RowInv, RunsMatch, Executing
  <2> QED
    BY <1>1, <2>2, <2>3 DEF RowInv, RunsMatch, Executing
<1>4. Reachable(new)
  BY <1>1, LeaseValues, ConstantsAssumption
  DEF ConstantsAssumption, Reachable, Executing, NoLease
<1>5. PublishedTogether(new, newRun, estimate)
  BY <1>1, <1>2 DEF RowInv, PublishedTogether
<1>6. Explained(new, estimate)
  BY <1>1 DEF Explained, Executing
<1> QED
  BY <1>1, <1>3, <1>4, <1>5, <1>6 DEF RowInv

(* Owned, read with the row types and the invariant: the claim is that of   *)
(* the attempt in execution.                                                *)
LEMMA OwnedFacts ==
  ASSUME IInv, NEW c \in claims, Owned(c)
  PROVE  /\ c \in Claim /\ c.job \in Job /\ c.attempt \in Attempt
         /\ jobs[c.job] \in JobRow /\ runs[c.job] \in [Attempt -> RunStatus]
         /\ estimates[c.job] \in EstimateRow
         /\ jobs[c.job].attempt_count = c.attempt
         /\ jobs[c.job].lease > 0
         /\ RowInv(jobs[c.job], runs[c.job], estimates[c.job])
BY DEF IInv, TypeOK, Claim, Owned

(* The empty tables agree.                                                  *)
LEMMA InitIInv == Init => IInv
<1> SUFFICES ASSUME Init PROVE IInv
  OBVIOUS
<1>1. TypeOK
  BY InitTypeOK
<1>2. ASSUME NEW j \in Job PROVE RowInv(jobs[j], runs[j], estimates[j])
  <2>1. /\ jobs[j] = AbsentJob /\ runs[j] = [n \in Attempt |-> "none"]
        /\ estimates[j] = NewEstimate
    BY DEF Init
  <2>2. RunsMatch(AbsentJob, [n \in Attempt |-> "none"])
    BY ConstantsAssumption
    DEF ConstantsAssumption, RunsMatch, AbsentJob, NewJob, Attempt, Executing
  <2>3. Reachable(AbsentJob) /\ AbsentJob.attempt_count = 0
    BY DEF Reachable, AbsentJob, NewJob, Executing
  <2>4. PublishedTogether(AbsentJob, [n \in Attempt |-> "none"], NewEstimate)
    BY DEF PublishedTogether, AbsentJob, NewJob, NewEstimate
  <2>5. Explained(AbsentJob, NewEstimate)
    BY DEF Explained, AbsentJob, NewJob, NewEstimate, Executing
  <2> QED
    BY <2>1, <2>2, <2>3, <2>4, <2>5 DEF RowInv
<1> QED
  BY <1>1, <1>2 DEF IInv

(* A transaction that writes one job's rows only has that job to answer for. *)
LEMMA OneJobIInv ==
  ASSUME IInv, TypeOK', NEW j \in Job,
         RowInv(jobs'[j], runs'[j], estimates'[j]),
         \A k \in Job \ {j} : /\ jobs'[k] = jobs[k] /\ runs'[k] = runs[k]
                              /\ estimates'[k] = estimates[k]
  PROVE  IInv'
BY DEF IInv

(* Each transaction keeps the invariant: submitting,                        *)
LEMMA SubmitIInv ==
  ASSUME IInv, TypeOK', NEW j \in Job, Submit(j) PROVE IInv'
<1>1. /\ jobs'[j] = NewJob /\ estimates'[j] = NewEstimate /\ runs'[j] = runs[j]
      /\ jobs[j].status = "absent"
  BY DEF Submit, IInv, TypeOK
<1>2. RunsMatch(NewJob, runs[j])
  BY <1>1 DEF IInv, RowInv, RunsMatch, NewJob, Executing
<1>3. Reachable(NewJob) /\ NewJob.status # "absent"
  BY ConstantsAssumption DEF ConstantsAssumption, Reachable, NewJob, Executing
<1>4. PublishedTogether(NewJob, runs[j], NewEstimate)
  BY DEF PublishedTogether, NewJob, NewEstimate
<1>5. Explained(NewJob, NewEstimate)
  BY DEF Explained, NewJob, NewEstimate, Executing
<1>6. RowInv(jobs'[j], runs'[j], estimates'[j])
  BY <1>1, <1>2, <1>3, <1>4, <1>5 DEF RowInv
<1> QED
  BY <1>6, OneJobIInv DEF Submit, IInv, TypeOK

(* ... canceling,                                                           *)
LEMMA CancelIInv ==
  ASSUME IInv, TypeOK', NEW j \in Job, Cancel(j) PROVE IInv'
<1> DEFINE old == jobs[j]
           new == jobs'[j]
<1>0. RowInv(old, runs[j], estimates[j]) /\ old \in JobRow
  BY DEF IInv, TypeOK
<1>1. /\ new.status = IF old.status = "queued" THEN "canceled" ELSE old.status
      /\ new.attempt_count = old.attempt_count
      /\ new.lease = old.lease /\ new.lease_owner = old.lease_owner
      /\ new.terminal_error = old.terminal_error
      /\ runs'[j] = runs[j] /\ estimates'[j] = estimates[j]
      /\ old.status \in {"queued"} \cup Executing
  BY <1>0 DEF Cancel, IInv, TypeOK, JobRow, Terminal
<1>2. RunsMatch(new, runs[j])
  BY <1>0, <1>1 DEF RowInv, RunsMatch, Executing
<1>3. Reachable(new)
  BY <1>0, <1>1 DEF RowInv, Reachable, Executing
<1>4. PublishedTogether(new, runs[j], estimates[j])
  BY <1>0, <1>1 DEF RowInv, PublishedTogether, Executing
<1>5. Explained(new, estimates[j])
  BY <1>0, <1>1 DEF RowInv, Explained, PublishedTogether, Executing
<1>6. RowInv(jobs'[j], runs'[j], estimates'[j])
  BY <1>1, <1>2, <1>3, <1>4, <1>5 DEF RowInv, Executing
<1> QED
  BY <1>6, OneJobIInv DEF Cancel, IInv, TypeOK

(* ... claiming,                                                            *)
LEMMA ClaimIInv ==
  ASSUME IInv, TypeOK', NEW w \in WorkerId, NEW j \in Job, ClaimJob(w, j)
  PROVE  IInv'
<1>1. jobs[j].attempt_count + 1 \in Attempt
  BY ConstantsAssumption
  DEF ConstantsAssumption, ClaimJob, Claimable, IInv, TypeOK, JobRow, Attempt
<1>2. /\ jobs'[j] = Claimed(jobs[j], w) /\ estimates'[j] = estimates[j]
      /\ runs'[j] = [runs[j] EXCEPT ![jobs[j].attempt_count + 1] = "running"]
  BY DEF ClaimJob, IInv, TypeOK
<1>3. RowInv(jobs'[j], runs'[j], estimates'[j])
  BY <1>1, <1>2, ClaimedRowInv DEF ClaimJob, Claimable, IInv, TypeOK
<1> QED
  BY <1>3, OneJobIInv DEF ClaimJob, IInv, TypeOK

(* Heartbeats and stage changes rewrite lease and status of a row that      *)
(* stays in execution.                                                      *)
LEMMA StillExecutingIInv ==
  ASSUME IInv, TypeOK', NEW c \in claims, Owned(c),
         UNCHANGED <<runs, estimates>>,
         NEW row, jobs' = [jobs EXCEPT ![c.job] = row],
         row.status \in Executing, row.lease # NoLease,
         row.attempt_count = jobs[c.job].attempt_count,
         row.lease_owner = jobs[c.job].lease_owner,
         row.terminal_error = jobs[c.job].terminal_error
  PROVE  IInv'
<1> DEFINE old == jobs[c.job]
<1>0. /\ RowInv(old, runs[c.job], estimates[c.job]) /\ c.job \in Job
      /\ old.status \in Executing /\ estimates[c.job].published_run = 0
      /\ jobs'[c.job] = row
  BY OwnedFacts, OwnedIsExecuting DEF IInv, TypeOK
<1>1. RunsMatch(row, runs[c.job])
  BY <1>0 DEF RowInv, RunsMatch
<1>2. Reachable(row)
  BY <1>0 DEF RowInv, Reachable, Executing
<1>3. PublishedTogether(row, runs[c.job], estimates[c.job])
  BY <1>0 DEF RowInv, PublishedTogether, Executing
<1>4. Explained(row, estimates[c.job])
  BY <1>0 DEF RowInv, Explained, Executing
<1>5. RowInv(jobs'[c.job], runs'[c.job], estimates'[c.job])
  BY <1>0, <1>1, <1>2, <1>3, <1>4 DEF RowInv, Executing
<1> QED
  BY <1>0, <1>5, OneJobIInv DEF IInv, TypeOK

(* ... a heartbeat,                                                         *)
LEMMA HeartbeatIInv ==
  ASSUME IInv, TypeOK', NEW c \in claims, Heartbeat(c) PROVE IInv'
<1> DEFINE row == [jobs[c.job] EXCEPT !.lease = LeaseTicks]
<1>1. /\ Owned(c) /\ UNCHANGED <<runs, estimates>>
      /\ jobs' = [jobs EXCEPT ![c.job] = row]
  BY DEF Heartbeat, IInv, TypeOK, Claim
<1>2. jobs[c.job] \in JobRow /\ jobs[c.job].status \in Executing
  BY <1>1, OwnedFacts, OwnedIsExecuting
<1>3. /\ row.status \in Executing /\ row.lease # NoLease
      /\ row.attempt_count = jobs[c.job].attempt_count
      /\ row.lease_owner = jobs[c.job].lease_owner
      /\ row.terminal_error = jobs[c.job].terminal_error
  BY <1>2, ConstantsAssumption DEF ConstantsAssumption, JobRow, NoLease
<1> HIDE DEF row
<1> QED
  BY <1>1, <1>3, StillExecutingIInv

(* Any of the three ways a claim ends a job without a fit. *)
LEMMA FinishIInv ==
  ASSUME IInv, TypeOK', NEW c \in claims, Owned(c), UNCHANGED estimates,
         NEW outcome, NEW error, Finish(c, outcome, error),
         \/ outcome = "canceled" /\ error = "none"
         \/ outcome = "failed" /\ error = "attempt_failed"
  PROVE  IInv'
<1>1. /\ c.job \in Job /\ jobs[c.job].attempt_count = c.attempt
      /\ c.attempt \in Attempt /\ jobs[c.job].lease > 0
      /\ jobs[c.job] \in JobRow /\ runs[c.job] \in [Attempt -> RunStatus]
      /\ estimates[c.job] \in EstimateRow
      /\ RowInv(jobs[c.job], runs[c.job], estimates[c.job])
  BY OwnedFacts
<1>2. /\ jobs'[c.job] = Finished(jobs[c.job], outcome, error)
      /\ runs'[c.job] = [runs[c.job] EXCEPT ![c.attempt] = outcome]
      /\ estimates'[c.job] = estimates[c.job]
  BY <1>1 DEF Finish, IInv, TypeOK
<1>3. RowInv(Finished(jobs[c.job], outcome, error),
             [runs[c.job] EXCEPT ![jobs[c.job].attempt_count] = outcome],
             estimates[c.job])
  BY <1>1, FinishedRowInv
<1>4. RowInv(jobs'[c.job], runs'[c.job], estimates'[c.job])
  BY <1>1, <1>2, <1>3
<1> QED
  BY <1>1, <1>4, OneJobIInv DEF Finish, IInv, TypeOK

(* ... entering a stage, or finding that it was canceled,                   *)
LEMMA SetStageIInv ==
  ASSUME IInv, TypeOK', NEW c \in claims, NEW status \in Executing,
         SetStage(c, status)
  PROVE  IInv'
<1>0. Owned(c) /\ UNCHANGED <<estimates, claims>>
  BY DEF SetStage
<1>1. CASE Finish(c, "canceled", "none")
  BY <1>0, <1>1, FinishIInv
<1>2. CASE jobs' = [jobs EXCEPT ![c.job].status = status] /\ UNCHANGED runs
  <2> DEFINE row == [jobs[c.job] EXCEPT !.status = status]
  <2>1. jobs' = [jobs EXCEPT ![c.job] = row]
    BY <1>2
  <2>2. jobs[c.job] \in JobRow /\ jobs[c.job].lease > 0
    BY <1>0, OwnedFacts
  <2>3. /\ row.status \in Executing /\ row.lease # NoLease
        /\ row.attempt_count = jobs[c.job].attempt_count
        /\ row.lease_owner = jobs[c.job].lease_owner
        /\ row.terminal_error = jobs[c.job].terminal_error
    BY <2>2 DEF JobRow, NoLease
  <2> HIDE DEF row
  <2> QED
    BY <1>0, <1>2, <2>1, <2>3, StillExecutingIInv
<1> QED
  BY <1>1, <1>2 DEF SetStage

(* The inputs of an estimate are no part of a row's invariant. *)
LEMMA StorePriorIInv ==
  ASSUME IInv, TypeOK', NEW c \in claims, StorePrior(c) PROVE IInv'
<1>1. /\ c.job \in Job
      /\ RowInv(jobs[c.job], runs[c.job], estimates[c.job])
      /\ estimates[c.job] \in EstimateRow
  BY OwnedFacts DEF StorePrior
<1>2. /\ estimates'[c.job].fit_rows = estimates[c.job].fit_rows
      /\ estimates'[c.job].published_run = estimates[c.job].published_run
  BY <1>1 DEF StorePrior, IInv, TypeOK, EstimateRow
<1>3. RowInv(jobs'[c.job], runs'[c.job], estimates'[c.job])
  BY <1>1, <1>2, OwnedFacts, OwnedIsExecuting
  DEF StorePrior, RowInv, PublishedTogether, Explained, Executing
<1> QED
  BY <1>1, <1>3, OneJobIInv DEF StorePrior, IInv, TypeOK

(* ... publishing,                                                          *)
LEMMA PersistResultIInv ==
  ASSUME IInv, TypeOK', NEW c \in claims, NEW success \in BOOLEAN,
         PersistResult(c, success)
  PROVE  IInv'
<1>0. Owned(c)
  BY DEF PersistResult
<1>1. CASE Finish(c, "canceled", "none") /\ UNCHANGED estimates
  BY <1>0, <1>1, FinishIInv
<1>2. CASE /\ estimates' = [estimates EXCEPT ![c.job].fit_rows = {c.attempt},
                                             ![c.job].published_run = c.attempt]
           /\ \/ Finish(c, "succeeded", "none")
              \/ Finish(c, "failed", "optimizer_failed")
  <2>1. /\ c.job \in Job /\ jobs[c.job].attempt_count = c.attempt
        /\ c.attempt \in Attempt /\ jobs[c.job].lease > 0
        /\ jobs[c.job] \in JobRow /\ runs[c.job] \in [Attempt -> RunStatus]
        /\ estimates[c.job] \in EstimateRow
        /\ RowInv(jobs[c.job], runs[c.job], estimates[c.job])
    BY <1>0, OwnedFacts
  <2>2. ASSUME NEW outcome, NEW error, Finish(c, outcome, error),
               \/ outcome = "succeeded" /\ error = "none"
               \/ outcome = "failed" /\ error = "optimizer_failed"
        PROVE  RowInv(jobs'[c.job], runs'[c.job], estimates'[c.job])
    <3>1. /\ jobs'[c.job] = Finished(jobs[c.job], outcome, error)
          /\ runs'[c.job] = [runs[c.job] EXCEPT ![c.attempt] = outcome]
          /\ estimates'[c.job] = [estimates[c.job] EXCEPT
                                    !.fit_rows = {c.attempt},
                                    !.published_run = c.attempt]
      BY <1>2, <2>1, <2>2 DEF Finish, IInv, TypeOK
    <3>2. RowInv(Finished(jobs[c.job], outcome, error),
                 [runs[c.job] EXCEPT ![jobs[c.job].attempt_count] = outcome],
                 [estimates[c.job] EXCEPT
                    !.fit_rows = {jobs[c.job].attempt_count},
                    !.published_run = jobs[c.job].attempt_count])
      BY <2>1, <2>2, PublishedRowInv
    <3> QED
      BY <2>1, <3>1, <3>2
  <2>3. RowInv(jobs'[c.job], runs'[c.job], estimates'[c.job])
    BY <1>2, <2>2
  <2> QED
    BY <1>2, <2>1, <2>3, OneJobIInv DEF Finish, IInv, TypeOK
<1> QED
  BY <1>1, <1>2 DEF PersistResult

(* ... recording a failure,                                                 *)
LEMMA FailOrRetryIInv ==
  ASSUME IInv, TypeOK', NEW c \in claims, NEW retryable \in BOOLEAN,
         FailOrRetry(c, retryable)
  PROVE  IInv'
<1>0. Owned(c) /\ UNCHANGED <<estimates, claims>>
  BY DEF FailOrRetry
<1>1. CASE Finish(c, "canceled", "none") \/ Finish(c, "failed", "attempt_failed")
  BY <1>0, <1>1, FinishIInv
<1>2. CASE /\ ~jobs[c.job].cancel_requested /\ c.attempt < MaxAttempts
           /\ runs' = [runs EXCEPT ![c.job][c.attempt] = "failed"]
           /\ jobs' = [jobs EXCEPT ![c.job] =
                         Rescheduled(@, BackoffTicks[c.attempt], "attempt_failed")]
  <2>1. BackoffTicks[c.attempt] \in Nat
    BY <1>0, OwnedFacts, ConstantsAssumption DEF ConstantsAssumption, Attempt
  <2>2. RowInv(jobs'[c.job], runs'[c.job], estimates'[c.job])
    BY <1>0, <1>2, <2>1, OwnedFacts, RescheduledRowInv DEF IInv, TypeOK
  <2> QED
    BY <1>0, <1>2, <2>2, OwnedFacts, OneJobIInv DEF IInv, TypeOK
<1> QED
  BY <1>1, <1>2 DEF FailOrRetry

(* ... recovering,                                                          *)
LEMMA RecoverIInv ==
  ASSUME IInv, TypeOK', NEW S \in SUBSET Job, RecoverExpiredLeases(S)
  PROVE  IInv'
<1> SUFFICES ASSUME NEW j \in Job PROVE RowInv(jobs'[j], runs'[j], estimates'[j])
  BY DEF IInv
<1>0. RowInv(jobs[j], runs[j], estimates[j])
  BY DEF IInv
<1>1. CASE j \in S
  <2>1. /\ jobs'[j] = RecoveredJob(jobs[j]) /\ estimates'[j] = estimates[j]
        /\ runs'[j] = [runs[j] EXCEPT ![jobs[j].attempt_count] = "failed"]
        /\ jobs[j].lease = 0 /\ jobs[j].status \notin Terminal
    BY <1>1 DEF RecoverExpiredLeases, Expired
  <2>2. /\ jobs[j] \in JobRow /\ runs[j] \in [Attempt -> RunStatus]
        /\ estimates[j] \in EstimateRow
    BY DEF IInv, TypeOK
  <2>3. RowInv(RecoveredJob(jobs[j]),
               [runs[j] EXCEPT ![jobs[j].attempt_count] = "failed"], estimates[j])
    BY <1>0, <2>1, <2>2, RecoveredRowInv
  <2> QED
    BY <2>1, <2>3
<1>2. CASE j \notin S
  BY <1>0, <1>2 DEF RecoverExpiredLeases
<1> QED
  BY <1>1, <1>2

(* ... and the clock.                                                       *)
LEMMA TickIInv ==
  ASSUME IInv, TypeOK', Tick PROVE IInv'
<1> SUFFICES ASSUME NEW j \in Job PROVE RowInv(jobs'[j], runs'[j], estimates'[j])
  BY DEF IInv
<1>1. /\ RowInv(jobs[j], runs[j], estimates[j]) /\ jobs[j] \in JobRow
      /\ jobs'[j] = Older(jobs[j])
      /\ runs'[j] = runs[j] /\ estimates'[j] = estimates[j]
  BY DEF Tick, IInv, TypeOK
<1>2. /\ Older(jobs[j]).lease = NoLease <=> jobs[j].lease = NoLease
      /\ Older(jobs[j]).status = jobs[j].status
      /\ Older(jobs[j]).attempt_count = jobs[j].attempt_count
      /\ Older(jobs[j]).cancel_requested = jobs[j].cancel_requested
      /\ Older(jobs[j]).lease_owner = jobs[j].lease_owner
      /\ Older(jobs[j]).terminal_error = jobs[j].terminal_error
  BY <1>1, ConstantsAssumption DEF ConstantsAssumption, Older, JobRow, NoLease
<1> QED
  BY <1>1, <1>2 DEF RowInv, RunsMatch, Reachable, PublishedTogether, Explained

(* Every step keeps the invariant.                                          *)
LEMMA NextIInv == IInv /\ [Next]_vars => IInv'
<1> SUFFICES ASSUME IInv, [Next]_vars PROVE IInv'
  OBVIOUS
<1>0. TypeOK'
  BY NextTypeOK DEF IInv
<1>1. ASSUME NEW j \in Job, Submit(j) \/ Cancel(j) PROVE IInv'
  BY <1>0, <1>1, SubmitIInv, CancelIInv
<1>2. ASSUME NEW w \in WorkerId, NEW j \in Job, ClaimJob(w, j) PROVE IInv'
  BY <1>0, <1>2, ClaimIInv
<1>3. ASSUME NEW c \in claims, UseClaim(c) PROVE IInv'
  BY <1>0, <1>3, HeartbeatIInv, SetStageIInv, StorePriorIInv,
     PersistResultIInv, FailOrRetryIInv DEF UseClaim
<1>4. ASSUME NEW S \in SUBSET Job, RecoverExpiredLeases(S) PROVE IInv'
  BY <1>0, <1>4, RecoverIInv
<1>5. CASE Tick
  BY <1>0, <1>5, TickIInv
<1>6. CASE UNCHANGED vars
  BY <1>6 DEF vars, IInv, TypeOK
<1> QED
  BY <1>1, <1>2, <1>3, <1>4, <1>5, <1>6 DEF Next

(* The inductive invariant holds for any number of jobs, workers, attempts  *)
(* and any lease and backoff lengths.                                       *)
THEOREM Inductive == Spec => []IInv
BY InitIInv, NextIInv, PTL DEF Spec

(* The queue's safety invariants, each of them a part of IInv. *)
THEOREM RunsStayMatched == Spec => []OneOpenRun
<1>1. IInv => OneOpenRun
  BY DEF IInv, RowInv, OneOpenRun
<1> QED
  BY <1>1, Inductive, PTL

(* No job is ever out of reach of both claim_job and recovery. *)
THEOREM NothingStranded == Spec => []NoOrphanedJob
<1>1. IInv => NoOrphanedJob
  BY DEF IInv, RowInv, NoOrphanedJob
<1> QED
  BY <1>1, Inductive, PTL

(* A published fit and the outcome it belongs to are one commit: a success  *)
(* always has its fit, a cancellation never has one, and the published run  *)
(* is the last attempt of the job.                                          *)
THEOREM PublicationIsAtomic == Spec => []PublishedWithOutcome
<1>1. IInv => PublishedWithOutcome
  BY DEF IInv, RowInv, PublishedWithOutcome
<1> QED
  BY <1>1, Inductive, PTL

(* The stored error always explains the stored outcome. *)
THEOREM ErrorsExplainOutcomes == Spec => []OutcomeExplained
<1>1. IInv => OutcomeExplained
  BY DEF IInv, RowInv, OutcomeExplained
<1> QED
  BY <1>1, Inductive, PTL

-----------------------------------------------------------------------------
(* What a step may never do. *)

(* A claim's transactions touch no job but the claim's own, and only while  *)
(* the claim is owned; nothing else touches an estimate that exists.        *)
LEMMA UseClaimFrame ==
  ASSUME IInv, NEW c \in claims, UseClaim(c)
  PROVE  /\ Owned(c)
         /\ \A k \in Job \ {c.job} : /\ jobs'[k] = jobs[k]
                                    /\ runs'[k] = runs[k]
                                    /\ estimates'[k] = estimates[k]
<1>1. c \in Claim /\ c.job \in Job
  BY DEF IInv, TypeOK, Claim
<1> QED
  BY <1>1 DEF UseClaim, Heartbeat, SetStage, StorePrior, PersistResult,
              FailOrRetry, Finish, IInv, TypeOK

(* A finished job is claimed, owned, canceled or recovered no more. *)
THEOREM TerminalStaysFinal == Spec => TerminalIsFinal
<1> DEFINE Final(j) ==
      jobs[j].status \in Terminal =>
        /\ jobs'[j].status = jobs[j].status
        /\ jobs'[j].cancel_requested = jobs[j].cancel_requested
        /\ jobs'[j].terminal_error = jobs[j].terminal_error
        /\ runs'[j] = runs[j]
        /\ estimates'[j] = estimates[j]
<1>1. ASSUME IInv, [Next]_vars, NEW j \in Job, jobs[j].status \in Terminal
      PROVE  Final(j)
  <2> USE DEF Terminal
  <2>0. TypeOK /\ jobs[j] \in JobRow
    BY <1>1 DEF IInv, TypeOK
  <2>1. ASSUME NEW k \in Job, Submit(k) \/ Cancel(k) PROVE Final(j)
    BY <1>1, <2>0, <2>1 DEF Submit, Cancel, TypeOK
  <2>2. ASSUME NEW w \in WorkerId, NEW k \in Job, ClaimJob(w, k) PROVE Final(j)
    BY <1>1, <2>0, <2>2 DEF ClaimJob, Claimable, TypeOK
  <2>3. ASSUME NEW c \in claims, UseClaim(c) PROVE Final(j)
    <3>1. Owned(c) /\ c.job # j
      BY <1>1, <2>3, UseClaimFrame DEF Owned
    <3> QED
      BY <1>1, <2>3, <3>1, UseClaimFrame
  <2>4. ASSUME NEW S \in SUBSET Job, RecoverExpiredLeases(S) PROVE Final(j)
    BY <1>1, <2>0, <2>4 DEF RecoverExpiredLeases, Expired
  <2>5. CASE Tick
    BY <2>0, <2>5 DEF Tick, Older, JobRow
  <2>6. CASE UNCHANGED vars
    BY <2>6 DEF vars
  <2> QED
    BY <1>1, <2>1, <2>2, <2>3, <2>4, <2>5, <2>6 DEF Next
<1>2. IInv /\ [Next]_vars => [\A j \in Job : Final(j)]_vars
  BY <1>1
<1> QED
  BY <1>2, Inductive, PTL DEF Spec, TerminalIsFinal

(* An expired lease ends in recovery, never in a heartbeat. *)
THEOREM ExpiredLeasesStayExpired == Spec => NoLeaseRevival
<1> DEFINE Dead(j) == jobs[j].lease = 0 => jobs'[j].lease \in {0, NoLease}
<1>1. ASSUME IInv, [Next]_vars, NEW j \in Job, jobs[j].lease = 0 PROVE Dead(j)
  <2>0. /\ TypeOK /\ jobs[j] \in JobRow
        /\ jobs[j].status \in Executing
    BY <1>1 DEF IInv, TypeOK, RowInv, Reachable, NoLease
  <2>1. ASSUME NEW k \in Job, Submit(k) \/ Cancel(k) PROVE Dead(j)
    BY <1>1, <2>0, <2>1 DEF Submit, Cancel, TypeOK, NewJob, JobRow
  <2>2. ASSUME NEW w \in WorkerId, NEW k \in Job, ClaimJob(w, k) PROVE Dead(j)
    BY <1>1, <2>0, <2>2 DEF ClaimJob, Claimable, TypeOK, Executing
  <2>3. ASSUME NEW c \in claims, UseClaim(c) PROVE Dead(j)
    <3>1. Owned(c) /\ c.job # j
      BY <1>1, <2>3, UseClaimFrame DEF Owned
    <3> QED
      BY <1>1, <2>3, <3>1, UseClaimFrame
  <2>4. ASSUME NEW S \in SUBSET Job, RecoverExpiredLeases(S) PROVE Dead(j)
    <3>1. RecoveredJob(jobs[j]).lease = NoLease
      BY <2>0 DEF RecoveredJob, Released, JobRow
    <3> QED
      BY <1>1, <2>4, <3>1 DEF RecoverExpiredLeases
  <2>5. CASE Tick
    <3>1. Older(jobs[j]).lease = 0
      BY <1>1, <2>0 DEF Older, JobRow
    <3> QED
      BY <2>5, <3>1 DEF Tick
  <2>6. CASE UNCHANGED vars
    BY <1>1, <2>6 DEF vars
  <2> QED
    BY <1>1, <2>1, <2>2, <2>3, <2>4, <2>5, <2>6 DEF Next
<1>2. IInv /\ [Next]_vars => [\A j \in Job : Dead(j)]_vars
  BY <1>1
<1> QED
  BY <1>2, Inductive, PTL DEF Spec, NoLeaseRevival

(* Fencing: only the attempt that holds the live lease writes the estimate, *)
(* it stamps what it writes with its own number, and neither a frozen prior *)
(* nor a published run is ever overwritten.                                 *)
THEOREM EffectsAreFenced == Spec => FencedEffects
<1> DEFINE ByTheOwner(j) ==
      LET old == estimates[j]  new == estimates'[j]  job == jobs[j] IN
      new # old =>
        /\ job.status \in Executing /\ job.lease > 0
        /\ new.prior # old.prior => old.prior = 0 /\ new.prior = job.attempt_count
        /\ new.published_run # old.published_run =>
             old.published_run = 0 /\ new.published_run = job.attempt_count
<1>1. ASSUME IInv, [Next]_vars, NEW j \in Job PROVE ByTheOwner(j)
  <2>0. TypeOK /\ RowInv(jobs[j], runs[j], estimates[j])
    BY <1>1 DEF IInv
  <2>1. ASSUME NEW k \in Job, Submit(k) PROVE UNCHANGED estimates[j]
    <3>1. RowInv(jobs[k], runs[k], estimates[k])
      BY <1>1, <2>1 DEF IInv
    <3>2. estimates[k] = NewEstimate
      BY <2>1, <3>1 DEF Submit, RowInv
    <3> QED
      BY <2>0, <2>1, <3>2 DEF Submit, TypeOK
  <2>2. ASSUME NEW c \in claims, UseClaim(c), c.job = j PROVE ByTheOwner(j)
    <3>1. Owned(c) /\ jobs[j].attempt_count = c.attempt
      BY <1>1, <2>2, UseClaimFrame DEF Owned
    <3>2. jobs[j].status \in Executing /\ estimates[j].published_run = 0
      BY <1>1, <2>2, <3>1, OwnedFacts, OwnedIsExecuting
    <3>3. CASE StorePrior(c)
      BY <2>0, <2>2, <3>1, <3>2, <3>3 DEF StorePrior, Owned, TypeOK, EstimateRow
    <3>4. ASSUME NEW success \in BOOLEAN, PersistResult(c, success) PROVE ByTheOwner(j)
      BY <2>0, <2>2, <3>1, <3>2, <3>4 DEF PersistResult, Owned, TypeOK, EstimateRow
    <3>5. CASE UNCHANGED estimates
      BY <3>5
    <3> QED
      BY <2>2, <3>3, <3>4, <3>5 DEF UseClaim, Heartbeat, SetStage, FailOrRetry
  <2>3. ASSUME NEW c \in claims, UseClaim(c), c.job # j PROVE ByTheOwner(j)
    BY <1>1, <2>3, UseClaimFrame
  <2>4. CASE UNCHANGED estimates
    BY <2>4
  <2> QED
    BY <1>1, <2>1, <2>2, <2>3, <2>4
    DEF Next, Cancel, ClaimJob, RecoverExpiredLeases, Tick, vars
<1>2. IInv /\ [Next]_vars => [\A j \in Job : ByTheOwner(j)]_vars
  BY <1>1
<1> QED
  BY <1>2, Inductive, PTL DEF Spec, FencedEffects

-----------------------------------------------------------------------------
(* The queue implements JobLifecycle. *)

(* A job whose status, inputs and publication do not change only rests. *)
LEMMA RestStep ==
  ASSUME NEW j \in Job, jobs'[j].status = jobs[j].status,
         estimates'[j] = estimates[j]
  PROVE  Lifecycle!JobStep(j)
BY DEF Lifecycle!JobStep, Lifecycle!Rest, Lifecycle!Keeps, PhaseOf

(* Leaving execution without a fit is GiveUp or Withdraw. *)
LEMMA LeaveStep ==
  ASSUME NEW j \in Job, jobs[j].status \in Executing,
         jobs'[j].status \in {"queued", "failed", "canceled"},
         estimates'[j] = estimates[j]
  PROVE  Lifecycle!JobStep(j)
BY DEF Lifecycle!JobStep, Lifecycle!GiveUp, Lifecycle!Withdraw,
       Lifecycle!Moves, Lifecycle!Keeps, PhaseOf, Executing

(* Finishing a job is a step of the lifecycle,                              *)
LEMMA FinishStep ==
  ASSUME IInv, NEW c \in claims, Owned(c), NEW outcome, NEW error,
         Finish(c, outcome, error)
  PROVE  jobs'[c.job].status = outcome /\ jobs[c.job].status \in Executing
<1>1. c.job \in Job /\ jobs[c.job] \in JobRow /\ jobs[c.job].status \in Executing
  BY OwnedFacts, OwnedIsExecuting
<1>2. jobs'[c.job] = Finished(jobs[c.job], outcome, error)
  BY <1>1 DEF Finish, IInv, TypeOK
<1> QED
  BY <1>1, <1>2 DEF Finished, Released, JobRow

(* ... so is everything a claim is used for,                                *)
LEMMA UseClaimStep ==
  ASSUME IInv, NEW c \in claims, UseClaim(c) PROVE Lifecycle!JobStep(c.job)
<1> DEFINE j == c.job
<1>0. /\ Owned(c) /\ TypeOK /\ j \in Job /\ jobs[j] \in JobRow
      /\ estimates[j] \in EstimateRow /\ c.attempt \in Attempt
      /\ jobs[j].status \in Executing /\ estimates[j].published_run = 0
  BY UseClaimFrame, OwnedFacts, OwnedIsExecuting DEF IInv
<1>1. CASE Heartbeat(c)
  <2>1. jobs'[j].status = jobs[j].status /\ estimates'[j] = estimates[j]
    BY <1>0, <1>1 DEF Heartbeat, TypeOK, JobRow
  <2> QED
    BY <1>0, <2>1, RestStep
<1>2. ASSUME NEW status \in Executing, SetStage(c, status) PROVE Lifecycle!JobStep(j)
  <2>1. CASE Finish(c, "canceled", "none")
    BY <1>0, <1>2, <2>1, FinishStep, LeaveStep DEF SetStage
  <2>2. CASE jobs' = [jobs EXCEPT ![c.job].status = status]
    <3>1. jobs'[j].status \in Executing /\ estimates'[j] = estimates[j]
      BY <1>0, <1>2, <2>2 DEF SetStage, TypeOK, JobRow
    <3> QED
      BY <1>0, <3>1 DEF Lifecycle!JobStep, Lifecycle!Rest, Lifecycle!Keeps,
                        PhaseOf, Executing
  <2> QED
    BY <1>2, <2>1, <2>2 DEF SetStage
<1>3. CASE StorePrior(c)
  <2>1. /\ jobs'[j].status = jobs[j].status
        /\ estimates[j].prior = 0 /\ estimates'[j].prior # 0
        /\ estimates'[j].published_run = estimates[j].published_run
    BY <1>0, <1>3, ConstantsAssumption
    DEF ConstantsAssumption, StorePrior, TypeOK, EstimateRow, Attempt
  <2> QED
    BY <1>0, <2>1 DEF Lifecycle!JobStep, Lifecycle!Freeze, Lifecycle!Moves,
                      PhaseOf, Executing
<1>4. ASSUME NEW success \in BOOLEAN, PersistResult(c, success)
      PROVE  Lifecycle!JobStep(j)
  <2>1. CASE Finish(c, "canceled", "none") /\ UNCHANGED estimates
    BY <1>0, <2>1, FinishStep, LeaveStep
  <2>2. CASE /\ estimates' = [estimates EXCEPT ![c.job].fit_rows = {c.attempt},
                                               ![c.job].published_run = c.attempt]
             /\ \/ Finish(c, "succeeded", "none")
                \/ Finish(c, "failed", "optimizer_failed")
    <3>1. jobs'[j].status \in {"succeeded", "failed"}
      BY <1>0, <2>2, FinishStep
    <3>2. /\ estimates'[j].prior = estimates[j].prior
          /\ estimates'[j].published_run # 0
      BY <1>0, <2>2, ConstantsAssumption
      DEF ConstantsAssumption, TypeOK, EstimateRow, Attempt
    <3> QED
      BY <1>0, <3>1, <3>2 DEF Lifecycle!JobStep, Lifecycle!Publish,
                              Lifecycle!Moves, PhaseOf, Executing
  <2> QED
    BY <1>4, <2>1, <2>2 DEF PersistResult
<1>5. ASSUME NEW retryable \in BOOLEAN, FailOrRetry(c, retryable)
      PROVE  Lifecycle!JobStep(j)
  <2>1. CASE Finish(c, "canceled", "none") \/ Finish(c, "failed", "attempt_failed")
    BY <1>0, <1>5, <2>1, FinishStep, LeaveStep DEF FailOrRetry
  <2>2. CASE jobs' = [jobs EXCEPT ![c.job] =
                        Rescheduled(@, BackoffTicks[c.attempt], "attempt_failed")]
    <3>1. jobs'[j].status = "queued"
      BY <1>0, <2>2 DEF TypeOK, Rescheduled, Released, JobRow
    <3> QED
      BY <1>0, <1>5, <3>1, LeaveStep DEF FailOrRetry
  <2> QED
    BY <1>5, <2>1, <2>2 DEF FailOrRetry
<1> QED
  BY <1>1, <1>2, <1>3, <1>4, <1>5 DEF UseClaim

(* ... and every other transaction, or it is none.                          *)
LEMMA LifecycleStep ==
  ASSUME IInv, [Next]_vars, NEW j \in Job PROVE Lifecycle!JobStep(j)
<1>0. TypeOK /\ RowInv(jobs[j], runs[j], estimates[j]) /\ jobs[j] \in JobRow
  BY DEF IInv, TypeOK
<1>1. ASSUME NEW k \in Job, Submit(k) PROVE Lifecycle!JobStep(j)
  <2>1. CASE k = j
    <3>1. /\ jobs[j].status = "absent" /\ jobs'[j].status = "queued"
          /\ estimates'[j] = estimates[j]
      BY <1>0, <1>1, <2>1 DEF Submit, TypeOK, NewJob, RowInv
    <3> QED
      BY <3>1 DEF Lifecycle!JobStep, Lifecycle!Accept, Lifecycle!Moves,
                  Lifecycle!Keeps, PhaseOf, Executing
  <2>2. CASE k # j
    BY <1>0, <1>1, <2>2, RestStep DEF Submit, TypeOK
  <2> QED
    BY <2>1, <2>2
<1>2. ASSUME NEW k \in Job, Cancel(k) PROVE Lifecycle!JobStep(j)
  <2>1. CASE k = j /\ jobs[j].status = "queued"
    <3>1. jobs'[j].status = "canceled" /\ estimates'[j] = estimates[j]
      BY <1>0, <1>2, <2>1 DEF Cancel, TypeOK, JobRow
    <3> QED
      BY <2>1, <3>1 DEF Lifecycle!JobStep, Lifecycle!Withdraw, Lifecycle!Moves,
                        Lifecycle!Keeps, PhaseOf, Executing
  <2>2. CASE k # j \/ jobs[j].status # "queued"
    <3>1. jobs'[j].status = jobs[j].status /\ estimates'[j] = estimates[j]
      BY <1>0, <1>2, <2>2 DEF Cancel, TypeOK, JobRow
    <3> QED
      BY <3>1, RestStep
  <2> QED
    BY <2>1, <2>2
<1>3. ASSUME NEW w \in WorkerId, NEW k \in Job, ClaimJob(w, k)
      PROVE  Lifecycle!JobStep(j)
  <2>1. CASE k = j
    <3>1. /\ jobs[j].status = "queued"
          /\ jobs'[j].status = "resolving_inputs"
          /\ estimates'[j] = estimates[j]
      BY <1>0, <1>3, <2>1 DEF ClaimJob, Claimable, Claimed, TypeOK, JobRow
    <3> QED
      BY <3>1 DEF Lifecycle!JobStep, Lifecycle!Start, Lifecycle!Moves,
                  Lifecycle!Keeps, PhaseOf, Executing
  <2>2. CASE k # j
    BY <1>0, <1>3, <2>2, RestStep DEF ClaimJob, TypeOK
  <2> QED
    BY <2>1, <2>2
<1>4. ASSUME NEW c \in claims, UseClaim(c) PROVE Lifecycle!JobStep(j)
  <2>1. CASE c.job = j
    BY <1>4, <2>1, UseClaimStep
  <2>2. CASE c.job # j
    BY <1>4, <2>2, UseClaimFrame, RestStep
  <2> QED
    BY <2>1, <2>2
<1>5. ASSUME NEW S \in SUBSET Job, RecoverExpiredLeases(S)
      PROVE  Lifecycle!JobStep(j)
  <2>1. CASE j \in S
    <3>1. /\ jobs[j].status \in Executing /\ estimates'[j] = estimates[j]
          /\ jobs'[j] = RecoveredJob(jobs[j])
      BY <1>0, <1>5, <2>1
      DEF RecoverExpiredLeases, Expired, RowInv, Reachable, NoLease
    <3>2. jobs'[j].status \in {"queued", "failed", "canceled"}
      BY <1>0, <3>1 DEF RecoveredJob, RecoveredStatus, Released, JobRow
    <3> QED
      BY <3>1, <3>2, LeaveStep
  <2>2. CASE j \notin S
    BY <1>5, <2>2, RestStep DEF RecoverExpiredLeases
  <2> QED
    BY <2>1, <2>2
<1>6. CASE Tick
  <2>1. jobs'[j].status = jobs[j].status /\ estimates'[j] = estimates[j]
    BY <1>0, <1>6 DEF Tick, Older, JobRow
  <2> QED
    BY <2>1, RestStep
<1>7. CASE UNCHANGED vars
  BY <1>7, RestStep DEF vars
<1> QED
  BY <1>1, <1>2, <1>3, <1>4, <1>5, <1>6, <1>7 DEF Next

(* Refinement: the queue with its leases, attempts, clock and stale claims  *)
(* only ever does what JobLifecycle allows.                                 *)
THEOREM QueueImplementsLifecycle == Spec => ImplementsLifecycle
<1>1. Init => Lifecycle!LifecycleInit
  <2> SUFFICES ASSUME Init PROVE Lifecycle!LifecycleInit
    OBVIOUS
  <2>1. PhaseOf("absent") = "absent"
    BY DEF PhaseOf, Executing
  <2>2. \A j \in Job : /\ jobs[j].status = "absent"
                       /\ estimates[j].prior = 0
                       /\ estimates[j].published_run = 0
    BY DEF Init, AbsentJob, NewJob, NewEstimate
  <2> QED
    BY <2>1, <2>2 DEF Lifecycle!LifecycleInit
<1>2. IInv /\ [Next]_vars => [Lifecycle!LifecycleNext]_(Lifecycle!lifecycleVars)
  BY LifecycleStep DEF Lifecycle!LifecycleNext
<1> QED
  BY <1>1, <1>2, Inductive, PTL
  DEF Spec, ImplementsLifecycle, Lifecycle!LifecycleSpec

(* Tables written by different transactions agree in every state.           *)
THEOREM TablesAlwaysAgree == Spec => []TablesAgree
<1>1. OneOpenRun /\ NoOrphanedJob /\ PublishedWithOutcome /\ OutcomeExplained
        => TablesAgree
  BY DEF TablesAgree
<1> QED
  BY <1>1, RunsStayMatched, NothingStranded, PublicationIsAtomic,
     ErrorsExplainOutcomes, PTL

(* Neither an expired lease nor a finished job comes back.                  *)
THEOREM WhatIsOverStaysOver == Spec => NothingRevives
BY ExpiredLeasesStayExpired, TerminalStaysFinal DEF NothingRevives

-----------------------------------------------------------------------------
(***************************************************************************)
(* The workers implement the queue: what is proved above of the most       *)
(* general client holds of the processes of worker.py.  And what they add  *)
(* to it: one owner per job, and fits of the inputs that were frozen, for  *)
(* any number of processes under any worker IDs.                           *)
(***************************************************************************)

(* The inductive invariant: a process only ever acts on claims it was given *)
(* (WorkerTypeOK), over well-typed tables.                                  *)
WorkerInv == TypeOK /\ WorkerTypeOK

(* Processes between two claims are not processing one.                     *)
LEMMA StepKinds ==
  /\ Processing \subseteq Step
  /\ Recording \subseteq Processing
  /\ {"down", "idle", "claiming"} \cap Processing = {}
BY DEF Step, Processing, Fenced, Recording

(* A claim in use is one the queue gave out, for a job and an attempt that  *)
(* exist.                                                                   *)
LEMMA HeldClaim ==
  ASSUME WorkerInv, NEW w \in Worker, pc[w] \in Processing
  PROVE  /\ held[w] \in claims
         /\ held[w].job \in Job
         /\ held[w].attempt \in 0 .. MaxAttempts
<1>1. held[w] \in claims
  BY DEF WorkerInv, WorkerTypeOK
<1> QED
  BY <1>1, ConstantsAssumption
  DEF ConstantsAssumption, WorkerInv, TypeOK, Claim, Attempt

(* What processVars become in one step of the main thread of w.             *)
LEMMA GotoTyped ==
  ASSUME WorkerInv, NEW w \in Worker, NEW step \in Step,
         pc[w] \in Processing <=> step \in Processing,
         Goto(w, step), claims \subseteq claims',
         basis' \in [Job -> 0 .. MaxAttempts]
  PROVE  WorkerTypeOK'
BY DEF WorkerInv, WorkerTypeOK, Goto

(* The same when it is done with its claim.                                 *)
LEMMA LeaveTyped ==
  ASSUME WorkerInv, NEW w \in Worker, Leave(w), claims \subseteq claims',
         basis' \in [Job -> 0 .. MaxAttempts]
  PROVE  WorkerTypeOK'
BY StepKinds, ConstantsAssumption
DEF ConstantsAssumption, WorkerInv, WorkerTypeOK, Leave, Step

(* A step of the database that one of its claims allows leaves the claims   *)
(* as they are.                                                             *)
LEMMA ClaimsGrow == [Next]_vars => claims \subseteq claims'
BY DEF Next, vars, Submit, Cancel, ClaimJob, UseClaim, Heartbeat, SetStage,
       StorePrior, PersistResult, FailOrRetry, RecoverExpiredLeases, Tick
(* A worker uses its claim as EstimateQueue lets any client use it.         *)
LEMMA UseHeldClaim ==
  ASSUME WorkerInv, NEW w \in Worker, pc[w] \in Processing, UseClaim(held[w])
  PROVE  Next
BY HeldClaim DEF Next

(* Every step of the system is a step of the queue, or leaves it alone. *)
LEMMA QueueStep == WorkerInv /\ [WorkerNext]_workerVars => [Next]_vars
<1> SUFFICES ASSUME WorkerInv, WorkerNext PROVE [Next]_vars
  BY DEF workerVars, vars
<1>1. CASE Environment
  BY <1>1 DEF Environment, Next
<1>2. ASSUME NEW w \in Worker, RunOnce(w) PROVE [Next]_vars
  <2>1. ASSUME NEW S \in SUBSET Job, Recover(w, S) PROVE [Next]_vars
    BY <2>1 DEF Recover, Next
  <2>2. ASSUME NEW j \in Job, Take(w, j) PROVE [Next]_vars
    BY <2>2, WorkerAssumption DEF WorkerAssumption, Take, Next
  <2>3. CASE Pause(w)
    BY <2>3 DEF Pause
  <2>4. CASE Process(w)
    <3>1. ASSUME NEW from \in Processing, NEW to, NEW status \in Executing,
                 EnterStage(w, from, status, to)
          PROVE  Next
      BY <3>1, UseHeldClaim DEF EnterStage, UseClaim
    <3>2. CASE Store(w)
      BY <3>2, UseHeldClaim, StepKinds DEF Store, UseClaim, Processing, Fenced
    <3>3. ASSUME NEW success \in BOOLEAN, Persist(w, success) PROVE Next
      BY <3>3, UseHeldClaim DEF Persist, UseClaim, Processing, Fenced
    <3>4. CASE Record(w)
      <4>1. CASE FailOrRetry(held[w], pc[w] = "record_retryable")
        BY <3>4, <4>1, UseHeldClaim, StepKinds DEF Record, UseClaim
      <4> QED
        BY <3>4, <4>1 DEF Record
    <3>5. CASE Load(w) \/ Prepare(w) \/ Fit(w) \/ Fail(w) \/ LoseLease(w)
      BY <3>5 DEF Load, Prepare, Fit, Fail, LoseLease
    <3> QED
      BY <2>4, <3>1, <3>2, <3>3, <3>4, <3>5
      DEF Process, Processing, Fenced, Executing
  <2> QED
    BY <1>2, <2>1, <2>2, <2>3, <2>4 DEF RunOnce
<1>3. ASSUME NEW w \in Worker, NEW c \in beats[w], Beat(w, c) PROVE Next
  <2>1. c \in claims
    BY DEF WorkerInv, WorkerTypeOK
  <2> QED
    BY <1>3, <2>1 DEF Beat, UseClaim, Next
<1>4. ASSUME NEW w \in Worker, NEW c \in beats[w], StopBeating(w, c)
      PROVE  UNCHANGED vars
  BY <1>4 DEF StopBeating
<1>5. ASSUME NEW w \in Worker, Crash(w) \/ Restart(w) PROVE UNCHANGED vars
  BY <1>5 DEF Crash, Restart
<1> QED
  BY <1>1, <1>2, <1>3, <1>4, <1>5 DEF WorkerNext

(* Processes that are down hold nothing.                                    *)
LEMMA InitWorkerInv == WorkerInit => WorkerInv
<1>1. Init => TypeOK
  BY InitTypeOK
<1>2. WorkerInit => WorkerTypeOK
  BY StepKinds, ConstantsAssumption
  DEF ConstantsAssumption, WorkerInit, Init, WorkerTypeOK, Step
<1> QED
  BY <1>1, <1>2 DEF WorkerInit, WorkerInv

(* Every step of a process keeps its types.                                 *)
LEMMA NextWorkerInv == WorkerInv /\ [WorkerNext]_workerVars => WorkerInv'
<1> SUFFICES ASSUME WorkerInv, [WorkerNext]_workerVars PROVE WorkerInv'
  OBVIOUS
<1>1. [Next]_vars
  BY QueueStep
<1>2. TypeOK'
  BY <1>1, NextTypeOK DEF WorkerInv
<1>3. claims \subseteq claims'
  BY <1>1, ClaimsGrow
<1>4. UNCHANGED basis => basis' \in [Job -> 0 .. MaxAttempts]
  BY DEF WorkerInv, WorkerTypeOK
<1>5. ASSUME Environment \/ UNCHANGED workerVars PROVE WorkerTypeOK'
  BY <1>3, <1>5 DEF Environment, workerVars, processVars, WorkerInv, WorkerTypeOK
<1>6. ASSUME NEW w \in Worker, RunOnce(w) PROVE WorkerTypeOK'
  <2> USE <1>3, <1>4, StepKinds
  <2>1. ASSUME NEW S \in SUBSET Job, Recover(w, S) PROVE WorkerTypeOK'
    BY <2>1, GotoTyped DEF Recover, Step
  <2>2. ASSUME NEW j \in Job, Take(w, j) PROVE WorkerTypeOK'
    <3>1. CASE Goto(w, "idle")
      BY <2>2, <3>1, GotoTyped DEF Take, Step
    <3>2. CASE pc' = [pc EXCEPT ![w] = "claimed"] /\ UNCHANGED memory
      <4>1. PICK c \in claims' : /\ held' = [held EXCEPT ![w] = c]
                                /\ beats' = [beats EXCEPT ![w] = @ \cup {c}]
        BY <2>2, <3>2 DEF Take, Goto, WorkerInv, WorkerTypeOK
      <4>2. c # NoClaim
        BY <1>2, WorkerAssumption DEF WorkerAssumption, TypeOK
      <4> QED
        BY <2>2, <3>2, <4>1, <4>2
        DEF Take, WorkerInv, WorkerTypeOK, Step, Processing, Fenced
    <3> QED
      BY <2>2, <3>1, <3>2 DEF Take
  <2>3. CASE Pause(w)
    BY <2>3, GotoTyped DEF Pause, Step
  <2>4. CASE Process(w)
    <3>1. ASSUME NEW from \in Processing, NEW to \in Processing, NEW status,
                 EnterStage(w, from, status, to)
          PROVE  WorkerTypeOK'
      BY <3>1, GotoTyped, LeaveTyped DEF EnterStage, GoesOn, Recording
    <3>2. CASE Load(w)
      <4>1. estimates[held[w].job].prior \in 0 .. MaxAttempts
        BY <3>2, HeldClaim
        DEF Load, Processing, WorkerInv, TypeOK, EstimateRow
      <4> QED
        BY <3>2, <4>1 DEF Load, WorkerInv, WorkerTypeOK, Processing, Fenced
    <3>3. CASE Prepare(w)
      <4>1. held[w].attempt \in 0 .. MaxAttempts
        BY <3>3, HeldClaim DEF Prepare, Processing
      <4> QED
        BY <3>3, <4>1 DEF Prepare, WorkerInv, WorkerTypeOK, Processing, Fenced
    <3>4. CASE Store(w)
      BY <3>4, GotoTyped DEF Store, GoesOn, Processing, Fenced, Recording
    <3>5. CASE Fit(w)
      BY <3>5, GotoTyped DEF Fit, Processing, Fenced
    <3>6. ASSUME NEW success \in BOOLEAN, Persist(w, success) PROVE WorkerTypeOK'
      <4>1. memory[w] \in 0 .. MaxAttempts
        BY DEF WorkerInv, WorkerTypeOK
      <4>2. basis' \in [Job -> 0 .. MaxAttempts]
        BY <3>6, <4>1 DEF Persist, WorkerInv, WorkerTypeOK
      <4> QED
        BY <3>6, <4>2, GotoTyped, LeaveTyped
        DEF Persist, Processing, Fenced, Recording
    <3>7. CASE Fail(w)
      BY <3>7, GotoTyped DEF Fail
    <3>8. CASE LoseLease(w) \/ Record(w)
      BY <3>8, LeaveTyped DEF LoseLease, Record
    <3> QED
      BY <2>4, <3>1, <3>2, <3>3, <3>4, <3>5, <3>6, <3>7, <3>8
      DEF Process, Processing, Fenced
  <2> QED
    BY <1>6, <2>1, <2>2, <2>3, <2>4 DEF RunOnce
<1>7. ASSUME NEW w \in Worker, NEW c \in beats[w], Beat(w, c) \/ StopBeating(w, c)
      PROVE  WorkerTypeOK'
  BY <1>3, <1>7 DEF Beat, StopBeating, WorkerInv, WorkerTypeOK
<1>8. ASSUME NEW w \in Worker, Crash(w) PROVE WorkerTypeOK'
  BY <1>3, <1>8, StepKinds, ConstantsAssumption
  DEF ConstantsAssumption, Crash, WorkerInv, WorkerTypeOK, Step
<1>9. ASSUME NEW w \in Worker, Restart(w) PROVE WorkerTypeOK'
  BY <1>3, <1>4, <1>9, GotoTyped, StepKinds DEF Restart, Step
<1>10. WorkerTypeOK'
  BY <1>5, <1>6, <1>7, <1>8, <1>9 DEF WorkerNext
<1> QED
  BY <1>2, <1>10 DEF WorkerInv

(* The processes are well-typed and hold only claims they were given. *)
THEOREM WorkersTyped == WorkerSpec => []WorkerTypeOK
<1>1. WorkerInv => WorkerTypeOK
  BY DEF WorkerInv
<1> QED
  BY <1>1, InitWorkerInv, NextWorkerInv, PTL DEF WorkerSpec

(* Refinement: the workers, with their threads, failures and crashes, are a *)
(* client of the queue.                                                     *)
THEOREM WorkersUseQueue == WorkerSpec => ImplementsQueue
<1>1. WorkerInit => Init
  BY DEF WorkerInit
<1> QED
  BY <1>1, InitWorkerInv, NextWorkerInv, QueueStep, PTL
  DEF WorkerSpec, ImplementsQueue, Spec

(* Through the refinement, every theorem about the queue is one about the   *)
(* workers; the one that matters most: whatever a worker does, a published  *)
(* fit and its outcome are one commit.                                      *)
COROLLARY WorkersPublishAtomically == WorkerSpec => []PublishedWithOutcome
BY WorkersUseQueue, PublicationIsAtomic DEF ImplementsQueue

-----------------------------------------------------------------------------
(* One owner.  A job is leased to the attempt that attempt_count names, and *)
(* a claim of another attempt owns nothing; so two processes could only own *)
(* a job together if they had been given the same attempt.                  *)

(* No attempt is handed out that attempt_count does not count.              *)
Given == \A c \in claims : c.attempt <= jobs[c.job].attempt_count

(* No attempt is handed out twice.                                          *)
Exclusive ==
  \A v, w \in Worker :
    /\ pc[v] \in Processing /\ pc[w] \in Processing
    /\ held[v].job = held[w].job /\ held[v].attempt = held[w].attempt
    => v = w

(* What a process that owns its job knows of it, by where it stands.        *)
Knows(w) ==
  pc[w] \in Processing /\ Owned(held[w]) =>
    LET status == jobs[held[w].job].status
        frozen == estimates[held[w].job].prior
    IN
    /\ pc[w] = "claimed" => status = "resolving_inputs"
    /\ pc[w] \in {"loading", "preparing", "storing", "staging"} =>
         status = "loading_telemetry"
    /\ pc[w] \in {"fitting", "persisting"} => status = "running"
    /\ pc[w] \in {"preparing", "storing"} => frozen = 0
    /\ pc[w] = "storing" => memory[w] = held[w].attempt
    /\ pc[w] \in {"staging", "fitting", "persisting"} =>
         frozen # 0 /\ memory[w] = frozen

OwnerInv ==
  /\ IInv /\ WorkerTypeOK /\ Given /\ Exclusive
  /\ \A w \in Worker : Knows(w)
  /\ FitOfFrozenInputs

(* A step that changes nothing an owner relies on, unless it ends the        *)
(* ownership.                                                               *)
Quiet ==
  \/ \E j \in Job : Submit(j) \/ Cancel(j)
  \/ \E w \in WorkerId, j \in Job : ClaimJob(w, j)
  \/ \E S \in SUBSET Job : RecoverExpiredLeases(S)
  \/ Tick \/ UNCHANGED vars
  \/ \E d \in claims : Heartbeat(d)

(* ... and the same with the steps of other claims.                         *)
Aside(c) ==
  \/ Quiet
  \/ \E d \in claims :
       UseClaim(d) /\ ~(d.job = c.job /\ d.attempt = c.attempt)

(* Using a claim never starts an attempt.                                   *)
LEMMA CountKept ==
  ASSUME IInv, NEW c \in claims, UseClaim(c), NEW j \in Job
  PROVE  jobs'[j].attempt_count = jobs[j].attempt_count
<1>0. c.job \in Job /\ jobs \in [Job -> JobRow] /\ jobs[c.job] \in JobRow
  BY DEF IInv, TypeOK, Claim
<1>1. ASSUME NEW outcome, NEW error, Finish(c, outcome, error)
      PROVE  jobs'[j].attempt_count = jobs[j].attempt_count
  <2>1. Finished(jobs[c.job], outcome, error).attempt_count = jobs[c.job].attempt_count
    BY <1>0 DEF Finished, Released, JobRow
  <2> QED
    BY <1>0, <1>1, <2>1 DEF Finish
<1>2. CASE Heartbeat(c)
  BY <1>0, <1>2 DEF Heartbeat, JobRow
<1>3. ASSUME NEW status \in Executing, SetStage(c, status)
      PROVE  jobs'[j].attempt_count = jobs[j].attempt_count
  <2>1. CASE jobs' = [jobs EXCEPT ![c.job].status = status]
    BY <1>0, <2>1 DEF JobRow
  <2> QED
    BY <1>1, <1>3, <2>1 DEF SetStage
<1>4. CASE StorePrior(c)
  BY <1>4 DEF StorePrior
<1>5. ASSUME NEW success \in BOOLEAN, PersistResult(c, success)
      PROVE  jobs'[j].attempt_count = jobs[j].attempt_count
  BY <1>1, <1>5 DEF PersistResult
<1>6. ASSUME NEW retryable \in BOOLEAN, FailOrRetry(c, retryable)
      PROVE  jobs'[j].attempt_count = jobs[j].attempt_count
  <2>1. Rescheduled(jobs[c.job], BackoffTicks[c.attempt], "attempt_failed").attempt_count
          = jobs[c.job].attempt_count
    BY <1>0 DEF Rescheduled, Released, JobRow
  <2> QED
    BY <1>0, <1>1, <1>6, <2>1 DEF FailOrRetry
<1> QED
  BY <1>2, <1>3, <1>4, <1>5, <1>6 DEF UseClaim

(* A claim that owns its job after such a step owned it before, and finds   *)
(* its status and its inputs as they were.                                  *)
LEMMA OwnerUndisturbed ==
  ASSUME IInv, Given, NEW c \in claims, Aside(c), Owned(c)'
  PROVE  /\ Owned(c)
         /\ jobs'[c.job].status = jobs[c.job].status
         /\ estimates'[c.job] = estimates[c.job]
<1> DEFINE Goal == /\ Owned(c)
                   /\ jobs'[c.job].status = jobs[c.job].status
                   /\ estimates'[c.job] = estimates[c.job]
<1> USE DEF Owned
<1>0. /\ c.job \in Job /\ c.attempt \in Attempt /\ c.attempt <= jobs[c.job].attempt_count
      /\ jobs[c.job] \in JobRow /\ jobs \in [Job -> JobRow]
      /\ runs \in [Job -> [Attempt -> RunStatus]] /\ estimates \in [Job -> EstimateRow]
  BY DEF IInv, TypeOK, Claim, Given
<1>1. c.attempt > 0 /\ c.attempt \in Int /\ jobs[c.job].attempt_count \in Int
  BY <1>0, ConstantsAssumption DEF ConstantsAssumption, Attempt, JobRow
<1>2. ASSUME NEW j \in Job, Submit(j) PROVE Goal
  <2>1. j # c.job
    BY <1>0, <1>1, <1>2 DEF Submit, NewJob
  <2> QED
    BY <1>0, <1>2, <2>1 DEF Submit
<1>3. ASSUME NEW j \in Job, Cancel(j) PROVE Goal
  <2>1. CASE j # c.job
    BY <1>0, <1>3, <2>1 DEF Cancel
  <2>2. CASE j = c.job
    <3>1. /\ jobs'[j].status = IF jobs[j].status = "queued" THEN "canceled" ELSE jobs[j].status
          /\ jobs'[j].attempt_count = jobs[j].attempt_count
          /\ jobs'[j].lease = jobs[j].lease /\ jobs'[j].lease_owner = jobs[j].lease_owner
      BY <1>0, <1>3, <2>2 DEF Cancel, JobRow
    <3> QED
      BY <1>0, <1>3, <2>2, <3>1 DEF Cancel, Terminal
  <2> QED
    BY <2>1, <2>2
<1>4. ASSUME NEW w \in WorkerId, NEW j \in Job, ClaimJob(w, j) PROVE Goal
  <2>1. j # c.job
    <3>1. SUFFICES ASSUME j = c.job PROVE FALSE
      OBVIOUS
    <3>2. jobs'[j].attempt_count = jobs[j].attempt_count + 1
      BY <1>0, <1>4 DEF ClaimJob, Claimed, JobRow
    <3> QED
      BY <1>0, <1>1, <3>1, <3>2
  <2> QED
    BY <1>0, <1>4, <2>1 DEF ClaimJob
<1>5. ASSUME NEW S \in SUBSET Job, RecoverExpiredLeases(S) PROVE Goal
  <2>1. RecoveredJob(jobs[c.job]).lease = NoLease
    BY <1>0 DEF RecoveredJob, Released, JobRow
  <2>2. c.job \in S => jobs'[c.job] = RecoveredJob(jobs[c.job])
    BY <1>0, <1>5 DEF RecoverExpiredLeases
  <2>3. c.job \notin S
    BY <2>1, <2>2 DEF NoLease
  <2> QED
    BY <1>0, <1>5, <2>3 DEF RecoverExpiredLeases
<1>6. CASE Tick
  <2>1. /\ jobs'[c.job].status = jobs[c.job].status
        /\ jobs'[c.job].attempt_count = jobs[c.job].attempt_count
        /\ jobs'[c.job].lease_owner = jobs[c.job].lease_owner
        /\ jobs'[c.job].lease > 0 => jobs[c.job].lease > 0
    BY <1>0, <1>6 DEF Tick, Older, JobRow
  <2> QED
    BY <1>0, <1>6, <2>1 DEF Tick
<1>7. CASE UNCHANGED vars
  BY <1>7 DEF vars
<1>8. ASSUME NEW d \in claims, Heartbeat(d) PROVE Goal
  <2>1. CASE d.job # c.job
    BY <1>0, <1>8, <2>1 DEF Heartbeat
  <2>2. CASE d.job = c.job
    <3>1. /\ jobs'[c.job].status = jobs[c.job].status
          /\ jobs'[c.job].attempt_count = jobs[c.job].attempt_count
          /\ jobs'[c.job].lease_owner = jobs[c.job].lease_owner
          /\ jobs[c.job].lease > 0
      BY <1>0, <1>8, <2>2 DEF Heartbeat, JobRow
    <3> QED
      BY <1>0, <1>8, <2>2, <3>1 DEF Heartbeat
  <2> QED
    BY <2>1, <2>2
<1>9. ASSUME NEW d \in claims, UseClaim(d), ~(d.job = c.job /\ d.attempt = c.attempt)
      PROVE  Goal
  <2>1. Owned(d) /\ \A k \in Job \ {d.job} : /\ jobs'[k] = jobs[k] /\ runs'[k] = runs[k]
                                            /\ estimates'[k] = estimates[k]
    BY <1>9, UseClaimFrame
  <2>2. CASE d.job # c.job
    BY <1>0, <2>1, <2>2
  <2>3. CASE d.job = c.job
    <3>1. jobs[c.job].attempt_count # c.attempt
      BY <1>9, <2>1, <2>3
    <3>2. jobs'[c.job].attempt_count = jobs[c.job].attempt_count
      BY <1>0, <1>9, CountKept
    <3> QED
      BY <3>1, <3>2
  <2> QED
    BY <2>2, <2>3
<1> QED
  BY <1>2, <1>3, <1>4, <1>5, <1>6, <1>7, <1>8, <1>9 DEF Aside, Quiet

(* A number, once counted, stays counted. *)
LEMMA GivenStays == IInv /\ Given /\ [Next]_vars => Given'
<1> SUFFICES ASSUME IInv, Given, [Next]_vars PROVE Given'
  OBVIOUS
<1>0. TypeOK /\ TypeOK' /\ jobs \in [Job -> JobRow] /\ jobs' \in [Job -> JobRow]
  BY NextTypeOK DEF IInv, TypeOK
<1>1. ASSUME NEW j \in Job PROVE jobs[j].attempt_count \in Int /\ jobs'[j].attempt_count \in Int
  BY <1>0, ConstantsAssumption DEF ConstantsAssumption, JobRow
<1>2. ASSUME NEW j \in Job PROVE jobs[j].attempt_count <= jobs'[j].attempt_count
  <2> DEFINE Goal == jobs[j].attempt_count <= jobs'[j].attempt_count
             Same == jobs'[j].attempt_count = jobs[j].attempt_count
  <2>0. jobs[j] \in JobRow /\ (Same => Goal)
    BY <1>0, <1>1
  <2>1. ASSUME NEW k \in Job, Submit(k) PROVE Goal
    <3>1. jobs[k].attempt_count = 0 /\ jobs'[k].attempt_count = 0
      BY <1>0, <2>1 DEF Submit, IInv, RowInv, NewJob
    <3> QED
      BY <1>0, <1>1, <2>0, <2>1, <3>1 DEF Submit
  <2>2. ASSUME NEW k \in Job, Cancel(k) PROVE Goal
    BY <1>0, <2>0, <2>2 DEF Cancel, JobRow
  <2>3. ASSUME NEW w \in WorkerId, NEW k \in Job, ClaimJob(w, k) PROVE Goal
    <3>1. jobs'[k].attempt_count = jobs[k].attempt_count + 1
      BY <1>0, <2>3 DEF ClaimJob, Claimed, JobRow
    <3> QED
      BY <1>0, <1>1, <2>0, <2>3, <3>1 DEF ClaimJob
  <2>4. ASSUME NEW c \in claims, UseClaim(c) PROVE Goal
    BY <2>0, <2>4, CountKept
  <2>5. ASSUME NEW S \in SUBSET Job, RecoverExpiredLeases(S) PROVE Goal
    BY <1>0, <2>0, <2>5 DEF RecoverExpiredLeases, RecoveredJob, Released, JobRow
  <2>6. CASE Tick
    BY <1>0, <2>0, <2>6 DEF Tick, Older, JobRow
  <2>7. CASE UNCHANGED vars
    BY <2>0, <2>7 DEF vars
  <2> QED
    BY <2>1, <2>2, <2>3, <2>4, <2>5, <2>6, <2>7 DEF Next
<1>3. ASSUME NEW c \in claims PROVE c.attempt <= jobs'[c.job].attempt_count
  <2>1. c.job \in Job /\ c.attempt \in Int /\ c.attempt <= jobs[c.job].attempt_count
    BY ConstantsAssumption DEF ConstantsAssumption, IInv, TypeOK, Claim, Attempt, Given
  <2> QED
    BY <1>1, <1>2, <2>1
<1>4. ASSUME NEW w \in WorkerId, NEW j \in Job, ClaimJob(w, j), NEW c \in claims' \ claims
      PROVE  c.attempt <= jobs'[c.job].attempt_count
  <2>1. c.job = j /\ c.attempt = jobs[j].attempt_count + 1
    BY <1>4 DEF ClaimJob
  <2>2. jobs'[j].attempt_count = jobs[j].attempt_count + 1
    BY <1>0, <1>4 DEF ClaimJob, Claimed, JobRow
  <2> QED
    BY <1>1, <2>1, <2>2
<1>5. claims' = claims \/ \E w \in WorkerId, j \in Job : ClaimJob(w, j)
  BY DEF Next, vars, Submit, Cancel, UseClaim, Heartbeat, SetStage,
         StorePrior, PersistResult, FailOrRetry, RecoverExpiredLeases, Tick
<1> QED
  BY <1>3, <1>4, <1>5 DEF Given

(* Only persist_estimate_result publishes; what is published stays.         *)
LEMMA FitUndisturbed ==
  ASSUME IInv, NEW j \in Job, estimates'[j].published_run # 0,
         \/ Quiet
         \/ \E c \in claims :
              \/ \E status \in Executing : SetStage(c, status)
              \/ StorePrior(c)
              \/ \E retryable \in BOOLEAN : FailOrRetry(c, retryable)
  PROVE  estimates'[j] = estimates[j]
<1>0. estimates \in [Job -> EstimateRow]
  BY DEF IInv, TypeOK
<1>1. CASE Quiet
  <2>1. ASSUME NEW k \in Job, Submit(k) PROVE estimates'[j] = estimates[j]
    <3>1. estimates'[k].published_run = 0
      BY <1>0, <2>1 DEF Submit, NewEstimate
    <3> QED
      BY <1>0, <2>1, <3>1 DEF Submit
  <2>2. (\E k \in Job : Submit(k)) \/ UNCHANGED estimates
    BY <1>1 DEF Quiet, Cancel, ClaimJob, RecoverExpiredLeases, Tick, vars, Heartbeat
  <2> QED
    BY <2>1, <2>2
<1>2. ASSUME NEW c \in claims, StorePrior(c) PROVE estimates'[j] = estimates[j]
  <2>1. Owned(c) /\ c.job \in Job /\ estimates[c.job].published_run = 0
    BY <1>2, OwnedFacts, OwnedIsExecuting DEF StorePrior
  <2>2. estimates'[c.job].published_run = 0
    BY <1>0, <1>2, <2>1 DEF StorePrior, EstimateRow
  <2>3. j # c.job
    BY <2>2
  <2> QED
    BY <1>0, <1>2, <2>3 DEF StorePrior
<1> QED
  BY <1>1, <1>2 DEF SetStage, FailOrRetry

(* What a process knows stays true while it does nothing and others use     *)
(* other claims.                                                            *)
LEMMA KnowsStill ==
  ASSUME OwnerInv, NEW v \in Worker,
         pc'[v] = pc[v], held'[v] = held[v], memory'[v] = memory[v],
         pc[v] \in Processing => Aside(held[v])
  PROVE  Knows(v)'
<1>1. SUFFICES ASSUME pc[v] \in Processing, Owned(held[v])' PROVE Knows(v)'
  BY DEF Knows
<1>2. PICK c \in claims : c = held[v]
  BY <1>1, HeldClaim DEF OwnerInv, WorkerInv, IInv
<1>3. Owned(c)'
  BY <1>1, <1>2 DEF Owned
<1>4. Aside(c)
  BY <1>1, <1>2 DEF Aside
<1>5. /\ Owned(c) /\ jobs'[c.job].status = jobs[c.job].status
      /\ estimates'[c.job] = estimates[c.job]
  BY <1>3, <1>4, OwnerUndisturbed DEF OwnerInv
<1>6. Owned(held[v])
  BY <1>2, <1>5 DEF Owned
<1>7. Knows(v)
  BY DEF OwnerInv
<1> QED
  BY <1>1, <1>2, <1>5, <1>6, <1>7 DEF Knows

(* Without claims there is no owner to disagree.                            *)
LEMMA InitOwnerInv == WorkerInit => OwnerInv
<1> SUFFICES ASSUME WorkerInit PROVE OwnerInv
  OBVIOUS
<1>1. IInv /\ WorkerTypeOK
  BY InitIInv, InitWorkerInv DEF WorkerInit, WorkerInv
<1>2. claims = {} /\ \A w \in Worker : pc[w] = "idle"
  BY DEF WorkerInit, Init
<1>3. Given /\ Exclusive /\ \A w \in Worker : Knows(w)
  BY <1>2, StepKinds DEF Given, Exclusive, Knows
<1>4. FitOfFrozenInputs
  BY DEF WorkerInit, Init, NewEstimate, FitOfFrozenInputs
<1> QED
  BY <1>1, <1>3, <1>4 DEF OwnerInv

(* What does not depend on the process that takes a step.                   *)
OthersRest(w) ==
  \A v \in Worker \ {w} : pc'[v] = pc[v] /\ held'[v] = held[v] /\ memory'[v] = memory[v]

KeepsClaim(w) == pc'[w] \in Processing => pc[w] \in Processing /\ held'[w] = held[w]

(* A step of process w preserves the invariant if w knows afterwards what   *)
(* it should, and the fits are those of the frozen inputs.                  *)
LEMMA StepOfOne ==
  ASSUME OwnerInv, [WorkerNext]_workerVars, NEW w \in Worker, OthersRest(w), KeepsClaim(w),
         Quiet \/ (pc[w] \in Processing /\ UseClaim(held[w])),
         Knows(w)', FitOfFrozenInputs'
  PROVE  OwnerInv'
<1>1. WorkerInv /\ [Next]_vars
  BY QueueStep DEF OwnerInv, WorkerInv, IInv
<1>2. IInv' /\ WorkerTypeOK' /\ Given'
  BY <1>1, NextIInv, NextWorkerInv, GivenStays DEF OwnerInv, WorkerInv
<1>3. Exclusive'
  BY DEF OwnerInv, Exclusive, OthersRest, KeepsClaim
<1>4. ASSUME NEW v \in Worker \ {w} PROVE Knows(v)'
  <2>1. pc[v] \in Processing => Aside(held[v])
    <3>1. SUFFICES ASSUME pc[v] \in Processing, pc[w] \in Processing, UseClaim(held[w])
                   PROVE  Aside(held[v])
      BY DEF Aside
    <3>2. ~(held[w].job = held[v].job /\ held[w].attempt = held[v].attempt)
      BY <1>4, <3>1 DEF OwnerInv, Exclusive
    <3>3. held[w] \in claims
      BY <1>1, <3>1, HeldClaim
    <3> QED
      BY <3>1, <3>2, <3>3 DEF Aside
  <2> QED
    BY <1>4, <2>1, KnowsStill DEF OthersRest
<1> QED
  BY <1>2, <1>3, <1>4 DEF OwnerInv

(* In these places a process relies on nothing.                             *)
LEMMA NothingToKnow ==
  ASSUME NEW w \in Worker, pc'[w] \in {"down", "idle", "claiming"} \cup Recording
  PROVE  Knows(w)'
BY StepKinds DEF Knows, Recording

(* Fits are untouched by a step that is not persist_estimate_result.        *)
LEMMA FitsStay ==
  ASSUME OwnerInv, UNCHANGED basis,
         \/ Quiet
         \/ \E c \in claims :
              \/ \E status \in Executing : SetStage(c, status)
              \/ StorePrior(c)
              \/ \E retryable \in BOOLEAN : FailOrRetry(c, retryable)
  PROVE  FitOfFrozenInputs'
<1> SUFFICES ASSUME NEW j \in Job, estimates'[j].published_run # 0
             PROVE  estimates'[j].prior # 0 /\ basis'[j] = estimates'[j].prior
  BY DEF FitOfFrozenInputs
<1>1. estimates'[j] = estimates[j]
  BY FitUndisturbed DEF OwnerInv
<1> QED
  BY <1>1 DEF OwnerInv, FitOfFrozenInputs

(* A new claim is nobody else's, and its stage is the first.                *)
LEMMA TakeOwnerInv ==
  ASSUME OwnerInv, WorkerNext, NEW w \in Worker, NEW j \in Job, Take(w, j)
  PROVE  OwnerInv'
<1>0. /\ WorkerInv /\ TypeOK /\ pc \in [Worker -> Step] /\ pc[w] = "claiming"
      /\ held \in [Worker -> claims \cup {NoClaim}]
  BY DEF OwnerInv, WorkerInv, WorkerTypeOK, IInv, Take
<1>1. ClaimJob(IdOf[w], j) /\ IdOf[w] \in WorkerId /\ UNCHANGED <<basis, estimates>>
  BY WorkerAssumption DEF WorkerAssumption, Take, ClaimJob
<1>2. Quiet /\ FitOfFrozenInputs'
  <2>1. Quiet
    BY <1>1 DEF Quiet
  <2> QED
    BY <1>1, <2>1, FitsStay
<1>3. CASE Goto(w, "idle")
  <2>1. pc'[w] = "idle" /\ OthersRest(w)
    BY <1>0, <1>3 DEF Goto, OthersRest
  <2>2. KeepsClaim(w) /\ Knows(w)'
    BY <2>1, StepKinds, NothingToKnow DEF KeepsClaim
  <2> QED
    BY <1>2, <2>1, <2>2, StepOfOne
<1>4. CASE ~Goto(w, "idle")
  <2>1. PICK c \in claims' \ claims :
          /\ pc' = [pc EXCEPT ![w] = "claimed"]
          /\ held' = [held EXCEPT ![w] = c] /\ UNCHANGED memory
    BY <1>4 DEF Take
  <2>2. /\ c.job = j /\ c.attempt = jobs[j].attempt_count + 1
        /\ jobs'[j].status = "resolving_inputs"
    BY <1>0, <1>1, <2>1 DEF ClaimJob, Claimed, TypeOK, JobRow
  <2>3. /\ pc'[w] = "claimed" /\ held'[w] = c /\ OthersRest(w)
        /\ \A v \in Worker \ {w} : pc[v] \in Processing => held'[v] \in claims
    BY <1>0, <2>1, HeldClaim DEF OthersRest
  <2>4. ASSUME NEW d \in claims, d.job = j PROVE d.attempt # c.attempt
    <3>1. d.attempt <= jobs[j].attempt_count
      BY <2>4 DEF OwnerInv, Given
    <3>2. d.attempt \in Int /\ jobs[j].attempt_count \in Int
      BY <1>0, ConstantsAssumption DEF ConstantsAssumption, TypeOK, Claim, Attempt, JobRow
    <3> QED
      BY <2>2, <3>1, <3>2
  <2>5. Exclusive'
    <3>1. SUFFICES ASSUME NEW u \in Worker, NEW v \in Worker,
                          pc'[u] \in Processing, pc'[v] \in Processing,
                          held'[u].job = held'[v].job, held'[u].attempt = held'[v].attempt
                   PROVE  u = v
      BY DEF Exclusive
    <3>2. CASE u # w /\ v # w
      BY <2>3, <3>1, <3>2 DEF OthersRest, OwnerInv, Exclusive
    <3>3. CASE u = w /\ v # w
      BY <2>2, <2>3, <2>4, <3>1, <3>3 DEF OthersRest
    <3>4. CASE u # w /\ v = w
      BY <2>2, <2>3, <2>4, <3>1, <3>4 DEF OthersRest
    <3> QED
      BY <3>2, <3>3, <3>4
  <2>6. Knows(w)'
    BY <2>2, <2>3 DEF Knows
  <2>7. ASSUME NEW v \in Worker \ {w} PROVE Knows(v)'
    BY <1>2, <2>3, <2>7, KnowsStill DEF OthersRest, Aside
  <2>8. IInv' /\ WorkerTypeOK' /\ Given'
    <3>1. [Next]_vars
      BY <1>0, QueueStep
    <3> QED
      BY <1>0, <3>1, NextIInv, NextWorkerInv, GivenStays DEF OwnerInv, WorkerInv
  <2> QED
    BY <1>2, <2>5, <2>6, <2>7, <2>8 DEF OwnerInv
<1> QED
  BY <1>3, <1>4

(* Goto and Leave, as the others and the claim see them.                    *)
LEMMA GotoRests ==
  ASSUME OwnerInv, NEW w \in Worker, NEW step, Goto(w, step)
  PROVE  /\ pc'[w] = step /\ held'[w] = held[w] /\ memory'[w] = memory[w]
         /\ OthersRest(w) /\ (pc[w] \in Processing => KeepsClaim(w))
BY DEF OwnerInv, WorkerTypeOK, Goto, OthersRest, KeepsClaim

(* Leaving a claim takes nothing from the other processes.                  *)
LEMMA LeaveRests ==
  ASSUME OwnerInv, NEW w \in Worker, Leave(w)
  PROVE  pc'[w] = "idle" /\ OthersRest(w) /\ KeepsClaim(w) /\ Knows(w)'
<1>1. pc'[w] = "idle" /\ OthersRest(w)
  BY DEF OwnerInv, WorkerTypeOK, Leave, OthersRest
<1> QED
  BY <1>1, StepKinds, NothingToKnow DEF KeepsClaim

(* A step that ends in an exception, with the claim still held.             *)
LEMMA RecordRests ==
  ASSUME OwnerInv, NEW w \in Worker, NEW step \in Recording, Goto(w, step)
  PROVE  pc'[w] = step /\ OthersRest(w) /\ (pc[w] \in Processing => KeepsClaim(w)) /\ Knows(w)'
BY GotoRests, NothingToKnow

(* set_stage: the status is that of the stage the process goes on to.       *)
LEMMA EnterStageOwnerInv ==
  ASSUME OwnerInv, WorkerNext, NEW w \in Worker,
         NEW from, NEW status \in Executing, NEW to,
         EnterStage(w, from, status, to),
         \/ from = "claimed" /\ status = "loading_telemetry" /\ to = "loading"
         \/ from = "staging" /\ status = "running" /\ to = "fitting"
  PROVE  OwnerInv'
<1>1. /\ pc[w] = from /\ from \in Processing /\ SetStage(held[w], status) /\ UNCHANGED basis
      /\ held[w] \in claims /\ held[w].job \in Job
  <2>1. pc[w] = from /\ from \in Processing /\ SetStage(held[w], status) /\ UNCHANGED basis
    BY DEF EnterStage, Processing, Fenced
  <2> QED
    BY <2>1, HeldClaim DEF OwnerInv, WorkerInv, IInv
<1>2. UseClaim(held[w]) /\ FitOfFrozenInputs'
  <2>1. UseClaim(held[w])
    BY <1>1 DEF UseClaim
  <2> QED
    BY <1>1, <2>1, FitsStay
<1>3. CASE Leave(w)
  BY <1>1, <1>2, <1>3, LeaveRests, StepOfOne
<1>4. CASE Goto(w, "record_retryable")
  BY <1>1, <1>2, <1>4, RecordRests, StepOfOne DEF Recording
<1>5. CASE Goto(w, to) /\ ~jobs[held[w].job].cancel_requested
  <2>1. /\ pc'[w] = to /\ held'[w] = held[w] /\ memory'[w] = memory[w]
        /\ OthersRest(w) /\ KeepsClaim(w)
    BY <1>1, <1>5, GotoRests
  <2>2. /\ Owned(held[w]) /\ UNCHANGED estimates
        /\ jobs' = [jobs EXCEPT ![held[w].job].status = status]
    BY <1>1, <1>5 DEF SetStage
  <2>3. jobs'[held[w].job].status = status
    BY <1>1, <2>2 DEF OwnerInv, IInv, TypeOK, JobRow
  <2>4. Knows(w)
    BY DEF OwnerInv
  <2>5. Knows(w)'
    BY <1>1, <2>1, <2>2, <2>3, <2>4 DEF Knows
  <2> QED
    BY <1>1, <1>2, <2>1, <2>5, StepOfOne
<1> QED
  BY <1>3, <1>4, <1>5 DEF EnterStage, GoesOn

(* Steps that leave the queue alone.                                        *)
LEMMA LocalOwnerInv ==
  ASSUME OwnerInv, WorkerNext, NEW w \in Worker, UNCHANGED <<vars, basis>>,
         OthersRest(w), KeepsClaim(w), Knows(w)'
  PROVE  OwnerInv'
<1>1. Quiet /\ FitOfFrozenInputs'
  <2>1. Quiet
    BY DEF Quiet
  <2> QED
    BY <2>1, FitsStay
<1> QED
  BY <1>1, StepOfOne

(* Steps that change no table keep the invariant: reading the prior,        *)
LEMMA LoadOwnerInv ==
  ASSUME OwnerInv, WorkerNext, NEW w \in Worker, Load(w) PROVE OwnerInv'
<1> DEFINE frozen == estimates[held[w].job].prior
<1>1. /\ pc[w] = "loading" /\ UNCHANGED <<vars, held, basis>>
      /\ pc'[w] = IF frozen = 0 THEN "preparing" ELSE "staging"
      /\ memory'[w] = frozen /\ OthersRest(w)
  BY DEF OwnerInv, WorkerTypeOK, Load, OthersRest
<1>2. pc[w] \in Processing /\ KeepsClaim(w)
  BY <1>1 DEF Processing, KeepsClaim
<1>3. Knows(w)'
  BY <1>1, <1>2 DEF OwnerInv, Knows, vars, Owned
<1> QED
  BY <1>1, <1>2, <1>3, LocalOwnerInv

(* ... preparing inputs,                                                    *)
LEMMA PrepareOwnerInv ==
  ASSUME OwnerInv, WorkerNext, NEW w \in Worker, Prepare(w) PROVE OwnerInv'
<1>1. /\ pc[w] = "preparing" /\ UNCHANGED <<vars, held, basis>>
      /\ pc'[w] = "storing" /\ memory'[w] = held[w].attempt /\ OthersRest(w)
  BY DEF OwnerInv, WorkerTypeOK, Prepare, OthersRest
<1>2. pc[w] \in Processing /\ KeepsClaim(w)
  BY <1>1 DEF Processing, KeepsClaim
<1>3. Knows(w)'
  BY <1>1, <1>2 DEF OwnerInv, Knows, vars, Owned
<1> QED
  BY <1>1, <1>2, <1>3, LocalOwnerInv

(* ... and fitting.                                                         *)
LEMMA FitOwnerInv ==
  ASSUME OwnerInv, WorkerNext, NEW w \in Worker, Fit(w) PROVE OwnerInv'
<1>1. /\ pc[w] = "fitting" /\ UNCHANGED <<vars, held, memory, basis>>
      /\ pc'[w] = "persisting" /\ OthersRest(w)
  BY DEF OwnerInv, WorkerTypeOK, Fit, Goto, OthersRest
<1>2. pc[w] \in Processing /\ KeepsClaim(w)
  BY <1>1 DEF Processing, KeepsClaim
<1>3. Knows(w)'
  BY <1>1, <1>2 DEF OwnerInv, Knows, vars, Owned
<1> QED
  BY <1>1, <1>2, <1>3, LocalOwnerInv

(* store_prior: what is frozen is what the process holds.                   *)
LEMMA StoreOwnerInv ==
  ASSUME OwnerInv, WorkerNext, NEW w \in Worker, Store(w) PROVE OwnerInv'
<1>1. /\ pc[w] = "storing" /\ pc[w] \in Processing /\ StorePrior(held[w]) /\ UNCHANGED basis
      /\ held[w] \in claims /\ held[w].job \in Job /\ held[w].attempt # 0
  <2>1. pc[w] = "storing" /\ pc[w] \in Processing /\ StorePrior(held[w]) /\ UNCHANGED basis
    BY DEF Store, Processing, Fenced
  <2>2. held[w] \in claims
    BY <2>1, HeldClaim DEF OwnerInv, WorkerInv, IInv
  <2> QED
    BY <2>1, <2>2, ConstantsAssumption
    DEF ConstantsAssumption, OwnerInv, IInv, TypeOK, Claim, Attempt
<1>2. UseClaim(held[w]) /\ FitOfFrozenInputs'
  <2>1. UseClaim(held[w])
    BY <1>1 DEF UseClaim
  <2> QED
    BY <1>1, <2>1, FitsStay
<1>3. CASE Goto(w, "record_retryable")
  BY <1>1, <1>2, <1>3, RecordRests, StepOfOne DEF Recording
<1>4. CASE Goto(w, "staging")
  <2>1. /\ pc'[w] = "staging" /\ held'[w] = held[w] /\ memory'[w] = memory[w]
        /\ OthersRest(w) /\ KeepsClaim(w)
    BY <1>1, <1>4, GotoRests
  <2>2. /\ Owned(held[w]) /\ UNCHANGED jobs
        /\ estimates'[held[w].job].prior = held[w].attempt
    BY <1>1 DEF StorePrior, OwnerInv, IInv, TypeOK, EstimateRow
  <2>3. Knows(w)
    BY DEF OwnerInv
  <2>4. Knows(w)'
    BY <1>1, <2>1, <2>2, <2>3 DEF Knows
  <2> QED
    BY <1>1, <1>2, <2>1, <2>4, StepOfOne
<1> QED
  BY <1>3, <1>4 DEF Store, GoesOn

(* persist_estimate_result: the fit published is that of the frozen inputs. *)
LEMMA PersistOwnerInv ==
  ASSUME OwnerInv, WorkerNext, NEW w \in Worker, NEW success \in BOOLEAN, Persist(w, success)
  PROVE  OwnerInv'
<1> DEFINE c == held[w]
<1>1. /\ pc[w] = "persisting" /\ pc[w] \in Processing /\ PersistResult(c, success)
      /\ c \in claims /\ c.job \in Job /\ Owned(c) /\ UseClaim(c)
  <2>1. pc[w] = "persisting" /\ pc[w] \in Processing /\ PersistResult(c, success)
    BY DEF Persist, Processing, Fenced
  <2> QED
    BY <2>1, HeldClaim DEF OwnerInv, WorkerInv, IInv, PersistResult, UseClaim
<1>2. FitOfFrozenInputs'
  <2>1. CASE jobs[c.job].cancel_requested
    BY <1>1, <2>1 DEF Persist, PersistResult, OwnerInv, FitOfFrozenInputs
  <2>2. CASE ~jobs[c.job].cancel_requested
    <3>1. basis' = [basis EXCEPT ![c.job] = memory[w]]
          /\ estimates' = [estimates EXCEPT ![c.job].fit_rows = {c.attempt},
                                            ![c.job].published_run = c.attempt]
      BY <1>1, <2>2 DEF Persist, PersistResult
    <3>2. estimates[c.job].prior # 0 /\ memory[w] = estimates[c.job].prior
      BY <1>1 DEF OwnerInv, Knows
    <3>3. /\ estimates'[c.job].prior = estimates[c.job].prior
          /\ basis'[c.job] = memory[w]
          /\ \A j \in Job \ {c.job} : estimates'[j] = estimates[j] /\ basis'[j] = basis[j]
      BY <1>1, <3>1 DEF OwnerInv, WorkerTypeOK, IInv, TypeOK, EstimateRow
    <3> QED
      BY <3>2, <3>3 DEF OwnerInv, FitOfFrozenInputs
  <2> QED
    BY <2>1, <2>2
<1>3. CASE Leave(w)
  BY <1>1, <1>2, <1>3, LeaveRests, StepOfOne
<1>4. CASE Goto(w, "record_retryable")
  BY <1>1, <1>2, <1>4, RecordRests, StepOfOne DEF Recording
<1> QED
  BY <1>3, <1>4 DEF Persist

(* _record_failure, LeaseLost and the other exceptions.                     *)
LEMMA FailureOwnerInv ==
  ASSUME OwnerInv, WorkerNext, NEW w \in Worker, Fail(w) \/ LoseLease(w) \/ Record(w)
  PROVE  OwnerInv'
<1>1. CASE Fail(w)
  <2>1. PICK step \in Recording : Goto(w, step)
    BY <1>1 DEF Fail, Recording
  <2> QED
    BY <1>1, <2>1, RecordRests, LocalOwnerInv DEF Fail
<1>2. CASE LoseLease(w)
  BY <1>2, LeaveRests, LocalOwnerInv DEF LoseLease
<1>3. CASE Record(w)
  <2>1. Leave(w) /\ UNCHANGED basis /\ pc[w] \in Processing
    BY <1>3, StepKinds DEF Record
  <2>2. CASE UNCHANGED vars
    BY <2>1, <2>2, LeaveRests, LocalOwnerInv
  <2>3. CASE FailOrRetry(held[w], pc[w] = "record_retryable")
    <3>1. held[w] \in claims /\ UseClaim(held[w])
      BY <2>1, <2>3, HeldClaim DEF OwnerInv, WorkerInv, IInv, UseClaim
    <3>2. FitOfFrozenInputs'
      BY <2>1, <2>3, <3>1, FitsStay
    <3> QED
      BY <2>1, <3>1, <3>2, LeaveRests, StepOfOne
  <2> QED
    BY <1>3, <2>2, <2>3 DEF Record
<1> QED
  BY <1>1, <1>2, <1>3

(* Every step keeps the invariant.                                          *)
LEMMA NextOwnerInv == OwnerInv /\ [WorkerNext]_workerVars => OwnerInv'
<1> SUFFICES ASSUME OwnerInv, [WorkerNext]_workerVars PROVE OwnerInv'
  OBVIOUS
<1>1. WorkerInv /\ [Next]_vars /\ IInv' /\ WorkerTypeOK' /\ Given'
  <2>1. WorkerInv /\ [Next]_vars
    BY QueueStep DEF OwnerInv, WorkerInv, IInv
  <2> QED
    BY <2>1, NextIInv, NextWorkerInv, GivenStays DEF OwnerInv, WorkerInv
<1>2. ASSUME Quiet, UNCHANGED <<pc, held, memory, basis>> PROVE OwnerInv'
  <2>1. Exclusive'
    BY <1>2 DEF OwnerInv, Exclusive
  <2>2. ASSUME NEW v \in Worker PROVE Knows(v)'
    BY <1>2, KnowsStill DEF Aside
  <2>3. FitOfFrozenInputs'
    BY <1>2, FitsStay
  <2> QED
    BY <1>1, <2>1, <2>2, <2>3 DEF OwnerInv
<1>3. CASE Environment
  <2>1. Quiet
    BY <1>3 DEF Environment, Quiet
  <2> QED
    BY <1>2, <1>3, <2>1 DEF Environment, processVars
<1>4. CASE UNCHANGED workerVars
  <2>1. Quiet
    BY <1>4 DEF workerVars, Quiet
  <2> QED
    BY <1>2, <1>4, <2>1 DEF workerVars, processVars
<1>5. ASSUME WorkerNext, NEW w \in Worker, RunOnce(w) PROVE OwnerInv'
  <2>1. ASSUME NEW S \in SUBSET Job, Recover(w, S) PROVE OwnerInv'
    <3>1. Quiet /\ UNCHANGED basis /\ Goto(w, "claiming")
      BY <2>1 DEF Recover, Quiet
    <3>2. OthersRest(w) /\ pc'[w] = "claiming"
      BY <3>1, GotoRests
    <3>3. KeepsClaim(w) /\ Knows(w)' /\ FitOfFrozenInputs'
      BY <3>1, <3>2, StepKinds, NothingToKnow, FitsStay DEF KeepsClaim
    <3> QED
      BY <3>1, <3>2, <3>3, StepOfOne
  <2>2. ASSUME NEW j \in Job, Take(w, j) PROVE OwnerInv'
    BY <1>5, <2>2, TakeOwnerInv
  <2>3. CASE Pause(w)
    <3>1. UNCHANGED <<vars, basis>> /\ OthersRest(w) /\ pc'[w] = "idle"
      BY <2>3, GotoRests DEF Pause
    <3>2. KeepsClaim(w) /\ Knows(w)'
      BY <3>1, StepKinds, NothingToKnow DEF KeepsClaim
    <3> QED
      BY <1>5, <3>1, <3>2, LocalOwnerInv
  <2>4. CASE Process(w)
    BY <1>5, <2>4, EnterStageOwnerInv, LoadOwnerInv, PrepareOwnerInv, StoreOwnerInv,
       FitOwnerInv, PersistOwnerInv, FailureOwnerInv DEF Process, Executing
  <2> QED
    BY <1>5, <2>1, <2>2, <2>3, <2>4 DEF RunOnce
<1>6. ASSUME NEW w \in Worker, NEW c \in beats[w], Beat(w, c) PROVE OwnerInv'
  <2>1. c \in claims
    BY <1>6 DEF OwnerInv, WorkerTypeOK
  <2>2. Quiet
    BY <1>6, <2>1 DEF Beat, Quiet
  <2> QED
    BY <1>2, <1>6, <2>2 DEF Beat
<1>7. ASSUME NEW w \in Worker, NEW c \in beats[w], StopBeating(w, c) PROVE OwnerInv'
  <2>1. Quiet
    BY <1>7 DEF StopBeating, Quiet
  <2> QED
    BY <1>2, <1>7, <2>1 DEF StopBeating
<1>8. ASSUME WorkerNext, NEW w \in Worker, Crash(w) \/ Restart(w) PROVE OwnerInv'
  <2>1. UNCHANGED <<vars, basis>> /\ OthersRest(w) /\ pc'[w] \in {"down", "idle"}
    BY <1>8 DEF Crash, Restart, Goto, OthersRest, OwnerInv, WorkerTypeOK
  <2>2. KeepsClaim(w) /\ Knows(w)'
    BY <2>1, StepKinds, NothingToKnow DEF KeepsClaim
  <2> QED
    BY <1>8, <2>1, <2>2, LocalOwnerInv
<1> QED
  BY <1>3, <1>4, <1>5, <1>6, <1>7, <1>8 DEF WorkerNext

(* A job has one owner, whatever expires, crashes and comes back under the  *)
(* same worker ID, and the status the user sees is what that owner does.    *)
THEOREM OwnershipIsShown == WorkerSpec => []OwnerShown
<1>1. OwnerInv => SingleOwner
  <2> SUFFICES ASSUME OwnerInv, NEW v \in Worker, NEW w \in Worker,
                      pc[v] \in Processing, pc[w] \in Processing,
                      held[v].job = held[w].job, Owned(held[v]), Owned(held[w])
               PROVE  v = w
    BY DEF SingleOwner
  <2>1. held[v].attempt = held[w].attempt
    BY DEF Owned
  <2> QED
    BY <2>1 DEF OwnerInv, Exclusive
<1>2. OwnerInv => StageShown
  BY DEF OwnerInv, Knows, StageShown
<1> QED
  BY <1>1, <1>2, InitOwnerInv, NextOwnerInv, PTL DEF WorkerSpec, OwnerShown

(* Retries and other workers find the inputs frozen by the first attempt    *)
(* that stored them, and a published fit is the fit of those inputs.        *)
THEOREM InputsAreFrozenOnce == WorkerSpec => []InputsFrozenOnce
<1>1. OwnerInv => InputsStillOpen
  BY DEF OwnerInv, Knows, InputsStillOpen, Processing, Fenced
<1>2. OwnerInv => FitOfFrozenInputs
  BY DEF OwnerInv
<1> QED
  BY <1>1, <1>2, InitOwnerInv, NextOwnerInv, PTL DEF WorkerSpec, InputsFrozenOnce

-----------------------------------------------------------------------------
(***************************************************************************)
(* The form, for any number of tabs, requests and keys.  The argument: a   *)
(* key is drawn for one request and stays with it, wherever the two are    *)
(* remembered.                                                             *)
(***************************************************************************)

(* Somebody remembers b under the key k. *)
Uses(k, b) ==
  \/ [body |-> b, key |-> k] \in requests
  \/ \E t \in Tab : pending[t] = [body |-> b, key |-> k]
  \/ stored[k] = b

KeysDrawn == \A k \in Key, b \in Body : Uses(k, b) => k \in drawn

OneBodyPerKey ==
  \A k \in Key : \A b, c \in Body : Uses(k, b) /\ Uses(k, c) => b = c

(* A tab that posts still has in its storage what it posts. *)
PostsPending == \A t \in Tab : phase[t] = "posting" => pending[t] = sending[t]

(* What was answered is stored. *)
AnswersStored == \A reply \in replies : stored[reply.key] # Null

SubmissionInv ==
  /\ SubmissionTypeOK /\ KeysDrawn /\ OneBodyPerKey /\ PostsPending
  /\ AnswersStored /\ NeverConflicts /\ AcceptedIsStored

-----------------------------------------------------------------------------

(* Before anything is submitted the invariant holds.                        *)
LEMMA SubmissionInitInv == SubmissionInit => SubmissionInv
<1> SUFFICES ASSUME SubmissionInit PROVE SubmissionInv
  OBVIOUS
<1>1. SubmissionTypeOK
  BY DEF SubmissionInit, SubmissionTypeOK, NoRequest
<1>2. KeysDrawn /\ OneBodyPerKey
  BY SubmissionAssumption
  DEF SubmissionAssumption, SubmissionInit, KeysDrawn, OneBodyPerKey, Uses, NoRequest
<1>3. PostsPending /\ AnswersStored /\ NeverConflicts /\ AcceptedIsStored
  BY DEF SubmissionInit, PostsPending, AnswersStored, NeverConflicts, AcceptedIsStored
<1> QED
  BY <1>1, <1>2, <1>3 DEF SubmissionInv

(* A step that remembers nothing new leaves the keys as they are. *)
LEMMA KeysKept ==
  ASSUME SubmissionInv, drawn \subseteq drawn',
         \A k \in Key, b \in Body : Uses(k, b)' => Uses(k, b)
  PROVE  KeysDrawn' /\ OneBodyPerKey'
BY DEF SubmissionInv, KeysDrawn, OneBodyPerKey

(* It is kept by each step: taking or drawing a key,                        *)
LEMMA BeginInv ==
  ASSUME SubmissionInv, NEW t \in Tab, NEW body \in Body, Begin(t, body)
  PROVE  SubmissionInv'
<1>1. SubmissionTypeOK'
  BY DEF SubmissionInv, SubmissionTypeOK, Begin, network
<1>2. KeysDrawn' /\ OneBodyPerKey'
  BY KeysKept DEF Uses, Begin, network
<1>3. PostsPending' /\ AnswersStored' /\ NeverConflicts' /\ AcceptedIsStored'
  BY DEF SubmissionInv, SubmissionTypeOK, PostsPending, AnswersStored,
         NeverConflicts, AcceptedIsStored, Begin, network
<1> QED
  BY <1>1, <1>2, <1>3 DEF SubmissionInv

(* ... posting,                                                             *)
LEMMA PostInv ==
  ASSUME SubmissionInv, NEW t \in Tab, Post(t)
  PROVE  SubmissionInv'
<1> DEFINE req(key) == [body |-> sending[t].body, key |-> key]
<1>1. PICK key \in IF Repeats(t) THEN {pending[t].key} ELSE Key \ drawn :
        /\ phase[t] = "validating"
        /\ phase' = [phase EXCEPT ![t] = "posting"]
        /\ drawn' = drawn \cup {key}
        /\ pending' = [pending EXCEPT ![t] = req(key)]
        /\ sending' = [sending EXCEPT ![t] = req(key)]
        /\ requests' = requests \cup {req(key)}
        /\ UNCHANGED <<accepted, replies, stored, told>>
  BY DEF Post
<1>2. sending[t].body \in Body
  BY <1>1 DEF SubmissionInv, SubmissionTypeOK
<1>3. key \in Key
  <2>1. CASE Repeats(t)
    BY <1>1, <1>2, <2>1, SubmissionAssumption
    DEF SubmissionAssumption, SubmissionInv, SubmissionTypeOK, Repeats, Request, NoRequest
  <2> QED
    BY <1>1, <2>1
<1>4. SubmissionTypeOK'
  BY <1>1, <1>2, <1>3 DEF SubmissionInv, SubmissionTypeOK, Request
<1>5. \A k \in Key, b \in Body :
        Uses(k, b)' => Uses(k, b) \/ (k = key /\ b = sending[t].body)
  BY <1>1 DEF Uses, SubmissionInv, SubmissionTypeOK
<1>6. \A b \in Body : Uses(key, b) => b = sending[t].body
  <2>1. CASE Repeats(t)
    <3>1. pending[t] = req(key)
      BY <1>1, <1>2, <2>1, SubmissionAssumption
      DEF SubmissionAssumption, SubmissionInv, SubmissionTypeOK, Repeats, Request, NoRequest
    <3>2. Uses(key, sending[t].body)
      BY <3>1 DEF Uses
    <3> QED
      BY <1>2, <1>3, <3>2 DEF SubmissionInv, OneBodyPerKey
  <2>2. CASE ~Repeats(t)
    BY <1>1, <1>3, <2>2 DEF SubmissionInv, KeysDrawn
  <2> QED
    BY <2>1, <2>2
<1>7. KeysDrawn'
  BY <1>1, <1>5 DEF SubmissionInv, KeysDrawn
<1>8. OneBodyPerKey'
  BY <1>5, <1>6 DEF SubmissionInv, OneBodyPerKey
<1>9. PostsPending' /\ AnswersStored' /\ NeverConflicts' /\ AcceptedIsStored'
  BY <1>1 DEF SubmissionInv, SubmissionTypeOK, PostsPending, AnswersStored,
              NeverConflicts, AcceptedIsStored
<1> QED
  BY <1>4, <1>7, <1>8, <1>9 DEF SubmissionInv

(* What a tab posts and is answered for is stored as it was posted. *)
LEMMA AnsweredAsPosted ==
  ASSUME SubmissionInv, NEW t \in Tab, phase[t] = "posting",
         [key |-> sending[t].key, conflict |-> FALSE] \in replies
  PROVE  /\ sending[t] \in Request
         /\ stored[sending[t].key] = sending[t].body
<1>1. sending[t] \in Request
  BY DEF SubmissionInv, SubmissionTypeOK
<1>2. sending[t] = [body |-> sending[t].body, key |-> sending[t].key]
  BY <1>1 DEF Request
<1>3. Uses(sending[t].key, sending[t].body)
  BY <1>2 DEF Uses, SubmissionInv, PostsPending
<1>4. stored[sending[t].key] \in Body
  BY <1>1 DEF SubmissionInv, SubmissionTypeOK, AnswersStored, Request
<1>5. Uses(sending[t].key, stored[sending[t].key])
  BY DEF Uses
<1> QED
  BY <1>1, <1>3, <1>4, <1>5 DEF SubmissionInv, OneBodyPerKey, Request

(* ... hearing that the job is stored,                                      *)
LEMMA SucceedInv ==
  ASSUME SubmissionInv, NEW t \in Tab, Succeed(t)
  PROVE  SubmissionInv'
<1>1. /\ sending[t] \in Request
      /\ stored[sending[t].key] = sending[t].body
  BY AnsweredAsPosted DEF Succeed
<1>2. SubmissionTypeOK'
  BY <1>1 DEF SubmissionInv, SubmissionTypeOK, Succeed, network, Request, NoRequest
<1>3. KeysDrawn' /\ OneBodyPerKey'
  BY KeysKept, SubmissionAssumption
  DEF SubmissionAssumption, Uses, Succeed, network, NoRequest, SubmissionInv, SubmissionTypeOK
<1>4. PostsPending' /\ AnswersStored' /\ NeverConflicts'
  BY DEF SubmissionInv, SubmissionTypeOK, PostsPending, AnswersStored,
         NeverConflicts, Succeed, network
<1>5. AcceptedIsStored'
  BY <1>1 DEF SubmissionInv, SubmissionTypeOK, AcceptedIsStored, Succeed
<1> QED
  BY <1>2, <1>3, <1>4, <1>5 DEF SubmissionInv

(* The tab stops, and keeps what is in its storage. *)
LEMMA StopInv ==
  ASSUME SubmissionInv, NEW t \in Tab, GiveUp(t) \/ Reload(t)
  PROVE  SubmissionInv'
<1>1. SubmissionTypeOK'
  <2>1. CASE GiveUp(t)
    BY <2>1 DEF SubmissionInv, SubmissionTypeOK, GiveUp, network, NoRequest
  <2>2. CASE Reload(t)
    BY <2>2 DEF SubmissionInv, SubmissionTypeOK, Reload, network, NoRequest
  <2> QED
    BY <2>1, <2>2
<1>2. KeysDrawn' /\ OneBodyPerKey'
  BY KeysKept DEF Uses, GiveUp, Reload, network
<1>3. PostsPending' /\ AnswersStored' /\ NeverConflicts' /\ AcceptedIsStored'
  BY DEF SubmissionInv, SubmissionTypeOK, PostsPending, AnswersStored,
         NeverConflicts, AcceptedIsStored, GiveUp, Reload, network
<1> QED
  BY <1>1, <1>2, <1>3 DEF SubmissionInv

(* ... duplicating a tab,                                                   *)
LEMMA DuplicateInv ==
  ASSUME SubmissionInv, NEW t \in Tab, NEW to \in Tab, Duplicate(t, to)
  PROVE  SubmissionInv'
<1>1. SubmissionTypeOK'
  BY DEF SubmissionInv, SubmissionTypeOK, Duplicate, network
<1>2. KeysDrawn' /\ OneBodyPerKey'
  BY KeysKept DEF Uses, Duplicate, network, SubmissionInv, SubmissionTypeOK
<1>3. PostsPending' /\ AnswersStored' /\ NeverConflicts' /\ AcceptedIsStored'
  BY DEF SubmissionInv, SubmissionTypeOK, PostsPending, AnswersStored,
         NeverConflicts, AcceptedIsStored, Duplicate, network
<1> QED
  BY <1>1, <1>2, <1>3 DEF SubmissionInv

(* ... storing a job or finding it stored,                                  *)
LEMMA ServeInv ==
  ASSUME SubmissionInv, NEW req \in requests, Serve(req)
  PROVE  SubmissionInv'
<1> DEFINE k == req.key
<1>1. /\ req \in Request
      /\ req = [body |-> req.body, key |-> req.key]
      /\ k \in Key /\ req.body \in Body
  BY DEF SubmissionInv, SubmissionTypeOK, Request
<1>2. Kept(req) = req.body
  <2>1. Uses(k, req.body) /\ Uses(k, stored[k])
    BY <1>1 DEF Uses
  <2> QED
    BY <1>1, <2>1 DEF Kept, SubmissionInv, SubmissionTypeOK, OneBodyPerKey
<1>3. stored' = [stored EXCEPT ![k] = req.body]
  BY <1>2 DEF Serve
<1>4. replies' = replies \cup {[key |-> k, conflict |-> FALSE]}
  BY <1>1, <1>3 DEF Serve, SubmissionInv, SubmissionTypeOK
<1>5. \A j \in Key : stored[j] # Null => stored'[j] = stored[j]
  BY <1>1, <1>2, <1>3 DEF Kept, SubmissionInv, SubmissionTypeOK
<1>6. SubmissionTypeOK'
  <2>1. replies' \subseteq Reply
    <3>1. [key |-> k, conflict |-> FALSE] \in Reply
      BY <1>1 DEF Reply
    <3> QED
      BY <1>4, <3>1 DEF SubmissionInv, SubmissionTypeOK
  <2>2. stored' \in [Key -> Body \cup {Null}]
    BY <1>1, <1>3 DEF SubmissionInv, SubmissionTypeOK
  <2> QED
    BY <2>1, <2>2 DEF SubmissionInv, SubmissionTypeOK, Serve, page
<1>7. KeysDrawn' /\ OneBodyPerKey'
  BY <1>1, <1>3, KeysKept DEF Uses, Serve, page, SubmissionInv, SubmissionTypeOK
<1>8. AnswersStored'
  BY <1>1, <1>3, <1>4, <1>5, SubmissionAssumption
  DEF SubmissionAssumption, SubmissionInv, SubmissionTypeOK, AnswersStored, Reply
<1>9. AcceptedIsStored'
  BY <1>5 DEF SubmissionInv, SubmissionTypeOK, AcceptedIsStored, Serve, page
<1>10. PostsPending' /\ NeverConflicts'
  BY <1>4 DEF SubmissionInv, PostsPending, NeverConflicts, Serve, page
<1> QED
  BY <1>6, <1>7, <1>8, <1>9, <1>10 DEF SubmissionInv

(* ... losing a request,                                                    *)
LEMMA DropInv ==
  ASSUME SubmissionInv, NEW req \in requests, Drop(req)
  PROVE  SubmissionInv'
<1>1. SubmissionTypeOK'
  BY DEF SubmissionInv, SubmissionTypeOK, Drop, page
<1>2. KeysDrawn' /\ OneBodyPerKey'
  BY KeysKept DEF Uses, Drop, page
<1>3. PostsPending' /\ AnswersStored' /\ NeverConflicts' /\ AcceptedIsStored'
  BY DEF SubmissionInv, PostsPending, AnswersStored, NeverConflicts,
         AcceptedIsStored, Drop, page
<1> QED
  BY <1>1, <1>2, <1>3 DEF SubmissionInv

(* ... and every other one,                                                 *)
LEMMA SubmissionNextInv ==
  SubmissionInv /\ [SubmissionNext]_submissionVars => SubmissionInv'
<1> SUFFICES ASSUME SubmissionInv, [SubmissionNext]_submissionVars
             PROVE  SubmissionInv'
  OBVIOUS
<1>1. CASE SubmissionNext
  BY <1>1, BeginInv, PostInv, SucceedInv, StopInv, DuplicateInv, ServeInv, DropInv
  DEF SubmissionNext
<1>2. CASE UNCHANGED submissionVars
  BY <1>2 DEF submissionVars, page, network, SubmissionInv, SubmissionTypeOK,
              KeysDrawn, OneBodyPerKey, Uses, PostsPending, AnswersStored,
              NeverConflicts, AcceptedIsStored
<1> QED
  BY <1>1, <1>2

(* ... so it always holds.                                                  *)
LEMMA SubmissionAlways == SubmissionSpec => []SubmissionInv
  BY SubmissionInitInv, SubmissionNextInv, PTL DEF SubmissionSpec

-----------------------------------------------------------------------------

(* The tabs, the network and the table keep their types.                    *)
THEOREM SubmissionTypeCorrect == SubmissionSpec => []SubmissionTypeOK
<1>1. SubmissionInv => SubmissionTypeOK
  BY DEF SubmissionInv
<1> QED
  BY <1>1, SubmissionAlways, PTL

(* No key is ever used for two different requests, so the form never gets   *)
(* a 409.                                                                   *)
THEOREM KeysAreNotReused == SubmissionSpec => []NeverConflicts
<1>1. SubmissionInv => NeverConflicts
  BY DEF SubmissionInv
<1> QED
  BY <1>1, SubmissionAlways, PTL

(* What a tab shows as accepted is stored as it was filled in.              *)
THEOREM AcceptanceIsTrue == SubmissionSpec => []AcceptedIsStored
<1>1. SubmissionInv => AcceptedIsStored
  BY DEF SubmissionInv
<1> QED
  BY <1>1, SubmissionAlways, PTL

(* Only Post and Succeed take a request out of a tab's storage: the one for *)
(* another request, the other when the user is shown the job.               *)
LEMMA StorageStep ==
  ASSUME SubmissionInv, [SubmissionNext]_submissionVars,
         NEW req \in Request, NEW t \in Tab,
         pending[t] = req, pending'[t] # req
  PROVE  \/ pending'[t].body \notin {Null, req.body}
         \/ req.key \in told'
<1>1. CASE Post(t)
  <2>1. PICK key \in IF Repeats(t) THEN {pending[t].key} ELSE Key \ drawn :
          /\ phase[t] = "validating"
          /\ pending' = [pending EXCEPT ![t] = [body |-> sending[t].body, key |-> key]]
    BY <1>1 DEF Post
  <2>2. pending'[t] = [body |-> sending[t].body, key |-> key]
    BY <2>1 DEF SubmissionInv, SubmissionTypeOK
  <2>3. sending[t].body \in Body
    BY <2>1 DEF SubmissionInv, SubmissionTypeOK
  <2>4. ~Repeats(t)
    BY <2>1, <2>2 DEF Repeats, Request
  <2> QED
    BY <2>2, <2>3, <2>4, SubmissionAssumption DEF SubmissionAssumption, Repeats
<1>2. CASE Succeed(t)
  BY <1>2 DEF Succeed, SubmissionInv, PostsPending
<1>3. ASSUME NEW u \in Tab, u # t, Post(u) \/ Succeed(u) PROVE FALSE
  BY <1>3 DEF Post, Succeed, SubmissionInv, SubmissionTypeOK
<1>4. ASSUME NEW u \in Tab, NEW to \in Tab, Duplicate(u, to) PROVE FALSE
  BY <1>4, SubmissionAssumption
  DEF SubmissionAssumption, Duplicate, SubmissionInv, SubmissionTypeOK, NoRequest, Request
<1>5. pending' # pending
  OBVIOUS
<1>6. ~UNCHANGED submissionVars
  BY <1>5 DEF submissionVars, page
<1>7. ASSUME NEW u \in Tab PROVE ~GiveUp(u) /\ ~Reload(u) /\ \A body \in Body : ~Begin(u, body)
  BY <1>5 DEF GiveUp, Reload, Begin
<1>8. ASSUME NEW q \in requests PROVE ~Serve(q) /\ ~Drop(q)
  BY <1>5 DEF Serve, Drop, page
<1> QED
  BY <1>1, <1>2, <1>3, <1>4, <1>6, <1>7, <1>8 DEF SubmissionNext

(* A request in doubt stays retriable under its key until the user submits  *)
(* something else.                                                          *)
THEOREM DoubtStaysRetriable == SubmissionSpec => KeyOutlivesDoubt
<1> DEFINE Dropped(req) ==
      InDoubt(req)' /\ Retriable(req) /\ ~Retriable(req)'
<1> DEFINE Replaced(req) ==
      \E t \in Tab : pending[t] = req /\ pending'[t].body \notin {Null, req.body}
<1>1. ASSUME SubmissionInv, [SubmissionNext]_submissionVars,
             NEW req \in Request, Dropped(req)
      PROVE  Replaced(req)
  <2>1. PICK t \in Tab : pending[t] = req
    BY <1>1 DEF Retriable
  <2>2. pending'[t] # req
    BY <1>1 DEF Retriable
  <2>3. req.key \notin told'
    BY <1>1 DEF InDoubt
  <2> QED
    BY <1>1, <2>1, <2>2, <2>3, StorageStep
<1>2. SubmissionInv /\ [SubmissionNext]_submissionVars =>
        [\A req \in Request : Dropped(req) => Replaced(req)]_submissionVars
  BY <1>1
<1> QED
  BY <1>2, SubmissionAlways, PTL DEF SubmissionSpec, KeyOutlivesDoubt

(* What the form shows its user is true of the queue.                       *)
THEOREM UserIsToldTheTruth == SubmissionSpec => []AnswersAreTrue
<1>1. NeverConflicts /\ AcceptedIsStored => AnswersAreTrue
  BY DEF AnswersAreTrue
<1> QED
  BY <1>1, KeysAreNotReused, AcceptanceIsTrue, PTL

-----------------------------------------------------------------------------
(***************************************************************************)
(* The resolution of the inputs and the fit, for any world, request,       *)
(* profile and number of faults.  What a thread holds is of its own        *)
(* contact, and of a sound provider true, so that the prior, or the        *)
(* verdict, is the request's; and whatever the optimizer asks, every value *)
(* the fit moves along stays under its own name.                           *)
(***************************************************************************)

\* What a thread is at, what it has read and how it failed.
Thread ==
  [at : Documents \union {"queued", "compare", "loaded", "query", "framed", "failed"},
   error : {None, "transport", "refused", "kogs", "value", "load"},
   contact : Contact \union {None}, antenna : Antenna \union {None},
   spacecraft : Craft \union {None}, ephemeris : Ephemeris \union {None},
   frame : SUBSET Sample]

\* The first failure, as the main thread raises it.
Raised ==
  [provider : {"KOGS", "ADX"}, contact : Contact,
   error : {"transport", "refused", "kogs", "value", "load"}]

\* Where the main thread is while a provider may be called.
Awaiting == {"metadata", "telemetry", "unwinding"}

\* Types.
ResolutionType ==
  /\ world \in Worlds /\ request \in Requests
  /\ thread \in [Contact -> Thread]
  /\ main \in Awaiting \union {"prior", "prepared", "failed"}
  /\ raised \in Raised \union {None}
  /\ client \in {"open", "closed"}
  /\ faults \in Nat

\* A thread that has its frame has the samples of its own contact.
FramesAreTrue ==
  \A c \in Contact : thread[c].at = "framed" =>
    /\ thread[c].frame = world.samples[c] /\ thread[c].frame # {}
    /\ \A s \in thread[c].frame : Identified(s, c)

\* Where the main thread is, the threads are.
ThreadsFollowMain ==
  /\ \A c \in Contact \ Requested : thread[c].at = "queued"
  /\ main \in {"prior", "prepared", "failed"} => AtWork = {}
  /\ client = "closed" => main \in {"prior", "prepared", "failed"}
  /\ main \in {"prior", "prepared"} => \A c \in Requested : thread[c].at = "framed"

\* The error that was raised is that of a thread that failed with it, and there
\* is one when the loop gives up.
RaisedIsOfAThread ==
  /\ main = "unwinding" => raised # None
  /\ raised # None =>
       /\ raised.contact \in Requested
       /\ thread[raised.contact].at = "failed"
       /\ thread[raised.contact].error = raised.error

\* Sound providers: the documents are the world's, the errors the request's.
Sound ==
  faults = 0 =>
    /\ \A c \in Contact :
         LET t == thread[c] about == world.contact[c] IN
         /\ t.at \in {"antenna", "spacecraft", "ephemeris", "compare"} => t.contact = c
         /\ t.at \in {"spacecraft", "ephemeris", "compare"} => t.antenna = about.system
         /\ t.at \in {"ephemeris", "compare"} => t.spacecraft = about.craft
         /\ t.at \in {"compare", "loaded"} => t.ephemeris = about.ephemeris
         /\ main \in {"telemetry", "prior"} /\ c \in Requested => t.ephemeris = about.ephemeris
    /\ raised # None => raised.error \in {"kogs", "load"} /\ ~Meetable

\* The verdict is of a preparation that failed, the prior of one that did not.
Outcome ==
  /\ verdict # None => main = "failed" /\ FailureExplained
  /\ prior # None => main = "prepared"
  /\ main = "prepared" => \E e \in Ephemeris : Acceptable(e) /\ prior = Prior(e)

\* The invariant of a preparation.
ResolutionInv ==
  ResolutionType /\ FramesAreTrue /\ ThreadsFollowMain /\ RaisedIsOfAThread /\ Sound /\ Outcome

\* Every value is under its own name; what is not estimated has not moved.
Own(values) ==
  /\ DOMAIN values = DOMAIN Parameters
  /\ \A i \in DOMAIN Parameters :
       /\ values[i].of = Names[i]
       /\ Parameters[i].role # "estimate" => values[i] = Zero(Names[i])

\* A fit is of a prepared request, and only a profile with a scan scans.
FitType ==
  /\ profile \in Profiles
  /\ stage \in {"waiting", "scan", "begin", "iterate", "covariance", "rows", "published", "raised"}
  /\ stage # "waiting" => main = "prepared"
  /\ stage = "scan" => profile.scans # None

\* The initial values, before a scan and after it,
InitialIsOwn == stage # "waiting" => Own(initial)

\* the optimizer's point, whose components are the estimated parameters',
PointIsOwn ==
  stage = "iterate" =>
    /\ DOMAIN point = DOMAIN Estimated
    /\ \A i \in DOMAIN Estimated : point[i].of = Names[Estimated[i]]

\* and the evaluator's cache and answer, each at the point it is kept for.
CacheIsOfThePoint ==
  /\ stage \in {"waiting", "scan", "begin"} => cache.x = None /\ answered = None
  /\ \A x \in {cache.x} : x # None => cache.at = Expand(x)
  /\ answered # None => \A x \in {answered.asked} : answered.at = Expand(x)

\* The result names its columns in the order of the parameters; its biases
\* are those of the passes; and only the covariance of a success is there.
OutputIsOwn ==
  stage \in {"covariance", "rows", "published"} =>
    /\ output.names = Names
    /\ output.roles = [i \in DOMAIN Parameters |-> Parameters[i].role]
    /\ Own(output.parameters) /\ output.columns = Names
    /\ \A k \in DOMAIN request.contacts :
         output.at[Len(Leading) + k].of = Bias(request.contacts[k])
    /\ stage # "covariance" =>
         output.covariance = IF output.success /\ profile.version >= 2 THEN Names ELSE None

\* The rows are one of each parameter.
RowsAreMade ==
  rows # None => stage = "published" /\ rows = [i \in DOMAIN Names |-> Row(i)]

\* The invariant of a fit.
FitInv ==
  FitType /\ InitialIsOwn /\ PointIsOwn /\ CacheIsOfThePoint /\ OutputIsOwn /\ RowsAreMade

(* What is requested, of which world.                                       *)
LEMMA RequestTyped ==
  ASSUME ResolutionType
  PROVE  /\ world \in WorldType
         /\ \A c \in Contact :
              IsFiniteSet(world.samples[c]) /\ \A s \in world.samples[c] : s.contact = c
         /\ request.contacts \in Seq(Contact) /\ request.contacts # <<>>
         /\ \A i, j \in DOMAIN request.contacts :
              request.contacts[i] = request.contacts[j] => i = j
         /\ request.ephemeris \in Ephemeris \union {None} /\ request.minimum \in Nat \ {0}
         /\ None \notin Contact /\ None \notin Ephemeris
BY FitAssumption DEF FitConfig, ResolutionConfig, ResolutionType

(* The requested contacts: finitely many, one at least.                     *)
LEMMA RequestedIsFinite ==
  ASSUME ResolutionType
  PROVE  /\ Requested \subseteq Contact /\ Requested # {} /\ IsFiniteSet(Requested)
         /\ DOMAIN request.contacts = 1 .. Len(request.contacts)
         /\ Len(request.contacts) \in Nat \ {0}
         /\ \A i \in DOMAIN request.contacts : request.contacts[i] \in Requested
<1> DEFINE n == Len(request.contacts)
<1>1. /\ n \in Nat /\ DOMAIN request.contacts = 1 .. n
      /\ request.contacts \in [1 .. n -> Contact]
      /\ n # 0
  BY RequestTyped, LenProperties, EmptySeq
<1>2. /\ Requested \subseteq Contact
      /\ \A i \in 1 .. n : request.contacts[i] \in Requested
  BY <1>1 DEF Requested, ToSet
<1>3. request.contacts \in Surjection(1 .. n, Requested)
  BY <1>1, <1>2 DEF Requested, ToSet, Surjection
<1>4. IsFiniteSet(1 .. n)
  BY <1>1, FS_Interval
<1>5. IsFiniteSet(Requested)
  BY <1>3, <1>4, FS_Surjection
<1>6. request.contacts[1] \in Requested
  BY <1>1, <1>2
<1> QED
  BY <1>1, <1>2, <1>5, <1>6

Usable == {s \in UNION {thread[c].frame : c \in Requested} : s.usable}

(* The samples that may be selected, of the threads that have their frames. *)
LEMMA UsableSamples ==
  ASSUME ResolutionType, FramesAreTrue, \A c \in Requested : thread[c].at = "framed"
  PROVE  /\ IsFiniteSet(Usable)
         /\ Usable = {s \in UNION {world.samples[c] : c \in Requested} : s.usable}
         /\ \A s \in Usable : /\ s \in Sample /\ s.contact \in Requested
                              /\ s \in world.samples[s.contact] /\ s.usable
                              /\ Identified(s, s.contact)
<1>1. \A c \in Requested :
        /\ c \in Contact
        /\ thread[c].frame = world.samples[c] /\ IsFiniteSet(thread[c].frame)
        /\ \A s \in world.samples[c] :
             s.contact = c /\ Identified(s, c) /\ s \in Sample
  BY RequestTyped, RequestedIsFinite DEF FramesAreTrue, WorldType
<1> DEFINE Frames == {thread[c].frame : c \in Requested}
           frameOf == [c \in Requested |-> thread[c].frame]
<1>2. frameOf \in Surjection(Requested, Frames)
  BY DEF Surjection
<1>3. IsFiniteSet(Frames)
  BY <1>2, RequestedIsFinite, FS_Surjection
<1>4. \A T \in Frames : IsFiniteSet(T)
  BY <1>1
<1>5. IsFiniteSet(UNION Frames)
  BY <1>3, <1>4, FS_UNION
<1>6. Usable \in SUBSET UNION Frames
  BY DEF Usable
<1>7. IsFiniteSet(Usable)
  BY <1>5, <1>6, FS_Subset
<1>8. Usable = {s \in UNION {world.samples[c] : c \in Requested} : s.usable}
  BY <1>1 DEF Usable
<1>9. ASSUME NEW s \in Usable
      PROVE  /\ s \in Sample /\ s.contact \in Requested
             /\ s \in world.samples[s.contact] /\ s.usable
             /\ Identified(s, s.contact)
  <2>1. PICK c \in Requested : s \in world.samples[c] /\ s.usable
    BY <1>8
  <2>2. s.contact = c
    BY <1>1, <2>1
  <2> QED
    BY <1>1, <2>1, <2>2
<1> QED
  BY <1>7, <1>8, <1>9

(* They are selected in the order of time, all of them and each once.       *)
LEMMA SelectedIsOrdered ==
  ASSUME ResolutionType, FramesAreTrue, \A c \in Requested : thread[c].at = "framed"
  PROVE  /\ Cardinality(Usable) \in Nat
         /\ Selected \in [1 .. Cardinality(Usable) -> Usable]
         /\ \A s \in Usable : \E i \in 1 .. Cardinality(Usable) : Selected[i] = s
         /\ \A i, j \in 1 .. Cardinality(Usable) :
              i <= j => Selected[i].time <= Selected[j].time
         /\ \A i, j \in 1 .. Cardinality(Usable) : Selected[i] = Selected[j] => i = j
<1> DEFINE R == {p \in Usable \X Usable : Earlier(p[1], p[2])}
<1>1. \A s, t \in Usable : <<s, t>> \in R <=> Earlier(s, t)
  OBVIOUS
<1>2. \A s \in Usable : /\ s \in Sample /\ s.time \in Int /\ s.contact \in Int
                        /\ Identified(s, s.contact) /\ s.usable = TRUE
  <2> TAKE s \in Usable
  <2>1. s \in Sample /\ s.usable /\ Identified(s, s.contact)
    BY UsableSamples
  <2>2. Contact \subseteq Int
    BY FitAssumption DEF FitConfig, ResolutionConfig
  <2> QED
    BY <2>1, <2>2 DEF Sample
<1>3. \A s, t \in Usable : Earlier(s, t) \/ Earlier(t, s)
  BY <1>2 DEF Earlier
<1>4. ASSUME NEW s \in Usable, NEW t \in Usable, Earlier(s, t), Earlier(t, s)
      PROVE  s = t
  <2>1. s.time = t.time /\ s.contact = t.contact
    BY <1>2, <1>4 DEF Earlier
  <2>2. s.craft = t.craft /\ s.system = t.system
    BY <1>2, <2>1 DEF Identified
  <2> QED
    BY <1>2, <2>1, <2>2 DEF Sample
<1>5. \A s, t, u \in Usable : Earlier(s, t) /\ Earlier(t, u) => Earlier(s, u)
  BY <1>2 DEF Earlier
<1>6. Selected = Ordered(Usable, R)
  BY DEF Selected, Usable
<1> HIDE DEF R
<1>7. Orders(R, Usable)
  BY <1>1, <1>3, <1>4, <1>5 DEF Orders
<1>8. /\ Cardinality(Usable) \in Nat
      /\ Selected \in [1 .. Cardinality(Usable) -> Usable]
      /\ \A s \in Usable : \E i \in 1 .. Cardinality(Usable) : Selected[i] = s
      /\ \A i, j \in 1 .. Cardinality(Usable) : i <= j <=> <<Selected[i], Selected[j]>> \in R
      /\ \A i, j \in 1 .. Cardinality(Usable) : Selected[i] = Selected[j] => i = j
  BY <1>6, <1>7, UsableSamples, OrderedIsOrdered
<1>9. \A i, j \in 1 .. Cardinality(Usable) :
        i <= j => Selected[i].time <= Selected[j].time
  <2> SUFFICES ASSUME NEW i \in 1 .. Cardinality(Usable), NEW j \in 1 .. Cardinality(Usable),
                      i <= j
               PROVE  Selected[i].time <= Selected[j].time
    OBVIOUS
  <2>1. Selected[i] \in Usable /\ Selected[j] \in Usable
    BY <1>8
  <2>2. Earlier(Selected[i], Selected[j])
    BY <1>1, <1>8, <2>1
  <2> QED
    BY <1>2, <2>1, <2>2 DEF Earlier
<1> QED
  BY <1>8, <1>9

(* IndexOf finds what is there.                                             *)
LEMMA IndexOfFinds ==
  ASSUME NEW s, NEW x, \E i \in DOMAIN s : s[i] = x
  PROVE  IndexOf(s, x) \in DOMAIN s /\ s[IndexOf(s, x)] = x
BY DEF IndexOf

(* Every contact's system is among the receivers.                           *)
LEMMA ReceiversAreAll ==
  ASSUME NEW contacts \in Seq(Contact), NEW i \in DOMAIN contacts
  PROVE  \E k \in DOMAIN Receivers(contacts) : Receivers(contacts)[k] = System(contacts[i])
<1> DEFINE Same == {j \in DOMAIN contacts : System(contacts[j]) = System(contacts[i])}
           First == {j \in DOMAIN contacts :
                       \A k \in DOMAIN contacts : k < j => System(contacts[k]) # System(contacts[j])}
<1>1. Len(contacts) \in Nat /\ DOMAIN contacts = 1 .. Len(contacts)
  BY LenProperties
<1>2. Same \subseteq Nat /\ Same # {}
  BY <1>1
<1>3. PICK m \in Same : \A k \in Same : m <= k
  BY <1>2, LeastNatural
<1>4. m \in First
  BY <1>1, <1>3
<1>5. First \in SUBSET Int /\ First \in SUBSET (1 .. Len(contacts)) /\ IsFiniteSet(1 .. Len(contacts))
  BY <1>1, FS_Interval
<1>6. IsFiniteSet(First)
  BY <1>5, FS_Subset
<1>7. Receivers(contacts) =
        [n \in DOMAIN Ascending(First) |-> System(contacts[Ascending(First)[n]])]
  BY DEF Receivers
<1> HIDE DEF First
<1>8. /\ DOMAIN Ascending(First) = 1 .. Cardinality(First)
      /\ \E k \in 1 .. Cardinality(First) : Ascending(First)[k] = m
  BY <1>4, <1>5, <1>6, AscendingIsAscending
<1> QED
  BY <1>3, <1>7, <1>8

(* Of the requested contacts one is the latest.                             *)
LEMMA LatestIsThere ==
  ASSUME ResolutionType
  PROVE  /\ LatestContact(Requested) \in Requested
         /\ \A d \in Requested :
              LET c == LatestContact(Requested) IN
              world.contact[d].start < world.contact[c].start \/
                (world.contact[d].start = world.contact[c].start /\ d <= c)
<1> DEFINE start(c) == world.contact[c].start
           Upto(d, c) == start(d) < start(c) \/ (start(d) = start(c) /\ d <= c)
           R == {p \in Requested \X Requested : Upto(p[1], p[2])}
           n == Cardinality(Requested)
<1>1. \A c, d \in Requested : <<c, d>> \in R <=> Upto(c, d)
  OBVIOUS
<1>2. \A c \in Requested : start(c) \in Int /\ c \in Int
  <2> TAKE c \in Requested
  <2>1. c \in Contact /\ Contact \subseteq Int
    BY RequestedIsFinite, FitAssumption DEF FitConfig, ResolutionConfig
  <2> QED
    BY <2>1, RequestTyped DEF WorldType
<1>3. /\ \A c, d \in Requested : Upto(c, d) \/ Upto(d, c)
      /\ \A c, d \in Requested : Upto(c, d) /\ Upto(d, c) => c = d
      /\ \A c, d, e \in Requested : Upto(c, d) /\ Upto(d, e) => Upto(c, e)
  BY <1>2
<1> HIDE DEF R
<1>4. Orders(R, Requested)
  BY <1>1, <1>3 DEF Orders
<1>5. /\ n \in Nat
      /\ Ordered(Requested, R) \in [1 .. n -> Requested]
      /\ \A c \in Requested : \E i \in 1 .. n : Ordered(Requested, R)[i] = c
      /\ \A i, j \in 1 .. n :
           i <= j <=> <<Ordered(Requested, R)[i], Ordered(Requested, R)[j]>> \in R
  BY <1>4, RequestedIsFinite, OrderedIsOrdered
<1>6. n # 0
  BY RequestedIsFinite, FS_EmptySet
<1> DEFINE last == Ordered(Requested, R)[n]
<1>7. last \in Requested
  BY <1>5, <1>6
<1>8. \A d \in Requested : <<d, last>> \in R
  BY <1>5, <1>6
<1>9. \A d \in Requested : Upto(d, last)
  BY <1>1, <1>7, <1>8
<1>10. \E c \in Requested : \A d \in Requested : Upto(d, c)
  BY <1>7, <1>9
<1>11. LatestContact(Requested) = CHOOSE c \in Requested : \A d \in Requested : Upto(d, c)
  BY DEF LatestContact
<1> QED
  BY <1>10, <1>11

(* The ephemeris a request means is one there is.                           *)
LEMMA ExpectedIsThere ==
  ASSUME ResolutionType
  PROVE  ExpectedEphemeris \in Ephemeris
<1>1. LatestContact(Requested) \in Contact
  BY LatestIsThere, RequestedIsFinite
<1> QED
  BY <1>1, RequestTyped DEF ExpectedEphemeris, WorldType

(* Every usable sample of a contact is selected.                            *)
LEMMA SelectedSuffice ==
  ASSUME ResolutionType, FramesAreTrue, \A c \in Requested : thread[c].at = "framed",
         NEW c \in Requested
  PROVE  /\ Cardinality({s \in world.samples[c] : s.usable}) \in Nat
         /\ Cardinality({i \in DOMAIN Selected : Selected[i].contact = c}) \in Nat
         /\ Cardinality({s \in world.samples[c] : s.usable}) <=
              Cardinality({i \in DOMAIN Selected : Selected[i].contact = c})
<1> DEFINE U == {s \in world.samples[c] : s.usable}
           I == {i \in DOMAIN Selected : Selected[i].contact = c}
           n == Cardinality(Usable)
<1>1. /\ n \in Nat /\ Selected \in [1 .. n -> Usable]
      /\ \A s \in Usable : \E i \in 1 .. n : Selected[i] = s
  BY SelectedIsOrdered
<1>2. \A s \in U : s \in Usable /\ s.contact = c
  BY UsableSamples, RequestTyped, RequestedIsFinite
<1>3. \A s \in Usable : s.contact = c => s \in U
  BY UsableSamples
<1>4. IsFiniteSet(U)
  <2>1. IsFiniteSet(world.samples[c]) /\ U \in SUBSET world.samples[c]
    BY RequestTyped, RequestedIsFinite
  <2> QED
    BY <2>1, FS_Subset
<1>5. IsFiniteSet(I)
  <2>1. IsFiniteSet(1 .. n) /\ I \in SUBSET (1 .. n)
    BY <1>1, FS_Interval
  <2> QED
    BY <2>1, FS_Subset
<1> DEFINE f == [i \in I |-> Selected[i]]
<1>6. f \in [I -> U]
  BY <1>1, <1>3
<1>7. \A s \in U : \E i \in I : f[i] = s
  BY <1>1, <1>2
<1> HIDE DEF I, U, f
<1>8. f \in Surjection(I, U)
  BY <1>6, <1>7 DEF Surjection
<1>9. Cardinality(U) <= Cardinality(I) /\ Cardinality(U) \in Nat /\ Cardinality(I) \in Nat
  BY <1>4, <1>5, <1>8, FS_Surjection, FS_CardinalityType
<1> QED
  BY <1>9 DEF I, U

(* A prior that is of the request, of contacts that have their samples, has *)
(* the inputs of the request, and all of them.                              *)
LEMMA PriorIsOfTheRequest ==
  ASSUME ResolutionType, FramesAreTrue, \A c \in Requested : thread[c].at = "framed",
         NEW e \in Ephemeris, Acceptable(e), prior = Prior(e)
  PROVE  PriorAsRequested
<1>1. /\ prior.contacts = request.contacts /\ prior.ephemeris = e
      /\ prior.observations =
           [i \in DOMAIN Selected |-> Observation(request.contacts, Selected[i])]
  BY DEF Prior
<1>2. /\ world.ephemeris[e].tle
      /\ \A c \in Requested : world.contact[c].craft = world.ephemeris[e].craft
      /\ e = ExpectedEphemeris /\ EnoughSamples
  BY DEF Acceptable
<1>3. IF request.ephemeris # None THEN e = request.ephemeris
      ELSE \E c \in Requested :
             /\ e = world.contact[c].ephemeris
             /\ \A d \in Requested : world.contact[d].start <= world.contact[c].start
             /\ \A d \in Requested :
                  world.contact[d].start = world.contact[c].start => d <= c
  <2>1. CASE request.ephemeris # None
    BY <1>2, <2>1 DEF ExpectedEphemeris
  <2>2. CASE request.ephemeris = None
    <3> DEFINE c == LatestContact(Requested)
    <3>1. /\ c \in Requested
          /\ \A d \in Requested :
               world.contact[d].start < world.contact[c].start \/
                 (world.contact[d].start = world.contact[c].start /\ d <= c)
      BY LatestIsThere
    <3>2. \A d \in Requested : world.contact[d].start \in Int /\ d \in Int
      <4> TAKE d \in Requested
      <4>1. d \in Contact /\ Contact \subseteq Int
        BY RequestedIsFinite, FitAssumption DEF FitConfig, ResolutionConfig
      <4> QED
        BY <4>1, RequestTyped DEF WorldType
    <3>3. e = world.contact[c].ephemeris
      BY <1>2, <2>2 DEF ExpectedEphemeris
    <3> HIDE DEF c
    <3>4. /\ \A d \in Requested : world.contact[d].start <= world.contact[c].start
          /\ \A d \in Requested :
               world.contact[d].start = world.contact[c].start => d <= c
      BY <3>1, <3>2
    <3> QED
      BY <2>2, <3>1, <3>3, <3>4
  <2> QED
    BY <2>1, <2>2
<1>4. ASSUME NEW c \in Requested
      PROVE  request.minimum <=
               Cardinality({i \in DOMAIN prior.observations : prior.observations[i].contact = c})
  <2>1. {i \in DOMAIN prior.observations : prior.observations[i].contact = c}
          = {i \in DOMAIN Selected : Selected[i].contact = c}
    BY <1>1 DEF Observation
  <2>2. Cardinality({i \in DOMAIN Selected : Selected[i].contact = c}) >= request.minimum
    BY <1>2 DEF EnoughSamples
  <2>3. Cardinality({i \in DOMAIN Selected : Selected[i].contact = c}) \in Nat
    BY SelectedSuffice
  <2>4. request.minimum \in Nat
    BY RequestTyped
  <2> QED
    BY <2>1, <2>2, <2>3, <2>4
<1> QED
  BY <1>1, <1>2, <1>3, <1>4 DEF PriorAsRequested

(* Its observations are those of its contacts.                              *)
LEMMA ObservationsAreOfTheRequest ==
  ASSUME ResolutionType, FramesAreTrue, \A c \in Requested : thread[c].at = "framed",
         NEW e \in Ephemeris, Acceptable(e), prior = Prior(e)
  PROVE  ObservationsAreTheirOwn
<1> DEFINE n == Cardinality(Usable)
           obs == prior.observations
<1>1. /\ prior.contacts = request.contacts /\ prior.receivers = Receivers(request.contacts)
      /\ obs = [i \in DOMAIN Selected |-> Observation(request.contacts, Selected[i])]
      /\ prior.epoch = Selected[1].time - 1
  BY DEF Prior, Epoch
<1>2. /\ n \in Nat /\ Selected \in [1 .. n -> Usable]
      /\ \A s \in Usable : \E i \in 1 .. n : Selected[i] = s
      /\ \A i, j \in 1 .. n : i <= j => Selected[i].time <= Selected[j].time
  BY SelectedIsOrdered
<1>3. \A i \in 1 .. n : /\ Selected[i] \in Usable /\ Selected[i].time \in Int
                        /\ Selected[i].contact \in Requested
                        /\ Selected[i].system = System(Selected[i].contact)
  BY <1>2, UsableSamples DEF Sample, Identified
<1>4. DOMAIN obs = 1 .. n /\ \A i \in 1 .. n : obs[i] = Observation(request.contacts, Selected[i])
  BY <1>1, <1>2
<1>5. n # 0
  <2>1. PICK c \in Requested : TRUE
    BY RequestedIsFinite
  <2> DEFINE I == {i \in DOMAIN Selected : Selected[i].contact = c}
  <2>2. Cardinality(I) \in Nat /\ Cardinality(I) >= request.minimum
    BY SelectedSuffice DEF Acceptable, EnoughSamples
  <2>3. Cardinality(I) # 0
    BY <2>2, RequestTyped
  <2>4. n = 0 => I = {}
    BY <1>2
  <2> QED
    BY <2>3, <2>4, FS_EmptySet
<1>6. ASSUME NEW i \in 1 .. n
      PROVE  /\ prior.contacts[obs[i].pass] = obs[i].contact
             /\ prior.receivers[obs[i].receiver] = world.contact[obs[i].contact].system
             /\ prior.epoch < obs[i].time
  <2> DEFINE s == Selected[i]
             contacts == request.contacts
  <2>1. \E k \in DOMAIN contacts : contacts[k] = s.contact
    BY <1>3 DEF Requested, ToSet
  <2>2. contacts[IndexOf(contacts, s.contact)] = s.contact
    BY <2>1, IndexOfFinds
  <2>3. \E k \in DOMAIN Receivers(contacts) : Receivers(contacts)[k] = System(s.contact)
    BY <2>1, ReceiversAreAll, RequestTyped
  <2>4. Receivers(contacts)[IndexOf(Receivers(contacts), s.system)] = System(s.contact)
    BY <1>3, <2>3, IndexOfFinds
  <2>5. obs[i] = [time |-> s.time, contact |-> s.contact,
                  receiver |-> IndexOf(Receivers(contacts), s.system),
                  pass |-> IndexOf(contacts, s.contact)]
    BY <1>4 DEF Observation
  <2>6. Selected[1].time <= s.time
    BY <1>2, <1>5
  <2>7. prior.epoch < s.time
    <3>1. Selected[1].time \in Int /\ s.time \in Int
      BY <1>2, <1>3, <1>5
    <3> QED
      BY <1>1, <2>6, <3>1
  <2> QED
    BY <1>1, <2>2, <2>4, <2>5, <2>7 DEF System
<1>7. {<<obs[i].contact, obs[i].time>> : i \in DOMAIN obs} =
        {<<s.contact, s.time>> :
           s \in {x \in UNION {world.samples[c] : c \in Requested} : x.usable}}
  <2>1. ASSUME NEW i \in 1 .. n
        PROVE  obs[i].contact = Selected[i].contact /\ obs[i].time = Selected[i].time
    <3>1. obs[i] = Observation(request.contacts, Selected[i])
      BY <1>4
    <3> QED
      BY <3>1 DEF Observation
  <2>2. {<<obs[i].contact, obs[i].time>> : i \in DOMAIN obs} = {<<s.contact, s.time>> : s \in Usable}
    <3>1. {<<obs[i].contact, obs[i].time>> : i \in DOMAIN obs}
            = {<<Selected[i].contact, Selected[i].time>> : i \in 1 .. n}
      BY <1>4, <2>1
    <3>2. \A i \in 1 .. n : Selected[i] \in Usable
      BY <1>3
    <3> QED
      BY <1>2, <3>1, <3>2
  <2> QED
    BY <2>2, UsableSamples
<1>8. prior.epoch + 1 = obs[1].time
  <2>1. 1 \in 1 .. n
    BY <1>2, <1>5
  <2> QED
    BY <1>1, <1>3, <1>4, <2>1 DEF Observation
<1> QED
  BY <1>4, <1>6, <1>7, <1>8 DEF ObservationsAreTheirOwn

(* On a retry the same prior is restored.                                   *)
LEMMA RestoredIsThePrior ==
  ASSUME ResolutionType, FramesAreTrue, \A c \in Requested : thread[c].at = "framed",
         NEW e, prior = Prior(e)
  PROVE  Restored = prior
<1> DEFINE contacts == request.contacts
           again == [i \in DOMAIN prior.observations |->
                       Observation(contacts,
                         [time |-> prior.observations[i].time,
                          contact |-> prior.observations[i].contact,
                          system |-> System(prior.observations[i].contact)])]
           obs == [i \in DOMAIN Selected |-> Observation(contacts, Selected[i])]
<1>1. /\ prior = [contacts |-> contacts, ephemeris |-> e, receivers |-> Receivers(contacts),
                  observations |-> obs, epoch |-> Epoch]
      /\ prior.contacts = contacts /\ prior.observations = obs
  BY DEF Prior
<1>2. \A i \in DOMAIN Selected : Selected[i].system = System(Selected[i].contact)
  BY SelectedIsOrdered, UsableSamples DEF Identified
<1>3. again = prior.observations
  BY <1>1, <1>2 DEF Observation
<1>4. Restored = [contacts |-> contacts, ephemeris |-> prior.ephemeris, epoch |-> prior.epoch,
                  receivers |-> Receivers(contacts), observations |-> again]
  BY <1>1, Zenon DEF Restored
<1> HIDE DEF again, obs
<1> QED
  BY <1>1, <1>3, <1>4

(* What the definitions depend on: the world and the request,               *)
LEMMA WorldStays ==
  ASSUME UNCHANGED <<world, request>>
  PROVE  /\ Requested' = Requested
         /\ Meetable' <=> Meetable
         /\ \A s, c : Identified(s, c)' <=> Identified(s, c)
BY DEF Requested, Meetable, Identified, System, ExpectedEphemeris, LatestContact

(* ... and the frames.                                                      *)
LEMMA ThreadsStay ==
  ASSUME UNCHANGED <<world, request, thread>>
  PROVE  /\ AtWork' = AtWork
         /\ \A e : Acceptable(e)' <=> Acceptable(e)
         /\ \A e : Prior(e)' = Prior(e)
<1>1. Selected' = Selected
  BY DEF Selected, Requested
<1>2. ExpectedEphemeris' = ExpectedEphemeris
  BY DEF ExpectedEphemeris, LatestContact, Requested
<1>3. \A e : Acceptable(e)' <=> Acceptable(e)
  BY <1>1, <1>2 DEF Acceptable, EnoughSamples, Requested
<1>4. \A e : Prior(e)' = Prior(e)
  BY <1>1 DEF Prior, Observation, Receivers, System, Epoch, IndexOf
<1> QED
  BY <1>3, <1>4 DEF AtWork

(* At first nothing has been asked.                                         *)
LEMMA InitResolutionInv == FitInit => ResolutionInv
<1> SUFFICES ASSUME FitInit PROVE ResolutionInv
  OBVIOUS
<1> USE DEF FitInit, ResolutionInit
<1>1. NoThread \in Thread /\ NoThread.at = "queued"
  BY DEF NoThread, Thread
<1>2. ResolutionType
  BY <1>1 DEF ResolutionType, Awaiting
<1>3. \A c \in Contact : thread[c].at = "queued"
  BY <1>1
<1>4. FramesAreTrue
  BY <1>3 DEF FramesAreTrue
<1>5. ThreadsFollowMain
  BY <1>3 DEF ThreadsFollowMain
<1>6. RaisedIsOfAThread /\ Sound /\ Outcome
  BY <1>3 DEF RaisedIsOfAThread, Sound, Outcome
<1> QED
  BY <1>2, <1>4, <1>5, <1>6 DEF ResolutionInv

(* A step that leaves the preparation alone keeps it.                       *)
LEMMA StutterResolutionInv ==
  ASSUME ResolutionInv, UNCHANGED <<resolutionVars>>
  PROVE  ResolutionInv'
<1> USE DEF ResolutionInv, resolutionVars
<1>1. /\ Requested' = Requested /\ (Meetable' <=> Meetable) /\ AtWork' = AtWork
      /\ \A s, c : Identified(s, c)' <=> Identified(s, c)
      /\ \A e : Acceptable(e)' <=> Acceptable(e)
      /\ \A e : Prior(e)' = Prior(e)
  BY WorldStays, ThreadsStay
<1>2. ResolutionType'
  BY DEF ResolutionType
<1>3. FramesAreTrue'
  BY <1>1 DEF FramesAreTrue
<1>4. ThreadsFollowMain'
  BY <1>1 DEF ThreadsFollowMain
<1>5. RaisedIsOfAThread'
  BY <1>1 DEF RaisedIsOfAThread
<1>6. Sound'
  BY <1>1 DEF Sound
<1>7. Outcome'
  <2>1. FailureExplained' <=> FailureExplained
    BY <1>1 DEF FailureExplained
  <2> QED
    BY <1>1, <2>1 DEF Outcome
<1> QED
  BY <1>2, <1>3, <1>4, <1>5, <1>6, <1>7

(* A thread at work is a requested contact's, and the main thread waits.    *)
LEMMA AtWorkIsAwaited ==
  ASSUME ResolutionInv, NEW c \in Contact,
         thread[c].at \in Documents \union {"compare", "query"}
  PROVE  c \in Requested /\ main \in Awaiting
BY DEF ResolutionInv, ResolutionType, ThreadsFollowMain, AtWork, Documents, Awaiting

(* A step of one thread, while the main thread waits.                       *)
LEMMA ThreadStepKeeps ==
  ASSUME ResolutionInv, NEW c \in Requested, main \in Awaiting,
         UNCHANGED <<world, request, main, client, prior, verdict>>,
         thread' \in [Contact -> Thread],
         \A d \in Contact \ {c} : thread'[d] = thread[d],
         thread'[c].at = "framed" =>
           /\ thread'[c].frame = world.samples[c] /\ thread'[c].frame # {}
           /\ \A s \in thread'[c].frame : Identified(s, c),
         raised' \in Raised \union {None}, faults' \in Nat
  PROVE  ResolutionType' /\ FramesAreTrue' /\ ThreadsFollowMain' /\ Outcome'
<1> USE DEF ResolutionInv
<1>0. c \in Contact
  BY RequestedIsFinite
<1>1. ResolutionType'
  BY DEF ResolutionType
<1>2. FramesAreTrue'
  BY <1>0, WorldStays DEF FramesAreTrue
<1>3. ThreadsFollowMain'
  BY <1>0, WorldStays DEF ThreadsFollowMain, Awaiting
<1>4. Outcome'
  BY DEF Outcome, Awaiting
<1> QED
  BY <1>1, <1>2, <1>3, <1>4

(* A thread that fails.                                                     *)
LEMMA RaiseKeeps ==
  ASSUME ResolutionInv, NEW c \in Contact,
         thread[c].at \in Documents \union {"compare", "query"},
         NEW provider \in {"KOGS", "ADX"},
         NEW error \in {"transport", "refused", "kogs", "value", "load"},
         Raise(c, provider, error), faults' \in Nat,
         UNCHANGED <<world, request, main, client, prior, verdict>>
  PROVE  /\ ResolutionType' /\ FramesAreTrue' /\ ThreadsFollowMain' /\ Outcome'
         /\ RaisedIsOfAThread'
         /\ \A d \in Contact \ {c} : thread'[d] = thread[d]
         /\ thread'[c].at = "failed" /\ thread'[c].ephemeris = thread[c].ephemeris
<1> USE DEF ResolutionInv
<1>1. c \in Requested /\ main \in Awaiting
  BY AtWorkIsAwaited
<1>2. /\ thread' \in [Contact -> Thread]
      /\ \A d \in Contact \ {c} : thread'[d] = thread[d]
      /\ thread'[c].at = "failed" /\ thread'[c].error = error
      /\ thread'[c].ephemeris = thread[c].ephemeris
  <2> DEFINE t == [thread[c] EXCEPT !.at = "failed", !.error = error]
  <2>1. thread[c] \in Thread
    BY DEF ResolutionType
  <2>2. t \in Thread
    BY <2>1 DEF Thread
  <2>3. t.at = "failed" /\ t.error = error /\ t.ephemeris = thread[c].ephemeris
    BY <2>1 DEF Thread
  <2>4. thread' = [thread EXCEPT ![c] = t]
    BY DEF Raise, ResolutionType
  <2> HIDE DEF t
  <2> QED
    BY <2>2, <2>3, <2>4 DEF ResolutionType
<1>3. raised' \in Raised \union {None}
  BY DEF Raise, ResolutionType, Raised
<1>4. ResolutionType' /\ FramesAreTrue' /\ ThreadsFollowMain' /\ Outcome'
  BY <1>1, <1>2, <1>3, ThreadStepKeeps
<1>5. RaisedIsOfAThread'
  <2>1. CASE raised # None
    <3>1. raised' = raised
      BY <2>1 DEF Raise
    <3>2. raised.contact # c /\ raised.contact \in Contact
      BY <2>1, RequestedIsFinite DEF RaisedIsOfAThread, Documents
    <3> QED
      BY <1>2, <2>1, <3>1, <3>2, WorldStays DEF RaisedIsOfAThread
  <2>2. CASE raised = None
    <3>1. raised' = [provider |-> provider, contact |-> c, error |-> error]
      BY <2>2 DEF Raise
    <3>2. main' # "unwinding"
      BY <2>2 DEF RaisedIsOfAThread
    <3>3. raised'.contact = c /\ raised'.error = error
      BY <3>1
    <3> QED
      BY <1>1, <1>2, <3>2, <3>3, WorldStays DEF RaisedIsOfAThread
  <2> QED
    BY <2>1, <2>2
<1> QED
  BY <1>2, <1>4, <1>5

(* A call that begins,                                                      *)
LEMMA BeginCallInv ==
  ASSUME ResolutionInv, NEW c \in Contact,
         \/ BeginCall(c, "metadata", "contact") \/ BeginCall(c, "telemetry", "query")
  PROVE  ResolutionInv'
<1> USE DEF ResolutionInv
<1>1. PICK first \in {"contact", "query"} :
        /\ main \in Awaiting /\ c \in Requested
        /\ thread[c].at = "queued"
        /\ thread' = [thread EXCEPT ![c].at = first]
        /\ UNCHANGED <<world, request, main, raised, client, prior, verdict, faults>>
  BY DEF BeginCall, Awaiting
<1> DEFINE t == [thread[c] EXCEPT !.at = first]
<1>2. thread[c] \in Thread
  BY DEF ResolutionType
<1>3. t \in Thread /\ t.at = first /\ t.ephemeris = thread[c].ephemeris
  BY <1>2 DEF Thread, Documents
<1>4. thread' = [thread EXCEPT ![c] = t]
  BY <1>1 DEF ResolutionType
<1> HIDE DEF t
<1>5. /\ thread' \in [Contact -> Thread]
      /\ \A d \in Contact \ {c} : thread'[d] = thread[d]
      /\ thread'[c] = t
  BY <1>3, <1>4 DEF ResolutionType
<1>6. ResolutionType' /\ FramesAreTrue' /\ ThreadsFollowMain' /\ Outcome'
  BY <1>1, <1>3, <1>5, ThreadStepKeeps DEF ResolutionType
<1>7. RaisedIsOfAThread'
  <2>1. raised # None => raised.contact \in Contact \ {c}
    BY <1>1, RequestedIsFinite DEF RaisedIsOfAThread
  <2> QED
    BY <1>1, <1>5, <2>1, WorldStays DEF RaisedIsOfAThread
<1>8. Sound'
  BY <1>1, <1>3, <1>5, WorldStays DEF Sound
<1> QED
  BY <1>6, <1>7, <1>8

(* ... one that brings a document,                                          *)
LEMMA RequestDocumentInv ==
  ASSUME ResolutionInv, NEW c \in Contact, RequestDocument(c)
  PROVE  ResolutionInv'
<1> USE DEF ResolutionInv
<1> DEFINE at == thread[c].at
<1>1. PICK answer \in Kind[at] :
        /\ Fault(IF answer = Asked(c) THEN 0 ELSE 1)
        /\ thread' = [thread EXCEPT ![c][at] = answer, ![c].at = Following[at]]
  BY DEF RequestDocument
<1>2. /\ at \in Documents
      /\ UNCHANGED <<world, request, main, raised, client, prior, verdict>>
  BY DEF RequestDocument
<1>3. c \in Requested /\ main \in Awaiting
  BY <1>2, AtWorkIsAwaited
<1>4. thread[c] \in Thread
  BY DEF ResolutionType
<1>5. faults' \in Nat /\ (faults' = 0 => faults = 0 /\ answer = Asked(c))
  BY <1>1 DEF Fault, ResolutionType
<1> DEFINE t == [[thread[c] EXCEPT ![at] = answer] EXCEPT !.at = Following[at]]
<1>6. thread' = [thread EXCEPT ![c] = t]
  BY <1>1 DEF ResolutionType
<1>7. t \in Thread /\ t.at \in {"antenna", "spacecraft", "ephemeris", "compare"}
  <2>1. CASE at = "contact"
    <3>1. answer \in Contact /\ Following[at] = "antenna"
      BY <2>1 DEF Kind, Following
    <3>2. t = [thread[c] EXCEPT !.contact = answer, !.at = "antenna"]
      BY <2>1, <3>1
    <3> QED
      BY <1>4, <3>1, <3>2 DEF Thread, Documents
  <2>2. CASE at = "antenna"
    <3>1. answer \in Antenna /\ Following[at] = "spacecraft"
      BY <2>2 DEF Kind, Following
    <3>2. t = [thread[c] EXCEPT !.antenna = answer, !.at = "spacecraft"]
      BY <2>2, <3>1
    <3> QED
      BY <1>4, <3>1, <3>2 DEF Thread, Documents
  <2>3. CASE at = "spacecraft"
    <3>1. answer \in Craft /\ Following[at] = "ephemeris"
      BY <2>3 DEF Kind, Following
    <3>2. t = [thread[c] EXCEPT !.spacecraft = answer, !.at = "ephemeris"]
      BY <2>3, <3>1
    <3> QED
      BY <1>4, <3>1, <3>2 DEF Thread, Documents
  <2>4. CASE at = "ephemeris"
    <3>1. answer \in Ephemeris /\ Following[at] = "compare"
      BY <2>4 DEF Kind, Following
    <3>2. t = [thread[c] EXCEPT !.ephemeris = answer, !.at = "compare"]
      BY <2>4, <3>1
    <3> QED
      BY <1>4, <3>1, <3>2 DEF Thread, Documents
  <2> QED
    BY <1>2, <2>1, <2>2, <2>3, <2>4 DEF Documents
<1>8. ASSUME faults = 0, answer = Asked(c)
      PROVE  LET about == world.contact[c] IN
             /\ t.contact = c
             /\ t.at \in {"spacecraft", "ephemeris", "compare"} => t.antenna = about.system
             /\ t.at \in {"ephemeris", "compare"} => t.spacecraft = about.craft
             /\ t.at \in {"compare", "loaded"} => t.ephemeris = about.ephemeris
             /\ main \in {"telemetry", "prior"} /\ c \in Requested =>
                  t.ephemeris = about.ephemeris
  <2>1. c # None
    BY RequestTyped
  <2>2. CASE at = "contact"
    BY <1>4, <1>8, <2>1, <2>2 DEF Sound, Asked, Following, Thread
  <2>3. CASE at = "antenna"
    BY <1>4, <1>8, <2>1, <2>3 DEF Sound, Asked, Following, Thread
  <2>4. CASE at = "spacecraft"
    BY <1>4, <1>8, <2>1, <2>4 DEF Sound, Asked, Following, Thread
  <2>5. CASE at = "ephemeris"
    BY <1>4, <1>8, <2>1, <2>5 DEF Sound, Asked, Following, Thread
  <2> QED
    BY <1>2, <2>2, <2>3, <2>4, <2>5 DEF Documents
<1> HIDE DEF t
<1>9. /\ thread' \in [Contact -> Thread]
      /\ \A d \in Contact \ {c} : thread'[d] = thread[d]
      /\ thread'[c] = t
  BY <1>6, <1>7 DEF ResolutionType
<1>10. ResolutionType' /\ FramesAreTrue' /\ ThreadsFollowMain' /\ Outcome'
  BY <1>2, <1>3, <1>5, <1>7, <1>9, ThreadStepKeeps DEF ResolutionType
<1>11. RaisedIsOfAThread'
  <2>1. raised # None => raised.contact \in Contact \ {c}
    BY <1>2, RequestedIsFinite DEF RaisedIsOfAThread, Documents
  <2> QED
    BY <1>2, <1>9, <2>1, WorldStays DEF RaisedIsOfAThread
<1>12. Sound'
  BY <1>2, <1>5, <1>8, <1>9, WorldStays DEF Sound
<1> QED
  BY <1>10, <1>11, <1>12

(* ... one that fails,                                                      *)
LEMMA RequestFailsInv ==
  ASSUME ResolutionInv, NEW c \in Contact, RequestFails(c) \/ QueryFails(c)
  PROVE  ResolutionInv'
<1>1. PICK provider \in {"KOGS", "ADX"} :
        \E error \in {"transport", "refused", "kogs", "value", "load"} :
          Raise(c, provider, error)
  BY DEF RequestFails, QueryFails
<1>2. PICK error \in {"transport", "refused", "kogs", "value", "load"} :
        Raise(c, provider, error)
  BY <1>1
<1>3. /\ thread[c].at \in Documents \union {"compare", "query"} /\ Fault(1)
      /\ UNCHANGED <<world, request, main, client, prior, verdict>>
  BY DEF RequestFails, QueryFails
<1>4. faults' \in Nat /\ faults' # 0
  BY <1>3 DEF Fault, ResolutionInv, ResolutionType
<1>5. ResolutionType' /\ FramesAreTrue' /\ ThreadsFollowMain' /\ Outcome' /\ RaisedIsOfAThread'
  BY <1>2, <1>3, <1>4, RaiseKeeps
<1>6. Sound'
  BY <1>4 DEF Sound
<1> QED
  BY <1>5, <1>6 DEF ResolutionInv

(* ... the comparison of the documents,                                     *)
LEMMA CompareInv ==
  ASSUME ResolutionInv, NEW c \in Contact, Compare(c)
  PROVE  ResolutionInv'
<1> USE DEF ResolutionInv
<1>1. /\ thread[c].at = "compare"
      /\ UNCHANGED <<world, request, main, client, prior, verdict, faults>>
  BY DEF Compare
<1>2. c \in Requested /\ main \in Awaiting
  BY <1>1, AtWorkIsAwaited
<1>3. CASE Identities(c)
  <2> DEFINE t == [thread[c] EXCEPT !.at = "loaded"]
  <2>1. thread[c] \in Thread
    BY DEF ResolutionType
  <2>2. t \in Thread /\ t.at = "loaded" /\ t.ephemeris = thread[c].ephemeris
    BY <2>1 DEF Thread
  <2>3. thread' = [thread EXCEPT ![c] = t] /\ UNCHANGED raised
    BY <1>3 DEF Compare, ResolutionType
  <2> HIDE DEF t
  <2>4. /\ thread' \in [Contact -> Thread]
        /\ \A d \in Contact \ {c} : thread'[d] = thread[d]
        /\ thread'[c] = t
    BY <2>2, <2>3 DEF ResolutionType
  <2>5. ResolutionType' /\ FramesAreTrue' /\ ThreadsFollowMain' /\ Outcome'
    BY <1>1, <1>2, <2>2, <2>3, <2>4, ThreadStepKeeps DEF ResolutionType
  <2>6. RaisedIsOfAThread'
    <3>1. raised # None => raised.contact \in Contact \ {c}
      BY <1>1, RequestedIsFinite DEF RaisedIsOfAThread
    <3> QED
      BY <1>1, <2>3, <2>4, <3>1, WorldStays DEF RaisedIsOfAThread
  <2>7. Sound'
    BY <1>1, <2>2, <2>3, <2>4, WorldStays DEF Sound
  <2> QED
    BY <2>5, <2>6, <2>7
<1>4. CASE ~Identities(c)
  <2>1. Raise(c, "KOGS", "kogs")
    BY <1>4 DEF Compare
  <2>2. /\ ResolutionType' /\ FramesAreTrue' /\ ThreadsFollowMain' /\ Outcome'
        /\ RaisedIsOfAThread'
        /\ \A d \in Contact \ {c} : thread'[d] = thread[d]
        /\ thread'[c].at = "failed" /\ thread'[c].ephemeris = thread[c].ephemeris
    BY <1>1, <2>1, RaiseKeeps DEF ResolutionType
  <2>3. faults = 0 => ~Meetable
    BY <1>1, <1>2, <1>4 DEF Sound, Identities, Meetable
  <2>4. raised' # None /\ faults = 0 => raised'.error \in {"kogs", "load"} /\ ~Meetable
    BY <2>1, <2>3 DEF Raise, Sound
  <2>5. Sound'
    BY <1>1, <2>2, <2>4, WorldStays DEF Sound
  <2> QED
    BY <2>2, <2>5
<1> QED
  BY <1>3, <1>4

(* ... and a query that is answered.                                        *)
LEMMA QueryInv ==
  ASSUME ResolutionInv, NEW c \in Contact, Query(c)
  PROVE  ResolutionInv'
<1> USE DEF ResolutionInv
<1>1. /\ thread[c].at = "query"
      /\ UNCHANGED <<world, request, main, client, prior, verdict>>
  BY DEF Query
<1>2. c \in Requested /\ main \in Awaiting
  BY <1>1, AtWorkIsAwaited
<1>3. PICK d \in Contact :
        /\ Fault(IF c = d THEN 0 ELSE 1)
        /\ LET frame == world.samples[d] IN
           IF frame # {} /\ \A s \in frame : Identified(s, c)
           THEN /\ thread' = [thread EXCEPT ![c].at = "framed", ![c].frame = frame]
                /\ UNCHANGED raised
           ELSE Raise(c, "ADX", "load")
  BY DEF Query
<1>4. faults' \in Nat /\ (faults' = 0 => faults = 0 /\ c = d)
  BY <1>3 DEF Fault, ResolutionType
<1> DEFINE frame == world.samples[d]
<1>5. CASE frame # {} /\ \A s \in frame : Identified(s, c)
  <2>1. c = d
    <3>1. \A s \in frame : s.contact = d /\ s.contact = c
      BY <1>5, RequestTyped DEF Identified
    <3> QED
      BY <1>5, <3>1
  <2> DEFINE t == [thread[c] EXCEPT !.at = "framed", !.frame = frame]
  <2>2. thread[c] \in Thread /\ frame \in SUBSET Sample
    BY RequestTyped DEF ResolutionType, WorldType
  <2>3. /\ t \in Thread /\ t.at = "framed" /\ t.ephemeris = thread[c].ephemeris
        /\ t.frame = frame
    BY <2>2 DEF Thread
  <2>4. thread' = [thread EXCEPT ![c] = t] /\ UNCHANGED raised
    BY <1>3, <1>5 DEF ResolutionType
  <2> HIDE DEF t
  <2>5. /\ thread' \in [Contact -> Thread]
        /\ \A e \in Contact \ {c} : thread'[e] = thread[e]
        /\ thread'[c] = t
    BY <2>3, <2>4 DEF ResolutionType
  <2>6. ResolutionType' /\ FramesAreTrue' /\ ThreadsFollowMain' /\ Outcome'
    BY <1>1, <1>2, <1>4, <1>5, <2>1, <2>3, <2>4, <2>5, ThreadStepKeeps DEF ResolutionType
  <2>7. RaisedIsOfAThread'
    <3>1. raised # None => raised.contact \in Contact \ {c}
      BY <1>1, RequestedIsFinite DEF RaisedIsOfAThread
    <3> QED
      BY <1>1, <2>4, <2>5, <3>1, WorldStays DEF RaisedIsOfAThread
  <2>8. Sound'
    BY <1>1, <1>4, <2>3, <2>4, <2>5, WorldStays DEF Sound
  <2> QED
    BY <2>6, <2>7, <2>8
<1>6. CASE ~(frame # {} /\ \A s \in frame : Identified(s, c))
  <2>1. Raise(c, "ADX", "load")
    BY <1>3, <1>6
  <2>2. /\ ResolutionType' /\ FramesAreTrue' /\ ThreadsFollowMain' /\ Outcome'
        /\ RaisedIsOfAThread'
        /\ \A e \in Contact \ {c} : thread'[e] = thread[e]
        /\ thread'[c].at = "failed" /\ thread'[c].ephemeris = thread[c].ephemeris
    BY <1>1, <1>4, <2>1, RaiseKeeps
  <2>3. faults' = 0 => ~Meetable
    BY <1>2, <1>4, <1>6 DEF Meetable
  <2>4. raised' # None /\ faults' = 0 => raised'.error \in {"kogs", "load"} /\ ~Meetable
    BY <1>4, <2>1, <2>3 DEF Raise, Sound
  <2>5. Sound'
    BY <1>1, <1>4, <2>2, <2>4, WorldStays DEF Sound
  <2> QED
    BY <2>2, <2>5
<1> QED
  BY <1>5, <1>6

(* The main thread takes the metadata,                                      *)
LEMMA GatherMetadataInv ==
  ASSUME ResolutionInv, GatherMetadata
  PROVE  ResolutionInv'
<1> USE DEF ResolutionInv, GatherMetadata
<1>1. /\ thread' \in [Contact -> Thread]
      /\ \A c \in Contact : thread'[c].at = "queued" /\ thread'[c].ephemeris = thread[c].ephemeris
  <2>1. \A c \in Contact : thread[c] \in Thread
    BY DEF ResolutionType
  <2>2. \A c \in Contact : /\ [thread[c] EXCEPT !.at = "queued"] \in Thread
                           /\ [thread[c] EXCEPT !.at = "queued"].at = "queued"
                           /\ [thread[c] EXCEPT !.at = "queued"].ephemeris = thread[c].ephemeris
    BY <2>1 DEF Thread
  <2>3. \A c \in Contact : c \notin Requested => thread[c].at = "queued"
    BY DEF ThreadsFollowMain
  <2> QED
    BY <2>1, <2>2, <2>3
<1>2. ResolutionType'
  BY <1>1 DEF ResolutionType, Awaiting
<1>3. FramesAreTrue'
  BY <1>1 DEF FramesAreTrue
<1>4. ThreadsFollowMain'
  BY <1>1, WorldStays DEF ThreadsFollowMain, ResolutionType
<1>5. RaisedIsOfAThread'
  BY DEF RaisedIsOfAThread
<1>6. Sound'
  <2>1. faults = 0 => \A c \in Contact : c \in Requested => thread[c].ephemeris = world.contact[c].ephemeris
    BY DEF Sound
  <2> QED
    BY <1>1, <2>1, WorldStays DEF Sound
<1>7. Outcome'
  BY DEF Outcome
<1> QED
  BY <1>2, <1>3, <1>4, <1>5, <1>6, <1>7

(* ... the samples,                                                         *)
LEMMA GatherTelemetryInv ==
  ASSUME ResolutionInv, GatherTelemetry
  PROVE  ResolutionInv'
<1> USE DEF ResolutionInv, GatherTelemetry
<1>1. AtWork = {}
  BY DEF ThreadsFollowMain, AtWork, Documents
<1>2. ResolutionType' /\ FramesAreTrue' /\ RaisedIsOfAThread' /\ Sound'
  BY WorldStays DEF ResolutionType, FramesAreTrue, RaisedIsOfAThread, Sound
<1>3. ThreadsFollowMain'
  BY <1>1, WorldStays, ThreadsStay DEF ThreadsFollowMain
<1>4. Outcome'
  BY DEF Outcome
<1> QED
  BY <1>2, <1>3, <1>4

(* ... gives up with the first error,                                       *)
LEMMA CancelCallsInv ==
  ASSUME ResolutionInv, CancelCalls
  PROVE  ResolutionInv'
<1> USE DEF ResolutionInv, CancelCalls
<1>1. ResolutionType' /\ FramesAreTrue' /\ RaisedIsOfAThread' /\ Sound'
  BY WorldStays DEF ResolutionType, FramesAreTrue, RaisedIsOfAThread, Sound, Awaiting
<1>2. ThreadsFollowMain' /\ Outcome'
  BY WorldStays DEF ThreadsFollowMain, Outcome
<1> QED
  BY <1>1, <1>2

(* ... and leaves once every thread it started has ended.                   *)
LEMMA UnwindInv ==
  ASSUME ResolutionInv, Unwind
  PROVE  ResolutionInv'
<1> USE DEF ResolutionInv, Unwind
<1>1. ResolutionType' /\ FramesAreTrue' /\ RaisedIsOfAThread' /\ Sound'
  BY WorldStays DEF ResolutionType, FramesAreTrue, RaisedIsOfAThread, Sound
<1>2. ThreadsFollowMain'
  BY WorldStays, ThreadsStay DEF ThreadsFollowMain
<1>3. FailureExplained'
  <2> DEFINE c == raised.contact
  <2>1. c \in Requested /\ thread[c].at = "failed" /\ thread[c].error = raised.error
    BY DEF RaisedIsOfAThread
  <2>2. verdict'.retryable <=> raised.error = "transport"
    BY DEF Verdict
  <2>3. faults = 0 => ~Meetable /\ ~verdict'.retryable
    BY <2>2 DEF Sound, RaisedIsOfAThread
  <2> HIDE DEF c
  <2>4. \E d \in {x \in Requested : thread[x].at = "failed"} :
          verdict'.retryable <=> thread[d].error = "transport"
    BY <2>1, <2>2
  <2> QED
    BY <2>3, <2>4, WorldStays DEF FailureExplained
<1>4. Outcome'
  BY <1>3 DEF Outcome
<1> QED
  BY <1>1, <1>2, <1>4

(* What sound providers hold for a request that can be met is accepted.     *)
LEMMA MeetableIsAcceptable ==
  ASSUME ResolutionType, FramesAreTrue, \A c \in Requested : thread[c].at = "framed", Meetable
  PROVE  Acceptable(ExpectedEphemeris)
<1>1. /\ world.ephemeris[ExpectedEphemeris].tle
      /\ \A c \in Requested :
           /\ world.contact[c].craft = world.ephemeris[ExpectedEphemeris].craft
           /\ Cardinality({s \in world.samples[c] : s.usable}) >= request.minimum
  BY DEF Meetable
<1>2. EnoughSamples
  <2> SUFFICES ASSUME NEW c \in Requested
               PROVE  Cardinality({i \in DOMAIN Selected : Selected[i].contact = c})
                        >= request.minimum
    BY DEF EnoughSamples
  <2> DEFINE u == Cardinality({s \in world.samples[c] : s.usable})
             n == Cardinality({i \in DOMAIN Selected : Selected[i].contact = c})
  <2>1. u \in Nat /\ n \in Nat /\ u <= n
    BY SelectedSuffice
  <2>2. u >= request.minimum /\ request.minimum \in Nat
    BY <1>1, RequestTyped
  <2> HIDE DEF u, n
  <2>3. n >= request.minimum
    BY <2>1, <2>2
  <2> QED
    BY <2>3 DEF n
<1> QED
  BY <1>1, <1>2 DEF Acceptable

(* The prior is prepared, or the request refused.                           *)
LEMMA PreparePriorInv ==
  ASSUME ResolutionInv, PreparePrior \/ PriorFails
  PROVE  ResolutionInv'
<1> USE DEF ResolutionInv
<1>1. /\ main = "prior" /\ main' \in {"prepared", "failed"}
      /\ UNCHANGED <<world, request, thread, raised, client>>
  BY DEF PreparePrior, PriorFails
<1>2. faults' \in Nat /\ (faults' = 0 => faults = 0)
  BY DEF PreparePrior, PriorFails, Fault, ResolutionType
<1>3. ResolutionType' /\ FramesAreTrue' /\ RaisedIsOfAThread'
  BY <1>1, <1>2, WorldStays DEF ResolutionType, FramesAreTrue, RaisedIsOfAThread
<1>4. \A c \in Requested : thread[c].at = "framed"
  BY <1>1 DEF ThreadsFollowMain
<1>5. ThreadsFollowMain'
  BY <1>1, WorldStays, ThreadsStay DEF ThreadsFollowMain
<1>6. Sound'
  BY <1>1, <1>2, WorldStays DEF Sound
<1>7. Outcome'
  <2>1. CASE PreparePrior
    <3>1. PICK e \in Ephemeris :
            /\ IF request.ephemeris # None
               THEN Fault(IF e = request.ephemeris THEN 0 ELSE 1)
               ELSE e = thread[LatestContact(Requested)].ephemeris /\ Fault(0)
            /\ IF Acceptable(e)
               THEN main' = "prepared" /\ prior' = Prior(e) /\ UNCHANGED verdict
               ELSE main' = "failed" /\ verdict' = Verdict("input") /\ UNCHANGED prior
      BY <2>1 DEF PreparePrior
    <3>2. CASE Acceptable(e)
      BY <1>1, <3>1, <3>2, ThreadsStay DEF Outcome
    <3>3. CASE ~Acceptable(e)
      <4>1. main' = "failed" /\ verdict' = Verdict("input") /\ prior' = prior
        BY <3>1, <3>3
      <4>2. faults' = 0 => e = ExpectedEphemeris
        <5>1. LatestContact(Requested) \in Requested /\ LatestContact(Requested) \in Contact
          BY LatestIsThere, RequestedIsFinite
        <5>2. faults' = 0 /\ request.ephemeris # None => e = request.ephemeris
          BY <3>1 DEF Fault, ResolutionType
        <5>3. faults' = 0 /\ request.ephemeris = None =>
                e = world.contact[LatestContact(Requested)].ephemeris
          BY <1>1, <1>2, <3>1, <5>1 DEF Sound
        <5> QED
          BY <5>2, <5>3 DEF ExpectedEphemeris
      <4>3. faults' = 0 => ~Meetable
        BY <1>4, <3>3, <4>2, MeetableIsAcceptable
      <4>4. FailureExplained'
        BY <1>1, <1>4, <4>1, <4>3, WorldStays DEF FailureExplained, Verdict
      <4> QED
        BY <1>1, <4>1, <4>4 DEF Outcome
    <3> QED
      BY <3>2, <3>3
  <2>2. CASE PriorFails
    <3>1. faults' # 0 /\ main' = "failed" /\ prior' = prior
      BY <2>2 DEF PriorFails, Fault, ResolutionType
    <3>2. FailureExplained'
      BY <1>1, <1>4, <3>1, WorldStays DEF FailureExplained
    <3> QED
      BY <1>1, <3>1, <3>2 DEF Outcome
  <2> QED
    BY <2>1, <2>2
<1> QED
  BY <1>3, <1>5, <1>6, <1>7

(* Every step of the preparation.                                           *)
LEMMA ResolutionNextInv ==
  ASSUME ResolutionInv, ResolutionNext
  PROVE  ResolutionInv'
<1>1. ASSUME NEW c \in Contact, ThreadStep(c) PROVE ResolutionInv'
  BY <1>1, BeginCallInv, RequestDocumentInv, RequestFailsInv, CompareInv, QueryInv
  DEF ThreadStep
<1>2. CASE MainStep
  BY <1>2, GatherMetadataInv, GatherTelemetryInv, CancelCallsInv, UnwindInv, PreparePriorInv
  DEF MainStep
<1> QED
  BY <1>1, <1>2 DEF ResolutionNext

(* A fit that starts has the prior that was prepared.                       *)
LEMMA StartFitKeepsPrior ==
  ASSUME ResolutionInv, StartFit
  PROVE  UNCHANGED resolutionVars
<1>1. main = "prepared" /\ prior' \in {prior, Restored}
  BY DEF StartFit
<1>2. \A c \in Requested : thread[c].at = "framed"
  BY <1>1 DEF ResolutionInv, ThreadsFollowMain
<1>3. PICK e \in Ephemeris : prior = Prior(e)
  BY <1>1 DEF ResolutionInv, Outcome
<1>4. Restored = prior
  BY <1>2, <1>3, RestoredIsThePrior DEF ResolutionInv
<1> QED
  BY <1>1, <1>4 DEF StartFit, resolutionVars

(* Every step of an estimate.                                               *)
LEMMA EstimateNextResolutionInv ==
  ResolutionInv /\ [EstimateNext]_<<resolutionVars, fitVars>> => ResolutionInv'
<1> SUFFICES ASSUME ResolutionInv, [EstimateNext]_<<resolutionVars, fitVars>>
             PROVE  ResolutionInv'
  OBVIOUS
<1>1. CASE ResolutionNext
  BY <1>1, ResolutionNextInv
<1>2. CASE StartFit
  BY <1>2, StartFitKeepsPrior, StutterResolutionInv
<1>3. CASE FitStep
  <2>1. UNCHANGED resolutionVars
    BY <1>3 DEF FitStep, Scan, AskFirst, Trial, AskJacobian, EvaluatorRaises, FinishFit,
                Covariance, MakeRows
  <2> QED
    BY <2>1, StutterResolutionInv
<1>4. CASE UNCHANGED <<resolutionVars, fitVars>>
  BY <1>4, StutterResolutionInv
<1> QED
  BY <1>1, <1>2, <1>3, <1>4 DEF EstimateNext

(* What a preparation keeps, at every state of an estimate.                 *)
THEOREM PreparationIsTrue == EstimateSpec => []ResolutionInv
<1>1. FitInit => ResolutionInv
  BY InitResolutionInv
<1>2. ResolutionInv /\ [EstimateNext]_<<resolutionVars, fitVars>> => ResolutionInv'
  BY EstimateNextResolutionInv
<1> QED
  BY <1>1, <1>2, PTL DEF EstimateSpec

(* The observations and the prior of a fit are those of its request.        *)
THEOREM PriorsAreAsRequested == EstimateSpec => []InputsAsRequested
<1>1. ResolutionInv => InputsAsRequested
  <2> SUFFICES ASSUME ResolutionInv, prior # None PROVE InputsAsRequested
    BY DEF InputsAsRequested, PriorAsRequested, ObservationsAreTheirOwn
  <2>1. main = "prepared"
    BY DEF ResolutionInv, Outcome
  <2>2. PICK e \in Ephemeris : Acceptable(e) /\ prior = Prior(e)
    BY <2>1 DEF ResolutionInv, Outcome
  <2>3. \A c \in Requested : thread[c].at = "framed"
    BY <2>1 DEF ResolutionInv, ThreadsFollowMain
  <2> QED
    BY <2>2, <2>3, PriorIsOfTheRequest, ObservationsAreOfTheRequest
    DEF ResolutionInv, InputsAsRequested
<1> QED
  BY <1>1, PreparationIsTrue, PTL

(* A preparation that fails has ended, with the error of what went wrong.   *)
THEOREM FailuresAreExplained == EstimateSpec => []FailuresAreTrue
<1>1. ResolutionInv => FailuresAreTrue
  <2> SUFFICES ASSUME ResolutionInv PROVE NoCallOutlives /\ FailureExplained
    BY DEF FailuresAreTrue
  <2>1. NoCallOutlives
    BY DEF NoCallOutlives, ResolutionInv, ThreadsFollowMain, AtWork
  <2>2. FailureExplained
    BY DEF ResolutionInv, Outcome, FailureExplained
  <2> QED
    BY <2>1, <2>2
<1> QED
  BY <1>1, PreparationIsTrue, PTL

-----------------------------------------------------------------------------
(* The fit. *)

\* The parameters are the profile's, a bias for each pass after them.
ProfileSize == Len(profile.parameters)
PassCount == Len(request.contacts)

ParameterType ==
  [name : NameType, role : Role, sigma : BOOLEAN]

(* A contact's bias is a name.                                              *)
LEMMA BiasTyped ==
  ASSUME NEW c \in Contact
  PROVE  Bias(c) \in NameType
BY DEF Bias, Name, NameType

(* A function on the numbers up to n is a sequence.                         *)
LEMMA FunctionIsSequence ==
  ASSUME NEW S, NEW n \in Nat, NEW f, f \in [1 .. n -> S]
  PROVE  f \in Seq(S) /\ Len(f) = n
<1>1. f \in Seq(S)
  BY SeqDef
<1>2. Len(f) \in Nat /\ 1 .. Len(f) = 1 .. n
  BY <1>1, LenProperties
<1> QED
  BY <1>1, <1>2

(* The parameters of a profile: named once each, of no contact.             *)
LEMMA ProfileTyped ==
  ASSUME profile \in Profiles
  PROVE  /\ profile.parameters \in Seq(ParameterType)
         /\ \A i \in DOMAIN profile.parameters :
              \E kind \in Range(Leading) \union Range(Closing) :
                profile.parameters[i].name = Name(kind, None)
         /\ \A i, j \in DOMAIN profile.parameters :
              profile.parameters[i].name = profile.parameters[j].name => i = j
         /\ profile.version \in Nat
         /\ profile.version >= 2 =>
              \A i \in DOMAIN profile.parameters :
                profile.parameters[i].role # "fixed" /\ profile.parameters[i].sigma
         /\ profile.scans # None =>
              \E i \in DOMAIN profile.parameters :
                /\ profile.parameters[i].name = Name(profile.scans, None)
                /\ profile.parameters[i].role = "estimate"
<1> DEFINE Shipped == [name : {Name(kind, None) : kind \in Range(Leading) \union Range(Closing)},
                       role : Role, sigma : BOOLEAN]
<1>1. /\ profile.parameters \in Seq(Shipped)
      /\ \A i, j \in DOMAIN profile.parameters :
           profile.parameters[i].name = profile.parameters[j].name => i = j
      /\ profile.version \in Nat
      /\ profile.version >= 2 =>
           \A i \in DOMAIN profile.parameters :
             profile.parameters[i].role # "fixed" /\ profile.parameters[i].sigma
      /\ profile.scans # None =>
           \E i \in DOMAIN profile.parameters :
             /\ profile.parameters[i].name = Name(profile.scans, None)
             /\ profile.parameters[i].role = "estimate"
  BY FitAssumption DEF FitConfig
<1>3. Shipped \subseteq ParameterType
  BY DEF ParameterType, Name, NameType
<1>4. profile.parameters \in Seq(ParameterType)
  BY <1>1, <1>3, SeqMonotonic
<1>5. \A i \in DOMAIN profile.parameters : profile.parameters[i] \in Shipped
  <2> HIDE DEF Shipped
  <2>1. DOMAIN profile.parameters = 1 .. Len(profile.parameters)
    BY <1>1, LenProperties
  <2> QED
    BY <1>1, <2>1, ElementOfSeq
<1>6. \A i \in DOMAIN profile.parameters :
        \E kind \in Range(Leading) \union Range(Closing) :
          profile.parameters[i].name = Name(kind, None)
  BY <1>5
<1> QED
  BY <1>1, <1>4, <1>6

(* The parameters of a fit: the profile's, and a bias for every contact.    *)
LEMMA ParametersTyped ==
  ASSUME ResolutionType, profile \in Profiles
  PROVE  LET m == ProfileSize
             n == PassCount
         IN  /\ m \in Nat /\ n \in Nat \ {0}
             /\ DOMAIN profile.parameters = 1 .. m /\ DOMAIN request.contacts = 1 .. n
             /\ Parameters \in Seq(ParameterType) /\ DOMAIN Parameters = 1 .. m + n
             /\ \A i \in 1 .. m : Parameters[i] = profile.parameters[i]
             /\ \A k \in 1 .. n :
                  /\ Parameters[m + k].name = Bias(request.contacts[k])
                  /\ Parameters[m + k].role = "estimate"
                  /\ Parameters[m + k].sigma <=> profile.version >= 2
<1> DEFINE m == ProfileSize
           n == PassCount
           biases == [i \in DOMAIN request.contacts |->
                        [name |-> Bias(request.contacts[i]), role |-> "estimate",
                         sigma |-> profile.version >= 2]]
<1>1. m \in Nat /\ DOMAIN profile.parameters = 1 .. m
  BY ProfileTyped, LenProperties DEF ProfileSize
<1>2. n \in Nat \ {0} /\ DOMAIN request.contacts = 1 .. n
  BY RequestedIsFinite DEF PassCount
<1>3. \A k \in 1 .. n : request.contacts[k] \in Contact
  BY <1>2, RequestedIsFinite
<1>4. \A k \in 1 .. n : biases[k] \in ParameterType
  <2> TAKE k \in 1 .. n
  <2>1. biases[k] = [name |-> Bias(request.contacts[k]), role |-> "estimate",
                     sigma |-> profile.version >= 2]
    BY <1>2
  <2>2. Bias(request.contacts[k]) \in NameType
    BY <1>3, BiasTyped
  <2>3. (profile.version >= 2) \in BOOLEAN
    BY ProfileTyped
  <2> HIDE DEF biases
  <2> QED
    BY <2>1, <2>2, <2>3 DEF ParameterType, Role
<1>5. biases \in Seq(ParameterType) /\ Len(biases) = n
  <2>1. biases \in [1 .. n -> ParameterType]
    BY <1>2, <1>4
  <2> HIDE DEF biases
  <2> QED
    BY <1>2, <2>1, FunctionIsSequence
<1>6. \A k \in 1 .. n :
        /\ biases[k].name = Bias(request.contacts[k])
        /\ biases[k].role = "estimate"
        /\ biases[k].sigma <=> profile.version >= 2
  BY <1>2
<1>7. Parameters = profile.parameters \o biases
  BY DEF Parameters
<1> HIDE DEF biases
<1>8. /\ Parameters \in Seq(ParameterType) /\ Len(Parameters) = m + n
      /\ \A i \in 1 .. m + n :
           Parameters[i] = IF i <= m THEN profile.parameters[i] ELSE biases[i - m]
  <2>1. Len(profile.parameters) = m
    BY DEF ProfileSize
  <2>2. profile.parameters \in Seq(ParameterType)
    BY ProfileTyped
  <2> HIDE DEF m, n
  <2> QED
    BY <1>5, <1>7, <2>1, <2>2, ConcatProperties
<1>9. DOMAIN Parameters = 1 .. m + n
  BY <1>8, LenProperties
<1>10. \A i \in 1 .. m : Parameters[i] = profile.parameters[i]
  BY <1>1, <1>2, <1>8
<1>11. \A k \in 1 .. n : Parameters[m + k] = biases[k]
  <2> TAKE k \in 1 .. n
  <2>1. m + k \in 1 .. m + n /\ ~(m + k <= m) /\ (m + k) - m = k
    BY <1>1, <1>2
  <2> QED
    BY <1>8, <2>1
<1>12. \A k \in 1 .. n : /\ Parameters[m + k].name = Bias(request.contacts[k])
                         /\ Parameters[m + k].role = "estimate"
                         /\ Parameters[m + k].sigma <=> profile.version >= 2
  <2> HIDE DEF biases, m, n
  <2> QED
    BY <1>6, <1>11
<1> HIDE DEF biases
<1> QED
  BY <1>1, <1>2, <1>8, <1>9, <1>10, <1>12

(* Each has a name of its own.                                              *)
LEMMA NamesAreDistinct ==
  ASSUME ResolutionType, profile \in Profiles,
         NEW i \in DOMAIN Parameters, NEW j \in DOMAIN Parameters, Names[i] = Names[j]
  PROVE  i = j
<1> DEFINE m == ProfileSize
           n == PassCount
<1>1. /\ m \in Nat /\ n \in Nat /\ DOMAIN Parameters = 1 .. m + n
      /\ DOMAIN profile.parameters = 1 .. m /\ DOMAIN request.contacts = 1 .. n
      /\ \A k \in 1 .. m : Parameters[k] = profile.parameters[k]
      /\ \A k \in 1 .. n : Parameters[m + k].name = Bias(request.contacts[k])
  BY ParametersTyped
<1>2. Parameters[i].name = Parameters[j].name
  BY DEF Names
<1>3. ASSUME NEW k \in 1 .. m + n
      PROVE  IF k <= m THEN Parameters[k].name = profile.parameters[k].name
                            /\ Parameters[k].name.contact = None
             ELSE /\ k - m \in 1 .. n /\ request.contacts[k - m] \in Contact
                  /\ Parameters[k].name.contact = request.contacts[k - m]
  <2>1. CASE k <= m
    <3>1. k \in DOMAIN profile.parameters /\ Parameters[k] = profile.parameters[k]
      BY <1>1, <2>1
    <3>2. profile.parameters[k].name.contact = None
      <4>1. PICK kind \in Range(Leading) \union Range(Closing) :
              profile.parameters[k].name = Name(kind, None)
        BY <3>1, ProfileTyped
      <4> QED
        BY <4>1 DEF Name
    <3> QED
      BY <2>1, <3>1, <3>2
  <2>2. CASE ~(k <= m)
    <3>1. k - m \in 1 .. n /\ m + (k - m) = k
      BY <1>1, <2>2
    <3>2. Parameters[k].name = Bias(request.contacts[k - m])
      <4>1. PICK l \in 1 .. n : l = k - m /\ k = m + l
        BY <1>1, <3>1
      <4>2. Parameters[m + l].name = Bias(request.contacts[l])
        BY <1>1
      <4> QED
        BY <4>1, <4>2
    <3>3. request.contacts[k - m] \in Contact
      BY <1>1, <3>1, RequestedIsFinite
    <3> QED
      BY <2>2, <3>1, <3>2, <3>3 DEF Bias, Name
  <2> QED
    BY <2>1, <2>2
<1>4. None \notin Contact
  BY RequestTyped
<1>5. CASE i <= m /\ j <= m
  BY <1>1, <1>2, <1>3, <1>5, ProfileTyped
<1>6. CASE ~(i <= m) /\ ~(j <= m)
  <2>1. request.contacts[i - m] = request.contacts[j - m] /\ i - m \in 1 .. n /\ j - m \in 1 .. n
    BY <1>1, <1>2, <1>3, <1>6
  <2>2. i - m = j - m
    BY <1>1, <2>1, RequestTyped
  <2> QED
    BY <1>1, <2>2
<1>7. CASE (i <= m /\ ~(j <= m)) \/ (j <= m /\ ~(i <= m))
  BY <1>1, <1>2, <1>3, <1>4, <1>7
<1> QED
  BY <1>5, <1>6, <1>7

(* The model's names: those of the profile kinds and of the passes.         *)
LEMMA CanonicalTyped ==
  ASSUME ResolutionType, profile \in Profiles, prior.contacts = request.contacts
  PROVE  /\ \A i \in DOMAIN Parameters :
              \E k \in DOMAIN CanonicalNames : CanonicalNames[k] = Names[i]
         /\ \A k \in DOMAIN request.contacts :
              /\ Len(Leading) + k \in DOMAIN CanonicalNames
              /\ CanonicalNames[Len(Leading) + k] = Bias(request.contacts[k])
<1> DEFINE m == ProfileSize
           n == PassCount
           a == Len(Leading)
           b == Len(Closing)
           N == NameType
           head == Named(Leading)
           passes == PassNames(request.contacts)
           tail == Named(Closing)
<1>1. /\ a \in Nat /\ DOMAIN Leading = 1 .. a /\ b \in Nat /\ DOMAIN Closing = 1 .. b
      /\ Leading \in [1 .. a -> STRING] /\ Closing \in [1 .. b -> STRING]
  BY FitAssumption, LenProperties DEF FitConfig
<1>2. /\ m \in Nat /\ n \in Nat /\ DOMAIN Parameters = 1 .. m + n
      /\ DOMAIN profile.parameters = 1 .. m /\ DOMAIN request.contacts = 1 .. n
      /\ \A k \in 1 .. m : Parameters[k] = profile.parameters[k]
      /\ \A k \in 1 .. n : Parameters[m + k].name = Bias(request.contacts[k])
  BY ParametersTyped
<1>3. head \in Seq(N) /\ Len(head) = a /\ \A k \in 1 .. a : head[k] = Name(Leading[k], None)
  <2>1. head \in [1 .. a -> N] /\ \A k \in 1 .. a : head[k] = Name(Leading[k], None)
    BY <1>1 DEF Named, Name, NameType, Range
  <2> HIDE DEF head, N
  <2> QED
    BY <1>1, <2>1, FunctionIsSequence
<1>4. tail \in Seq(N) /\ Len(tail) = b /\ \A k \in 1 .. b : tail[k] = Name(Closing[k], None)
  <2>1. tail \in [1 .. b -> N] /\ \A k \in 1 .. b : tail[k] = Name(Closing[k], None)
    BY <1>1 DEF Named, Name, NameType, Range
  <2> HIDE DEF tail, N
  <2> QED
    BY <1>1, <2>1, FunctionIsSequence
<1>5. \A k \in 1 .. n : request.contacts[k] \in Contact
  BY <1>2, RequestedIsFinite
<1>6. passes \in Seq(N) /\ Len(passes) = n /\ \A k \in 1 .. n : passes[k] = Bias(request.contacts[k])
  <2>1. passes \in [1 .. n -> N] /\ \A k \in 1 .. n : passes[k] = Bias(request.contacts[k])
    <3>1. \A k \in 1 .. n : Bias(request.contacts[k]) \in N
      BY <1>5, BiasTyped
    <3>2. passes = [k \in 1 .. n |-> Bias(request.contacts[k])]
      BY <1>2 DEF PassNames
    <3> HIDE DEF passes, N
    <3> QED
      BY <3>1, <3>2
  <2> HIDE DEF passes, N
  <2> QED
    BY <1>2, <2>1, FunctionIsSequence
<1>7. CanonicalNames = head \o passes \o tail
  BY DEF CanonicalNames
<1> HIDE DEF head, passes, tail, N
<1>8. /\ head \o passes \in Seq(N) /\ Len(head \o passes) = a + n
      /\ \A k \in 1 .. a + n : (head \o passes)[k] = IF k <= a THEN head[k] ELSE passes[k - a]
  <2> HIDE DEF m, n, a, b
  <2> QED
    BY <1>3, <1>6, ConcatProperties
<1>9. /\ CanonicalNames \in Seq(N) /\ Len(CanonicalNames) = a + n + b
      /\ \A k \in 1 .. a + n + b :
           CanonicalNames[k] = IF k <= a + n THEN (head \o passes)[k] ELSE tail[k - (a + n)]
  BY <1>4, <1>7, <1>8, ConcatProperties
<1>10. DOMAIN CanonicalNames = 1 .. a + n + b
  BY <1>9, LenProperties
<1>11. ASSUME NEW k \in 1 .. a
       PROVE  k \in DOMAIN CanonicalNames /\ CanonicalNames[k] = Name(Leading[k], None)
  <2>1. k \in 1 .. a + n + b /\ k \in 1 .. a + n /\ k <= a + n /\ k <= a
    BY <1>1, <1>2
  <2> QED
    BY <1>3, <1>8, <1>9, <1>10, <2>1
<1>12. ASSUME NEW k \in 1 .. n
       PROVE  a + k \in DOMAIN CanonicalNames /\ CanonicalNames[a + k] = Bias(request.contacts[k])
  <2>1. /\ a + k \in 1 .. a + n + b /\ a + k \in 1 .. a + n /\ a + k <= a + n
        /\ ~(a + k <= a) /\ (a + k) - a = k
    BY <1>1, <1>2
  <2> QED
    BY <1>6, <1>8, <1>9, <1>10, <2>1
<1>13. ASSUME NEW k \in 1 .. b
       PROVE  /\ (a + n) + k \in DOMAIN CanonicalNames
              /\ CanonicalNames[(a + n) + k] = Name(Closing[k], None)
  <2>1. /\ (a + n) + k \in 1 .. a + n + b /\ ~((a + n) + k <= a + n)
        /\ ((a + n) + k) - (a + n) = k
    BY <1>1, <1>2
  <2> QED
    BY <1>4, <1>9, <1>10, <2>1
<1>14. ASSUME NEW i \in DOMAIN Parameters
       PROVE  \E k \in DOMAIN CanonicalNames : CanonicalNames[k] = Names[i]
  <2>1. Names[i] = Parameters[i].name
    BY DEF Names
  <2>2. CASE i <= m
    <3>1. i \in DOMAIN profile.parameters /\ Parameters[i] = profile.parameters[i]
      BY <1>2, <2>2
    <3>2. PICK kind \in Range(Leading) \union Range(Closing) : Names[i] = Name(kind, None)
      BY <2>1, <3>1, ProfileTyped
    <3>3. CASE kind \in Range(Leading)
      <4>1. PICK k \in 1 .. a : Leading[k] = kind
        BY <1>1, <3>3 DEF Range
      <4> QED
        BY <1>11, <3>2, <4>1
    <3>4. CASE kind \in Range(Closing)
      <4>1. PICK k \in 1 .. b : Closing[k] = kind
        BY <1>1, <3>4 DEF Range
      <4> QED
        BY <1>13, <3>2, <4>1
    <3> QED
      BY <3>3, <3>4
  <2>3. CASE ~(i <= m)
    <3>1. i - m \in 1 .. n /\ m + (i - m) = i
      BY <1>2, <2>3
    <3>2. Names[i] = Bias(request.contacts[i - m])
      <4>1. PICK j \in 1 .. n : j = i - m /\ i = m + j
        BY <1>2, <3>1
      <4>2. Parameters[m + j].name = Bias(request.contacts[j])
        BY <1>2
      <4> QED
        BY <2>1, <4>1, <4>2
    <3> QED
      BY <1>12, <3>1, <3>2
  <2> QED
    BY <2>2, <2>3
<1> QED
  BY <1>2, <1>12, <1>14

(* The parameters of a role, in the order of the profile.                   *)
LEMMA RolesListed ==
  ASSUME ResolutionType, profile \in Profiles, NEW role
  PROVE  /\ WithRole(role) \in Seq(DOMAIN Parameters)
         /\ DOMAIN WithRole(role) = 1 .. Len(WithRole(role)) /\ Len(WithRole(role)) \in Nat
         /\ \A k \in DOMAIN WithRole(role) :
              WithRole(role)[k] \in DOMAIN Parameters /\ Parameters[WithRole(role)[k]].role = role
         /\ \A i \in DOMAIN Parameters : Parameters[i].role = role =>
              \E k \in DOMAIN WithRole(role) : WithRole(role)[k] = i
<1> DEFINE S == {i \in DOMAIN Parameters : Parameters[i].role = role}
<1>1. /\ ProfileSize \in Nat /\ PassCount \in Nat
      /\ DOMAIN Parameters = 1 .. ProfileSize + PassCount
  BY ParametersTyped
<1>2. S \in SUBSET Int /\ S \in SUBSET (1 .. ProfileSize + PassCount)
  BY <1>1
<1>3. IsFiniteSet(1 .. ProfileSize + PassCount)
  BY <1>1, FS_Interval
<1>4. IsFiniteSet(S)
  BY <1>2, <1>3, FS_Subset
<1>5. /\ Cardinality(S) \in Nat
      /\ Ascending(S) \in [1 .. Cardinality(S) -> S]
      /\ \A x \in S : \E i \in 1 .. Cardinality(S) : Ascending(S)[i] = x
  BY <1>2, <1>4, AscendingIsAscending
<1>6. Ascending(S) \in [1 .. Cardinality(S) -> DOMAIN Parameters]
  BY <1>5
<1>7. WithRole(role) = Ascending(S)
  BY DEF WithRole
<1>8. WithRole(role) \in Seq(DOMAIN Parameters) /\ Len(WithRole(role)) = Cardinality(S)
  BY <1>5, <1>6, <1>7, FunctionIsSequence
<1>9. DOMAIN WithRole(role) = 1 .. Cardinality(S)
  BY <1>5, <1>7
<1> QED
  BY <1>5, <1>7, <1>8, <1>9

(* A value's name is the one it was made for.                               *)
LEMMA ValueOf ==
  ASSUME NEW source, NEW n, NEW name
  PROVE  Value(source, n, name).of = name /\ Zero(name).of = name
BY DEF Value, Zero

(* The names of a fit are a sequence; None is not.                          *)
LEMMA NamesTyped ==
  ASSUME ResolutionType, profile \in Profiles
  PROVE  /\ Names \in Seq(NameType) /\ Names # None
         /\ DOMAIN Names = DOMAIN Parameters /\ DOMAIN Names = 1 .. Len(Names)
<1>1. Parameters \in Seq(ParameterType)
  BY ParametersTyped
<1>2. /\ DOMAIN Parameters = 1 .. Len(Parameters) /\ Len(Parameters) \in Nat
      /\ Parameters \in [1 .. Len(Parameters) -> ParameterType]
  BY <1>1, LenProperties
<1>3. ASSUME NEW k \in DOMAIN Parameters PROVE Parameters[k].name \in NameType
  <2>1. Parameters[k] \in ParameterType
    BY <1>2
  <2> QED
    BY <2>1 DEF ParameterType
<1>4. Names = [k \in 1 .. Len(Parameters) |-> Parameters[k].name]
  BY <1>2 DEF Names
<1>5. Names \in [1 .. Len(Parameters) -> NameType]
  BY <1>2, <1>3, <1>4
<1>6. Names \in Seq(NameType) /\ Len(Names) = Len(Parameters)
  BY <1>2, <1>5, FunctionIsSequence
<1> QED
  BY <1>2, <1>4, <1>6, FitAssumption DEF FitConfig

(* A name is found where it is.                                             *)
LEMMA NameFound ==
  ASSUME ResolutionType, profile \in Profiles, NEW i \in DOMAIN Parameters
  PROVE  IndexOf(Names, Names[i]) = i /\ Contains(Names, Names[i])
<1>1. DOMAIN Names = DOMAIN Parameters
  BY DEF Names
<1>2. IndexOf(Names, Names[i]) \in DOMAIN Names /\ Names[IndexOf(Names, Names[i])] = Names[i]
  BY <1>1, IndexOfFinds
<1>3. IndexOf(Names, Names[i]) = i
  BY <1>1, <1>2, NamesAreDistinct
<1>5. DOMAIN Names = 1 .. Len(Names)
  BY NamesTyped
<1> QED
  BY <1>1, <1>3, <1>5 DEF Contains

(* The model's vector has, at every name, a value made for it; and what is  *)
(* not estimated is where it began.                                         *)
LEMMA ExpandIsOwn ==
  ASSUME ResolutionType, profile \in Profiles, prior.contacts = request.contacts,
         Own(initial), NEW x,
         \A i \in DOMAIN Estimated : x[i].of = Names[Estimated[i]],
         NEW k \in DOMAIN CanonicalNames
  PROVE  /\ Expand(x)[k].of = CanonicalNames[k]
         /\ \A i \in DOMAIN Parameters :
              CanonicalNames[k] = Names[i] /\ Parameters[i].role # "estimate" =>
                Expand(x)[k] = Zero(Names[i])
<1> DEFINE name == CanonicalNames[k]
           place == {i \in DOMAIN Estimated : Names[Estimated[i]] = name}
<1>1. Expand(x)[k] = IF place # {} THEN x[CHOOSE i \in place : TRUE]
                     ELSE IF Contains(Names, name) THEN initial[IndexOf(Names, name)]
                     ELSE Zero(name)
  BY DEF Expand
<1>2. /\ DOMAIN initial = DOMAIN Parameters
      /\ \A i \in DOMAIN Parameters :
           /\ initial[i].of = Names[i]
           /\ Parameters[i].role # "estimate" => initial[i] = Zero(Names[i])
  BY DEF Own
<1>3. CASE place # {}
  <2>1. PICK i \in place : Expand(x)[k] = x[i]
    BY <1>1, <1>3
  <2>2. Expand(x)[k].of = name
    BY <2>1
  <2>3. /\ Estimated[i] \in DOMAIN Parameters
        /\ Parameters[Estimated[i]].role = "estimate"
    BY <2>1, RolesListed DEF Estimated
  <2>4. \A j \in DOMAIN Parameters : name = Names[j] => j = Estimated[i]
    BY <2>1, <2>3, NamesAreDistinct
  <2> QED
    BY <2>2, <2>3, <2>4
<1>4. CASE place = {} /\ Contains(Names, name)
  <2>1. PICK i \in DOMAIN Parameters : name = Names[i]
    BY <1>4, NamesTyped DEF Contains
  <2>2. Expand(x)[k] = initial[i]
    BY <1>1, <1>4, <2>1, NameFound
  <2>3. \A j \in DOMAIN Parameters : name = Names[j] => j = i
    BY <2>1, NamesAreDistinct
  <2> QED
    BY <1>2, <2>1, <2>2, <2>3
<1>5. CASE place = {} /\ ~Contains(Names, name)
  BY <1>1, <1>5, NameFound, ValueOf
<1> QED
  BY <1>3, <1>4, <1>5

(* What a scan puts in place of an initial value is of the same parameter,  *)
(* and of one that is estimated.                                            *)
LEMMA ScanIsOwn ==
  ASSUME ResolutionType, profile \in Profiles, prior.contacts = request.contacts,
         profile.scans # None, NEW d,
         NEW i \in DOMAIN Parameters, Contains(ScanNames, Names[i])
  PROVE  /\ ScanRow(d)[IndexOf(ScanNames, Names[i])].of = Names[i]
         /\ Parameters[i].role = "estimate"
<1> DEFINE n == PassCount
           m == ProfileSize
           scanned == Name(profile.scans, None)
           passes == PassNames(request.contacts)
<1>1. PICK j \in DOMAIN profile.parameters :
        profile.parameters[j].name = scanned /\ profile.parameters[j].role = "estimate"
  BY ProfileTyped
<1>2. /\ m \in Nat /\ n \in Nat /\ DOMAIN Parameters = 1 .. m + n
      /\ DOMAIN profile.parameters = 1 .. m /\ DOMAIN request.contacts = 1 .. n
      /\ \A k \in 1 .. m : Parameters[k] = profile.parameters[k]
      /\ \A k \in 1 .. n : /\ Parameters[m + k].name = Bias(request.contacts[k])
                           /\ Parameters[m + k].role = "estimate"
      /\ Parameters \in Seq(ParameterType)
  BY ParametersTyped
<1>3. j \in DOMAIN Parameters /\ Names[j] = scanned /\ Parameters[j].role = "estimate"
  BY <1>1, <1>2 DEF Names
<1>4. scanned \in NameType
  <2>1. Parameters[j] \in ParameterType
    BY <1>2, <1>3, LenProperties, ElementOfSeq
  <2> QED
    BY <1>3, <2>1 DEF ParameterType, Names
<1>5. passes \in Seq(NameType) /\ Len(passes) = n /\ \A k \in 1 .. n : passes[k] = Bias(request.contacts[k])
  <2>1. \A k \in 1 .. n : Bias(request.contacts[k]) \in NameType
    BY <1>2, RequestedIsFinite, BiasTyped
  <2>2. passes = [k \in 1 .. n |-> Bias(request.contacts[k])]
    BY <1>2 DEF PassNames
  <2>3. passes \in [1 .. n -> NameType]
    BY <2>1, <2>2
  <2> HIDE DEF passes
  <2> QED
    BY <1>2, <2>2, <2>3, FunctionIsSequence
<1>6. ScanNames = <<scanned>> \o passes
  BY DEF ScanNames
<1> HIDE DEF passes, scanned, m, n
<1>7. <<scanned>> \in Seq(NameType) /\ Len(<<scanned>>) = 1 /\ <<scanned>>[1] = scanned
  BY <1>4
<1>8. /\ ScanNames \in Seq(NameType) /\ Len(ScanNames) = 1 + n
      /\ \A k \in 1 .. 1 + n : ScanNames[k] = IF k <= 1 THEN <<scanned>>[k] ELSE passes[k - 1]
  BY <1>5, <1>6, <1>7, ConcatProperties
<1>9. DOMAIN ScanNames = 1 .. 1 + n
  BY <1>8, LenProperties
<1>10. \E k \in DOMAIN ScanNames : ScanNames[k] = Names[i]
  BY <1>8, <1>9 DEF Contains
<1> DEFINE k == IndexOf(ScanNames, Names[i])
<1>11. k \in 1 .. 1 + n /\ ScanNames[k] = Names[i]
  BY <1>9, <1>10, IndexOfFinds
<1>12. ScanRow(d)[k] = Value("scan", d, IF k = 1 THEN ScanNames[1]
                                       ELSE Bias(prior.contacts[k - 1]))
  BY <1>9, <1>11 DEF ScanRow
<1> HIDE DEF k
<1>13. CASE k = 1
  <2>1. Names[i] = scanned /\ ScanNames[1] = scanned
    BY <1>2, <1>7, <1>8, <1>11, <1>13
  <2>2. i = j
    BY <1>3, <2>1, NamesAreDistinct
  <2> QED
    BY <1>3, <1>12, <1>13, <2>1, <2>2, ValueOf DEF k
<1>14. CASE k # 1
  <2>1. PICK l \in 1 .. n : l = k - 1 /\ ~(k <= 1)
    BY <1>2, <1>11, <1>14
  <2>2. ScanNames[k] = passes[l]
    BY <1>8, <1>11, <2>1
  <2>3. Names[i] = Bias(request.contacts[l])
    BY <1>5, <1>11, <2>2
  <2>4. m + l \in DOMAIN Parameters /\ Parameters[m + l].role = "estimate"
        /\ Parameters[m + l].name = Bias(request.contacts[l])
    BY <1>2
  <2>5. Names[m + l] = Names[i]
    BY <2>3, <2>4 DEF Names
  <2>6. i = m + l
    BY <2>4, <2>5, NamesAreDistinct
  <2> QED
    BY <1>12, <1>14, <2>1, <2>3, <2>4, <2>6, ValueOf DEF k
<1> QED
  BY <1>13, <1>14, Zenon

(* A covariance is made of exactly the version 2 fits that converged,       *)
LEMMA CovarianceOfTheVersion ==
  ASSUME ResolutionType, profile \in Profiles
  PROVE  CovarianceEnabled <=> output.success /\ profile.version >= 2
<1> DEFINE m == ProfileSize
           n == PassCount
<1>1. /\ m \in Nat /\ n \in Nat \ {0} /\ DOMAIN Parameters = 1 .. m + n
      /\ DOMAIN profile.parameters = 1 .. m
      /\ \A i \in 1 .. m : Parameters[i] = profile.parameters[i]
      /\ \A k \in 1 .. n : /\ Parameters[m + k].role = "estimate"
                           /\ Parameters[m + k].sigma <=> profile.version >= 2
  BY ParametersTyped
<1> HIDE DEF m, n
<1>2. ASSUME profile.version >= 2, NEW i \in DOMAIN Parameters
      PROVE  Parameters[i].role # "fixed" /\ Parameters[i].sigma
  <2>1. CASE i <= m
    <3>1. i \in DOMAIN profile.parameters /\ Parameters[i] = profile.parameters[i]
      BY <1>1, <2>1
    <3> QED
      BY <1>2, <3>1, ProfileTyped
  <2>2. CASE ~(i <= m)
    <3>1. PICK l \in 1 .. n : i = m + l
      <4>1. i - m \in 1 .. n /\ i = m + (i - m)
        BY <1>1, <2>2
      <4> QED
        BY <4>1
    <3> QED
      BY <1>1, <1>2, <3>1
  <2> QED
    BY <2>1, <2>2
<1>3. ASSUME ~(profile.version >= 2)
      PROVE  \E i \in DOMAIN Parameters : ~Parameters[i].sigma
  <2>1. m + 1 \in DOMAIN Parameters /\ 1 \in 1 .. n
    BY <1>1
  <2>2. ~Parameters[m + 1].sigma
    BY <1>1, <1>3, <2>1
  <2> QED
    BY <2>1, <2>2
<1> QED
  BY <1>2, <1>3 DEF CovarianceEnabled

(* ... and its columns, taken estimated first, are put back in place.       *)
LEMMA JointIsInPlace ==
  ASSUME ResolutionType, profile \in Profiles, CovarianceEnabled, output.columns = Names
  PROVE  Joint = Names
<1> DEFINE active == Estimated \o Considered
           a == Len(Estimated)
           b == Len(Considered)
<1>1. /\ Estimated \in Seq(DOMAIN Parameters) /\ DOMAIN Estimated = 1 .. a /\ a \in Nat
      /\ Considered \in Seq(DOMAIN Parameters) /\ DOMAIN Considered = 1 .. b /\ b \in Nat
      /\ \A i \in DOMAIN Parameters : Parameters[i].role = "estimate" =>
           \E k \in 1 .. a : Estimated[k] = i
      /\ \A i \in DOMAIN Parameters : Parameters[i].role = "consider" =>
           \E k \in 1 .. b : Considered[k] = i
  BY RolesListed DEF Estimated, Considered
<1>2. /\ active \in Seq(DOMAIN Parameters) /\ Len(active) = a + b
      /\ \A k \in 1 .. a + b : active[k] = IF k <= a THEN Estimated[k] ELSE Considered[k - a]
  BY <1>1, ConcatProperties
<1>3. DOMAIN active = 1 .. a + b
  BY <1>2, LenProperties
<1> HIDE DEF active, a, b
<1>4. ASSUME NEW i \in DOMAIN Parameters
      PROVE  \E k \in DOMAIN active : active[k] = i
  <2>1. Parameters[i].role \in Role
    <3>1. Parameters[i] \in ParameterType
      BY ParametersTyped, LenProperties, ElementOfSeq
    <3> QED
      BY <3>1 DEF ParameterType
  <2>2. Parameters[i].role # "fixed"
    BY DEF CovarianceEnabled
  <2>3. CASE Parameters[i].role = "estimate"
    <3>1. PICK k \in 1 .. a : Estimated[k] = i
      BY <1>1, <2>3
    <3>2. k \in 1 .. a + b /\ k <= a
      BY <1>1, <3>1
    <3> QED
      BY <1>2, <1>3, <3>1, <3>2
  <2>4. CASE Parameters[i].role = "consider"
    <3>1. PICK k \in 1 .. b : Considered[k] = i
      BY <1>1, <2>4
    <3>2. PICK l \in 1 .. a + b : l = a + k /\ ~(l <= a) /\ l - a = k
      BY <1>1, <3>1
    <3>3. active[l] = i
      BY <1>2, <3>1, <3>2
    <3> QED
      BY <1>3, <3>3
  <2> QED
    BY <2>1, <2>2, <2>3, <2>4 DEF Role
<1>5. DOMAIN Names = DOMAIN Parameters
  BY NamesTyped
<1> DEFINE joint == [i \in DOMAIN active |-> output.columns[active[i]]]
<1>6. ASSUME NEW i \in DOMAIN Parameters PROVE joint[IndexOf(active, i)] = Names[i]
  <2>1. IndexOf(active, i) \in DOMAIN active /\ active[IndexOf(active, i)] = i
    BY <1>4, IndexOfFinds
  <2> QED
    BY <2>1
<1>7. Joint = [i \in DOMAIN Names |-> joint[IndexOf(active, i)]]
  BY DEF Joint, active
<1> HIDE DEF joint
<1>8. Joint = [i \in DOMAIN Parameters |-> Names[i]]
  BY <1>5, <1>6, <1>7
<1>9. Names = [i \in DOMAIN Parameters |-> Names[i]]
  BY <1>5, NamesTyped, LenProperties
<1> QED
  BY <1>8, <1>9

(* What the definitions of a fit depend on.                                 *)
LEMMA FitStays ==
  ASSUME UNCHANGED <<profile, request, prior>>
  PROVE  /\ Parameters' = Parameters /\ Names' = Names /\ CanonicalNames' = CanonicalNames
         /\ Estimated' = Estimated /\ Considered' = Considered
         /\ \A v : Own(v)' <=> Own(v)
<1>1. Parameters' = Parameters
  BY DEF Parameters
<1>2. Names' = Names
  BY <1>1 DEF Names
<1>3. CanonicalNames' = CanonicalNames
  BY DEF CanonicalNames
<1>4. Estimated' = Estimated /\ Considered' = Considered
  BY <1>1 DEF Estimated, Considered, WithRole
<1>5. \A v : Own(v)' <=> Own(v)
  BY <1>1, <1>2 DEF Own
<1> QED
  BY <1>1, <1>2, <1>3, <1>4, <1>5

(* ... and the model's vector of a point, once a fit has begun.             *)
LEMMA ExpandStays ==
  ASSUME UNCHANGED <<profile, request, prior, initial>>
  PROVE  \A x : Expand(x)' = Expand(x)
BY FitStays DEF Expand, IndexOf

(* A fit's contacts are the request's.                                      *)
LEMMA FitOfTheRequest ==
  ASSUME ResolutionInv, FitInv, stage # "waiting"
  PROVE  prior.contacts = request.contacts /\ main = "prepared"
<1>1. main = "prepared"
  BY DEF FitInv, FitType
<1>2. PICK e \in Ephemeris : prior = Prior(e)
  BY <1>1 DEF ResolutionInv, Outcome
<1> QED
  BY <1>1, <1>2 DEF Prior

(* At first there is nothing of a fit.                                      *)
LEMMA InitFitInv == FitInit => FitInv
BY DEF FitInit, FitInv, FitType, InitialIsOwn, PointIsOwn, CacheIsOfThePoint, OutputIsOwn,
       RowsAreMade

(* While the inputs are prepared, it has not begun.                         *)
LEMMA ResolutionNextFitInv ==
  ASSUME ResolutionInv, FitInv, ResolutionNext, UNCHANGED fitVars
  PROVE  FitInv'
<1> USE DEF FitInv, fitVars
<1>1. main # "prepared"
  <2>1. main = "prepared" => AtWork = {}
    BY DEF ResolutionInv, ThreadsFollowMain
  <2> QED
    BY <2>1 DEF ResolutionNext, MainStep, ThreadStep, GatherMetadata, GatherTelemetry, CancelCalls, Unwind,
                PreparePrior, PriorFails, BeginCall, RequestDocument, RequestFails, Compare,
                Query, QueryFails, AtWork
<1>2. stage = "waiting"
  BY <1>1 DEF FitType
<1>3. FitType' /\ InitialIsOwn' /\ PointIsOwn' /\ OutputIsOwn' /\ RowsAreMade'
  BY <1>2 DEF FitType, InitialIsOwn, PointIsOwn, OutputIsOwn, RowsAreMade
<1>4. CacheIsOfThePoint'
  BY <1>2 DEF CacheIsOfThePoint
<1> QED
  BY <1>3, <1>4

(* A fit begins at the initial values of its profile,                       *)
LEMMA StartFitFitInv ==
  ASSUME ResolutionInv, FitInv, StartFit
  PROVE  FitInv'
<1> USE DEF FitInv
<1>1. UNCHANGED resolutionVars /\ main = "prepared" /\ stage = "waiting"
  BY StartFitKeepsPrior DEF StartFit
<1>2. /\ UNCHANGED <<profile, scan, point, trials, cache, answered, output, rows>>
      /\ initial' = [i \in DOMAIN Parameters |-> Zero(Names[i])]
      /\ stage' = IF profile.scans = None THEN "begin" ELSE "scan"
  BY DEF StartFit, Enter
<1>3. Parameters' = Parameters /\ Names' = Names
  BY <1>1, <1>2, FitStays DEF resolutionVars
<1>4. FitType'
  BY <1>1, <1>2 DEF FitType, resolutionVars
<1>5. InitialIsOwn'
  BY <1>2, <1>3, ValueOf DEF InitialIsOwn, Own
<1>6. PointIsOwn' /\ OutputIsOwn' /\ RowsAreMade'
  BY <1>1, <1>2 DEF PointIsOwn, OutputIsOwn, RowsAreMade
<1>7. CacheIsOfThePoint'
  BY <1>1, <1>2 DEF CacheIsOfThePoint
<1> QED
  BY <1>4, <1>5, <1>6, <1>7

(* ... or at those a scan found,                                            *)
LEMMA ScanFitInv ==
  ASSUME ResolutionInv, FitInv, Scan
  PROVE  FitInv'
<1> USE DEF FitInv
<1>1. /\ UNCHANGED <<resolutionVars, profile, point, trials, cache, answered, output, rows>>
      /\ stage = "scan" /\ stage' \in {"begin", "raised"}
  BY DEF Scan, Enter
<1>2. /\ Parameters' = Parameters /\ Names' = Names
      /\ prior.contacts = request.contacts /\ profile.scans # None
  BY <1>1, FitStays, FitOfTheRequest DEF resolutionVars, FitType
<1>3. FitType'
  BY <1>1 DEF FitType, resolutionVars
<1>4. Own(initial)
  BY <1>1 DEF InitialIsOwn
<1>5. Own(initial')
  <2>1. CASE UNCHANGED initial
    BY <1>4, <2>1
  <2>2. CASE \E cost \in [Candidates -> Costs] :
               initial' = [i \in DOMAIN initial |->
                 IF Contains(ScanNames, Names[i])
                 THEN ScanRow(Best(cost))[IndexOf(ScanNames, Names[i])]
                 ELSE initial[i]]
    <3>1. PICK d : initial' = [i \in DOMAIN initial |->
                     IF Contains(ScanNames, Names[i])
                     THEN ScanRow(d)[IndexOf(ScanNames, Names[i])]
                     ELSE initial[i]]
      BY <2>2
    <3>2. profile \in Profiles /\ ResolutionType
      BY DEF FitType, ResolutionInv
    <3>3. \A i \in DOMAIN Parameters : Contains(ScanNames, Names[i]) =>
            /\ ScanRow(d)[IndexOf(ScanNames, Names[i])].of = Names[i]
            /\ Parameters[i].role = "estimate"
      BY <1>2, <3>2, ScanIsOwn
    <3> QED
      BY <1>4, <3>1, <3>3 DEF Own
  <2> QED
    BY <2>1, <2>2 DEF Scan
<1>6. InitialIsOwn'
  BY <1>2, <1>5 DEF InitialIsOwn, Own
<1>7. PointIsOwn' /\ OutputIsOwn' /\ RowsAreMade'
  BY <1>1 DEF PointIsOwn, OutputIsOwn, RowsAreMade
<1>8. CacheIsOfThePoint'
  BY <1>1 DEF CacheIsOfThePoint
<1> QED
  BY <1>3, <1>6, <1>7, <1>8

(* What the evaluator answers is of the point it was asked about.           *)
LEMMA AskKeepsCache ==
  ASSUME CacheIsOfThePoint, UNCHANGED <<profile, request, prior, initial>>,
         stage' \notin {"waiting", "scan", "begin"}, NEW q,
         cache' = Evaluate(q), answered' = [asked |-> q, at |-> Evaluate(q).at]
  PROVE  CacheIsOfThePoint'
<1>1. Evaluate(q).x = q /\ Evaluate(q).at = Expand(q)
  BY DEF Evaluate, CacheIsOfThePoint
<1>2. cache'.x = q /\ cache'.at = Expand(q) /\ answered'.asked = q /\ answered'.at = Expand(q)
  BY <1>1
<1>3. Expand(q)' = Expand(q)
  BY ExpandStays
<1> QED
  BY <1>2, <1>3 DEF CacheIsOfThePoint

(* The optimizer asks,                                                      *)
LEMMA AskFitInv ==
  ASSUME ResolutionInv, FitInv, AskFirst \/ Trial \/ AskJacobian
  PROVE  FitInv'
<1> USE DEF FitInv
<1>1. /\ UNCHANGED <<resolutionVars, profile, initial, scan, output, rows>>
      /\ stage \in {"begin", "iterate"} /\ stage' = "iterate"
  BY DEF AskFirst, Trial, AskJacobian, Enter
<1>2. /\ Parameters' = Parameters /\ Names' = Names /\ Estimated' = Estimated
      /\ profile \in Profiles /\ ResolutionType
  BY <1>1, FitStays DEF resolutionVars, FitType, ResolutionInv
<1>3. FitType'
  BY <1>1 DEF FitType, resolutionVars
<1>4. InitialIsOwn'
  BY <1>1, <1>2 DEF InitialIsOwn, Own
<1>5. OutputIsOwn' /\ RowsAreMade'
  BY <1>1 DEF OutputIsOwn, RowsAreMade
<1>6. PointIsOwn'
  <2>1. CASE AskFirst
    <3>1. point' = [i \in DOMAIN Estimated |-> initial[Estimated[i]]]
      BY <2>1 DEF AskFirst
    <3>2. \A i \in DOMAIN Estimated : Estimated[i] \in DOMAIN Parameters
      BY <1>2, RolesListed DEF Estimated
    <3>3. \A j \in DOMAIN Parameters : initial[j].of = Names[j]
      BY <1>1 DEF InitialIsOwn, Own
    <3> QED
      BY <1>2, <3>1, <3>2, <3>3 DEF PointIsOwn
  <2>2. CASE Trial
    <3> DEFINE x == [i \in DOMAIN Estimated |-> Value("trial", trials, Names[Estimated[i]])]
    <3>1. stage = "iterate" /\ point' \in {point, x}
      BY <2>2 DEF Trial
    <3>2. DOMAIN x = DOMAIN Estimated /\ \A i \in DOMAIN Estimated : x[i].of = Names[Estimated[i]]
      BY ValueOf
    <3> HIDE DEF x
    <3> QED
      BY <1>2, <3>1, <3>2 DEF PointIsOwn
  <2>3. CASE AskJacobian
    BY <1>1, <1>2, <2>3 DEF AskJacobian, PointIsOwn
  <2> QED
    BY <2>1, <2>2, <2>3
<1>7. CacheIsOfThePoint'
  <2>1. PICK q : cache' = Evaluate(q) /\ answered' = [asked |-> q, at |-> Evaluate(q).at]
    <3>1. CASE AskFirst
      BY <3>1 DEF AskFirst, Ask
    <3>2. CASE Trial
      BY <3>2 DEF Trial, Ask
    <3>3. CASE AskJacobian
      BY <3>3 DEF AskJacobian, Ask
    <3> QED
      BY <3>1, <3>2, <3>3
  <2> QED
    BY <1>1, <2>1, AskKeepsCache DEF resolutionVars
<1> QED
  BY <1>3, <1>4, <1>5, <1>6, <1>7

(* A step that neither asks nor begins keeps what was asked.                *)
LEMMA LaterKeepsCache ==
  ASSUME FitInv, UNCHANGED <<resolutionVars, profile, initial, cache, answered>>,
         stage' \notin {"waiting", "scan", "begin"}
  PROVE  CacheIsOfThePoint'
<1>1. \A x : Expand(x)' = Expand(x)
  BY ExpandStays DEF resolutionVars
<1> QED
  BY <1>1 DEF FitInv, CacheIsOfThePoint

(* The evaluator raises and the fit ends.                                   *)
LEMMA RaisesFitInv ==
  ASSUME ResolutionInv, FitInv, EvaluatorRaises
  PROVE  FitInv'
<1> USE DEF FitInv
<1>1. /\ UNCHANGED <<resolutionVars, profile, initial, scan, point, trials, cache, answered,
                     output, rows>>
      /\ stage \in {"begin", "iterate", "covariance"} /\ stage' = "raised"
  BY DEF EvaluatorRaises, Enter, FitType
<1>2. Parameters' = Parameters /\ Names' = Names
  BY <1>1, FitStays DEF resolutionVars
<1>3. FitType' /\ PointIsOwn' /\ OutputIsOwn' /\ RowsAreMade'
  BY <1>1 DEF FitType, PointIsOwn, OutputIsOwn, RowsAreMade, resolutionVars
<1>4. InitialIsOwn'
  BY <1>1, <1>2 DEF InitialIsOwn, Own
<1>5. CacheIsOfThePoint'
  BY <1>1, LaterKeepsCache
<1> QED
  BY <1>3, <1>4, <1>5

(* The final evaluation is put in the order of the profile,                 *)
LEMMA FinishFitInv ==
  ASSUME ResolutionInv, FitInv, FinishFit
  PROVE  FitInv'
<1> USE DEF FitInv
<1> DEFINE final == Expand(point)
           parameters == [i \in DOMAIN Names |-> final[Place(Names[i])]]
           columns == [i \in DOMAIN Names |-> CanonicalNames[Place(Names[i])]]
           roles == [i \in DOMAIN Parameters |-> Parameters[i].role]
<1>1. /\ UNCHANGED <<resolutionVars, profile, initial, scan, point, trials, cache, answered, rows>>
      /\ stage = "iterate" /\ stage' = "covariance"
  BY DEF FinishFit, Enter
<1>2. /\ output'.names = Names /\ output'.at = final /\ output'.roles = roles
      /\ output'.parameters = parameters /\ output'.columns = columns
  BY DEF FinishFit
<1>3. /\ Parameters' = Parameters /\ Names' = Names
      /\ prior.contacts = request.contacts
      /\ profile \in Profiles /\ ResolutionType
  BY <1>1, FitStays, FitOfTheRequest DEF resolutionVars, FitType, ResolutionInv
<1>4. /\ \A i \in DOMAIN Parameters : \E k \in DOMAIN CanonicalNames : CanonicalNames[k] = Names[i]
      /\ \A k \in DOMAIN request.contacts :
           /\ Len(Leading) + k \in DOMAIN CanonicalNames
           /\ CanonicalNames[Len(Leading) + k] = Bias(request.contacts[k])
  BY <1>3, CanonicalTyped
<1>5. /\ Own(initial)
      /\ \A i \in DOMAIN Estimated : point[i].of = Names[Estimated[i]]
  BY <1>1 DEF InitialIsOwn, PointIsOwn
<1>6. \A k \in DOMAIN CanonicalNames :
        /\ final[k].of = CanonicalNames[k]
        /\ \A i \in DOMAIN Parameters :
             CanonicalNames[k] = Names[i] /\ Parameters[i].role # "estimate" =>
               final[k] = Zero(Names[i])
  BY <1>3, <1>5, ExpandIsOwn
<1> HIDE DEF final
<1>7. \A i \in DOMAIN Parameters :
        Place(Names[i]) \in DOMAIN CanonicalNames /\ CanonicalNames[Place(Names[i])] = Names[i]
  BY <1>4, IndexOfFinds DEF Place
<1>8. DOMAIN Names = DOMAIN Parameters
  BY <1>3, NamesTyped
<1>9. Own(parameters)
  BY <1>6, <1>7, <1>8 DEF Own
<1>10. columns = Names
  <2>1. columns = [i \in DOMAIN Parameters |-> Names[i]]
    BY <1>7, <1>8
  <2>2. Names = [i \in DOMAIN Parameters |-> Names[i]]
    BY DEF Names
  <2> QED
    BY <2>1, <2>2
<1>11. \A k \in DOMAIN request.contacts : final[Len(Leading) + k].of = Bias(request.contacts[k])
  BY <1>4, <1>6
<1> HIDE DEF parameters, columns
<1>12. OutputIsOwn'
  BY <1>1, <1>2, <1>3, <1>9, <1>10, <1>11 DEF OutputIsOwn, Own, resolutionVars
<1>13. FitType' /\ PointIsOwn' /\ RowsAreMade'
  BY <1>1 DEF FitType, PointIsOwn, RowsAreMade, resolutionVars
<1>14. InitialIsOwn'
  BY <1>1, <1>3, <1>5 DEF InitialIsOwn, Own
<1>15. CacheIsOfThePoint'
  BY <1>1, LaterKeepsCache
<1> QED
  BY <1>12, <1>13, <1>14, <1>15

(* ... gets its covariance                                                  *)
LEMMA CovarianceFitInv ==
  ASSUME ResolutionInv, FitInv, Covariance
  PROVE  FitInv'
<1> USE DEF FitInv
<1> DEFINE joint == IF CovarianceEnabled THEN Joint ELSE None
<1>1. /\ UNCHANGED <<resolutionVars, profile, initial, scan, point, trials, cache, answered, rows>>
      /\ stage = "covariance" /\ stage' = "rows"
      /\ output' = [output EXCEPT !.covariance = joint]
  BY DEF Covariance, Enter
<1>2. /\ Parameters' = Parameters /\ Names' = Names
      /\ profile \in Profiles /\ ResolutionType
  BY <1>1, FitStays DEF resolutionVars, FitType, ResolutionInv
<1>3. /\ output.names = Names
      /\ output.roles = [i \in DOMAIN Parameters |-> Parameters[i].role]
      /\ Own(output.parameters) /\ output.columns = Names
      /\ \A k \in DOMAIN request.contacts :
           output.at[Len(Leading) + k].of = Bias(request.contacts[k])
  BY <1>1 DEF OutputIsOwn
<1>4. joint = IF output.success /\ profile.version >= 2 THEN Names ELSE None
  BY <1>2, <1>3, CovarianceOfTheVersion, JointIsInPlace
<1> HIDE DEF joint
<1>5. /\ output'.names = output.names /\ output'.roles = output.roles
      /\ output'.parameters = output.parameters /\ output'.columns = output.columns
      /\ output'.at = output.at /\ output'.success = output.success
  BY <1>1
<1>6. output'.covariance = joint
  BY <1>1
<1>7. OutputIsOwn'
  BY <1>1, <1>2, <1>3, <1>4, <1>5, <1>6 DEF OutputIsOwn, Own, resolutionVars
<1>8. FitType' /\ PointIsOwn' /\ RowsAreMade'
  BY <1>1 DEF FitType, PointIsOwn, RowsAreMade, resolutionVars
<1>9. InitialIsOwn'
  BY <1>1, <1>2 DEF InitialIsOwn, Own
<1>10. CacheIsOfThePoint'
  BY <1>1, LaterKeepsCache
<1> QED
  BY <1>7, <1>8, <1>9, <1>10

(* ... and its rows: none is refused.                                       *)
LEMMA MakeRowsFitInv ==
  ASSUME ResolutionInv, FitInv, MakeRows
  PROVE  FitInv'
<1> USE DEF FitInv
<1>1. /\ UNCHANGED <<resolutionVars, profile, initial, scan, point, trials, cache, answered, output>>
      /\ stage = "rows"
  BY DEF MakeRows
<1>2. /\ Parameters' = Parameters /\ Names' = Names
      /\ profile \in Profiles /\ ResolutionType
  BY <1>1, FitStays DEF resolutionVars, FitType, ResolutionInv
<1>3. OutputValid
  <2>1. Names # None
    BY <1>2, NamesTyped
  <2> QED
    BY <1>1, <2>1 DEF OutputValid, OutputIsOwn
<1>4. rows' = [i \in DOMAIN Names |-> Row(i)] /\ stage' = "published"
  BY <1>3 DEF MakeRows, Enter
<1>5. OutputIsOwn'
  BY <1>1, <1>2, <1>4 DEF OutputIsOwn, Own, resolutionVars
<1>6. FitType' /\ PointIsOwn'
  BY <1>1, <1>4 DEF FitType, PointIsOwn, resolutionVars
<1>7. InitialIsOwn'
  BY <1>1, <1>2, <1>4 DEF InitialIsOwn, Own
<1>8. CacheIsOfThePoint'
  BY <1>1, <1>4, LaterKeepsCache
<1>9. RowsAreMade'
  <2>1. \A i : Row(i)' = Row(i)
    BY <1>1, <1>2 DEF Row
  <2> QED
    BY <1>2, <1>4, <2>1 DEF RowsAreMade
<1> QED
  BY <1>5, <1>6, <1>7, <1>8, <1>9

(* A step that leaves all alone keeps it.                                   *)
LEMMA StutterFitInv ==
  ASSUME FitInv, UNCHANGED <<resolutionVars, fitVars>>
  PROVE  FitInv'
<1> USE DEF FitInv, resolutionVars, fitVars
<1>1. Parameters' = Parameters /\ Names' = Names /\ Estimated' = Estimated
  BY FitStays
<1>2. FitType'
  BY DEF FitType
<1>3. InitialIsOwn' /\ PointIsOwn' /\ OutputIsOwn'
  BY <1>1 DEF InitialIsOwn, PointIsOwn, OutputIsOwn, Own
<1>4. CacheIsOfThePoint'
  <2>1. \A x : Expand(x)' = Expand(x)
    BY ExpandStays
  <2> QED
    BY <2>1 DEF CacheIsOfThePoint
<1>5. RowsAreMade'
  <2>1. \A i : Row(i)' = Row(i)
    BY <1>1 DEF Row
  <2> QED
    BY <1>1, <2>1 DEF RowsAreMade
<1> QED
  BY <1>2, <1>3, <1>4, <1>5

(* Every step of an estimate keeps the fit's invariant.                     *)
LEMMA EstimateNextFitInv ==
  ResolutionInv /\ FitInv /\ [EstimateNext]_<<resolutionVars, fitVars>> => FitInv'
<1> SUFFICES ASSUME ResolutionInv, FitInv, [EstimateNext]_<<resolutionVars, fitVars>>
             PROVE  FitInv'
  OBVIOUS
<1>1. CASE ResolutionNext /\ UNCHANGED fitVars
  BY <1>1, ResolutionNextFitInv
<1>2. CASE StartFit
  BY <1>2, StartFitFitInv
<1>3. CASE FitStep
  BY <1>3, ScanFitInv, AskFitInv, RaisesFitInv, FinishFitInv, CovarianceFitInv, MakeRowsFitInv
  DEF FitStep
<1>4. CASE UNCHANGED <<resolutionVars, fitVars>>
  BY <1>4, StutterFitInv
<1> QED
  BY <1>1, <1>2, <1>3, <1>4 DEF EstimateNext

(* What a fit keeps, at every state of an estimate.                         *)
THEOREM FitIsTrue == EstimateSpec => []FitInv
<1>1. FitInit => FitInv
  BY InitFitInv
<1>2. ResolutionInv /\ FitInv /\ [EstimateNext]_<<resolutionVars, fitVars>> => FitInv'
  BY EstimateNextFitInv
<1> QED
  BY <1>1, <1>2, PreparationIsTrue, PTL DEF EstimateSpec

(* The published rows have each parameter's own numbers.                    *)
LEMMA MadeRowsAreTheirOwn ==
  ASSUME ResolutionInv, FitInv, rows # None
  PROVE  RowsAreTheirOwn
<1> DEFINE m == ProfileSize
           n == PassCount
<1>1. /\ stage = "published" /\ rows = [i \in DOMAIN Names |-> Row(i)]
  BY DEF FitInv, RowsAreMade
<1>2. /\ profile \in Profiles /\ ResolutionType /\ prior.contacts = request.contacts
  BY <1>1, FitOfTheRequest DEF FitInv, FitType, ResolutionInv
<1>3. /\ Own(output.parameters)
      /\ \A k \in DOMAIN request.contacts :
           output.at[Len(Leading) + k].of = Bias(request.contacts[k])
      /\ output.covariance \in {Names, None}
  BY <1>1 DEF FitInv, OutputIsOwn
<1>4. DOMAIN Names = DOMAIN Parameters /\ Names \in Seq(NameType) /\ Names # None
  BY <1>2, NamesTyped
<1>5. ASSUME NEW i \in DOMAIN rows
      PROVE  /\ rows[i].value.of = rows[i].name
             /\ rows[i].uncertainty \in {None, rows[i].name}
             /\ rows[i].role # "estimate" => rows[i].value = Zero(rows[i].name)
  <2>1. i \in DOMAIN Parameters /\ rows[i] = Row(i)
    BY <1>1, <1>4
  <2>2. /\ output.parameters[i].of = Names[i]
        /\ Parameters[i].role # "estimate" => output.parameters[i] = Zero(Names[i])
    BY <1>3, <2>1 DEF Own
  <2>3. IF output.covariance = None THEN TRUE ELSE output.covariance[i] = Names[i]
    BY <1>3
  <2> QED
    BY <2>1, <2>2, <2>3 DEF Row
<1>6. [i \in DOMAIN rows |-> rows[i].name] =
        [i \in DOMAIN profile.parameters |-> profile.parameters[i].name]
          \o [i \in DOMAIN request.contacts |-> Bias(request.contacts[i])]
  <2> DEFINE mine == [i \in DOMAIN profile.parameters |-> profile.parameters[i].name]
             biases == [i \in DOMAIN request.contacts |-> Bias(request.contacts[i])]
  <2>1. /\ m \in Nat /\ n \in Nat /\ DOMAIN Parameters = 1 .. m + n
        /\ DOMAIN profile.parameters = 1 .. m /\ DOMAIN request.contacts = 1 .. n
        /\ \A k \in 1 .. m : Parameters[k] = profile.parameters[k]
        /\ \A k \in 1 .. n : Parameters[m + k].name = Bias(request.contacts[k])
    BY <1>2, ParametersTyped
  <2>2. \A k \in 1 .. m + n : Names[k] = Parameters[k].name /\ Names[k] \in NameType
    BY <1>2, <2>1, NamesTyped, ElementOfSeq DEF Names
  <2>3. mine \in Seq(NameType) /\ Len(mine) = m /\ \A k \in 1 .. m : mine[k] = Names[k]
    <3>1. \A k \in 1 .. m : k \in 1 .. m + n /\ profile.parameters[k].name = Names[k]
      BY <2>1, <2>2
    <3>2. mine \in [1 .. m -> NameType] /\ \A k \in 1 .. m : mine[k] = Names[k]
      BY <2>1, <2>2, <3>1
    <3> HIDE DEF mine
    <3> QED
      BY <2>1, <3>2, FunctionIsSequence
  <2>4. biases \in Seq(NameType) /\ Len(biases) = n /\ \A k \in 1 .. n : biases[k] = Names[m + k]
    <3>1. \A k \in 1 .. n : m + k \in 1 .. m + n /\ Bias(request.contacts[k]) = Names[m + k]
      BY <2>1, <2>2
    <3>2. biases \in [1 .. n -> NameType] /\ \A k \in 1 .. n : biases[k] = Names[m + k]
      BY <2>1, <2>2, <3>1
    <3> HIDE DEF biases
    <3> QED
      BY <2>1, <3>2, FunctionIsSequence
  <2>5. [i \in DOMAIN rows |-> rows[i].name] = Names
    <3>1. \A i \in DOMAIN rows : rows[i].name = Names[i]
      BY <1>1 DEF Row
    <3>2. DOMAIN rows = DOMAIN Names
      BY <1>1
    <3>3. Names = [i \in DOMAIN Names |-> Names[i]]
      BY DEF Names
    <3>4. [i \in DOMAIN rows |-> rows[i].name] = [i \in DOMAIN Names |-> Names[i]]
      BY <3>1, <3>2
    <3> QED
      BY <3>3, <3>4, Zenon
  <2> HIDE DEF mine, biases, m, n
  <2>6. /\ mine \o biases \in Seq(NameType) /\ Len(mine \o biases) = m + n
        /\ \A k \in 1 .. m + n : (mine \o biases)[k] = IF k <= m THEN mine[k] ELSE biases[k - m]
    BY <2>3, <2>4, ConcatProperties
  <2>7. ASSUME NEW k \in 1 .. m + n PROVE (mine \o biases)[k] = Names[k]
    <3>1. CASE k <= m
      <4>1. k \in 1 .. m
        BY <2>1, <3>1
      <4> QED
        BY <2>3, <2>6, <3>1, <4>1
    <3>2. CASE ~(k <= m)
      <4>1. PICK l \in 1 .. n : l = k - m /\ k = m + l
        BY <2>1, <3>2
      <4>2. biases[l] = Names[m + l]
        BY <2>4
      <4> QED
        BY <2>6, <3>2, <4>1, <4>2
    <3> QED
      BY <3>1, <3>2
  <2>8. Len(Names) = m + n
    BY <1>4, <2>1, LenProperties
  <2>9. Names = mine \o biases
    BY <1>4, <2>6, <2>7, <2>8, SeqEqual
  <2> QED
    BY <2>5, <2>9 DEF mine, biases
<1> QED
  BY <1>2, <1>3, <1>5, <1>6 DEF RowsAreTheirOwn

(* A fit that ends is published, each number under its own name, and what   *)
(* the optimizer was told is of the point it asked about.                   *)
THEOREM RowsAreRight == EstimateSpec => []RowsAreOfTheFit
<1>1. ResolutionInv /\ FitInv => RowsAreOfTheFit
  <2> SUFFICES ASSUME ResolutionInv, FitInv
               PROVE  AnswersAreOfThePoint /\ RowsAreTheirOwn /\ NothingRefused
    BY DEF RowsAreOfTheFit
  <2>1. AnswersAreOfThePoint
    BY DEF FitInv, CacheIsOfThePoint, AnswersAreOfThePoint
  <2>2. RowsAreTheirOwn
    BY MadeRowsAreTheirOwn DEF RowsAreTheirOwn
  <2>3. NothingRefused
    BY DEF FitInv, FitType, NothingRefused
  <2> QED
    BY <2>1, <2>2, <2>3
<1> QED
  BY <1>1, PreparationIsTrue, FitIsTrue, PTL

=============================================================================
