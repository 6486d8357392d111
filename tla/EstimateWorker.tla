---------------------------- MODULE EstimateWorker ----------------------------
(***************************************************************************)
(* The worker processes of dart/service/worker.py on top of the queue: the  *)
(* loop that recovers, claims and processes, the heartbeat thread beside    *)
(* it, and what goes wrong around them - calls that fail, calls that commit *)
(* and whose reply is lost, exceptions in preparation and fit, crashes and  *)
(* restarts.  Several processes may run under one worker ID.                *)
(***************************************************************************)
EXTENDS EstimateQueue

CONSTANTS
  Worker,   \* worker processes
  IdOf,     \* IdOf[w]: the worker_id process w runs with
  NoClaim   \* the worker processes nothing

ASSUME WorkerAssumption ==
  /\ IdOf \in [Worker -> WorkerId]
  /\ NoClaim \notin Claim

VARIABLES
  pc,      \* what the main thread of each process does next
  held,    \* the ClaimedJob it processes
  memory,  \* the prior it holds, named by the attempt that prepared it; 0: none
  beats,   \* the claims a living heartbeat thread of the process beats for
  basis    \* basis[j]: the prior the stored optimizer output was computed from

processVars == <<pc, held, memory, beats>>
workerVars  == <<vars, processVars, basis>>

(* Steps of the main thread that hold a claim; those that call the database *)
(* under the ownership check are Fenced.                                    *)
Recording  == {"record_retryable", "record_final"}
Fenced     == {"claimed", "storing", "staging", "persisting"} \cup Recording
Processing == Fenced \cup {"loading", "preparing", "fitting"}
Step       == {"down", "idle", "claiming"} \cup Processing

WorkerInit ==
  /\ Init
  /\ pc = [w \in Worker |-> "idle"]
  /\ held = [w \in Worker |-> NoClaim]
  /\ memory = [w \in Worker |-> 0]
  /\ beats = [w \in Worker |-> {}]
  /\ basis = [j \in Job |-> 0]

-----------------------------------------------------------------------------

Goto(w, step) ==
  /\ pc' = [pc EXCEPT ![w] = step]
  /\ UNCHANGED <<held, memory, beats>>

(* After a call that committed, the worker goes on; or the connection broke *)
(* before the reply, and a psycopg.OperationalError sends it to             *)
(* _record_failure although the transaction took effect.                    *)
GoesOn(w, step) == \E s \in {step, "record_retryable"} : Goto(w, s)

(* The worker is done with its claim.  Leaving _heartbeat stops the thread, *)
(* but join(timeout=1) may give up while a beat is still under way.         *)
Leave(w) ==
  /\ pc' = [pc EXCEPT ![w] = "idle"]
  /\ held' = [held EXCEPT ![w] = NoClaim]
  /\ memory' = [memory EXCEPT ![w] = 0]
  /\ \E threads \in {beats[w], beats[w] \ {held[w]}} :
       beats' = [beats EXCEPT ![w] = threads]

-----------------------------------------------------------------------------
(* run_once: recover, claim, process.                                       *)

(* The first call; S is empty when nothing has expired or others hold it.   *)
Recover(w, S) ==
  /\ pc[w] = "idle"
  /\ \/ RecoverExpiredLeases(S)
     \/ S = {} /\ UNCHANGED vars
  /\ Goto(w, "claiming")
  /\ UNCHANGED basis

(* The second call.  If its reply is lost the job stays leased to a worker  *)
(* that does not know of it.                                                *)
Take(w, j) ==
  /\ pc[w] = "claiming"
  /\ ClaimJob(IdOf[w], j)
  /\ \/ /\ pc' = [pc EXCEPT ![w] = "claimed"]
        /\ \E c \in claims' :
             /\ c \notin claims
             /\ held' = [held EXCEPT ![w] = c]
             /\ beats' = [beats EXCEPT ![w] = @ \cup {c}]
        /\ UNCHANGED memory
     \/ Goto(w, "idle")
  /\ UNCHANGED basis

(* No claimable job, or the call failed: wait for a notification, at most   *)
(* poll_seconds (_wait, and the pause of run_forever after an exception).   *)
Pause(w) ==
  /\ pc[w] = "claiming"
  /\ Goto(w, "idle")
  /\ UNCHANGED <<vars, basis>>

-----------------------------------------------------------------------------
(* _process                                                                 *)

EnterStage(w, from, stage, to) ==
  LET c == held[w] IN
  /\ pc[w] = from
  /\ SetStage(c, stage)
  /\ IF jobs[c.job].cancel_requested
     THEN Leave(w) \/ Goto(w, "record_retryable")
     ELSE GoesOn(w, to)
  /\ UNCHANGED basis

(* Mutant: a retry acquires its inputs anew, though they are frozen.        *)
LoadReacquires(w) ==
  LET frozen == estimates[held[w].job].prior IN
  /\ pc[w] = "loading"
  /\ memory' = [memory EXCEPT ![w] = IF frozen = 0 THEN 0 ELSE held[w].attempt]
  /\ pc' = [pc EXCEPT ![w] = IF frozen = 0 THEN "preparing" ELSE "staging"]
  /\ UNCHANGED <<vars, held, beats, basis>>

(* _prior: load_prior, which checks no ownership *)
Load(w) ==
  LET frozen == estimates[held[w].job].prior IN
  /\ pc[w] = "loading"
  /\ memory' = [memory EXCEPT ![w] = frozen]
  /\ pc' = [pc EXCEPT ![w] = IF frozen = 0 THEN "preparing" ELSE "staging"]
  /\ UNCHANGED <<vars, held, beats, basis>>

(* resolver.prepare: acquire the telemetry anew *)
Prepare(w) ==
  /\ pc[w] = "preparing"
  /\ memory' = [memory EXCEPT ![w] = held[w].attempt]
  /\ pc' = [pc EXCEPT ![w] = "storing"]
  /\ UNCHANGED <<vars, held, beats, basis>>

Store(w) ==
  /\ pc[w] = "storing"
  /\ StorePrior(held[w])
  /\ GoesOn(w, "staging")
  /\ UNCHANGED basis

(* run_estimate and result_rows *)
Fit(w) ==
  /\ pc[w] = "fitting"
  /\ Goto(w, "persisting")
  /\ UNCHANGED <<vars, basis>>

(* The output it stores is the fit of the prior in memory. *)
Persist(w, success) ==
  LET c == held[w] IN
  /\ pc[w] = "persisting"
  /\ PersistResult(c, success)
  /\ basis' = IF jobs[c.job].cancel_requested THEN basis
              ELSE [basis EXCEPT ![c.job] = memory[w]]
  /\ Leave(w) \/ Goto(w, "record_retryable")

(* Anything may raise: a provider, the fit, a call that did not take effect, *)
(* or the check that inputs are not frozen already.  _failure retries what  *)
(* the network or the connection raised, and gives up on the rest.          *)
Fail(w) ==
  /\ pc[w] \in Processing \ Recording
  /\ \E step \in Recording : Goto(w, step)
  /\ UNCHANGED <<vars, basis>>

(* LeaseLost, from any fenced call, discards the work. *)
LoseLease(w) ==
  /\ pc[w] \in Fenced
  /\ ~Owned(held[w])
  /\ Leave(w)
  /\ UNCHANGED <<vars, basis>>

(* _record_failure; when its own call fails, run_forever logs and goes on,  *)
(* and the job waits for its lease to expire.                               *)
Record(w) ==
  /\ pc[w] \in Recording
  /\ \/ FailOrRetry(held[w], pc[w] = "record_retryable")
     \/ UNCHANGED vars
  /\ Leave(w)
  /\ UNCHANGED basis

-----------------------------------------------------------------------------
(* Mutant: the heartbeat extends the lease of whoever holds the job.        *)
BeatUnfenced(w, c) ==
  /\ c \in beats[w]
  /\ jobs[c.job].status \in Executing
  /\ jobs' = [jobs EXCEPT ![c.job].lease = LeaseTicks]
  /\ UNCHANGED <<runs, estimates, claims, processVars, basis>>

(* The heartbeat thread of a claim.  It ends with its first exception, and  *)
(* beats at most once more when the worker has left the claim.              *)
Beat(w, c) ==
  /\ c \in beats[w]
  /\ Heartbeat(c)
  /\ \/ c = held[w] /\ UNCHANGED beats
     \/ beats' = [beats EXCEPT ![w] = @ \ {c}]
  /\ UNCHANGED <<pc, held, memory, basis>>

StopBeating(w, c) ==
  /\ c \in beats[w]
  /\ beats' = [beats EXCEPT ![w] = @ \ {c}]
  /\ UNCHANGED <<vars, pc, held, memory, basis>>

(* The process dies, its threads with it, and is started again. *)
Crash(w) ==
  /\ pc[w] # "down"
  /\ pc' = [pc EXCEPT ![w] = "down"]
  /\ held' = [held EXCEPT ![w] = NoClaim]
  /\ memory' = [memory EXCEPT ![w] = 0]
  /\ beats' = [beats EXCEPT ![w] = {}]
  /\ UNCHANGED <<vars, basis>>

Restart(w) ==
  /\ pc[w] = "down"
  /\ Goto(w, "idle")
  /\ UNCHANGED <<vars, basis>>

-----------------------------------------------------------------------------

Process(w) ==
  \/ EnterStage(w, "claimed", "loading_telemetry", "loading")
  \/ Load(w)
  \/ Prepare(w)
  \/ Store(w)
  \/ EnterStage(w, "staging", "running", "fitting")
  \/ Fit(w)
  \/ \E success \in BOOLEAN : Persist(w, success)
  \/ Fail(w)
  \/ LoseLease(w)
  \/ Record(w)

RunOnce(w) ==
  \/ \E S \in SUBSET Job : Recover(w, S)
  \/ \E j \in Job : Take(w, j)
  \/ Pause(w)
  \/ Process(w)

(* The API and the clock. *)
Environment ==
  /\ Tick \/ \E j \in Job : Submit(j) \/ Cancel(j)
  /\ UNCHANGED <<processVars, basis>>

WorkerNext ==
  \/ Environment
  \/ \E w \in Worker :
       \/ RunOnce(w)
       \/ \E c \in beats[w] : Beat(w, c) \/ StopBeating(w, c)
       \/ Crash(w)
       \/ Restart(w)

WorkerSpec == WorkerInit /\ [][WorkerNext]_workerVars

(* Fairness: the clock runs; a worker that died is restarted; one that is   *)
(* up time and again gets its next step done (polls time out, providers and *)
(* the fit end, and no process dies for ever before its first call); and    *)
(* the database does not refuse the same recovery or claim for ever.        *)
(* Nothing is assumed of the heartbeat thread, nor of how often calls fail  *)
(* and workers crash.                                                       *)
Fairness ==
  /\ WF_workerVars(Tick /\ UNCHANGED <<processVars, basis>>)
  /\ \A w \in Worker : WF_workerVars(Restart(w)) /\ SF_workerVars(RunOnce(w))
  /\ \A j \in Job :
       /\ SF_workerVars(\E w \in Worker, S \in SUBSET Job : j \in S /\ Recover(w, S))
       /\ SF_workerVars(\E w \in Worker : Take(w, j))

FairWorkerSpec == WorkerSpec /\ Fairness

-----------------------------------------------------------------------------
(* Type invariant of the processes.                                         *)
WorkerTypeOK ==
  /\ pc \in [Worker -> Step]
  /\ held \in [Worker -> claims \cup {NoClaim}]
  /\ \A w \in Worker : held[w] # NoClaim <=> pc[w] \in Processing
  /\ memory \in [Worker -> 0 .. MaxAttempts]
  /\ beats \in [Worker -> SUBSET claims]
  /\ basis \in [Job -> 0 .. MaxAttempts]

(* A job has at most one process that may still affect it, even when        *)
(* processes share a worker ID.                                             *)
SingleOwner ==
  \A v, w \in Worker :
    /\ pc[v] \in Processing /\ pc[w] \in Processing
    /\ held[v].job = held[w].job
    /\ Owned(held[v]) /\ Owned(held[w])
    => v = w

(* load_prior is not fenced and the acquisition after it takes long, yet a  *)
(* worker that still owns its job when it stores the inputs finds them      *)
(* unfrozen: "estimate inputs are already frozen" is never raised.          *)
InputsStillOpen ==
  \A w \in Worker :
    pc[w] = "storing" /\ Owned(held[w]) => estimates[held[w].job].prior = 0

(* A published fit was computed from the inputs the estimate froze, though  *)
(* another attempt, or another worker, may have frozen them and this worker *)
(* may have acquired its own.                                               *)
FitOfFrozenInputs ==
  \A j \in Job :
    estimates[j].published_run # 0 =>
      estimates[j].prior # 0 /\ basis[j] = estimates[j].prior

(* The status shown to the user is what the owner of the job is doing.      *)
StageShown ==
  \A w \in Worker :
    pc[w] \in Processing /\ Owned(held[w]) =>
      LET status == jobs[held[w].job].status IN
      /\ pc[w] = "claimed" => status = "resolving_inputs"
      /\ pc[w] \in {"loading", "preparing", "storing", "staging"} =>
           status = "loading_telemetry"
      /\ pc[w] \in {"fitting", "persisting"} => status = "running"

(* A job has one owner, and what the user is shown is what that owner does. *)
OwnerShown == SingleOwner /\ StageShown

(* Inputs are frozen once, and a fit that is published was computed from    *)
(* what was frozen.                                                         *)
InputsFrozenOnce == InputsStillOpen /\ FitOfFrozenInputs

(* Every accepted job ends, whatever fails on the way.                      *)
JobsFinish ==
  \A j \in Job : jobs[j].status = "queued" ~> jobs[j].status \in Terminal

(* An accepted cancellation always wins: no worker turns the job into a     *)
(* success, a failure or a retry any more.                                  *)
CancellationWins ==
  \A j \in Job : jobs[j].cancel_requested ~> jobs[j].status = "canceled"

(* Refinement: the workers only use the queue as EstimateQueue lets anyone  *)
(* use it, so all that holds there holds here.                              *)
ImplementsQueue == Spec
=============================================================================
