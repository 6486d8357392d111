----------------------------- MODULE JobLifecycle -----------------------------
(***************************************************************************)
(* What the estimate service promises about a job, without leases, workers, *)
(* attempts or clocks: an accepted job waits or is attempted, its inputs    *)
(* are frozen at most once and only while it is attempted, and it ends in   *)
(* one of three ways; a fit is published only in the very step that ends    *)
(* the attempt which produced it, and nothing changes afterwards.           *)
(* (docs/async-api.md, "Database contract".)                                *)
(***************************************************************************)
CONSTANT Job

VARIABLES
  phase,      \* where each job stands
  inputs,     \* are the inputs of its estimate frozen?
  published   \* has its estimate a published fit?

lifecycleVars == <<phase, inputs, published>>

Phases == {"absent", "waiting", "attempted", "succeeded", "failed", "canceled"}

LifecycleInit ==
  /\ phase = [j \in Job |-> "absent"]
  /\ inputs = [j \in Job |-> FALSE]
  /\ published = [j \in Job |-> FALSE]

Moves(j, from, to) == phase[j] = from /\ phase'[j] = to

Keeps(j) == inputs'[j] = inputs[j] /\ published'[j] = published[j]

Rest(j)   == phase'[j] = phase[j] /\ Keeps(j)
Accept(j) == Moves(j, "absent", "waiting") /\ Keeps(j)
Start(j)  == Moves(j, "waiting", "attempted") /\ Keeps(j)

Freeze(j) ==
  /\ Moves(j, "attempted", "attempted")
  /\ ~inputs[j] /\ inputs'[j]
  /\ published'[j] = published[j]

Publish(j) ==
  /\ Moves(j, "attempted", "succeeded") \/ Moves(j, "attempted", "failed")
  /\ ~published[j] /\ published'[j]
  /\ inputs'[j] = inputs[j]

(* The attempt ends without a fit: the job waits for another or fails.      *)
GiveUp(j) ==
  /\ Moves(j, "attempted", "waiting") \/ Moves(j, "attempted", "failed")
  /\ Keeps(j)

Withdraw(j) ==
  /\ Moves(j, "waiting", "canceled") \/ Moves(j, "attempted", "canceled")
  /\ Keeps(j)

JobStep(j) ==
  \/ Rest(j) \/ Accept(j) \/ Start(j) \/ Freeze(j)
  \/ Publish(j) \/ GiveUp(j) \/ Withdraw(j)

(* Recovery ends the attempts of several jobs in one transaction, so a step *)
(* may move several jobs.                                                   *)
LifecycleNext == \A j \in Job : JobStep(j)

LifecycleSpec == LifecycleInit /\ [][LifecycleNext]_lifecycleVars
=============================================================================
