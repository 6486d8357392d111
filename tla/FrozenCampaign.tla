--------------------------- MODULE FrozenCampaign ---------------------------
(***************************************************************************)
(* A campaign of fits over frozen inputs: experiments.drag_v6 (version 6)  *)
(* and experiments.forecast_v7 (version 7).  prepare unpacks a bundle and  *)
(* freezes the source into an output directory, execute runs every planned *)
(* fit in a pool of processes that save one checkpoint each, publish turns *)
(* the checkpoints into a report, and --resume continues an interrupted    *)
(* run.  The directory is all that survives a crash.                       *)
(***************************************************************************)
EXTENDS Naturals, FiniteSets

CONSTANTS
  Fit,           \* the fits plan_fits plans
  Unfittable,    \* those whose optimization raises RuntimeError or ValueError
  Worker,        \* slots for pool processes, of every pool that is alive
  PoolSize,      \* --workers
  Code, Data,    \* versions of the source with its native extension; of satkit's data
  Installed,     \* those a campaign begins under
  Patient,       \* does the operator resume only when no process is left at work?
  Torn,          \* a file whose writing has begun and not ended
  MaxFaults,     \* bound on crashes, failed writes and edits of the source
  None

\* What a process computes with.
Environment == [code: Code, data: Data]

Checkpoint == [outcome: {"fit", "error"}, env: Environment, sound: BOOLEAN]

ASSUME CampaignAssumption ==
  /\ Unfittable \subseteq Fit /\ Installed \in Environment
  /\ PoolSize \in Nat \ {0} /\ MaxFaults \in Nat
  /\ Patient \in BOOLEAN
  /\ {None, Torn} \intersect (Environment \union Checkpoint) = {}
  /\ None \notin Fit /\ None \notin {6, 7}

VARIABLES
  version,   \* 6 or 7
  tied,      \* version 7: do two of its passes end at the same instant?
  env,       \* the environment installed now
  layout,    \* what the output directory holds, by the steps of prepare
  frozen,    \* the environment it records: the source, and the data's checksums
  edited,    \* was env changed while something ran, since it was made?
  phase,     \* of the main process
  queue,     \* fits the main process has submitted and no worker has taken
  leftover,  \* fits in the call queue of a pool whose main process died
  failed,    \* did a future of the running pool raise?
  worker,    \* [Worker -> what the process does]
  artifact,  \* [Fit -> the parquet, csv and npz files: None, Torn or "whole"]
  pending,   \* [Fit -> run.pending.json: None, Torn or a checkpoint]
  final,     \* [Fit -> run.json: likewise]
  report,    \* None, or the rows of the last publish, and whether it wrote them all
  faults

vars == <<version, tied, env, layout, frozen, edited, phase, queue, leftover, failed,
          worker, artifact, pending, final, report, faults>>
campaign  == <<version, tied>>
directory == <<layout, frozen, edited>>
main      == <<phase, queue, failed>>
files     == <<artifact, pending, final>>

-----------------------------------------------------------------------------
Saved(file) == file \notin {None, Torn}

\* `env` is what the process loaded as it started; `file` is where its open
\* file has its name now: a rename moves it.
Process(pool, loaded, fit, step) ==
  [pool |-> pool, env |-> loaded, fit |-> fit, step |-> step, sound |-> TRUE, file |-> None]

Free == Process("free", None, None, "idle")
Spare(w) == Process(worker[w].pool, worker[w].env, None, "idle")

Mine    == {w \in Worker : worker[w].pool = "mine"}
Busy(w) == worker[w].step # "idle"

\* Is a process of some pool working, or about to take what it was handed?
AtWork == leftover # {} \/ \E w \in Worker : Busy(w)

Init ==
  /\ version \in {6, 7}
  /\ tied \in BOOLEAN /\ (tied => version = 7)
  /\ env = Installed
  /\ layout = "absent" /\ frozen = None /\ edited = FALSE
  /\ phase = "idle" /\ queue = {} /\ leftover = {} /\ failed = FALSE
  /\ worker = [w \in Worker |-> Free]
  /\ artifact = [f \in Fit |-> None]
  /\ pending = [f \in Fit |-> None]
  /\ final = [f \in Fit |-> None]
  /\ report = None
  /\ faults = 0

-----------------------------------------------------------------------------
(* prepare: one step per durable change of the output directory.           *)
Prepare(from, to) ==
  /\ phase = "preparing" /\ layout = from
  /\ layout' = to

\* mkdir(exist_ok=False): a directory that exists ends the command at once.
StartPrepare ==
  /\ phase = "idle" /\ layout = "absent"
  /\ phase' = "preparing" /\ layout' = "empty" /\ edited' = FALSE
  /\ UNCHANGED <<campaign, env, frozen, queue, leftover, failed, worker, files,
                 report, faults>>

\* _unzip leaves the experiment.json of the v5 bundle in the directory.
Unpack ==
  /\ Prepare("empty", "v5")
  /\ UNCHANGED <<campaign, env, frozen, edited, main, leftover, worker, files, report,
                 faults>>

\* Version 7 also renames the bundle's experiment.json.
SetAside ==
  /\ Prepare("v5", IF version = 7 THEN "nameless" ELSE "v5 aside")
  /\ UNCHANGED <<campaign, env, frozen, edited, main, leftover, worker, files, report,
                 faults>>

CaptureSource ==
  /\ \/ Prepare("nameless", "nameless captured")
     \/ Prepare("v5 aside", "v5 captured")
  /\ frozen' = env
  /\ UNCHANGED <<campaign, env, edited, main, leftover, worker, files, report, faults>>

\* save_json truncates experiment.json before it writes the new document ...
OpenDocument ==
  /\ \/ Prepare("nameless captured", "torn")
     \/ Prepare("v5 captured", "torn")
  /\ UNCHANGED <<campaign, env, frozen, edited, main, leftover, worker, files, report,
                 faults>>

\* ... and the same process goes on to execute.
WriteDocument ==
  /\ Prepare("torn", "own")
  /\ phase' = "planning"
  /\ UNCHANGED <<campaign, env, frozen, edited, queue, leftover, failed, worker,
                 files, report, faults>>

\* The operator removes a directory no run can use.
Discard ==
  /\ phase = "idle" /\ layout \notin {"absent", "own"}
  /\ layout' = "absent" /\ frozen' = None
  /\ UNCHANGED <<campaign, env, edited, main, leftover, worker, files, report, faults>>

-----------------------------------------------------------------------------
(* --resume, and the plan of what is left to do.                           *)

\* format_version in the experiment.json found, None if it cannot be read.
FormatVersion ==
  CASE layout \in {"v5", "v5 aside", "v5 captured"} -> 5
    [] layout = "own" -> version
    [] OTHER -> None

\* Is e the frozen environment, as far as the version compares it?  Version 6
\* compares the source and the extension, version 7 satkit's data as well.
AsFrozen(e) ==
  /\ frozen # None
  /\ e.code = frozen.code
  /\ version = 7 => e.data = frozen.data

(* Mutant: any document will do. *)
ResumeAnything == FormatVersion # None /\ AsFrozen(env)

ValidateResume == FormatVersion = version /\ AsFrozen(env)

Resume ==
  /\ phase = "idle" /\ ValidateResume
  /\ Patient => ~AtWork
  /\ phase' = "planning"
  /\ UNCHANGED <<campaign, env, directory, queue, leftover, failed, worker, files,
                 report, faults>>

\* validate_artifacts: the checksums of a checkpoint against the files.
ArtifactsMatch(f) ==
  final[f].outcome = "fit" => final[f].sound /\ artifact[f] = "whole"

\* tasks_for: version 7 checks every checkpoint it keeps, version 6 none.
KeptAreValid ==
  version = 7 =>
    \A f \in Fit : final[f] # None => Saved(final[f]) /\ ArtifactsMatch(f)

(* Mutant: every fit is run again. *)
TasksAll == Fit

(* Mutant: files of an interrupted fit are taken for its checkpoint. *)
TasksUntouched == {f \in Fit : final[f] = None /\ artifact[f] = None}

TasksFor == {f \in Fit : final[f] = None}

PlanTasks ==
  /\ phase = "planning"
  /\ IF KeptAreValid
       THEN phase' = "executing" /\ queue' = TasksFor
       ELSE phase' = "idle" /\ queue' = {}
  /\ failed' = FALSE
  /\ UNCHANGED <<campaign, env, directory, leftover, worker, files, report, faults>>

-----------------------------------------------------------------------------
(* run_fit, in a worker process.                                           *)
At(w, step) == worker[w].step = step
Become(w, new) == worker' = [worker EXCEPT ![w] = new]
Goto(w, step) == Become(w, [worker[w] EXCEPT !.step = step])
Writing(f, file) ==
  {w \in Worker : worker[w].fit = f /\ worker[w].file = file}

\* A pool spawns its processes as work arrives, and each loads what is
\* installed then: the main process compared it some time before.
Start(w) ==
  /\ worker[w].pool = "free" \/ (worker[w].pool = "orphan" /\ leftover = {})
  /\ Cardinality(Mine) < PoolSize

Take(w, f) ==
  /\ ~Busy(w)
  /\ \/ /\ phase = "executing" /\ f \in queue
        /\ queue' = queue \ {f} /\ UNCHANGED leftover
        /\ \/ /\ worker[w].pool = "mine"
              /\ Become(w, Process("mine", worker[w].env, f, "fitting"))
           \/ /\ Start(w)
              /\ Become(w, Process("mine", env, f, "fitting"))
     \/ /\ worker[w].pool = "orphan" /\ f \in leftover
        /\ leftover' = leftover \ {f} /\ UNCHANGED queue
        /\ Become(w, Process("orphan", worker[w].env, f, "fitting"))
  /\ UNCHANGED <<campaign, env, directory, phase, failed, files, report, faults>>

\* A fit that raises leaves no artifacts and is recorded all the same.
Optimize(w) ==
  LET f == worker[w].fit IN
  /\ At(w, "fitting")
  /\ IF f \in Unfittable
       THEN Goto(w, "hashed") /\ UNCHANGED artifact
       ELSE Goto(w, "writing") /\ artifact' = [artifact EXCEPT ![f] = Torn]
  /\ UNCHANGED <<campaign, env, directory, main, leftover, pending, final, report, faults>>

FinishArtifacts(w) ==
  LET f == worker[w].fit
      others == {x \in Worker \ {w} : worker[x].fit = f /\ At(x, "writing")}
  IN
  /\ At(w, "writing")
  /\ artifact' = [artifact EXCEPT ![f] = IF others = {} THEN "whole" ELSE Torn]
  /\ Goto(w, "written")
  /\ UNCHANGED <<campaign, env, directory, main, leftover, pending, final, report, faults>>

\* Version 7 records the checksums of the files it finds; version 6 has none.
HashArtifacts(w) ==
  /\ At(w, "written")
  /\ Become(w, [worker[w] EXCEPT !.step = "hashed",
       !.sound = version = 6 \/ artifact[worker[w].fit] = "whole"])
  /\ UNCHANGED <<campaign, env, directory, main, leftover, files, report, faults>>

\* save_json opens run.pending.json, truncating one that is there.
OpenPending(w) ==
  /\ At(w, "hashed")
  /\ pending' = [pending EXCEPT ![worker[w].fit] = Torn]
  /\ Become(w, [worker[w] EXCEPT !.step = "saving", !.file = "pending"])
  /\ UNCHANGED <<campaign, env, directory, main, leftover, artifact, final, report, faults>>

CheckpointOf(w) ==
  [outcome |-> IF worker[w].fit \in Unfittable THEN "error" ELSE "fit",
   env |-> worker[w].env, sound |-> worker[w].sound]

\* Its bytes reach the file it opened, whatever that is called by now.
ClosePending(w) ==
  LET f == worker[w].fit
      content == IF Writing(f, worker[w].file) = {w} THEN CheckpointOf(w) ELSE Torn
  IN
  /\ At(w, "saving")
  /\ pending' = IF worker[w].file = "pending"
                  THEN [pending EXCEPT ![f] = content] ELSE pending
  /\ final' = IF worker[w].file = "final" THEN [final EXCEPT ![f] = content] ELSE final
  /\ Become(w, [worker[w] EXCEPT !.step = "saved", !.file = None])
  /\ UNCHANGED <<campaign, env, directory, main, leftover, artifact, report, faults>>

\* pending.replace(run.json).  Another process' open file moves along.
Replace(w) ==
  LET f == worker[w].fit IN
  /\ At(w, "saved") /\ pending[f] # None
  /\ final' = [final EXCEPT ![f] = pending[f]]
  /\ pending' = [pending EXCEPT ![f] = None]
  /\ worker' = [x \in Worker |->
       IF x = w THEN Spare(w)
       ELSE IF worker[x].fit # f \/ worker[x].file = None THEN worker[x]
       ELSE [worker[x] EXCEPT !.file =
               IF worker[x].file = "pending" THEN "final" ELSE "unlinked"]]
  /\ UNCHANGED <<campaign, env, directory, main, leftover, artifact, report, faults>>

\* OSError is not recorded: the future raises.  No space for a write, or no
\* run.pending.json left to rename.
Renamed(w) == At(w, "saved") /\ pending[worker[w].fit] = None

Raise(w) ==
  /\ Busy(w)
  /\ Renamed(w) \/ faults < MaxFaults
  /\ faults' = IF Renamed(w) THEN faults ELSE faults + 1
  /\ failed' = (failed \/ worker[w].pool = "mine")
  /\ Become(w, Spare(w))
  /\ UNCHANGED <<campaign, env, directory, phase, queue, leftover, files, report>>

Work(w) ==
  \/ \E f \in Fit : Take(w, f)
  \/ Optimize(w) \/ FinishArtifacts(w) \/ HashArtifacts(w)
  \/ OpenPending(w) \/ ClosePending(w) \/ Replace(w)

-----------------------------------------------------------------------------
(* The end of the pool, and the report.                                    *)

\* Leaving the executor waits for every future, also when one has raised.
Drain ==
  /\ phase = "executing" /\ queue = {}
  /\ \A w \in Mine : ~Busy(w)
  /\ phase' = IF failed THEN "idle" ELSE "publishing"
  /\ worker' = [w \in Worker |-> IF w \in Mine THEN Free ELSE worker[w]]
  /\ UNCHANGED <<campaign, env, directory, queue, leftover, failed, files, report, faults>>

\* rows_for reads the checkpoint of every planned fit, and raises otherwise.
RowsAreReadable ==
  \A f \in Fit : Saved(final[f]) /\ (version = 7 => ArtifactsMatch(f))

\* Version 7 then groups the rows by the instant their prefix ends at, and
\* raises on the folds of two prefixes in one group.
Publishable == RowsAreReadable /\ ~tied

\* What is published is computed before the first of its files is opened ...
StartReport == phase' = "reporting" /\ report' = [rows |-> final, whole |-> FALSE]

Publish ==
  /\ phase = "publishing"
  /\ IF Publishable THEN StartReport ELSE phase' = "idle" /\ report' = report
  /\ UNCHANGED <<campaign, env, directory, queue, leftover, failed, worker, files, faults>>

\* The publish command, from any source.  One that raises changes nothing.
PublishAgain ==
  /\ phase = "idle" /\ layout = "own" /\ Publishable
  /\ StartReport
  /\ UNCHANGED <<campaign, env, directory, queue, leftover, failed, worker, files, faults>>

\* ... and they are written over the last report's, one after the other.
FinishReport ==
  /\ phase = "reporting"
  /\ phase' = "idle" /\ report' = [report EXCEPT !.whole = TRUE]
  /\ UNCHANGED <<campaign, env, directory, queue, leftover, failed, worker, files, faults>>

-----------------------------------------------------------------------------
(* The machine and the operator.                                           *)
Quiet == phase = "idle" /\ ~AtWork

\* The whole process group ends: Ctrl-C, a reboot, a worker killed for memory
\* (the executor then terminates the others).
Crash ==
  /\ ~Quiet /\ faults < MaxFaults
  /\ faults' = faults + 1
  /\ phase' = "idle" /\ queue' = {} /\ leftover' = {} /\ failed' = FALSE
  /\ worker' = [w \in Worker |-> Free]
  /\ UNCHANGED <<campaign, env, directory, files, report>>

\* Only the main process is killed: its pool goes on with what it was handed.
KillMain ==
  /\ phase # "idle" /\ faults < MaxFaults
  /\ faults' = faults + 1
  /\ phase' = "idle" /\ queue' = {} /\ failed' = FALSE
  /\ leftover' = IF Mine = {} THEN leftover ELSE leftover \union queue
  /\ worker' = [w \in Worker |->
       IF w \in Mine THEN [worker[w] EXCEPT !.pool = "orphan"] ELSE worker[w]]
  /\ UNCHANGED <<campaign, env, directory, files, report>>

\* The source or satkit's data are changed, also under a run.
EditSource ==
  /\ faults < MaxFaults
  /\ faults' = faults + 1
  /\ \E e \in Environment \ {env} : env' = e
  /\ edited' = (edited \/ ~Quiet)
  /\ UNCHANGED <<campaign, layout, frozen, main, leftover, worker, files, report>>

\* What --resume complains of is put back.
RestoreSource ==
  /\ Quiet /\ layout = "own" /\ ~AsFrozen(env)
  /\ env' = frozen
  /\ UNCHANGED <<campaign, directory, main, leftover, worker, files, report, faults>>

PrepareStep ==
  StartPrepare \/ Unpack \/ SetAside \/ CaptureSource \/ OpenDocument \/ WriteDocument

Next ==
  \/ PrepareStep \/ Discard
  \/ Resume \/ PlanTasks \/ Drain \/ Publish \/ PublishAgain \/ FinishReport
  \/ \E w \in Worker : Work(w) \/ Raise(w)
  \/ Crash \/ KillMain \/ EditSource \/ RestoreSource

\* Processes run; an operator with an unfinished campaign restores what it
\* was frozen with and resumes it.
Published == report # None /\ report.whole

ResumeUnpublished == ~Published /\ Resume

CampaignSpec ==
  /\ Init /\ [][Next]_vars
  /\ \A w \in Worker : WF_vars(Work(w))
  /\ WF_vars(PrepareStep) /\ WF_vars(PlanTasks) /\ WF_vars(Drain)
  /\ WF_vars(Publish) /\ WF_vars(FinishReport)
  /\ WF_vars(RestoreSource) /\ WF_vars(ResumeUnpublished)

-----------------------------------------------------------------------------
(* Properties.                                                             *)

\* No run ever computes in a directory whose preparation was interrupted: not
\* on the v5 document version 6 leaves under its own document's name, not on
\* a torn one; and its processes have the environment the directory records,
\* as far as the version compares it, unless somebody changed it while one ran.
OnlyPreparedRuns ==
  /\ phase \in {"planning", "executing", "publishing"} => layout = "own"
  /\ \A w \in Worker : Busy(w) =>
       layout = "own" /\ (~edited => AsFrozen(worker[w].env))

\* A report has a row for every planned fit, failures included, each with its
\* artifacts whole, and the checkpoints it was made from are still the ones in
\* the directory.  Unless the environment was changed under a run, all of them
\* were computed with the source the directory holds a copy of, and those of
\* version 7 with the satkit data of its checksums.
ReportCoversPlan ==
  report # None => \A f \in Fit : LET row == report.rows[f] IN
    /\ row = final[f] /\ Saved(row)
    /\ ~edited => AsFrozen(row.env)
    /\ row.outcome = IF f \in Unfittable THEN "error" ELSE "fit"
    /\ f \notin Unfittable => artifact[f] = "whole"

\* Interruption costs only the fits it interrupted: what a checkpoint says, and
\* the files it speaks of, no later run touches.
CheckpointsKept ==
  [][\A f \in Fit : Saved(final[f]) =>
       final'[f] = final[f] /\ artifact'[f] = artifact[f]]_vars

\* A campaign that was prepared is published in the end, however it is
\* interrupted, but for one of version 7 whose summary raises on two passes that
\* end together.
PreparedPublishes == layout = "own" /\ ~tied ~> Published

\* What a campaign publishes was prepared once and computed whole.
PreparedAndWhole == OnlyPreparedRuns /\ ReportCoversPlan
=============================================================================
