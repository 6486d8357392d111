--------------------------- MODULE ForecastStudy ---------------------------
(***************************************************************************)
(* The studies of versions 4 and 5 (experiment, experiments.forecast,      *)
(* results_v4, results_v5): runs that share a cache of downloaded inputs,  *)
(* freeze a copy of it beside their checkpoints in `<output>.working`, and *)
(* publish what is complete under a name that must not exist.  A study may *)
(* also be rerun or rebuilt from a bundle, or exported by the operator     *)
(* from a working directory while its run is still alive.                  *)
(***************************************************************************)
EXTENDS Naturals, Sequences, FiniteSets

CONSTANTS
  Process,    \* commands running at the same time
  Craft,      \* spacecraft of a study
  Output,     \* names given to --output
  Sources,    \* what --prior-source may ask for: sets of categories
  Fits,       \* fits plan_fits (v5) or configurations (v4) plans for a case
  MaxFaults,  \* bound on commands that raise or are killed
  MaxStarts,  \* bound on the categories all commands ask for
  None

Category == {"pre-launch", "payload-separation-update"}
Case == Category \X Craft

\* What a fit was computed from, a snapshot of inputs, what is saved of a case, a
\* working directory and a published one.
Run == [data : {"part", "whole"}, prior : {"selected"} \union Category]
Snapshot == [data : {"part", "whole"}, prior : {"selected"} \union Category,
             manifest : {None} \union Run]
SavedCase == [runs : Seq(Run), pruning : {"none", "no refit", "refit", "refitted"}]
Work == [version : {4, 5}, inputs : [Case -> {None} \union Snapshot],
         saved : [Case -> {None} \union SavedCase]]
Publication == [command : {"study", "rerun", "rebuild", "export"}, version : {4, 5},
                asked : SUBSET Case, cases : UNION {[S -> SavedCase] : S \in SUBSET Case}]

ASSUME StudyAssumption ==
  /\ Fits \in Nat \ {0} /\ MaxFaults \in Nat /\ MaxStarts \in Nat
  /\ Sources \subseteq SUBSET Category
  /\ None \notin Snapshot \union SavedCase \union Work \union Publication

VARIABLES
  cache,    \* [Craft -> the downloaded snapshot, or None]
  proc,     \* [Process -> the command it runs]
  work,     \* [Output -> `<output>.working`, or None]
  output,   \* [Output -> what is published there, or None]
  faults,
  starts

vars == <<cache, proc, work, output, faults, starts>>

\* A snapshot: its data files, the prior among them, and manifest.json, which
\* says what they were when it was written (None before).
Opened == [data |-> "part", prior |-> "selected", manifest |-> None]
Contents(s) == [data |-> s.data, prior |-> s.prior]

\* _read_snapshot: every file against the manifest.
Readable(s) == s.manifest = Contents(s)

Idle == [command |-> "none", step |-> "idle", version |-> 5, out |-> None,
         source |-> None, asked |-> {}, todo |-> {}, case |-> None, run |-> None,
         gathered |-> << >>]

\* A working directory: frozen inputs and checkpoints, by case.
EmptyWork(version) ==
  [version |-> version, inputs |-> [c \in Case |-> None], saved |-> [c \in Case |-> None]]

Init ==
  /\ cache = [c \in Craft |-> None]
  /\ proc = [p \in Process |-> Idle]
  /\ work = [o \in Output |-> None]
  /\ output = [o \in Output |-> None]
  /\ faults = 0 /\ starts = 0

-----------------------------------------------------------------------------
At(p, step) == proc[p].step = step
Become(p, new) == proc' = [proc EXCEPT ![p] = new]
Goto(p, step) == Become(p, [proc[p] EXCEPT !.step = step])

\* A command that raises leaves its working directory behind.
End(p) == Become(p, Idle)

Own(p) == work[proc[p].out]
SetInputs(p, c, s) == work' = [work EXCEPT ![proc[p].out].inputs[c] = s]
SetSaved(p, c, s) == work' = [work EXCEPT ![proc[p].out].saved[c] = s]

\* Categories in the order of PRIOR_CATEGORIES, spacecraft as --forest has them.
Due(cases) ==
  LET first == {c \in cases : c[1] = "pre-launch"}
  IN IF first = {} THEN cases ELSE first

\* The operator's commands: what is asked for, and under which name.
Asked(o, categories) ==
  [Idle EXCEPT !.out = o, !.asked = categories \X Craft, !.step = "checking"]

StartStudy(p, new) == Become(p, [new EXCEPT !.command = "study"])

\* A bundle holds every case of an earlier study.
StartRerun(p, new) ==
  \E v \in {4, 5} : Become(p, [new EXCEPT !.command = "rerun", !.version = v])

StartRebuild(p, new) ==
  Become(p, [new EXCEPT !.command = "rebuild", !.step = "publishing"])

\* From a working directory, also one whose run is still alive.
StartExport(p, new) ==
  \E s \in Output, v \in {4, 5} :
    /\ work[s] # None
    /\ Become(p, [new EXCEPT !.command = "export", !.step = "publishing",
                             !.source = s, !.version = v])

Start(p) ==
  /\ At(p, "idle")
  /\ \E o \in Output, categories \in Sources :
       LET new == Asked(o, categories) IN
       /\ starts + Cardinality(categories) <= MaxStarts
       /\ starts' = starts + Cardinality(categories)
       /\ StartStudy(p, new) \/ StartRerun(p, new) \/ StartRebuild(p, new) \/ StartExport(p, new)
  /\ UNCHANGED <<cache, work, output, faults>>

\* if output.exists(): raise
CheckOutput(p) ==
  /\ At(p, "checking")
  /\ IF output[proc[p].out] # None THEN End(p) ELSE Goto(p, "claiming")
  /\ UNCHANGED <<cache, work, output, faults, starts>>

\* work.mkdir(exist_ok=False)
Claim(p) ==
  /\ At(p, "claiming")
  /\ IF Own(p) # None THEN End(p) /\ UNCHANGED work
     ELSE /\ work' = [work EXCEPT ![proc[p].out] = EmptyWork(proc[p].version)]
          /\ IF proc[p].command = "study"
               THEN Become(p, [proc[p] EXCEPT !.step = "caching", !.todo = Craft])
               ELSE Become(p, [proc[p] EXCEPT !.step = "running", !.todo = proc[p].asked])
  /\ UNCHANGED <<cache, output, faults, starts>>

-----------------------------------------------------------------------------
(* load_inputs on the shared cache.                                        *)

\* A snapshot that is there is replayed if it is whole, else it is an error.
LookUp(p) ==
  /\ At(p, "caching")
  /\ \E c \in proc[p].todo :
       IF cache[c] = None THEN Become(p, [proc[p] EXCEPT !.step = "acquiring", !.case = c])
       ELSE IF Readable(cache[c]) THEN Become(p, [proc[p] EXCEPT !.todo = @ \ {c}])
       ELSE End(p)
  /\ UNCHANGED <<cache, work, output, faults, starts>>

\* After the download, mkdir(exist_ok=False): another command may have been
\* faster.
Acquire(p) ==
  LET c == proc[p].case IN
  /\ At(p, "acquiring")
  /\ IF cache[c] # None THEN End(p) /\ UNCHANGED cache
     ELSE cache' = [cache EXCEPT ![c] = Opened] /\ Goto(p, "filling")
  /\ UNCHANGED <<work, output, faults, starts>>

WriteFiles(p) ==
  /\ At(p, "filling")
  /\ cache' = [cache EXCEPT ![proc[p].case].data = "whole"]
  /\ Goto(p, "sealing")
  /\ UNCHANGED <<work, output, faults, starts>>

\* "Written last: an interrupted snapshot is rejected on the next call."
WriteManifest(p) ==
  LET c == proc[p].case IN
  /\ At(p, "sealing")
  /\ cache' = [cache EXCEPT ![c].manifest = Contents(cache[c])]
  /\ Become(p, [proc[p] EXCEPT !.step = "caching", !.todo = @ \ {c}, !.case = None])
  /\ UNCHANGED <<work, output, faults, starts>>

\* The operator removes an interrupted snapshot nobody is writing.
ClearCache(c) ==
  /\ cache[c] # None /\ ~Readable(cache[c])
  /\ \A p \in Process : ~(proc[p].step \in {"filling", "sealing"} /\ proc[p].case = c)
  /\ cache' = [cache EXCEPT ![c] = None]
  /\ UNCHANGED <<proc, work, output, faults, starts>>

Cached(p) ==
  /\ At(p, "caching") /\ proc[p].todo = {}
  /\ Become(p, [proc[p] EXCEPT !.step = "freezing", !.todo = proc[p].asked])
  /\ UNCHANGED <<cache, work, output, faults, starts>>

-----------------------------------------------------------------------------
(* freeze_prior: every case has its own copy of the inputs, its prior the   *)
(* one of its category.                                                     *)
Copy(p) ==
  /\ At(p, "freezing")
  /\ \E c \in Due(proc[p].todo) :
       IF cache[c[2]] = None THEN End(p) /\ UNCHANGED work
       ELSE /\ SetInputs(p, c, cache[c[2]])
            /\ Become(p, [proc[p] EXCEPT !.step = "replacing", !.case = c])
  /\ UNCHANGED <<cache, output, faults, starts>>

ReplacePrior(p) ==
  LET c == proc[p].case IN
  /\ At(p, "replacing")
  /\ SetInputs(p, c, [Own(p).inputs[c] EXCEPT !.prior = c[1]])
  /\ Goto(p, "resealing")
  /\ UNCHANGED <<cache, output, faults, starts>>

\* Only the checksum of the prior is replaced.
ReplaceChecksum(p) ==
  LET c == proc[p].case IN
  /\ At(p, "resealing")
  /\ IF Own(p).inputs[c].manifest = None THEN End(p) /\ UNCHANGED work
     ELSE /\ SetInputs(p, c, [Own(p).inputs[c] EXCEPT !.manifest.prior = c[1]])
          /\ Become(p, [proc[p] EXCEPT !.step = "freezing", !.todo = @ \ {c}, !.case = None])
  /\ UNCHANGED <<cache, output, faults, starts>>

Frozen(p) ==
  /\ At(p, "freezing") /\ proc[p].todo = {}
  /\ Become(p, [proc[p] EXCEPT !.step = "running", !.todo = proc[p].asked])
  /\ UNCHANGED <<cache, work, output, faults, starts>>

-----------------------------------------------------------------------------
(* run_spacecraft (v5) and experiment (v4): fits in order, a checkpoint     *)
(* after each.  A rerun first copies the inputs of its bundle.              *)
Bundled(c) ==
  [data |-> "whole", prior |-> c[1], manifest |-> [data |-> "whole", prior |-> c[1]]]

\* A case without fits is saved first.
NewCase == [runs |-> << >>, pruning |-> "none"]

(* Mutant: the shared cache is read instead of the frozen copy. *)
OpenCached(p) ==
  /\ At(p, "running") /\ proc[p].case = None
  /\ \E c \in Due(proc[p].todo) :
       LET inputs == IF proc[p].command = "study" THEN cache[c[2]] ELSE Bundled(c) IN
       IF ~Readable(inputs) THEN End(p) /\ UNCHANGED work
       ELSE /\ work' = [work EXCEPT ![proc[p].out].inputs[c] = inputs,
                          ![proc[p].out].saved[c] = NewCase]
            /\ Become(p, [proc[p] EXCEPT !.case = c])
  /\ UNCHANGED <<cache, output, faults, starts>>

OpenCase(p) ==
  /\ At(p, "running") /\ proc[p].case = None
  /\ \E c \in Due(proc[p].todo) :
       LET inputs == IF proc[p].command = "study" THEN Own(p).inputs[c] ELSE Bundled(c) IN
       IF ~Readable(inputs) THEN End(p) /\ UNCHANGED work
       ELSE /\ work' = [work EXCEPT ![proc[p].out].inputs[c] = inputs,
                          ![proc[p].out].saved[c] = NewCase]
            /\ Become(p, [proc[p] EXCEPT !.case = c])
  /\ UNCHANGED <<cache, output, faults, starts>>

\* benchmark reads the frozen inputs again for every fit.
Benchmark(p) ==
  /\ Become(p, [proc[p] EXCEPT !.step = "fitted",
                  !.run = Contents(Own(p).inputs[proc[p].case])])
  /\ UNCHANGED <<cache, work, output, faults, starts>>

\* _execute runs the fits of the plan; a fit that cannot be made is recorded too.
Execute(p) ==
  /\ At(p, "running") /\ proc[p].version = 5 /\ proc[p].case # None
  /\ Len(Own(p).saved[proc[p].case].runs) < Fits
  /\ Benchmark(p)

\* run_case also runs the refit that pruning asked for.
RunCase(p) ==
  /\ At(p, "running") /\ proc[p].version = 4 /\ proc[p].case # None
  /\ LET saved == Own(p).saved[proc[p].case]
     IN Len(saved.runs) < Fits \/ saved.pruning = "refit"
  /\ Benchmark(p)

\* publish(case): experiment.json is replaced as one file.
Save(p) ==
  LET c == proc[p].case
      saved == Own(p).saved[c]
  IN
  /\ At(p, "fitted")
  /\ SetSaved(p, c, [runs |-> Append(saved.runs, proc[p].run),
                     pruning |-> IF saved.pruning = "refit" THEN "refitted" ELSE saved.pruning])
  /\ Become(p, [proc[p] EXCEPT !.step = "running", !.run = None])
  /\ UNCHANGED <<cache, output, faults, starts>>

\* Version 4 ends with a decision on noisy passes, which may ask for a refit.
Prune(p) ==
  LET saved == Own(p).saved[proc[p].case] IN
  /\ At(p, "running") /\ proc[p].case # None /\ proc[p].version = 4
  /\ Len(saved.runs) = Fits /\ saved.pruning = "none"
  /\ \E reason \in {"no refit", "refit"} :
       SetSaved(p, proc[p].case, [saved EXCEPT !.pruning = reason])
  /\ UNCHANGED <<cache, proc, output, faults, starts>>

Finished(version, saved) ==
  /\ Len(saved.runs) >= Fits
  /\ saved.pruning \in IF version = 5 THEN {"none"} ELSE {"no refit", "refitted"}

CloseCase(p) ==
  /\ At(p, "running") /\ proc[p].case # None
  /\ Finished(proc[p].version, Own(p).saved[proc[p].case])
  /\ Become(p, [proc[p] EXCEPT !.todo = @ \ {proc[p].case}, !.case = None])
  /\ UNCHANGED <<cache, work, output, faults, starts>>

EndRun(p) ==
  /\ At(p, "running") /\ proc[p].case = None /\ proc[p].todo = {}
  /\ Become(p, [proc[p] EXCEPT !.step = "publishing", !.source = proc[p].out])
  /\ UNCHANGED <<cache, work, output, faults, starts>>

-----------------------------------------------------------------------------
(* publish_v5, export_v4 and rebuild: read, stage in a private directory,   *)
(* rename.                                                                  *)

\* The cases of the bundle, as they are.
Rebuild(p) ==
  Become(p, [proc[p] EXCEPT !.step = "staged", !.gathered =
    [c \in proc[p].asked |->
       [runs |-> [i \in 1..Fits |-> Contents(Bundled(c))], pruning |-> "none"]]])

\* _publication refuses a name in use before anything is read.
OpenPublication(p) ==
  /\ At(p, "publishing")
  /\ IF output[proc[p].out] # None THEN End(p)
     ELSE IF proc[p].command = "rebuild" THEN Rebuild(p)
       ELSE Become(p, [proc[p] EXCEPT !.step = "gathering",
                         !.todo = {c[1] : c \in proc[p].asked}])
  /\ UNCHANGED <<cache, work, output, faults, starts>>

\* _check_run: a fit from the prior of the frozen inputs.
CheckRun(run, inputs) == run.prior = inputs.prior

(* Mutant: the fits are not compared with the plan. *)
CheckRuns(saved, inputs) ==
  \A i \in 1..Len(saved.runs) : CheckRun(saved.runs[i], inputs)

\* _check_case of version 5: exactly the planned fits.
CheckCase(saved, inputs) ==
  /\ Len(saved.runs) = Fits
  /\ \A i \in 1..Len(saved.runs) : CheckRun(saved.runs[i], inputs)
  /\ Readable(inputs)

\* _check_case of version 4: what it adds after pruning is not asked for.
CheckPruned(saved, inputs) ==
  /\ Len(saved.runs) \in Fits..(Fits + 1)
  /\ \A i \in 1..Len(saved.runs) : CheckRun(saved.runs[i], inputs)
  /\ Readable(inputs)

Checked(version, saved, inputs) ==
  IF version = 4 THEN CheckPruned(saved, inputs) ELSE CheckCase(saved, inputs)

\* One directory: the cases its experiment.json has so far.
Gather(p) ==
  LET source == work[proc[p].source]
      gathered == proc[p].gathered
  IN
  /\ At(p, "gathering")
  /\ \E k \in proc[p].todo :
       LET cases == IF source = None THEN {}
                    ELSE {c \in proc[p].asked : c[1] = k /\ source.saved[c] # None}
       IN IF /\ cases # {} /\ source.version = proc[p].version
             /\ \A c \in cases : Checked(proc[p].version, source.saved[c], source.inputs[c])
          THEN Become(p, [proc[p] EXCEPT !.todo = @ \ {k},
                 !.gathered = [c \in DOMAIN gathered \union cases |->
                                 IF c \in cases THEN source.saved[c] ELSE gathered[c]]])
          ELSE End(p)
  /\ UNCHANGED <<cache, work, output, faults, starts>>

Stage(p) ==
  /\ At(p, "gathering") /\ proc[p].todo = {}
  /\ Goto(p, "staged")
  /\ UNCHANGED <<cache, work, output, faults, starts>>

\* The second check and the rename: a directory with files is never replaced.
Rename(p) ==
  /\ At(p, "staged")
  /\ IF output[proc[p].out] # None THEN End(p) /\ UNCHANGED output
     ELSE /\ output' = [output EXCEPT ![proc[p].out] =
               [command |-> proc[p].command, version |-> proc[p].version,
                asked |-> proc[p].asked, cases |-> proc[p].gathered]]
          /\ IF proc[p].command \in {"study", "rerun"} THEN Goto(p, "cleaning") ELSE End(p)
  /\ UNCHANGED <<cache, work, faults, starts>>

\* shutil.rmtree(work)
Clean(p) ==
  /\ At(p, "cleaning")
  /\ work' = [work EXCEPT ![proc[p].out] = None]
  /\ End(p)
  /\ UNCHANGED <<cache, output, faults, starts>>

-----------------------------------------------------------------------------
(* Mutant: a command that fails removes its directory. *)
FailAndClean(p) ==
  /\ ~At(p, "idle") /\ faults < MaxFaults
  /\ faults' = faults + 1
  /\ End(p)
  /\ work' = IF proc[p].command \in {"study", "rerun"}
               THEN [work EXCEPT ![proc[p].out] = None] ELSE work
  /\ UNCHANGED <<cache, output, starts>>

\* A provider, a fit or a write raises, or the process is killed: on the disk
\* everything stays as it is.
Fail(p) ==
  /\ ~At(p, "idle") /\ faults < MaxFaults
  /\ faults' = faults + 1
  /\ End(p)
  /\ UNCHANGED <<cache, work, output, starts>>

Step(p) ==
  \/ CheckOutput(p) \/ Claim(p)
  \/ LookUp(p) \/ Acquire(p) \/ WriteFiles(p) \/ WriteManifest(p) \/ Cached(p)
  \/ Copy(p) \/ ReplacePrior(p) \/ ReplaceChecksum(p) \/ Frozen(p)
  \/ OpenCase(p) \/ Execute(p) \/ RunCase(p) \/ Save(p) \/ Prune(p) \/ CloseCase(p) \/ EndRun(p)
  \/ OpenPublication(p) \/ Gather(p) \/ Stage(p) \/ Rename(p) \/ Clean(p)

Next ==
  \/ \E p \in Process : Start(p) \/ Step(p) \/ Fail(p)
  \/ \E c \in Craft : ClearCache(c)

StudySpec == Init /\ [][Next]_vars

-----------------------------------------------------------------------------
(* Properties.                                                             *)
Sound(c, saved) ==
  \A i \in 1..Len(saved.runs) : saved.runs[i] = [data |-> "whole", prior |-> c[1]]

\* No fit is ever computed from a half-written download or from another prior
\* than its category's, however downloads, failures and freezing interleave.
FitsUseFrozenInputs ==
  \A o \in Output : work[o] # None =>
    \A c \in Case : work[o].saved[c] # None => Sound(c, work[o].saved[c])

\* What is published has every planned fit of each of its cases, and what a run
\* publishes of itself has every case it was asked for and every refit: the
\* result of an interrupted run can only ever be published by an export.
PublishedIsWhole ==
  \A o \in Output : output[o] # None =>
    LET cases == output[o].cases IN
    /\ \A c \in DOMAIN cases : Sound(c, cases[c]) /\ Len(cases[c].runs) >= Fits
    /\ output[o].command \in {"study", "rerun"} =>
         /\ DOMAIN cases = output[o].asked
         /\ \A c \in DOMAIN cases : Finished(output[o].version, cases[c])

\* A published directory is never replaced, whoever races for its name.
OutputIsFinal ==
  [][\A o \in Output : output[o] # None => output'[o] = output[o]]_vars

\* Work is removed only when all of it has been published under its own name:
\* a failed or refused publication loses no fit.
WorkOutlivesFailure ==
  [][\A o \in Output : work[o] # None /\ work'[o] = None =>
       /\ output[o] # None
       /\ \A c \in Case : work[o].saved[c] # None =>
            c \in DOMAIN output[o].cases /\ output[o].cases[c] = work[o].saved[c]]_vars

\* No run costs another its work: not its output, not what it has computed.
NothingIsLost == OutputIsFinal /\ WorkOutlivesFailure
=============================================================================
