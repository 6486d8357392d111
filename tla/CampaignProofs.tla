--------------------------- MODULE CampaignProofs ---------------------------
(***************************************************************************)
(* Theorems about the campaigns of fits.  FrozenCampaign, for any number of*)
(* fits, pool processes, environments, crashes and resumptions: a directory*)
(* is computed in only as it was frozen, and what is published is whole.   *)
(* PrefixStudy, for any contacts, instants, policies and outcomes of the   *)
(* fits: no forecast knows more than its time, and the report says no more *)
(* than the fits bear out.                                                 *)
(***************************************************************************)
EXTENDS FrozenCampaign, PrefixStudy, OrderingProofs, SequenceTheorems, TLAPS

-----------------------------------------------------------------------------
(* Types.                                                                  *)
Layout == {"absent", "empty", "v5", "nameless", "v5 aside", "nameless captured",
           "v5 captured", "torn", "own"}
Phase == {"idle", "preparing", "planning", "executing", "publishing", "reporting"}
AtStep == {"idle", "fitting", "writing", "written", "hashed", "saving", "saved"}
ProcessType == [pool : {"free", "mine", "orphan"}, env : Environment \union {None},
                fit : Fit \union {None}, step : AtStep, sound : BOOLEAN,
                file : {None, "pending", "final", "unlinked"}]
File == {None, Torn} \union Checkpoint

Typed ==
  /\ version \in {6, 7} /\ env \in Environment
  /\ layout \in Layout /\ frozen \in Environment \union {None} /\ edited \in BOOLEAN
  /\ phase \in Phase
  /\ queue \in SUBSET Fit /\ leftover \in SUBSET Fit
  /\ worker \in [Worker -> ProcessType]
  /\ artifact \in [Fit -> {None, Torn, "whole"}]
  /\ pending \in [Fit -> File] /\ final \in [Fit -> File]

\* A process at work has a fit to work on, one that waits has none.
Occupied ==
  \A w \in Worker :
    /\ Busy(w) => worker[w].fit \in Fit /\ worker[w].pool # "free"
    /\ ~Busy(w) => worker[w].fit = None /\ worker[w].file = None

-----------------------------------------------------------------------------
(* What is true however hastily the operator resumes.                      *)
Running == phase \in {"planning", "executing", "publishing"}

\* A pool and its queue are of a main process that executes.
PoolIsOfARun == (Mine # {} \/ queue # {}) => phase = "executing"

\* The environment is the recorded one, as far as the version compares it, but
\* for a change under a run.
Recorded(e) == e \in Environment /\ (~edited => AsFrozen(e))

\* prepare and the runs are apart, and a run begins under what is recorded.
Prepared ==
  /\ phase = "preparing" => layout \notin {"absent", "own"}
  /\ phase = "preparing" /\ layout \in {"nameless captured", "v5 captured", "torn"} =>
       frozen \in Environment /\ Recorded(env)
  /\ layout = "own" => frozen \in Environment
  /\ Running \/ AtWork => layout = "own" /\ Recorded(env)

\* So does each of its processes.
Loaded ==
  \A w \in Worker : worker[w].pool # "free" => layout = "own" /\ Recorded(worker[w].env)

DirectoryInv == Typed /\ Occupied /\ PoolIsOfARun /\ Prepared /\ Loaded

-----------------------------------------------------------------------------
(* What a patient operator ensures.                                        *)
Due(f) == f \in queue \/ f \in leftover

\* While a run is under way only its own processes are at work.
NoOrphans ==
  Running => leftover = {} /\ \A w \in Worker : Busy(w) => worker[w].pool = "mine"

\* A fit is with one process, or waits for one, and has no checkpoint yet.
OneProcess ==
  /\ \A w \in Worker : Busy(w) =>
       /\ ~Due(worker[w].fit)
       /\ final[worker[w].fit] = None
  /\ \A w, x \in Worker : Busy(w) /\ Busy(x) /\ worker[w].fit = worker[x].fit => w = x
  /\ \A f \in Fit : Due(f) => final[f] = None

GoodCheckpoint(f, c) ==
  /\ c \in Checkpoint /\ c.sound = TRUE
  /\ c.outcome = IF f \in Unfittable THEN "error" ELSE "fit"
  /\ Recorded(c.env)

FilesWhole(f) == f \notin Unfittable => artifact[f] = "whole"

\* What a process has done so far, by where it is in run_fit.
Progress(w) ==
  LET now == worker[w] IN
  /\ now.file = IF now.step = "saving" THEN "pending" ELSE None
  /\ now.step = "fitting" => now.sound = TRUE
  /\ now.step = "writing" => now.fit \notin Unfittable /\ now.sound = TRUE
  /\ now.step = "written" =>
       now.fit \notin Unfittable /\ now.sound = TRUE /\ artifact[now.fit] = "whole"
  /\ now.step \in {"hashed", "saving", "saved"} => now.sound = TRUE /\ FilesWhole(now.fit)
  /\ now.step = "saved" => GoodCheckpoint(now.fit, pending[now.fit])

\* A checkpoint that is there is that of a whole fit.
CheckpointsGood ==
  \A f \in Fit : final[f] # None =>
    layout = "own" /\ GoodCheckpoint(f, final[f]) /\ FilesWhole(f)

ReportGood ==
  report # None \/ phase = "reporting" =>
    /\ \E b \in BOOLEAN : report = [rows |-> final, whole |-> b]
    /\ \A f \in Fit : Saved(final[f])

CampaignInv ==
  /\ DirectoryInv
  /\ NoOrphans /\ OneProcess
  /\ \A w \in Worker : Progress(w)
  /\ CheckpointsGood /\ ReportGood

-----------------------------------------------------------------------------
(* The directory.                                                          *)

\* What the absence of a file, of a fit or of a version is not.
LEMMA NoneIsNoFit == None \notin Fit
  BY CampaignAssumption

LEMMA NoneIsNoDocument ==
  /\ None \notin {6, 7}
  /\ {None, Torn} \intersect Checkpoint = {} /\ {None, Torn} \intersect Environment = {}
  BY CampaignAssumption

\* Only a directory of this version's own experiment.json is resumed: that of the
\* v5 bundle has another version, a torn or missing one has none.
LEMMA OwnIsResumed ==
  ASSUME version \in {6, 7}, ValidateResume PROVE layout = "own"
<1>1. layout \in {"v5", "v5 aside", "v5 captured"} => FormatVersion = 5
  BY Zenon DEF FormatVersion
<1>2. layout \notin {"v5", "v5 aside", "v5 captured", "own"} => FormatVersion = None
  BY DEF FormatVersion
<1>3. FormatVersion = version
  BY DEF ValidateResume
<1>4. version # 5 /\ version # None
  BY NoneIsNoDocument
<1>5. QED
  BY <1>1, <1>2, <1>3, <1>4

\* Before the first command there is no directory.
LEMMA DirectoryAtFirst == ASSUME Init PROVE DirectoryInv
<1>1. env \in Environment
  BY CampaignAssumption DEF Init
<1>2. \A w \in Worker :
        /\ worker[w] \in ProcessType /\ worker[w].pool = "free" /\ ~Busy(w)
        /\ worker[w].fit = None /\ worker[w].file = None
  BY DEF Init, Free, Process, ProcessType, AtStep, Busy
<1>3. Typed
  BY <1>1, <1>2 DEF Init, Typed, Layout, Phase, File
<1>4. Occupied /\ PoolIsOfARun /\ Prepared /\ Loaded
  BY <1>2 DEF Init, Occupied, PoolIsOfARun, Mine, Prepared, Running, AtWork, Loaded
<1>5. QED
  BY <1>3, <1>4 DEF DirectoryInv

\* A step of prepare keeps what the directory promises.
LEMMA PrepareKeepsDirectory ==
  ASSUME DirectoryInv, PrepareStep PROVE DirectoryInv'
<1> USE NoneIsNoFit DEF DirectoryInv, Typed, Occupied, PoolIsOfARun, Prepared, Loaded, Mine,
      Busy, AtWork, Running, Layout, Phase, campaign, main, files, Prepare
<1>1. CASE StartPrepare
  BY <1>1 DEF StartPrepare
<1>2. CASE Unpack
  BY <1>2 DEF Unpack
<1>3. CASE SetAside
  BY <1>3 DEF SetAside
<1>4. CASE CaptureSource
  BY <1>4, NoneIsNoDocument DEF CaptureSource, Recorded, AsFrozen
<1>5. CASE OpenDocument
  BY <1>5 DEF OpenDocument, Recorded, AsFrozen
<1>6. CASE WriteDocument
  BY <1>6 DEF WriteDocument, Recorded, AsFrozen
<1>7. QED
  BY <1>1, <1>2, <1>3, <1>4, <1>5, <1>6 DEF PrepareStep

\* So does whatever the main process and the operator do.
LEMMA MainKeepsDirectory ==
  ASSUME DirectoryInv,
         Discard \/ Resume \/ PlanTasks \/ Drain \/ Publish \/ PublishAgain
         \/ FinishReport \/ Crash \/ KillMain \/ EditSource \/ RestoreSource
  PROVE  DirectoryInv'
<1> USE NoneIsNoFit DEF DirectoryInv, Typed, Occupied, PoolIsOfARun, Prepared, Loaded, Mine,
      Busy, AtWork, Running, Layout, Phase, campaign, directory, main, files, Recorded, AsFrozen
<1>1. CASE Discard
  BY <1>1 DEF Discard
<1>2. CASE Resume
  BY <1>2, OwnIsResumed DEF Resume, ValidateResume
<1>3. CASE PlanTasks
  BY <1>3 DEF PlanTasks, TasksFor
<1>4. CASE Drain
  BY <1>4 DEF Drain, Free, Process, ProcessType, AtStep
<1>5. CASE Publish \/ PublishAgain \/ FinishReport
  BY <1>5 DEF Publish, PublishAgain, FinishReport, StartReport
<1>6. CASE Crash
  BY <1>6 DEF Crash, Free, Process, ProcessType, AtStep
<1>7. CASE KillMain
  <2>1. \A w \in Worker :
          /\ worker'[w] \in ProcessType
          /\ \/ worker'[w] = worker[w]
             \/ worker[w].pool = "mine" /\ worker'[w] = [worker[w] EXCEPT !.pool = "orphan"]
          /\ worker'[w].pool # "mine" /\ worker[w] \in ProcessType
    BY <1>7, ZenonT(30) DEF KillMain, ProcessType
  <2>2. \A w \in Worker :
          /\ worker'[w].fit = worker[w].fit /\ worker'[w].step = worker[w].step
          /\ worker'[w].file = worker[w].file /\ worker'[w].env = worker[w].env
          /\ worker'[w].pool # "free" => worker[w].pool # "free"
          /\ worker[w].pool # "free" => worker'[w].pool # "free"
    BY ONLY <2>1 DEF ProcessType
  <2>3. Typed'
    BY <1>7, <2>1 DEF KillMain
  <2>4. Occupied'
    BY <2>2
  <2>5. PoolIsOfARun'
    BY <1>7, <2>1 DEF KillMain
  <2>6. Prepared'
    <3>1. AtWork' => AtWork \/ Mine # {}
      BY <1>7, <2>2 DEF KillMain
    <3>2. QED
      BY <1>7, <3>1 DEF KillMain
  <2>7. Loaded'
    <3>1. UNCHANGED <<version, layout, frozen, edited>>
      BY <1>7 DEF KillMain
    <3>2. Loaded
      OBVIOUS
    <3>3. QED
      BY ONLY <2>2, <3>1, <3>2 DEF Loaded, Recorded, AsFrozen
  <2>8. QED
    BY <2>3, <2>4, <2>5, <2>6, <2>7
<1>8. CASE EditSource
  BY <1>8 DEF EditSource, Quiet
<1>9. CASE RestoreSource
  BY <1>9 DEF RestoreSource, Quiet
<1>10. QED
  BY <1>1, <1>2, <1>3, <1>4, <1>5, <1>6, <1>7, <1>8, <1>9

\* A step of one process from `worker[w]` to `now`.
LEMMA ProcessKeepsDirectory ==
  ASSUME DirectoryInv, NEW w \in Worker, NEW now \in ProcessType,
         worker' = [worker EXCEPT ![w] = now],
         UNCHANGED <<version, env, layout, frozen, edited, phase>>,
         queue' \in SUBSET queue, leftover' \in SUBSET leftover,
         artifact' \in [Fit -> {None, Torn, "whole"}],
         pending' \in [Fit -> File], final' \in [Fit -> File],
         now.step # "idle" => now.fit \in Fit /\ now.pool # "free" /\ (AtWork \/ Running),
         now.step = "idle" => now.fit = None /\ now.file = None,
         now.pool = "mine" => phase = "executing",
         now.pool # "free" => layout = "own" /\ Recorded(now.env)
  PROVE  DirectoryInv'
<1> USE DEF DirectoryInv
<1>1. Typed'
  BY DEF Typed
<1>2. \A x \in Worker : worker'[x] = IF x = w THEN now ELSE worker[x]
  BY DEF Typed
<1>3. Occupied'
  BY <1>2 DEF Occupied, Busy
<1>4. PoolIsOfARun'
  BY <1>2 DEF PoolIsOfARun, Mine
<1>5. Prepared'
  BY <1>2 DEF Prepared, Running, AtWork, Busy, Recorded, AsFrozen
<1>6. Loaded'
  BY <1>2 DEF Loaded, Recorded, AsFrozen
<1>7. QED
  BY <1>1, <1>3, <1>4, <1>5, <1>6

\* And whatever a process does.
LEMMA WorkKeepsDirectory ==
  ASSUME DirectoryInv, NEW w \in Worker, Work(w) \/ Raise(w)
  PROVE  DirectoryInv'
<1> DEFINE f == worker[w].fit
<1> USE DEF campaign, directory, main, files, At, Goto, Become
<1>1. /\ worker[w] \in ProcessType
      /\ Typed
      /\ worker[w].pool # "free" => layout = "own" /\ Recorded(worker[w].env)
      /\ Busy(w) => f \in Fit /\ worker[w].pool # "free" /\ AtWork
      /\ worker[w].pool = "mine" => phase = "executing"
  BY DEF DirectoryInv, Typed, Occupied, PoolIsOfARun, Loaded, Mine, AtWork
<1>2. ASSUME NEW g \in Fit, Take(w, g) PROVE DirectoryInv'
  <2>1. /\ UNCHANGED <<version, env, layout, frozen, edited, phase, artifact, pending, final>>
        /\ queue' \in SUBSET queue /\ leftover' \in SUBSET leftover
    BY <1>1, <1>2 DEF Take, Typed
  <2>2. ASSUME NEW pool \in {"mine", "orphan"}, NEW loaded, Recorded(loaded), layout = "own",
               worker' = [worker EXCEPT ![w] = Process(pool, loaded, g, "fitting")],
               pool = "mine" => phase = "executing", AtWork \/ Running
        PROVE  DirectoryInv'
    <3> DEFINE now == Process(pool, loaded, g, "fitting")
    <3>1. /\ now \in ProcessType /\ now.step = "fitting" /\ now.fit = g
          /\ now.pool = pool /\ now.env = loaded
      BY <2>2 DEF Process, ProcessType, AtStep, Recorded
    <3>2. worker' = [worker EXCEPT ![w] = now]
      BY <2>2
    <3> HIDE DEF now
    <3>3. QED
      BY <1>1, <2>1, <2>2, <3>1, <3>2, ProcessKeepsDirectory DEF Typed
  <2>3. CASE phase = "executing" /\ worker[w].pool = "mine"
             /\ worker' = [worker EXCEPT ![w] = Process("mine", worker[w].env, g, "fitting")]
    BY <1>1, <2>2, <2>3 DEF Running
  <2>4. CASE phase = "executing"
             /\ worker' = [worker EXCEPT ![w] = Process("mine", env, g, "fitting")]
    BY <2>2, <2>4 DEF Running, DirectoryInv, Prepared
  <2>5. CASE worker[w].pool = "orphan" /\ g \in leftover
             /\ worker' = [worker EXCEPT ![w] = Process("orphan", worker[w].env, g, "fitting")]
    BY <1>1, <2>2, <2>5 DEF AtWork
  <2>6. QED
    BY <1>2, <2>3, <2>4, <2>5 DEF Take
<1>3. ASSUME Busy(w), NEW now \in ProcessType, worker' = [worker EXCEPT ![w] = now],
             now.pool = worker[w].pool, now.env = worker[w].env, now.step # "idle",
             now.fit = f,
             UNCHANGED <<campaign, directory, main, env, leftover>>,
             artifact' \in [Fit -> {None, Torn, "whole"}],
             pending' \in [Fit -> File], final' \in [Fit -> File]
      PROVE  DirectoryInv'
  BY <1>1, <1>3, ProcessKeepsDirectory
<1>4. CASE Optimize(w)
  <2> DEFINE now(step) == [worker[w] EXCEPT !.step = step]
  <2>1. \A step \in AtStep : now(step) \in ProcessType /\ now(step).pool = worker[w].pool
          /\ now(step).step = step /\ now(step).fit = f /\ now(step).env = worker[w].env
    BY <1>1 DEF ProcessType
  <2>2. Busy(w) /\ "hashed" \in AtStep /\ "writing" \in AtStep
    BY <1>4 DEF Optimize, Busy, AtStep
  <2> HIDE DEF now
  <2>3. CASE f \in Unfittable
    <3>1. worker' = [worker EXCEPT ![w] = now("hashed")]
      BY <1>4, <2>3 DEF Optimize, now
    <3>2. QED
      BY <1>1, <1>3, <1>4, <2>1, <2>2, <2>3, <3>1 DEF Optimize, Typed
  <2>4. CASE f \notin Unfittable
    <3>1. worker' = [worker EXCEPT ![w] = now("writing")]
      BY <1>4, <2>4 DEF Optimize, now
    <3>2. artifact' \in [Fit -> {None, Torn, "whole"}]
      BY <1>1, <1>4, <2>2, <2>4 DEF Optimize, Typed
    <3>3. QED
      BY <1>1, <1>3, <1>4, <2>1, <2>2, <2>4, <3>1, <3>2 DEF Optimize, Typed
  <2>5. QED
    BY <2>3, <2>4
<1>5. CASE FinishArtifacts(w)
  <2> DEFINE now == [worker[w] EXCEPT !.step = "written"]
  <2>1. Busy(w) /\ now \in ProcessType /\ now.pool = worker[w].pool /\ now.fit = f
          /\ now.step # "idle" /\ now.env = worker[w].env
    BY <1>1, <1>5 DEF FinishArtifacts, ProcessType, AtStep, Busy
  <2>2. artifact' \in [Fit -> {None, Torn, "whole"}]
    BY <1>1, <1>5, <2>1 DEF FinishArtifacts, Typed
  <2>3. QED
    BY <1>1, <1>3, <1>5, <2>1, <2>2 DEF FinishArtifacts, Typed
<1>6. CASE HashArtifacts(w)
  <2> DEFINE whole == version = 6 \/ artifact[f] = "whole"
             now == [worker[w] EXCEPT !.step = "hashed", !.sound = whole]
  <2>1. Busy(w) /\ now \in ProcessType /\ now.pool = worker[w].pool /\ now.fit = f
          /\ now.step # "idle" /\ now.env = worker[w].env
    BY <1>1, <1>6 DEF HashArtifacts, ProcessType, AtStep, Busy
  <2>2. worker' = [worker EXCEPT ![w] = now]
    BY <1>6 DEF HashArtifacts
  <2> HIDE DEF now
  <2>3. QED
    BY <1>1, <1>3, <1>6, <2>1, <2>2 DEF HashArtifacts, Typed
<1>7. CASE OpenPending(w)
  <2> DEFINE now == [worker[w] EXCEPT !.step = "saving", !.file = "pending"]
  <2>1. Busy(w) /\ now \in ProcessType /\ now.pool = worker[w].pool /\ now.fit = f
          /\ now.step # "idle" /\ now.env = worker[w].env
    BY <1>1, <1>7 DEF OpenPending, ProcessType, AtStep, Busy
  <2>2. pending' \in [Fit -> File]
    BY <1>1, <1>7, <2>1 DEF OpenPending, Typed, File
  <2>3. worker' = [worker EXCEPT ![w] = now]
    BY <1>7 DEF OpenPending
  <2> HIDE DEF now
  <2>4. QED
    BY <1>1, <1>3, <1>7, <2>1, <2>2, <2>3 DEF OpenPending, Typed
<1>8. CASE ClosePending(w)
  <2> DEFINE now == [worker[w] EXCEPT !.step = "saved", !.file = None]
             content == IF Writing(f, worker[w].file) = {w} THEN CheckpointOf(w) ELSE Torn
  <2>1. Busy(w) /\ now \in ProcessType /\ now.pool = worker[w].pool /\ now.fit = f
          /\ now.step # "idle" /\ now.env = worker[w].env
    BY <1>1, <1>8 DEF ClosePending, ProcessType, AtStep, Busy
  <2>2. content \in File
    BY <1>1, <2>1 DEF CheckpointOf, Checkpoint, ProcessType, Typed, File, Recorded
  <2>3. /\ worker' = [worker EXCEPT ![w] = now]
        /\ pending' \in {pending, [pending EXCEPT ![f] = content]}
        /\ final' \in {final, [final EXCEPT ![f] = content]}
        /\ UNCHANGED <<campaign, directory, main, env, leftover, artifact>>
    BY <1>8 DEF ClosePending
  <2> HIDE DEF now, content
  <2>4. pending' \in [Fit -> File] /\ final' \in [Fit -> File]
    BY <1>1, <2>1, <2>2, <2>3 DEF Typed
  <2>5. QED
    BY <1>1, <1>3, <2>1, <2>3, <2>4 DEF Typed
<1>9. CASE Replace(w)
  <2>1. Busy(w)
    BY <1>9 DEF Replace, Busy
  <2>2. \A x \in Worker :
          /\ worker'[x] \in ProcessType /\ worker'[x].pool = worker[x].pool
          /\ worker'[x].env = worker[x].env
          /\ x # w => worker'[x].fit = worker[x].fit /\ worker'[x].step = worker[x].step
          /\ worker[x].file = None => worker'[x].file = None
          /\ x = w => worker'[x].fit = None /\ worker'[x].step = "idle"
                      /\ worker'[x].file = None
    BY <1>1, <1>9 DEF Replace, Typed, ProcessType, Spare, Process, AtStep
  <2>3. Typed'
    BY <1>1, <1>9, <2>1, <2>2 DEF Replace, Typed, File
  <2>4. Occupied'
    BY <2>2 DEF DirectoryInv, Occupied, Busy
  <2>5. UNCHANGED <<version, env, layout, frozen, edited, phase, queue, leftover>>
    BY <1>9 DEF Replace
  <2>6. PoolIsOfARun'
    BY <2>2, <2>5 DEF DirectoryInv, PoolIsOfARun, Mine
  <2>7. Prepared'
    BY <2>1, <2>2, <2>5 DEF DirectoryInv, Prepared, Running, AtWork, Busy, Recorded, AsFrozen
  <2>8. Loaded'
    <3>1. Loaded
      BY DEF DirectoryInv
    <3>2. QED
      BY ONLY <2>2, <2>5, <3>1 DEF Loaded, Recorded, AsFrozen
  <2>9. QED
    BY <2>3, <2>4, <2>6, <2>7, <2>8 DEF DirectoryInv
<1>10. CASE Raise(w)
  <2> DEFINE now == Spare(w)
  <2>1. now \in ProcessType /\ now.pool = worker[w].pool /\ now.fit = None
          /\ now.step = "idle" /\ now.file = None /\ now.env = worker[w].env
    BY <1>1 DEF Spare, Process, ProcessType, AtStep
  <2>2. /\ worker' = [worker EXCEPT ![w] = now]
        /\ UNCHANGED <<version, env, directory, phase, queue, leftover, files>>
    BY <1>10 DEF Raise
  <2> HIDE DEF now
  <2>3. QED
    BY <1>1, <2>1, <2>2, ProcessKeepsDirectory DEF Typed
<1>11. QED
  BY <1>2, <1>4, <1>5, <1>6, <1>7, <1>8, <1>9, <1>10 DEF Work

\* The directory is always as prepare and the runs left it, however the operator
\* resumes.
THEOREM DirectoryInvariant == CampaignSpec => []DirectoryInv
<1>1. Init => DirectoryInv
  BY DirectoryAtFirst
<1>2. DirectoryInv /\ [Next]_vars => DirectoryInv'
  <2> SUFFICES ASSUME DirectoryInv, [Next]_vars PROVE DirectoryInv'
    OBVIOUS
  <2>1. CASE UNCHANGED vars
    BY <2>1 DEF vars, DirectoryInv, Typed, Occupied, PoolIsOfARun, Prepared, Loaded, Mine,
       Busy, AtWork, Running, Recorded, AsFrozen
  <2>2. QED
    BY <2>1, PrepareKeepsDirectory, MainKeepsDirectory, WorkKeepsDirectory DEF Next
<1>3. QED
  BY <1>1, <1>2, PTL DEF CampaignSpec

\* No run computes in a directory whose preparation was interrupted, nor, unless
\* the environment is changed under it, in another one than the directory has a
\* record of - also when the operator resumes beside the processes of a dead run.
THEOREM PreparedRunsOnly == CampaignSpec => []OnlyPreparedRuns
<1>1. DirectoryInv => OnlyPreparedRuns
  BY DEF DirectoryInv, Prepared, Loaded, Occupied, Recorded, Running, OnlyPreparedRuns
<1>2. QED
  BY <1>1, DirectoryInvariant, PTL

-----------------------------------------------------------------------------
(* The checkpoints, under a patient operator.                              *)

\* A step that moves no process and touches no file of a fit.
LEMMA StillGood ==
  ASSUME CampaignInv, DirectoryInv', UNCHANGED <<version, queue, leftover, worker, files>>,
         layout = "own" => UNCHANGED <<layout, frozen>> /\ (edited => edited'),
         Running' => Running \/ ~AtWork,
         ReportGood'
  PROVE  CampaignInv'
<1> USE DEF CampaignInv, files
<1>1. NoOrphans'
  BY DEF NoOrphans, Running, AtWork, Busy
<1>2. OneProcess'
  BY DEF OneProcess, Due, Busy
<1>3. CheckpointsGood'
  BY DEF CheckpointsGood, GoodCheckpoint, FilesWhole, Recorded, AsFrozen
<1>4. ReportGood'
  OBVIOUS
<1>5. ASSUME NEW w \in Worker PROVE Progress(w)'
  <2>1. CASE Busy(w)
    <3>1. frozen' = frozen /\ (edited => edited')
      BY <2>1 DEF DirectoryInv, Prepared, AtWork
    <3>2. QED
      BY <3>1 DEF Progress, FilesWhole, GoodCheckpoint, Recorded, AsFrozen
  <2>2. CASE ~Busy(w)
    BY <2>2 DEF Progress, FilesWhole, Busy
  <2>3. QED
    BY <2>1, <2>2
<1>6. QED
  BY <1>1, <1>2, <1>3, <1>4, <1>5

\* The plan takes up what has no checkpoint; no process of an earlier run is
\* left to write one.
LEMMA PlanKeepsCampaign ==
  ASSUME CampaignInv, DirectoryInv', PlanTasks PROVE CampaignInv'
<1> USE DEF CampaignInv, PlanTasks, campaign, directory, files, Recorded, AsFrozen
<1>1. leftover = {} /\ \A w \in Worker : ~Busy(w)
  BY DEF NoOrphans, Running, DirectoryInv, PoolIsOfARun, Mine
<1>2. NoOrphans'
  BY <1>1 DEF NoOrphans, Busy
<1>3. OneProcess'
  BY <1>1 DEF OneProcess, Due, Busy, TasksFor
<1>4. CheckpointsGood' /\ ReportGood'
  BY DEF CheckpointsGood, GoodCheckpoint, FilesWhole, ReportGood, Saved
<1>5. \A w \in Worker : Progress(w)'
  BY DEF Progress, FilesWhole, GoodCheckpoint
<1>6. QED
  BY <1>2, <1>3, <1>4, <1>5

\* The pool of a run ends, with or without its processes.
LEMMA EndKeepsCampaign ==
  ASSUME CampaignInv, DirectoryInv', Drain \/ Crash PROVE CampaignInv'
<1> USE DEF CampaignInv, campaign, directory, files, Recorded, AsFrozen
<1>1. \A w \in Worker : worker'[w] = worker[w] \/ worker'[w] = Free
  BY DEF Drain, Crash
<1>2. /\ UNCHANGED <<version, layout, frozen, edited, artifact, pending, final, report>>
      /\ queue' \in SUBSET queue /\ leftover' \in SUBSET leftover
      /\ (Running' => Running) /\ phase' # "reporting"
  BY DEF Drain, Crash, Running, DirectoryInv, PoolIsOfARun
<1>3. Free.step = "idle" /\ Free.file = None
  BY DEF Free, Process
<1>4. NoOrphans'
  BY <1>1, <1>2, <1>3 DEF NoOrphans, Busy
<1>5. OneProcess'
  BY <1>1, <1>2, <1>3 DEF OneProcess, Due, Busy
<1>6. CheckpointsGood' /\ ReportGood'
  BY <1>2 DEF CheckpointsGood, GoodCheckpoint, FilesWhole, ReportGood, Saved
<1>7. ASSUME NEW w \in Worker PROVE Progress(w)'
  BY <1>1, <1>2, <1>3 DEF Progress, FilesWhole, GoodCheckpoint
<1>8. QED
  BY <1>4, <1>5, <1>6, <1>7

\* A pool whose main process is killed goes on, with the queue it had.
LEMMA KillKeepsCampaign ==
  ASSUME CampaignInv, DirectoryInv', KillMain PROVE CampaignInv'
<1> USE DEF CampaignInv, campaign, directory, files, Recorded, AsFrozen
<1>1. \A w \in Worker :
        worker'[w] = worker[w] \/ worker'[w] = [worker[w] EXCEPT !.pool = "orphan"]
  BY DEF KillMain
<1>2. \A w \in Worker :
        /\ worker'[w].fit = worker[w].fit /\ worker'[w].step = worker[w].step
        /\ worker'[w].sound = worker[w].sound /\ worker'[w].file = worker[w].file
  BY <1>1 DEF DirectoryInv, Typed, ProcessType
<1>3. /\ UNCHANGED <<version, layout, frozen, edited, artifact, pending, final, report>>
      /\ ~Running' /\ phase' # "reporting"
      /\ \A f \in Fit : Due(f)' => Due(f)
  BY DEF KillMain, Running, Due
<1>4. NoOrphans'
  BY <1>3 DEF NoOrphans
<1>5. OneProcess'
  BY <1>2, <1>3 DEF OneProcess, Busy, DirectoryInv, Occupied
<1>6. CheckpointsGood' /\ ReportGood'
  BY <1>3 DEF CheckpointsGood, GoodCheckpoint, FilesWhole, ReportGood, Saved
<1>7. ASSUME NEW w \in Worker PROVE Progress(w)'
  BY <1>2, <1>3 DEF Progress, FilesWhole, GoodCheckpoint
<1>8. QED
  BY <1>4, <1>5, <1>6, <1>7

\* A process takes a fit that no other has and that has no checkpoint.
LEMMA TakeKeepsCampaign ==
  ASSUME CampaignInv, DirectoryInv', NEW w \in Worker, NEW f \in Fit, Take(w, f)
  PROVE  CampaignInv'
<1> USE DEF CampaignInv, campaign, directory, files, Recorded, AsFrozen
<1>1. /\ UNCHANGED <<version, layout, frozen, edited, phase, artifact, pending, final, report>>
      /\ ~Busy(w) /\ Due(f)
      /\ \A g \in Fit : Due(g)' => Due(g)
  BY DEF Take, Due, main
<1>2. \A x \in Worker : x # w => worker'[x] = worker[x]
  BY DEF Take, Become, DirectoryInv, Typed
<1>3. /\ worker'[w].fit = f /\ worker'[w].step = "fitting"
      /\ worker'[w].file = None /\ worker'[w].sound = TRUE
  <2>1. worker \in [Worker -> ProcessType]
    BY DEF DirectoryInv, Typed
  <2>2. \E pool, loaded :
          worker' = [worker EXCEPT ![w] = Process(pool, loaded, f, "fitting")]
    BY ONLY Take(w, f) DEF Take, Become
  <2>3. QED
    BY ONLY <2>1, <2>2, w \in Worker DEF Process
<1>4. ~Due(f)'
  <2>1. CASE phase = "executing" /\ f \in queue /\ queue' = queue \ {f} /\ UNCHANGED leftover
    BY <2>1 DEF Due, NoOrphans, Running
  <2>2. CASE worker[w].pool = "orphan" /\ f \in leftover /\ leftover' = leftover \ {f}
             /\ UNCHANGED queue
    <3>1. phase # "executing"
      BY <2>2 DEF NoOrphans, Running
    <3>2. QED
      BY <2>2, <3>1 DEF Due, DirectoryInv, PoolIsOfARun
  <2>3. QED
    BY <2>1, <2>2 DEF Take
<1>5. NoOrphans'
  <2>1. CASE phase = "executing" /\ worker'[w].pool = "mine" /\ UNCHANGED leftover
    BY <1>1, <1>2, <2>1 DEF NoOrphans, Running, Busy
  <2>2. CASE f \in leftover
    BY <1>1, <2>2 DEF NoOrphans, Running
  <2>3. QED
    BY <2>1, <2>2 DEF Take, Become, DirectoryInv, Typed, Process
<1>6. OneProcess'
  <2>1. \A x \in Worker : Busy(x) => worker[x].fit # f
    BY <1>1 DEF OneProcess
  <2>2. \A x \in Worker : Busy(x)' /\ x # w =>
          Busy(x) /\ worker'[x].fit = worker[x].fit /\ worker[x].fit \in Fit
    BY <1>2 DEF Busy, DirectoryInv, Occupied
  <2>3. final'[f] = None
    BY <1>1 DEF OneProcess
  <2>4. \A x \in Worker : Busy(x)' => ~Due(worker[x].fit)' /\ final'[worker'[x].fit] = None
    <3>1. \A x \in Worker : Busy(x)' /\ x # w =>
            ~Due(worker[x].fit)' /\ final'[worker'[x].fit] = None
      BY <1>1, <2>2 DEF OneProcess, Due
    <3>2. ~Due(worker[w].fit)' /\ final'[worker'[w].fit] = None
      BY <1>3, <1>4, <2>3 DEF Due
    <3>3. QED
      BY <3>1, <3>2
  <2>5. \A x, y \in Worker :
          Busy(x)' /\ Busy(y)' /\ worker'[x].fit = worker'[y].fit => x = y
    BY <1>3, <2>1, <2>2 DEF OneProcess
  <2>6. \A g \in Fit : Due(g)' => final'[g] = None
    BY <1>1 DEF OneProcess
  <2>7. QED
    BY <2>4, <2>5, <2>6 DEF OneProcess
<1>7. CheckpointsGood' /\ ReportGood'
  BY <1>1 DEF CheckpointsGood, GoodCheckpoint, FilesWhole, ReportGood, Saved
<1>8. ASSUME NEW x \in Worker PROVE Progress(x)'
  BY <1>1, <1>2, <1>3 DEF Progress, FilesWhole, GoodCheckpoint
<1>9. QED
  BY <1>5, <1>6, <1>7, <1>8

\* A step of run_fit before the rename writes files of its own fit only, and no
\* checkpoint: one that is there belongs to a fit that no process has.
LEMMA FitStepKeepsCampaign ==
  ASSUME CampaignInv, DirectoryInv', NEW w \in Worker, NEW now \in ProcessType,
         worker' = [worker EXCEPT ![w] = now],
         Busy(w), now.step # "idle", now.fit = worker[w].fit, now.pool = worker[w].pool,
         UNCHANGED <<version, layout, frozen, edited, phase, queue, leftover, final, report>>,
         \A g \in Fit : g # worker[w].fit =>
           artifact'[g] = artifact[g] /\ pending'[g] = pending[g],
         Progress(w)'
  PROVE  CampaignInv'
<1> USE DEF CampaignInv, Recorded, AsFrozen
<1>1. \A x \in Worker : x # w => worker'[x] = worker[x]
  BY DEF DirectoryInv, Typed
<1>2. worker'[w] = now /\ worker[w].fit \in Fit
  BY DEF DirectoryInv, Typed, Occupied
<1>3. NoOrphans'
  BY <1>1, <1>2 DEF NoOrphans, Running, Busy
<1>4. OneProcess'
  BY <1>1, <1>2 DEF OneProcess, Due, Busy
<1>5. CheckpointsGood'
  <2>1. final[worker[w].fit] = None
    BY DEF OneProcess
  <2>2. QED
    BY <2>1 DEF CheckpointsGood, GoodCheckpoint, FilesWhole
<1>6. ReportGood'
  BY DEF ReportGood, Saved
<1>7. ASSUME NEW x \in Worker, x # w PROVE Progress(x)'
  <2>1. CASE Busy(x)
    <3>1. worker[x].fit \in Fit /\ worker[x].fit # worker[w].fit
      BY <1>7, <2>1 DEF OneProcess, DirectoryInv, Occupied
    <3>2. QED
      BY <1>1, <1>7, <3>1 DEF Progress, FilesWhole, GoodCheckpoint
  <2>2. CASE ~Busy(x)
    BY <1>1, <1>7, <2>2 DEF Progress, Busy
  <2>3. QED
    BY <2>1, <2>2
<1>8. QED
  BY <1>3, <1>4, <1>5, <1>6, <1>7

\* The files and the pending checkpoint are those of one process: whole, and of
\* the environment it loaded.
LEMMA RunFitKeepsCampaign ==
  ASSUME CampaignInv, DirectoryInv', NEW w \in Worker,
         \/ Optimize(w) \/ FinishArtifacts(w) \/ HashArtifacts(w)
         \/ OpenPending(w) \/ ClosePending(w)
  PROVE  CampaignInv'
<1> DEFINE f == worker[w].fit
<1> USE DEF campaign, directory, main, files, At, Goto, Become
<1>1. /\ worker[w] \in ProcessType /\ Busy(w) /\ f \in Fit
      /\ Progress(w) /\ Recorded(worker[w].env) /\ Typed
      /\ \A x \in Worker : x # w /\ Busy(x) => worker[x].fit # f
      /\ \A x \in Worker : ~Busy(x) => worker[x].fit # f
  <2>1. Busy(w)
    BY DEF Busy, Optimize, FinishArtifacts, HashArtifacts, OpenPending, ClosePending
  <2>2. worker[w] \in ProcessType /\ f \in Fit /\ Progress(w) /\ Typed
    BY <2>1 DEF CampaignInv, DirectoryInv, Typed, Occupied
  <2>3. Recorded(worker[w].env)
    BY <2>1 DEF CampaignInv, DirectoryInv, Occupied, Loaded
  <2>4. /\ \A x \in Worker : x # w /\ Busy(x) => worker[x].fit # f
        /\ \A x \in Worker : ~Busy(x) => worker[x].fit # f
    BY NoneIsNoFit, <2>1, <2>2 DEF CampaignInv, OneProcess, DirectoryInv, Occupied
  <2>5. QED
    BY <2>1, <2>2, <2>3, <2>4
<1>2. ASSUME NEW now \in ProcessType, worker' = [worker EXCEPT ![w] = now],
             now.step # "idle", now.fit = f, now.pool = worker[w].pool,
             UNCHANGED <<version, layout, frozen, edited, phase, queue, leftover, final, report>>,
             artifact' = artifact \/ \E c : artifact' = [artifact EXCEPT ![f] = c],
             pending' = pending \/ \E c : pending' = [pending EXCEPT ![f] = c],
             Progress(w)'
      PROVE  CampaignInv'
  <2>1. \A g \in Fit : g # f => artifact'[g] = artifact[g] /\ pending'[g] = pending[g]
    BY <1>1, <1>2 DEF Typed
  <2>2. QED
    BY <1>1, <1>2, <2>1, FitStepKeepsCampaign
<1>3. CASE Optimize(w)
  <2> DEFINE now(step) == [worker[w] EXCEPT !.step = step]
  <2>1. \A step \in {"hashed", "writing"} :
          /\ now(step) \in ProcessType /\ now(step).step = step
          /\ now(step).pool = worker[w].pool /\ now(step).fit = f
          /\ now(step).sound = worker[w].sound /\ now(step).file = worker[w].file
    BY <1>1 DEF ProcessType, AtStep
  <2>2. worker[w].sound = TRUE /\ worker[w].file = None
    BY <1>1, <1>3 DEF Progress, Optimize
  <2> HIDE DEF now
  <2>3. CASE f \in Unfittable
    <3>1. worker' = [worker EXCEPT ![w] = now("hashed")] /\ artifact' = artifact
      BY <1>3, <2>3 DEF Optimize, now
    <3>2. worker'[w] = now("hashed")
      BY <1>1, <3>1 DEF Typed
    <3>3. Progress(w)'
      BY <2>1, <2>2, <2>3, <3>2 DEF Progress, FilesWhole
    <3>4. QED
      BY <1>2, <1>3, <2>1, <3>1, <3>3 DEF Optimize
  <2>4. CASE f \notin Unfittable
    <3>1. /\ worker' = [worker EXCEPT ![w] = now("writing")]
          /\ artifact' = [artifact EXCEPT ![f] = Torn]
      BY <1>3, <2>4 DEF Optimize, now
    <3>2. worker'[w] = now("writing")
      BY <1>1, <3>1 DEF Typed
    <3>3. Progress(w)'
      BY <2>1, <2>2, <2>4, <3>2 DEF Progress
    <3>4. QED
      BY <1>2, <1>3, <2>1, <3>1, <3>3 DEF Optimize
  <2>5. QED
    BY <2>3, <2>4
<1>4. CASE FinishArtifacts(w)
  <2> DEFINE now == [worker[w] EXCEPT !.step = "written"]
  <2>1. /\ now \in ProcessType /\ now.pool = worker[w].pool /\ now.fit = f
        /\ now.step = "written" /\ now.sound = worker[w].sound /\ now.file = worker[w].file
    BY <1>1 DEF ProcessType, AtStep
  <2>2. worker[w].sound = TRUE /\ worker[w].file = None /\ f \notin Unfittable
    BY <1>1, <1>4 DEF Progress, FinishArtifacts
  <2>3. {x \in Worker \ {w} : worker[x].fit = f /\ At(x, "writing")} = {}
    BY <1>1 DEF Busy
  <2>4. /\ worker' = [worker EXCEPT ![w] = now]
        /\ artifact' = [artifact EXCEPT ![f] = "whole"]
    BY <1>4, <2>3 DEF FinishArtifacts
  <2> HIDE DEF now
  <2>5. worker'[w] = now /\ artifact'[f] = "whole"
    BY <1>1, <2>4 DEF Typed
  <2>6. Progress(w)'
    BY <2>1, <2>2, <2>5 DEF Progress
  <2>7. QED
    BY <1>2, <1>4, <2>1, <2>4, <2>6 DEF FinishArtifacts
<1>5. CASE HashArtifacts(w)
  <2> DEFINE now == [worker[w] EXCEPT !.step = "hashed", !.sound = TRUE]
  <2>1. /\ now \in ProcessType /\ now.pool = worker[w].pool /\ now.fit = f
        /\ now.step = "hashed" /\ now.sound = TRUE /\ now.file = worker[w].file
    BY <1>1 DEF ProcessType, AtStep
  <2>2. worker[w].file = None /\ artifact[f] = "whole"
    BY <1>1, <1>5 DEF Progress, HashArtifacts
  <2>3. worker' = [worker EXCEPT ![w] = now]
    BY <1>5, <2>2 DEF HashArtifacts
  <2> HIDE DEF now
  <2>4. worker'[w] = now
    BY <1>1, <2>3 DEF Typed
  <2>5. Progress(w)'
    BY <1>5, <2>1, <2>2, <2>4 DEF Progress, FilesWhole, HashArtifacts
  <2>6. QED
    BY <1>2, <1>5, <2>1, <2>3, <2>5 DEF HashArtifacts
<1>6. CASE OpenPending(w)
  <2> DEFINE now == [worker[w] EXCEPT !.step = "saving", !.file = "pending"]
  <2>1. /\ now \in ProcessType /\ now.pool = worker[w].pool /\ now.fit = f
        /\ now.step = "saving" /\ now.sound = worker[w].sound /\ now.file = "pending"
    BY <1>1 DEF ProcessType, AtStep
  <2>2. worker[w].sound = TRUE /\ FilesWhole(f)
    BY <1>1, <1>6 DEF Progress, OpenPending
  <2>3. worker' = [worker EXCEPT ![w] = now]
    BY <1>6 DEF OpenPending
  <2> HIDE DEF now
  <2>4. worker'[w] = now
    BY <1>1, <2>3 DEF Typed
  <2>5. Progress(w)'
    BY <1>6, <2>1, <2>2, <2>4 DEF Progress, FilesWhole, OpenPending
  <2>6. QED
    BY <1>2, <1>6, <2>1, <2>3, <2>5 DEF OpenPending
<1>7. CASE ClosePending(w)
  <2> DEFINE now == [worker[w] EXCEPT !.step = "saved", !.file = None]
  <2>1. /\ now \in ProcessType /\ now.pool = worker[w].pool /\ now.fit = f
        /\ now.step = "saved" /\ now.sound = worker[w].sound /\ now.file = None
    BY <1>1 DEF ProcessType, AtStep
  <2>2. worker[w].sound = TRUE /\ worker[w].file = "pending" /\ FilesWhole(f)
    BY <1>1, <1>7 DEF Progress, ClosePending
  <2>3. Writing(f, "pending") = {w}
    BY <1>1, <2>2 DEF Writing
  <2>4. GoodCheckpoint(f, CheckpointOf(w))
    BY <1>1, <2>2 DEF CheckpointOf, GoodCheckpoint, Checkpoint, Recorded
  <2>5. /\ worker' = [worker EXCEPT ![w] = now]
        /\ pending' = [pending EXCEPT ![f] = CheckpointOf(w)]
    BY <1>7, <2>2, <2>3 DEF ClosePending
  <2>6. UNCHANGED <<version, layout, frozen, edited, phase, queue, leftover, final, report, artifact>>
    <3>1. "pending" # "final"
      OBVIOUS
    <3>2. QED
      BY <1>7, <2>2, <3>1 DEF ClosePending
  <2> HIDE DEF now
  <2>7. worker'[w] = now /\ GoodCheckpoint(f, pending'[f])
    BY <1>1, <2>4, <2>5 DEF Typed
  <2>8. Progress(w)'
    BY <2>1, <2>2, <2>6, <2>7 DEF Progress, FilesWhole, GoodCheckpoint, Recorded, AsFrozen
  <2>9. QED
    BY <1>2, <2>1, <2>5, <2>6, <2>8
<1>8. QED
  BY <1>3, <1>4, <1>5, <1>6, <1>7

\* Renaming a finished checkpoint makes it the fit's, for good.
LEMMA ReplaceKeepsCampaign ==
  ASSUME CampaignInv, DirectoryInv', NEW w \in Worker, Replace(w) PROVE CampaignInv'
<1> DEFINE f == worker[w].fit
<1>1. Busy(w) /\ f \in Fit /\ layout = "own" /\ final[f] = None
  BY DEF Replace, At, Busy, CampaignInv, DirectoryInv, Occupied, Prepared, AtWork, OneProcess
<1>2. GoodCheckpoint(f, pending[f]) /\ FilesWhole(f)
  BY DEF Replace, At, CampaignInv, Progress
<1>3. UNCHANGED <<version, layout, frozen, edited, phase, queue, leftover, artifact, report>>
  BY DEF Replace, campaign, directory, main
<1>4. \A x \in Worker : x # w /\ Busy(x) => worker[x].fit # f
  BY <1>1 DEF CampaignInv, OneProcess
<1>5. \A x \in Worker : x # w => worker'[x] = worker[x]
  BY <1>1, <1>4, NoneIsNoFit DEF Replace, CampaignInv, DirectoryInv, Occupied
<1>6. worker'[w].step = "idle" /\ worker'[w].file = None
  BY <1>1 DEF Replace, Spare, Process
<1>7. /\ GoodCheckpoint(f, final'[f])
      /\ \A g \in Fit : g # f => final'[g] = final[g] /\ pending'[g] = pending[g]
  BY <1>1, <1>2 DEF Replace, CampaignInv, DirectoryInv, Typed
<1>8. NoOrphans'
  BY <1>3, <1>5, <1>6 DEF CampaignInv, NoOrphans, Running, Busy
<1>9. OneProcess'
  <2>1. \A x \in Worker : Busy(x)' => x # w /\ Busy(x) /\ worker'[x] = worker[x]
    BY <1>5, <1>6 DEF Busy
  <2>2. \A x \in Worker : Busy(x) => worker[x].fit \in Fit
    BY DEF CampaignInv, DirectoryInv, Occupied
  <2>3. ~Due(f)
    BY <1>1 DEF CampaignInv, OneProcess
  <2>4. \A g \in Fit : Due(g)' => Due(g)
    BY <1>3 DEF Due
  <2>5. \A x \in Worker : Busy(x)' => ~Due(worker[x].fit)' /\ final'[worker'[x].fit] = None
    BY <1>3, <1>4, <1>7, <2>1, <2>2 DEF CampaignInv, OneProcess, Due
  <2>6. \A x, y \in Worker :
          Busy(x)' /\ Busy(y)' /\ worker'[x].fit = worker'[y].fit => x = y
    BY <2>1 DEF CampaignInv, OneProcess
  <2>7. \A g \in Fit : Due(g)' => final'[g] = None
    BY <1>7, <2>3, <2>4 DEF CampaignInv, OneProcess
  <2>8. QED
    BY <2>5, <2>6, <2>7 DEF OneProcess
<1>10. CheckpointsGood'
  BY <1>1, <1>2, <1>3, <1>7 DEF CampaignInv, CheckpointsGood, GoodCheckpoint, FilesWhole,
     Recorded, AsFrozen
<1>11. ReportGood'
  <2>1. CASE report = None /\ phase # "reporting"
    BY <1>3, <2>1 DEF ReportGood
  <2>2. CASE report # None \/ phase = "reporting"
    BY <1>1, <2>2 DEF CampaignInv, ReportGood, Saved
  <2>3. QED
    BY <2>1, <2>2
<1>12. ASSUME NEW x \in Worker PROVE Progress(x)'
  <2>1. CASE Busy(x) /\ x # w
    <3>1. worker[x].fit \in Fit /\ worker[x].fit # f
      BY <1>4, <2>1 DEF CampaignInv, DirectoryInv, Occupied
    <3>2. QED
      BY <1>3, <1>5, <1>7, <2>1, <3>1 DEF CampaignInv, Progress, FilesWhole, GoodCheckpoint,
         Recorded, AsFrozen
  <2>2. CASE ~Busy(x) /\ x # w
    BY <1>5, <2>2 DEF CampaignInv, Progress, Busy
  <2>3. CASE x = w
    BY <1>6, <2>3 DEF Progress
  <2>4. QED
    BY <2>1, <2>2, <2>3
<1>13. QED
  BY <1>8, <1>9, <1>10, <1>11, <1>12 DEF CampaignInv

\* A fit that raises leaves its files to the next run.
LEMMA RaiseKeepsCampaign ==
  ASSUME CampaignInv, DirectoryInv', NEW w \in Worker, Raise(w) PROVE CampaignInv'
<1> USE DEF CampaignInv, Recorded, AsFrozen
<1>1. UNCHANGED <<version, layout, frozen, edited, phase, queue, leftover, artifact, pending,
                  final, report>>
  BY DEF Raise, campaign, directory, files
<1>2. /\ \A x \in Worker : x # w => worker'[x] = worker[x]
      /\ worker'[w].step = "idle" /\ worker'[w].file = None
  BY DEF Raise, Become, Spare, Process, DirectoryInv, Typed
<1>3. NoOrphans'
  BY <1>1, <1>2 DEF NoOrphans, Running, Busy
<1>4. OneProcess'
  BY <1>1, <1>2 DEF OneProcess, Due, Busy
<1>5. CheckpointsGood' /\ ReportGood'
  BY <1>1 DEF CheckpointsGood, GoodCheckpoint, FilesWhole, ReportGood, Saved
<1>6. ASSUME NEW x \in Worker PROVE Progress(x)'
  BY <1>1, <1>2 DEF Progress, FilesWhole, GoodCheckpoint
<1>7. QED
  BY <1>3, <1>4, <1>5, <1>6

-----------------------------------------------------------------------------
(* Main results.                                                           *)

\* The steps that move no process: a patient operator resumes when no process
\* is left.
LEMMA OthersKeepCampaign ==
  ASSUME Patient, CampaignInv, DirectoryInv',
         \/ PrepareStep \/ Discard \/ Resume \/ Publish \/ PublishAgain \/ FinishReport
         \/ EditSource \/ RestoreSource
  PROVE  CampaignInv'
<1> USE DEF campaign, directory, main, files
<1>1. CASE PrepareStep
  <2>1. /\ layout # "own" /\ phase \in {"idle", "preparing"} /\ phase' # "reporting"
        /\ UNCHANGED <<version, queue, leftover, worker, files, report>>
    BY <1>1 DEF PrepareStep, Prepare, StartPrepare, Unpack, SetAside, CaptureSource,
       OpenDocument, WriteDocument, CampaignInv, DirectoryInv, Prepared
  <2>2. ~AtWork
    BY <2>1 DEF CampaignInv, DirectoryInv, Prepared
  <2>3. ReportGood'
    BY <2>1 DEF CampaignInv, ReportGood, Saved
  <2>4. QED
    BY <2>1, <2>2, <2>3, StillGood
<1>2. CASE Discard
  BY <1>2, StillGood DEF Discard, Running, CampaignInv, ReportGood, Saved
<1>3. CASE Resume
  BY <1>3, StillGood DEF Resume, CampaignInv, ReportGood, Saved
<1>4. CASE Publish \/ PublishAgain \/ FinishReport
  <2>1. ReportGood'
    <3>1. CASE StartReport /\ Publishable /\ UNCHANGED files
      BY <3>1 DEF StartReport, Publishable, RowsAreReadable, ReportGood, Saved
    <3>2. CASE phase' = "idle" /\ UNCHANGED <<report, files>>
      BY <3>2 DEF CampaignInv, ReportGood, Saved
    <3>3. CASE FinishReport
      <4>1. /\ phase = "reporting" /\ UNCHANGED files
            /\ report' = [report EXCEPT !.whole = TRUE]
        BY <3>3 DEF FinishReport
      <4>2. PICK b \in BOOLEAN : report = [rows |-> final, whole |-> b]
        BY <4>1 DEF CampaignInv, ReportGood
      <4>3. report' = [rows |-> final', whole |-> TRUE]
        BY <4>1, <4>2
      <4>4. QED
        BY <4>1, <4>3 DEF CampaignInv, ReportGood, Saved
    <3>4. QED
      BY <1>4, <3>1, <3>2, <3>3 DEF Publish, PublishAgain
  <2>2. /\ UNCHANGED <<version, queue, leftover, worker, files, layout, frozen, edited>>
        /\ Running' => Running
    BY <1>4 DEF Publish, PublishAgain, FinishReport, StartReport, Running
  <2>3. QED
    BY <2>1, <2>2, StillGood
<1>5. CASE EditSource \/ RestoreSource
  <2>1. UNCHANGED <<version, layout, frozen, phase, queue, leftover, worker, files, report>>
    BY <1>5 DEF EditSource, RestoreSource
  <2>2. edited => edited'
    BY <1>5 DEF EditSource, RestoreSource
  <2>3. ReportGood' /\ (Running' => Running)
    BY <2>1 DEF CampaignInv, ReportGood, Saved, Running
  <2>4. QED
    BY <2>1, <2>2, <2>3, StillGood
<1>6. QED
  BY <1>1, <1>2, <1>3, <1>4, <1>5

LEMMA CampaignInvStep ==
  ASSUME Patient, CampaignInv, DirectoryInv', [Next]_vars PROVE CampaignInv'
<1>1. CASE UNCHANGED vars
  BY <1>1, StillGood DEF vars, files, Running, CampaignInv, ReportGood, Saved
<1>2. CASE Next
  <2>1. ASSUME NEW w \in Worker, Work(w) \/ Raise(w) PROVE CampaignInv'
    BY <2>1, TakeKeepsCampaign, RunFitKeepsCampaign, ReplaceKeepsCampaign,
       RaiseKeepsCampaign DEF Work
  <2>2. QED
    BY <1>2, <2>1, OthersKeepCampaign, PlanKeepsCampaign, EndKeepsCampaign,
       KillKeepsCampaign DEF Next
<1>3. QED
  BY <1>1, <1>2

\* The campaign's inductive invariant, for an operator who resumes when no
\* process is left at work.
THEOREM CampaignInvariant == ASSUME Patient PROVE CampaignSpec => []CampaignInv
<1>1. Init => CampaignInv
  <2> SUFFICES ASSUME Init PROVE CampaignInv
    OBVIOUS
  <2>1. DirectoryInv
    BY DirectoryAtFirst
  <2>2. NoOrphans /\ OneProcess /\ CheckpointsGood /\ ReportGood
    BY DEF Init, NoOrphans, OneProcess, CheckpointsGood, ReportGood, Running, Busy, Due, Free, Process
  <2>3. \A w \in Worker : Progress(w)
    BY DEF Init, Progress, Free, Process
  <2>4. QED
    BY <2>1, <2>2, <2>3 DEF CampaignInv
<1>2. CampaignInv /\ DirectoryInv' /\ [Next]_vars => CampaignInv'
  BY CampaignInvStep
<1>3. QED
  BY <1>1, <1>2, DirectoryInvariant, PTL DEF CampaignSpec

\* What a campaign publishes was prepared once and computed whole, for any
\* number of fits, processes, crashes, failed writes and resumptions.
THEOREM CampaignsArePublishedWhole ==
  ASSUME Patient PROVE CampaignSpec => []PreparedAndWhole
<1>1. CampaignInv => PreparedAndWhole
  <2> SUFFICES ASSUME CampaignInv PROVE PreparedAndWhole
    OBVIOUS
  <2>1. OnlyPreparedRuns
    BY DEF CampaignInv, DirectoryInv, Prepared, Loaded, Occupied, Recorded, Running,
       OnlyPreparedRuns
  <2>2. ASSUME report # None, NEW f \in Fit
        PROVE  /\ report.rows[f] = final[f] /\ Saved(final[f])
               /\ GoodCheckpoint(f, final[f]) /\ FilesWhole(f)
    BY <2>2 DEF CampaignInv, ReportGood, CheckpointsGood, Saved
  <2>3. ReportCoversPlan
    <3> SUFFICES ASSUME report # None, NEW f \in Fit
                 PROVE  LET row == report.rows[f] IN
                        /\ row = final[f] /\ Saved(row)
                        /\ ~edited => AsFrozen(row.env)
                        /\ row.outcome = IF f \in Unfittable THEN "error" ELSE "fit"
                        /\ f \notin Unfittable => artifact[f] = "whole"
      BY DEF ReportCoversPlan
    <3>1. QED
      BY <2>2 DEF FilesWhole, GoodCheckpoint, Recorded
  <2>4. QED
    BY <2>1, <2>3 DEF PreparedAndWhole
<1>2. QED
  BY <1>1, CampaignInvariant, PTL

\* No step touches a checkpoint that is there, nor the files it speaks of.
LEMMA CheckpointsStay ==
  ASSUME CampaignInv, [Next]_vars, NEW f \in Fit, Saved(final[f])
  PROVE  final'[f] = final[f] /\ artifact'[f] = artifact[f]
<1>1. \A w \in Worker : Busy(w) =>
        /\ worker[w].fit # f /\ worker[w].fit \in Fit
        /\ worker[w].step = "saving" => worker[w].file = "pending"
  <2>1. final[f] # None
    BY DEF Saved
  <2>2. QED
    BY <2>1 DEF CampaignInv, OneProcess, DirectoryInv, Occupied, Progress
<1>2. CASE final' = final /\ artifact' = artifact
  BY <1>2
<1>3. ASSUME NEW w \in Worker, Work(w) \/ Raise(w)
      PROVE  final'[f] = final[f] /\ artifact'[f] = artifact[f]
  BY <1>1, <1>3 DEF Work, Raise, Take, Optimize, FinishArtifacts, HashArtifacts, OpenPending,
     ClosePending, Replace, At, Busy, files, CampaignInv, DirectoryInv, Typed
<1>4. CASE ~\E w \in Worker : Work(w) \/ Raise(w)
  <2>1. final' = final /\ artifact' = artifact
    BY <1>4 DEF Next, PrepareStep, StartPrepare, Unpack, SetAside, CaptureSource, OpenDocument,
       WriteDocument, Discard, Resume, PlanTasks, Drain, Publish, PublishAgain, FinishReport, Crash,
       KillMain, EditSource, RestoreSource, files, vars
  <2>2. QED
    BY <2>1
<1>5. QED
  BY <1>3, <1>4

\* Interruption costs only the fits it interrupted.
THEOREM CheckpointsAreFinal == ASSUME Patient PROVE CampaignSpec => CheckpointsKept
<1> DEFINE Kept == \A f \in Fit : Saved(final[f]) =>
                     final'[f] = final[f] /\ artifact'[f] = artifact[f]
<1>1. CampaignInv /\ [Next]_vars => [Kept]_vars
  BY CheckpointsStay
<1>2. QED
  BY <1>1, CampaignInvariant, PTL DEF CampaignSpec, CheckpointsKept

-----------------------------------------------------------------------------
(***************************************************************************)
(* The study of prefixes.                                                  *)
(***************************************************************************)

USE DEF Policy

(* ids are all the passes of S, each once, in the order of time.            *)
InTime(ids, S) ==
  /\ ids \in Seq(S) /\ Len(ids) = Cardinality(S) /\ Len(ids) \in Nat
  /\ \A i \in 1 .. Len(ids) : ids[i] \in S
  /\ \A c \in S : \E i \in 1 .. Len(ids) : ids[i] = c
  /\ \A i, j \in 1 .. Len(ids) : i <= j <=> Before(ids[i], ids[j])
  /\ \A i, j \in 1 .. Len(ids) : ids[i] = ids[j] => i = j

(* The passes of any inventory in the order of time.                        *)
LEMMA ChronologicalInTime ==
  ASSUME stop \in [Contact -> Instant], NEW S \in SUBSET Contact
  PROVE  /\ InTime(Chronological(S), S)
         /\ \A i \in 1 .. Cardinality(S) :
              Cardinality({d \in S : Before(d, Chronological(S)[i])}) = i
<1> DEFINE R == {p \in S \X S : Before(p[1], p[2])}
           ids == Ordered(S, R)
           n == Cardinality(S)
<1>1. IsFiniteSet(S) /\ S \in SUBSET Nat
  BY PrefixStudyAssumption, FS_Subset
<1>2. \A c, d \in S : <<c, d>> \in R <=> Before(c, d)
  OBVIOUS
<1>3. \A c \in S : c \in Nat /\ stop[c] \in Nat
  BY PrefixStudyAssumption
<1>4. /\ \A c, d \in S : Before(c, d) \/ Before(d, c)
      /\ \A c, d \in S : Before(c, d) /\ Before(d, c) => c = d
      /\ \A c, d, e \in S : Before(c, d) /\ Before(d, e) => Before(c, e)
  BY <1>3 DEF Before
<1> HIDE DEF R
<1>5. Orders(R, S)
  BY <1>2, <1>4 DEF Orders
<1>6. /\ n \in Nat /\ ids \in [1 .. n -> S]
      /\ \A c \in S : \E i \in 1 .. n : ids[i] = c
      /\ \A i, j \in 1 .. n : i <= j <=> <<ids[i], ids[j]>> \in R
      /\ \A i, j \in 1 .. n : ids[i] = ids[j] => i = j
  BY <1>1, <1>5, OrderedIsOrdered
<1>7. \A i \in 1 .. n : Cardinality(UpTo(ids[i], S, R)) = i
  BY <1>1, <1>5, PlaceInOrdered
<1>8. \A i \in 1 .. n : UpTo(ids[i], S, R) = {d \in S : Before(d, ids[i])}
  BY <1>2, <1>6 DEF UpTo
<1>9. Chronological(S) = ids
  BY DEF Chronological, R
<1> HIDE DEF ids
<1>10. ids \in Seq(S) /\ Len(ids) = n
  BY <1>6
<1>11. InTime(ids, S)
  BY <1>2, <1>6, <1>10 DEF InTime
<1> QED
  BY <1>7, <1>8, <1>9, <1>11

-----------------------------------------------------------------------------
(* The inductive invariant: the study follows its plan, on inventories that *)
(* stay as they were read, and its summary is of all of its fits.           *)
InputType ==
  /\ stop \in [Contact -> Instant]
  /\ observed \in SUBSET Contact /\ observed # {}

Planned ==
  /\ DOMAIN results \subseteq PlanFits
  /\ \A s \in DOMAIN results : results[s] \in Outcomes(s)
  /\ stage # "fit" => DOMAIN results = PlanFits

Summarized ==
  stage = "done" =>
    /\ \A t \in Checkpoints : FoldsComplete(t)
    /\ prefixes = {PrefixSummary(t) : t \in Checkpoints}
    /\ events = [th \in Threshold |-> FirstAttainment(prefixes, th)]
    /\ others \in [Others -> Instant \union {Nothing}]

StudyInv == InputType /\ Planned /\ Summarized

(* The plan and what a fit may come to depend on the inputs alone.          *)
LEMMA PlanIsFixed ==
  ASSUME UNCHANGED inputs
  PROVE  /\ PlanFits' = PlanFits
         /\ \A s : Outcomes(s)' = Outcomes(s)
<1>1. \A c, d : Before(c, d)' = Before(c, d)
  BY DEF inputs, Before
<1>2. EligibleContacts' = EligibleContacts
  BY DEF inputs, EligibleContacts, FirstPass
<1>3. Chronological(EligibleContacts)' = Chronological(EligibleContacts)
  BY <1>2 DEF Chronological, Before, inputs
<1>4. PlanFits' = PlanFits
  BY <1>3 DEF PlanFits
<1>5. \A s : Outcomes(s)' = Outcomes(s)
  BY DEF Outcomes, Causal, Fitted, Representative, CheckpointTime, LastObservation, inputs
<1> QED
  BY <1>4, <1>5

(* A study begins without results.                                          *)
LEMMA StudyBegins == StudyInit => StudyInv
<1> SUFFICES ASSUME StudyInit PROVE StudyInv
  OBVIOUS
<1>1. InputType
  BY DEF StudyInit, InputType
<1>2. DOMAIN results = {} /\ stage = "fit"
  BY DEF StudyInit
<1> QED
  BY <1>1, <1>2 DEF StudyInv, Planned, Summarized

(* A fit adds an outcome of its own.                                        *)
LEMMA FitKeepsPlan == StudyInv /\ FitOne => StudyInv'
<1> SUFFICES ASSUME StudyInv, FitOne PROVE StudyInv'
  OBVIOUS
<1>1. UNCHANGED inputs /\ stage = "fit"
  BY DEF FitOne
<1>2. InputType'
  BY <1>1 DEF StudyInv, InputType, inputs
<1>3. PlanFits' = PlanFits /\ \A s : Outcomes(s)' = Outcomes(s)
  BY <1>1, PlanIsFixed
<1>4. stage' \in {"fit", "summarize"}
  BY <1>1 DEF FitOne
<1>5. Summarized'
  BY <1>4 DEF Summarized
<1>6. CASE PlanFits \ DOMAIN results = {}
  <2>1. UNCHANGED results
    BY <1>6 DEF FitOne
  <2> QED
    BY <1>2, <1>3, <1>5, <1>6, <2>1 DEF StudyInv, Planned
<1>7. CASE PlanFits \ DOMAIN results # {}
  <2> DEFINE spec == CHOOSE s \in PlanFits \ DOMAIN results : TRUE
  <2>1. spec \in PlanFits
    BY <1>7
  <2>2. stage' = "fit"
    BY <1>1, <1>7 DEF FitOne
  <2>3. PICK r \in Outcomes(spec) :
          results' = [s \in DOMAIN results \union {spec} |-> IF s = spec THEN r ELSE results[s]]
    BY <1>7 DEF FitOne
  <2> HIDE DEF spec
  <2>4. DOMAIN results' \subseteq PlanFits
    BY <2>1, <2>3 DEF StudyInv, Planned
  <2>5. \A s \in DOMAIN results' : results'[s] \in Outcomes(s)
    BY <2>3 DEF StudyInv, Planned
  <2> QED
    BY <1>2, <1>3, <1>5, <2>2, <2>4, <2>5 DEF StudyInv, Planned
<1> QED
  BY <1>6, <1>7

(* A summary depends on the passes and their fits alone.                    *)
LEMMA SummaryOfInputs ==
  ASSUME stop' = stop, observed' = observed, results' = results
  PROVE  /\ Checkpoints' = Checkpoints
         /\ \A t : FoldsComplete(t)' = FoldsComplete(t) /\ PrefixSummary(t)' = PrefixSummary(t)
<1>1. /\ Checkpoints' = Checkpoints
      /\ FirstPass' = FirstPass
      /\ \A t : Folds(t)' = Folds(t) /\ FullFit(t)' = FullFit(t)
  BY DEF Checkpoints, CheckpointTime, FirstPass, Folds, FullFit, Group
<1>2. \A t : FoldsComplete(t)' = FoldsComplete(t)
  BY <1>1 DEF FoldsComplete
<1>3. \A t : QualificationMedian(Folds(t))' = QualificationMedian(Folds(t))
  BY <1>1 DEF QualificationMedian
<1> QED
  BY <1>1, <1>2, <1>3 DEF PrefixSummary

(* The summary is of the fits as they are.                                  *)
LEMMA SummaryKeepsPlan == StudyInv /\ Summarize => StudyInv'
<1> SUFFICES ASSUME StudyInv, Summarize PROVE StudyInv'
  OBVIOUS
<1>1. UNCHANGED inputs /\ UNCHANGED results /\ stage = "summarize" /\ stage' \in {"done", "raised"}
  BY DEF Summarize
<1>2. InputType'
  BY <1>1 DEF StudyInv, InputType, inputs
<1>3. PlanFits' = PlanFits /\ \A s : Outcomes(s)' = Outcomes(s)
  BY <1>1, PlanIsFixed
<1>4. Planned'
  BY <1>1, <1>3 DEF StudyInv, Planned
<1>5. stop' = stop /\ observed' = observed /\ results' = results
  BY <1>1 DEF inputs
<1>6. /\ Checkpoints' = Checkpoints
      /\ \A t : FoldsComplete(t)' = FoldsComplete(t) /\ PrefixSummary(t)' = PrefixSummary(t)
  BY <1>5, SummaryOfInputs
<1>10. Summarized'
  <2> SUFFICES ASSUME stage' = "done"
               PROVE  /\ (\A t \in Checkpoints : FoldsComplete(t))'
                      /\ prefixes' = {PrefixSummary(t) : t \in Checkpoints}'
                      /\ events' = [th \in Threshold |-> FirstAttainment(prefixes, th)]'
                      /\ others' \in [Others -> Instant \union {Nothing}]
    BY DEF Summarized
  <2>1. /\ \A t \in Checkpoints : FoldsComplete(t)
        /\ prefixes' = {PrefixSummary(t) : t \in Checkpoints}
        /\ events' = [th \in Threshold |-> FirstAttainment(prefixes', th)]
        /\ others' \in [Others -> Instant \union {Nothing}]
    BY DEF Summarize
  <2>2. (\A t \in Checkpoints : FoldsComplete(t))'
    BY <1>6, <2>1
  <2>3. {PrefixSummary(t) : t \in Checkpoints}' = {PrefixSummary(t) : t \in Checkpoints}
    BY <1>6
  <2>4. [th \in Threshold |-> FirstAttainment(prefixes, th)]'
          = [th \in Threshold |-> FirstAttainment(prefixes', th)]
    BY DEF FirstAttainment
  <2> QED
    BY <2>1, <2>2, <2>3, <2>4
<1> QED
  BY <1>2, <1>4, <1>10 DEF StudyInv

(* What is not touched stays.                                               *)
LEMMA StudyStutters == StudyInv /\ UNCHANGED studyVars => StudyInv'
<1> SUFFICES ASSUME StudyInv, UNCHANGED studyVars PROVE StudyInv'
  OBVIOUS
<1>1. UNCHANGED inputs /\ stop' = stop /\ observed' = observed /\ results' = results
      /\ stage' = stage /\ prefixes' = prefixes /\ events' = events /\ others' = others
  BY DEF studyVars, inputs
<1>2. PlanFits' = PlanFits /\ \A s : Outcomes(s)' = Outcomes(s)
  BY <1>1, PlanIsFixed
<1>3. InputType' /\ Planned'
  BY <1>1, <1>2 DEF StudyInv, InputType, Planned
<1>4. /\ Checkpoints' = Checkpoints
      /\ \A t : FoldsComplete(t)' = FoldsComplete(t) /\ PrefixSummary(t)' = PrefixSummary(t)
  BY <1>1, SummaryOfInputs
<1>5. {PrefixSummary(t) : t \in Checkpoints}' = {PrefixSummary(t) : t \in Checkpoints}
  BY <1>4
<1>6. \A th : FirstAttainment(prefixes, th)' = FirstAttainment(prefixes, th)
  BY <1>1 DEF FirstAttainment
<1>7. Summarized'
  BY <1>1, <1>4, <1>5, <1>6 DEF StudyInv, Summarized
<1> QED
  BY <1>3, <1>7 DEF StudyInv

(* A study follows its plan to the end (FitOne, Summarize).                 *)
THEOREM StudyFollowsItsPlan == StudySpec => []StudyInv
<1>1. StudyInv /\ [StudyNext]_studyVars => StudyInv'
  BY FitKeepsPlan, SummaryKeepsPlan, StudyStutters DEF StudyNext
<1> QED
  BY <1>1, StudyBegins, PTL DEF StudySpec

-----------------------------------------------------------------------------
(* No fit knows its future, and every validation is what it is called.      *)

(* A fit of the plan: of the first n passes, all of them or all but one.    *)
IsPlanned(s, ids, n) ==
  /\ n \in 1 .. Len(ids)
  /\ s = [prefix |-> SubSeq(ids, 1, n), held |-> s.held]
  /\ Len(s.prefix) = n /\ \A i \in 1 .. n : s.prefix[i] = ids[i]
  /\ ToSet(s.prefix) = {ids[i] : i \in 1 .. n}
  /\ s.held = Nothing \/ (n > 1 /\ \E k \in 1 .. n : s.held = ids[k])

(* The first n of a sequence.                                               *)
LEMMA FirstOfSequence ==
  ASSUME NEW S, NEW ids \in Seq(S), NEW n \in 1 .. Len(ids)
  PROVE  /\ SubSeq(ids, 1, n) \in Seq(S) /\ Len(SubSeq(ids, 1, n)) = n
         /\ \A i \in 1 .. n : SubSeq(ids, 1, n)[i] = ids[i]
         /\ ToSet(SubSeq(ids, 1, n)) = {ids[i] : i \in 1 .. n}
<1>1. Len(ids) \in Nat /\ n \in Nat
  OBVIOUS
<1>2. /\ SubSeq(ids, 1, n) \in Seq(S) /\ Len(SubSeq(ids, 1, n)) = n
      /\ \A i \in 1 .. n : SubSeq(ids, 1, n)[i] = ids[i]
  BY <1>1
<1>3. DOMAIN SubSeq(ids, 1, n) = 1 .. n
  BY <1>2
<1>4. ToSet(SubSeq(ids, 1, n)) = {SubSeq(ids, 1, n)[i] : i \in 1 .. n}
  BY <1>3 DEF ToSet
<1> QED
  BY <1>2, <1>4

(* The passes that count, in the order of time.                             *)
LEMMA EligibleInTime ==
  ASSUME InputType
  PROVE  /\ EligibleContacts \in SUBSET Contact
         /\ InTime(Chronological(EligibleContacts), EligibleContacts)
  BY ChronologicalInTime DEF InputType, EligibleContacts

(* The plan is what it says: prefixes of those, and omissions from them.    *)
LEMMA PlanIsPlan ==
  ASSUME InputType
  PROVE  /\ \A s \in PlanFits :
              \E n \in 1 .. Len(Chronological(EligibleContacts)) :
                IsPlanned(s, Chronological(EligibleContacts), n)
         /\ \A n \in 1 .. Len(Chronological(EligibleContacts)) :
            \A h \in {Nothing} \union (IF n > 1 THEN {Chronological(EligibleContacts)[i] : i \in 1 .. n} ELSE {}) :
              [prefix |-> SubSeq(Chronological(EligibleContacts), 1, n), held |-> h] \in PlanFits
<1> DEFINE ids == Chronological(EligibleContacts)
           Of(n) == {[prefix |-> SubSeq(ids, 1, n), held |-> h] :
                       h \in {Nothing} \union (IF n > 1 THEN ToSet(SubSeq(ids, 1, n)) ELSE {})}
<1>1. PlanFits = UNION {Of(n) : n \in 1 .. Len(ids)}
  BY DEF PlanFits
<1>2. ids \in Seq(EligibleContacts)
  BY EligibleInTime DEF InTime
<1>3. ASSUME NEW s \in PlanFits
      PROVE  \E n \in 1 .. Len(ids) : IsPlanned(s, ids, n)
  <2>1. PICK n \in 1 .. Len(ids) : s \in Of(n)
    BY <1>1
  <2>2. PICK h \in {Nothing} \union (IF n > 1 THEN ToSet(SubSeq(ids, 1, n)) ELSE {}) :
          s = [prefix |-> SubSeq(ids, 1, n), held |-> h]
    BY <2>1
  <2>3. s.prefix = SubSeq(ids, 1, n) /\ s.held = h
    BY <2>2
  <2> HIDE DEF ids, Of
  <2>4. /\ Len(s.prefix) = n /\ \A i \in 1 .. n : s.prefix[i] = ids[i]
        /\ ToSet(s.prefix) = {ids[i] : i \in 1 .. n}
    BY <1>2, <2>3, FirstOfSequence
  <2>5. s.held = Nothing \/ (n > 1 /\ \E k \in 1 .. n : s.held = ids[k])
    <3>1. s.held = Nothing \/ (n > 1 /\ s.held \in ToSet(s.prefix))
      BY <2>2, <2>3
    <3> QED
      BY <2>4, <3>1
  <2>6. IsPlanned(s, ids, n)
    BY <2>2, <2>3, <2>4, <2>5 DEF IsPlanned
  <2> QED
    BY <2>6
<1>4. ASSUME NEW n \in 1 .. Len(ids),
             NEW h \in {Nothing} \union (IF n > 1 THEN {ids[i] : i \in 1 .. n} ELSE {})
      PROVE  [prefix |-> SubSeq(ids, 1, n), held |-> h] \in PlanFits
  <2>1. ToSet(SubSeq(ids, 1, n)) = {ids[i] : i \in 1 .. n}
    <3> HIDE DEF ids
    <3> QED
      BY <1>2, FirstOfSequence
  <2>2. [prefix |-> SubSeq(ids, 1, n), held |-> h] \in Of(n)
    BY <2>1
  <2> HIDE DEF Of, ids
  <2> QED
    BY <1>1, <2>2
<1> QED
  BY <1>3, <1>4

(* What the parts of a planned fit are.                                     *)
LEMMA PlannedParts ==
  ASSUME NEW s, NEW S \in SUBSET Contact, NEW ids, InTime(ids, S), NEW n \in Nat, IsPlanned(s, ids, n)
  PROVE  /\ n \in Nat \ {0} /\ Last(s.prefix) = ids[n] /\ Head(s.prefix) = ids[1]
         /\ CheckpointTime(s) = stop[ids[n]]
         /\ \A c : c \in Training(s) <=> c # s.held /\ \E i \in 1 .. n : c = ids[i]
<1>1. n \in Nat /\ n >= 1 /\ Len(s.prefix) = n /\ \A i \in 1 .. n : s.prefix[i] = ids[i]
  BY DEF IsPlanned, InTime
<1>2. Last(s.prefix) = ids[n]
  BY <1>1 DEF Last
<1>3. s.prefix \in Seq(S)
  <2>1. ids \in Seq(S) /\ n \in 1 .. Len(ids) /\ s.prefix = SubSeq(ids, 1, n)
    BY DEF IsPlanned, InTime
  <2> QED
    BY <2>1, FirstOfSequence
<1>4. Head(s.prefix) = ids[1]
  <2>1. Head(s.prefix) = s.prefix[1]
    BY <1>1, <1>3
  <2> QED
    BY <1>1, <2>1
<1>5. \A c : c \in Training(s) <=> c # s.held /\ \E i \in 1 .. n : c = ids[i]
  BY DEF Training, IsPlanned
<1> QED
  BY <1>1, <1>2, <1>4, <1>5 DEF CheckpointTime

(* A fit that succeeded was allowed to.                                     *)
LEMMA TrainedBeforeIsTrue == StudyInv => TrainedBefore
<1> SUFFICES ASSUME StudyInv, NEW s \in DOMAIN results, results[s].success
             PROVE  /\ available <= CheckpointTime(s)
                    /\ \A c \in Training(s) : LastObservation(c) <= CheckpointTime(s)
                    /\ s.held \notin Training(s)
  BY DEF TrainedBefore
<1>1. results[s] \in Outcomes(s)
  BY DEF StudyInv, Planned
<1>2. Causal(s)
  BY <1>1 DEF Outcomes, Failed
<1> QED
  BY <1>2 DEF Causal, Training

(* The latest pass of a prefix is held out by a prediction, the first by a  *)
(* reconstruction.                                                          *)
LEMMA KindsAreTrueIsTrue == StudyInv => KindsAreTrue
<1> DEFINE ids == Chronological(EligibleContacts)
           S == EligibleContacts
           Earlier(s) == \E c \in Training(s) : Before(c, s.held)
           Later(s) == \E c \in Training(s) : Before(s.held, c)
<1> SUFFICES ASSUME StudyInv, NEW s \in DOMAIN results, s.held # Nothing
             PROVE  ValidationKind(s) = CASE Earlier(s) /\ ~Later(s) -> "forward prediction"
                                          [] Later(s) /\ ~Earlier(s) -> "reconstruction"
                                          [] Earlier(s) /\ Later(s) -> "interpolation"
  BY DEF KindsAreTrue
<1>1. InputType /\ s \in PlanFits
  BY DEF StudyInv, Planned
<1>2. S \in SUBSET Contact /\ InTime(ids, S)
  BY <1>1, EligibleInTime
<1>3. PICK n \in 1 .. Len(ids) : IsPlanned(s, ids, n)
  BY <1>1, PlanIsPlan
<1> HIDE DEF ids, S
<1>4. /\ n \in Nat \ {0} /\ Last(s.prefix) = ids[n] /\ Head(s.prefix) = ids[1]
      /\ \A c : c \in Training(s) <=> c # s.held /\ \E i \in 1 .. n : c = ids[i]
  <2>1. n \in Nat
    BY <1>2 DEF InTime
  <2> QED
    BY <1>2, <1>3, <2>1, PlannedParts
<1>5. n > 1 /\ \E k \in 1 .. n : s.held = ids[k]
  BY <1>3 DEF IsPlanned
<1>6. PICK k \in 1 .. n : s.held = ids[k]
  BY <1>5
<1>7. \A i, j \in 1 .. n : /\ i <= j <=> Before(ids[i], ids[j])
                           /\ ids[i] = ids[j] => i = j
  <2>1. \A i \in 1 .. n : i \in 1 .. Len(ids)
    BY <1>2, <1>3, <1>4 DEF InTime
  <2> QED
    BY <1>2, <2>1 DEF InTime
<1>8. \A c : c \in Training(s) <=> \E i \in 1 .. n : i # k /\ c = ids[i]
  BY <1>4, <1>6, <1>7
<1>9. Earlier(s) <=> k > 1
  <2>1. Earlier(s) <=> \E i \in 1 .. n : i # k /\ Before(ids[i], ids[k])
    BY <1>6, <1>8
  <2>2. Earlier(s) <=> \E i \in 1 .. n : i # k /\ i <= k
    BY <1>7, <2>1
  <2>3. k > 1 => 1 \in 1 .. n /\ 1 # k /\ 1 <= k
    BY <1>4
  <2> HIDE DEF Earlier
  <2> QED
    BY <1>4, <2>2, <2>3
<1>10. Later(s) <=> k < n
  <2>1. Later(s) <=> \E i \in 1 .. n : i # k /\ Before(ids[k], ids[i])
    BY <1>6, <1>8
  <2>2. Later(s) <=> \E i \in 1 .. n : i # k /\ k <= i
    BY <1>7, <2>1
  <2>3. k < n => n \in 1 .. n /\ n # k /\ k <= n
    BY <1>4
  <2> HIDE DEF Later
  <2> QED
    BY <1>4, <2>2, <2>3
<1>11. /\ s.held = Last(s.prefix) <=> k = n
       /\ s.held = Head(s.prefix) <=> k = 1
  <2>1. 1 \in 1 .. n /\ n \in 1 .. n
    BY <1>4
  <2> QED
    BY <1>4, <1>6, <1>7, <2>1
<1> HIDE DEF Earlier, Later
<1>12. CASE k = n
  <2>1. s.held = Last(s.prefix) /\ Earlier(s) /\ ~Later(s)
    BY <1>5, <1>9, <1>10, <1>11, <1>12
  <2> QED
    BY <2>1 DEF ValidationKind
<1>13. CASE k # n /\ k = 1
  <2>1. s.held # Last(s.prefix) /\ s.held = Head(s.prefix) /\ ~Earlier(s) /\ Later(s)
    BY <1>4, <1>9, <1>10, <1>11, <1>13
  <2> QED
    BY <2>1 DEF ValidationKind
<1>14. CASE k # n /\ k # 1
  <2>1. s.held # Last(s.prefix) /\ s.held # Head(s.prefix) /\ Earlier(s) /\ Later(s)
    BY <1>4, <1>9, <1>10, <1>11, <1>14
  <2> QED
    BY <2>1 DEF ValidationKind
<1> QED
  BY <1>12, <1>13, <1>14

-----------------------------------------------------------------------------
(* The plan of version 5.                                                   *)

\* The first of the passes of a fit after the m-th.
FirstOf(m, strategy) ==
  CASE strategy = "single" -> m
    [] strategy = "rolling" -> m - Rolling + 1
    [] strategy = "cumulative" -> 1

(* A stretch of a sequence.                                                 *)
LEMMA StretchOfSequence ==
  ASSUME NEW S, NEW ids \in Seq(S), NEW m \in 1 .. Len(ids), NEW a \in 1 .. m
  PROVE  /\ Len(SubSeq(ids, a, m)) = m - a + 1
         /\ Last(SubSeq(ids, a, m)) = ids[m]
         /\ \A c : c \in ToSet(SubSeq(ids, a, m)) <=> \E i \in a .. m : c = ids[i]
<1>1. Len(ids) \in Nat /\ m \in Nat /\ a \in Nat
  OBVIOUS
<1> DEFINE q == SubSeq(ids, a, m)
           n == m - a + 1
<1>2. /\ q \in Seq(S) /\ Len(q) = n /\ n \in Nat \ {0}
      /\ \A i \in 1 .. n : q[i] = ids[a + i - 1]
  BY <1>1
<1> HIDE DEF q
<1>3. Last(q) = ids[m]
  <2>1. n \in 1 .. n /\ a + n - 1 = m
    BY <1>1, <1>2
  <2>2. q[n] = ids[m]
    BY <1>2, <2>1
  <2> QED
    BY <1>2, <2>2 DEF Last
<1>4. ToSet(q) = {q[i] : i \in 1 .. n}
  <2>1. DOMAIN q = 1 .. n
    BY <1>2
  <2> QED
    BY <2>1 DEF ToSet
<1>5. ASSUME NEW c PROVE c \in ToSet(q) <=> \E i \in a .. m : c = ids[i]
  <2>1. ASSUME c \in ToSet(q) PROVE \E i \in a .. m : c = ids[i]
    <3>1. PICK j \in 1 .. n : c = q[j]
      BY <1>4, <2>1
    <3>2. a + j - 1 \in a .. m /\ c = ids[a + j - 1]
      BY <1>1, <1>2, <3>1
    <3> QED
      BY <3>2
  <2>2. ASSUME NEW i \in a .. m, c = ids[i] PROVE c \in ToSet(q)
    <3>1. PICK j \in 1 .. n : a + j - 1 = i
      <4>1. i - a + 1 \in 1 .. n /\ a + (i - a + 1) - 1 = i
        BY <1>1
      <4> QED
        BY <4>1
    <3>2. q[j] = c
      BY <1>2, <2>2, <3>1
    <3> QED
      BY <1>4, <3>2
  <2> QED
    BY <2>1, <2>2
<1> QED
  BY <1>2, <1>3, <1>5 DEF q

(* The passes of a fit end with the one it follows.                         *)
LEMMA PassesOfForecast ==
  ASSUME NEW S, NEW ids \in Seq(S), NEW strategy \in {"single", "rolling", "cumulative"},
         NEW m \in Shortest(strategy) .. Len(ids)
  PROVE  /\ m \in 1 .. Len(ids) /\ FirstOf(m, strategy) \in 1 .. m
         /\ Last(PassesUpTo(m, ids, strategy)) = ids[m]
         /\ \A c : c \in ToSet(PassesUpTo(m, ids, strategy))
                     <=> \E i \in FirstOf(m, strategy) .. m : c = ids[i]
<1>1. Rolling \in Nat \ {0} /\ Len(ids) \in Nat
  BY PrefixStudyAssumption
<1>2. m \in 1 .. Len(ids) /\ FirstOf(m, strategy) \in 1 .. m
  BY <1>1 DEF Shortest, FirstOf
<1>3. PassesUpTo(m, ids, strategy) = SubSeq(ids, FirstOf(m, strategy), m)
  BY DEF PassesUpTo, FirstOf
<1> QED
  BY <1>2, <1>3, StretchOfSequence

(* The families, each with a strategy.                                      *)
LEMMA FamilyStrategy ==
  ASSUME NEW f \in Family
  PROVE  f[2] \in {"single", "rolling", "cumulative"}
  BY DEF Family

(* Each family has one fit after each pass that has enough before it, of    *)
(* the passes up to it.                                                     *)
LEMMA ForecastsFollowTimeIsTrue == StudyInv => ForecastsFollowTime
<1> DEFINE ids == Chronological(observed)
           plan == PlanForecasts(observed, observed)
           SoFar(c) == {d \in observed : Before(d, c)}
           Recent(d, c) == Cardinality({e \in SoFar(c) : Before(d, e)}) <= Rolling
           Of(f, c) == {s \in plan : s.family = f /\ Last(s.passes) = c}
           Entry(f, m) == [family |-> f, passes |-> PassesUpTo(m, ids, f[2]), checkpoint |-> stop[ids[m]]]
<1> SUFFICES ASSUME StudyInv, NEW f \in Family, NEW c \in observed
             PROVE  /\ Cardinality(Of(f, c)) = IF Cardinality(SoFar(c)) >= Shortest(f[2]) THEN 1 ELSE 0
                    /\ \A s \in Of(f, c) :
                         /\ s.checkpoint = stop[c]
                         /\ ToSet(s.passes) = CASE f[2] = "single" -> {c}
                                                [] f[2] = "rolling" -> {d \in SoFar(c) : Recent(d, c)}
                                                [] f[2] = "cumulative" -> SoFar(c)
  BY DEF ForecastsFollowTime
<1>1. stop \in [Contact -> Instant] /\ observed \in SUBSET Contact
  BY DEF StudyInv, InputType
<1>2. /\ InTime(ids, observed)
      /\ \A i \in 1 .. Len(ids) : Cardinality(SoFar(ids[i])) = i
  <2>1. /\ InTime(ids, observed)
        /\ \A i \in 1 .. Cardinality(observed) : Cardinality(SoFar(ids[i])) = i
    BY <1>1, ChronologicalInTime
  <2> QED
    BY <2>1 DEF InTime
<1>3. f[2] \in {"single", "rolling", "cumulative"}
  BY FamilyStrategy
<1>4. \A s : s \in plan <=> \E g \in Family : \E m \in Shortest(g[2]) .. Len(ids) : s = Entry(g, m)
  <2> DEFINE From(g) == {Entry(g, m) : m \in Shortest(g[2]) .. Len(ids)}
  <2>1. plan = UNION {From(g) : g \in Family}
    BY DEF PlanForecasts
  <2>2. \A g, s : s \in From(g) <=> \E m \in Shortest(g[2]) .. Len(ids) : s = Entry(g, m)
    OBVIOUS
  <2> HIDE DEF From, Entry, ids, plan
  <2> QED
    BY <2>1, <2>2
<1>5. \A s : s \in Of(f, c) <=>
               \E m \in Shortest(f[2]) .. Len(ids) : s = Entry(f, m) /\ Last(s.passes) = c
  <2>1. \A g, m : Entry(g, m).family = g
    OBVIOUS
  <2> HIDE DEF Entry, ids, plan
  <2> QED
    BY <1>4, <2>1
<1>6. \A m \in Shortest(f[2]) .. Len(ids) :
        /\ m \in 1 .. Len(ids) /\ FirstOf(m, f[2]) \in 1 .. m
        /\ Last(Entry(f, m).passes) = ids[m] /\ Entry(f, m).checkpoint = stop[ids[m]]
        /\ \A d : d \in ToSet(Entry(f, m).passes) <=> \E i \in FirstOf(m, f[2]) .. m : d = ids[i]
  <2> TAKE m \in Shortest(f[2]) .. Len(ids)
  <2>1. Entry(f, m).passes = PassesUpTo(m, ids, f[2]) /\ Entry(f, m).checkpoint = stop[ids[m]]
    OBVIOUS
  <2>2. ids \in Seq(observed)
    BY <1>2 DEF InTime
  <2> HIDE DEF Entry, ids
  <2> QED
    BY <1>3, <2>1, <2>2, PassesOfForecast
<1> HIDE DEF ids, plan, Of, Entry
<1>7. PICK k \in 1 .. Len(ids) : ids[k] = c
  BY <1>2 DEF InTime
<1>8. Len(ids) \in Nat /\ k \in Nat /\ Cardinality(SoFar(c)) = k
  BY <1>2, <1>7 DEF InTime
<1>9. \A d : d \in SoFar(c) <=> \E i \in 1 .. k : d = ids[i]
  <2>1. ASSUME NEW d \in SoFar(c) PROVE \E i \in 1 .. k : d = ids[i]
    <3>1. PICK i \in 1 .. Len(ids) : d = ids[i]
      BY <1>2 DEF InTime
    <3>2. i <= k
      BY <1>2, <1>7, <3>1 DEF InTime
    <3> QED
      BY <1>8, <3>1, <3>2
  <2>2. ASSUME NEW i \in 1 .. k PROVE ids[i] \in SoFar(c)
    <3>1. i \in 1 .. Len(ids) /\ i <= k
      BY <1>8
    <3> QED
      BY <1>2, <1>7, <3>1 DEF InTime
  <2> QED
    BY <2>1, <2>2
<1>10. \A s : s \in Of(f, c) <=> k >= Shortest(f[2]) /\ s = Entry(f, k)
  <2>1. Shortest(f[2]) \in Nat
    BY PrefixStudyAssumption DEF Shortest
  <2>2. \A m \in Shortest(f[2]) .. Len(ids) : Last(Entry(f, m).passes) = c <=> m = k
    BY <1>2, <1>6, <1>7 DEF InTime
  <2> QED
    BY <1>5, <1>7, <1>8, <2>1, <2>2
<1>11. Cardinality(Of(f, c)) = IF k >= Shortest(f[2]) THEN 1 ELSE 0
  <2>1. CASE k >= Shortest(f[2])
    <3>1. Of(f, c) = {Entry(f, k)}
      BY <1>10, <2>1
    <3>2. Cardinality(Of(f, c)) = 1
      BY <3>1, FS_Singleton
    <3> QED
      BY <2>1, <3>2
  <2>2. CASE ~(k >= Shortest(f[2]))
    <3>1. Of(f, c) = {}
      BY <1>10, <2>2
    <3> QED
      BY <2>2, <3>1, FS_EmptySet
  <2> QED
    BY <2>1, <2>2
<1>12. ASSUME NEW s \in Of(f, c)
       PROVE  /\ s.checkpoint = stop[c]
              /\ ToSet(s.passes) = CASE f[2] = "single" -> {c}
                                     [] f[2] = "rolling" -> {d \in SoFar(c) : Recent(d, c)}
                                     [] f[2] = "cumulative" -> SoFar(c)
  <2>1. k >= Shortest(f[2]) /\ s = Entry(f, k)
    BY <1>10
  <2>2. k \in Shortest(f[2]) .. Len(ids)
    BY <1>7, <1>8, <2>1, PrefixStudyAssumption DEF Shortest
  <2>3. /\ FirstOf(k, f[2]) \in 1 .. k /\ s.checkpoint = stop[c]
        /\ \A d : d \in ToSet(s.passes) <=> \E i \in FirstOf(k, f[2]) .. k : d = ids[i]
    <3>1. /\ FirstOf(k, f[2]) \in 1 .. k /\ Entry(f, k).checkpoint = stop[ids[k]]
          /\ \A d : d \in ToSet(Entry(f, k).passes) <=> \E i \in FirstOf(k, f[2]) .. k : d = ids[i]
      BY <1>6, <2>2
    <3> QED
      BY <1>7, <2>1, <3>1
  <2>4. CASE f[2] = "single"
    <3>1. FirstOf(k, f[2]) = k
      BY <2>4 DEF FirstOf
    <3>2. ToSet(s.passes) = {c}
      BY <1>7, <1>8, <2>3, <3>1
    <3> QED
      BY <2>3, <2>4, <3>2
  <2>5. CASE f[2] = "cumulative"
    <3>1. FirstOf(k, f[2]) = 1
      BY <2>5 DEF FirstOf
    <3>2. ToSet(s.passes) = SoFar(c)
      <4> HIDE DEF SoFar
      <4> QED
        BY <1>9, <2>3, <3>1
    <3> QED
      BY <2>3, <2>5, <3>2
  <2>6. CASE f[2] = "rolling"
    <3>1. FirstOf(k, f[2]) = k - Rolling + 1 /\ Rolling \in Nat \ {0}
      BY <2>6, PrefixStudyAssumption DEF FirstOf
    <3>2. \A j \in 1 .. k : Recent(ids[j], c) <=> j >= k - Rolling + 1
      <4> TAKE j \in 1 .. k
      <4> DEFINE T == {e \in SoFar(c) : Before(ids[j], e)}
      <4>1. \A e : e \in T <=> \E i \in j .. k : e = ids[i]
        <5>1. \A i \in 1 .. k : Before(ids[j], ids[i]) <=> j <= i
          BY <1>2, <1>7, <1>8 DEF InTime
        <5> HIDE DEF SoFar
        <5> QED
          BY <1>8, <1>9, <5>1
      <4>2. /\ ids \in [1 .. Len(ids) -> observed]
            /\ \A a, b \in 1 .. Len(ids) : ids[a] = ids[b] => a = b
        BY <1>2 DEF InTime
      <4>3. j \in 1 .. Len(ids) /\ j <= k
        BY <1>8
      <4>4. Cardinality(T) = k - j + 1
        <5> HIDE DEF T
        <5>1. T = Stretch(ids, j, k)
          BY <4>1 DEF Stretch
        <5>2. k \in 1 .. Len(ids) /\ Len(ids) \in Nat /\ j \in Nat /\ k \in Nat
          BY <1>7, <1>8
        <5>3. Cardinality(Stretch(ids, j, k)) = IF j <= k THEN k - j + 1 ELSE 0
          <6> DEFINE n == Len(ids)
          <6>1. /\ n \in Nat /\ j \in 1 .. n /\ k \in 1 .. n /\ ids \in [1 .. n -> observed]
                /\ \A a, b \in 1 .. n : ids[a] = ids[b] => a = b
            BY <4>2, <4>3, <5>2
          <6> HIDE DEF n
          <6> QED
            BY <6>1, RangeOfPlaces
        <5> QED
          BY <4>3, <5>1, <5>3
      <4> HIDE DEF SoFar
      <4> QED
        BY <1>8, <3>1, <4>3, <4>4
    <3>3. ToSet(s.passes) = {d \in SoFar(c) : Recent(d, c)}
      <4> HIDE DEF SoFar, Recent
      <4>1. \A i : i \in k - Rolling + 1 .. k /\ i \in 1 .. k <=> i \in 1 .. k /\ i >= k - Rolling + 1
        BY <1>8, <3>1
      <4>2. \A i : i \in k - Rolling + 1 .. k => i \in 1 .. k
        BY <1>8, <2>3, <3>1
      <4>3. \A d : d \in ToSet(s.passes) <=> \E i \in 1 .. k : d = ids[i] /\ Recent(ids[i], c)
        BY <2>3, <3>1, <3>2, <4>1, <4>2
      <4> QED
        BY <1>9, <4>3
    <3> QED
      BY <2>3, <2>6, <3>3
  <2> QED
    BY <1>3, <2>4, <2>5, <2>6
<1> QED
  BY <1>8, <1>11, <1>12

(* No forecast knows its future, and every validation is what it is called  *)
(* (plan_fits, fit_prefix, validation_kind).                                *)
THEOREM ForecastsAreCausal == StudySpec => []CausalFits
<1>1. StudyInv => CausalFits
  BY TrainedBeforeIsTrue, KindsAreTrueIsTrue, ForecastsFollowTimeIsTrue DEF CausalFits
<1> QED
  BY <1>1, StudyFollowsItsPlan, PTL

-----------------------------------------------------------------------------
(* The summary of a prefix is of its own omissions.                         *)

(* A set of numbers has its earliest.                                       *)
LEMMA EarliestIsLeast ==
  ASSUME NEW T \in SUBSET Nat, T # {}
  PROVE  Earliest(T) \in T /\ \A u \in T : Earliest(T) <= u
<1>1. PICK m \in T : \A k \in T : m <= k
  BY LeastNatural
<1> QED
  BY <1>1 DEF Earliest

\* A pass left out of the first n, and all that are.
Omission(ids, n, k) == [prefix |-> SubSeq(ids, 1, n), held |-> ids[k]]
Omissions(ids, n) == IF n > 1 THEN {Omission(ids, n, k) : k \in 1 .. n} ELSE {}

(* One omission for each pass, of more than one.                            *)
LEMMA OmissionsCounted ==
  ASSUME NEW S \in SUBSET Contact, NEW ids, InTime(ids, S), NEW n \in 1 .. Len(ids)
  PROVE  /\ IsFiniteSet(Omissions(ids, n))
         /\ Cardinality(Omissions(ids, n)) = IF n > 1 THEN n ELSE 0
<1>1. Len(ids) \in Nat /\ n \in Nat /\ n >= 1
  BY DEF InTime
<1>2. CASE n > 1
  <2> DEFINE T == {Omission(ids, n, k) : k \in 1 .. n}
             g == [k \in 1 .. n |-> Omission(ids, n, k)]
  <2>1. \A k \in 1 .. n : g[k] = Omission(ids, n, k) /\ Omission(ids, n, k).held = ids[k]
    BY DEF Omission
  <2>2. \A k, j \in 1 .. n : ids[k] = ids[j] => k = j
    BY <1>1 DEF InTime
  <2>3. \A k, j \in 1 .. n : g[k] = g[j] => k = j
    BY <2>1, <2>2
  <2>4. g \in [1 .. n -> T]
    OBVIOUS
  <2>5. T = Stretch(g, 1, n)
    BY DEF Stretch
  <2>6. 1 \in 1 .. n /\ n \in 1 .. n
    BY <1>1
  <2> HIDE DEF g, T
  <2>7. IsFiniteSet(T) /\ Cardinality(T) = IF 1 <= n THEN n - 1 + 1 ELSE 0
    <3>1. PICK a \in 1 .. n : a = 1
      BY <2>6
    <3>2. /\ IsFiniteSet(Stretch(g, a, n))
          /\ Cardinality(Stretch(g, a, n)) = IF a <= n THEN n - a + 1 ELSE 0
      BY <1>1, <2>3, <2>4, <2>6, RangeOfPlaces
    <3> QED
      BY <2>5, <3>1, <3>2
  <2>8. Omissions(ids, n) = T
    BY <1>2 DEF Omissions, T
  <2> QED
    BY <1>1, <1>2, <2>7, <2>8
<1>3. CASE ~(n > 1)
  BY <1>3, FS_EmptySet DEF Omissions
<1> QED
  BY <1>2, <1>3

(* The plan is finite.                                                      *)
LEMMA PlanIsFinite == InputType => IsFiniteSet(PlanFits)
<1> SUFFICES ASSUME InputType PROVE IsFiniteSet(PlanFits)
  OBVIOUS
<1> DEFINE ids == Chronological(EligibleContacts)
           S == EligibleContacts
           D == (1 .. Len(ids)) \X (S \union {Nothing})
           g == [d \in D |-> [prefix |-> SubSeq(ids, 1, d[1]), held |-> d[2]]]
           T == {g[d] : d \in D}
<1>1. S \in SUBSET Contact /\ InTime(ids, S)
  BY EligibleInTime
<1>2. IsFiniteSet(S) /\ IsFiniteSet(S \union {Nothing}) /\ IsFiniteSet(1 .. Len(ids))
  <2>1. IsFiniteSet(S)
    BY <1>1, PrefixStudyAssumption, FS_Subset
  <2>2. Len(ids) \in Nat
    BY <1>1 DEF InTime
  <2> HIDE DEF ids, S
  <2>3. IsFiniteSet(S \union {Nothing})
    BY <2>1, FS_AddElement
  <2>4. IsFiniteSet(1 .. Len(ids))
    BY <2>2, FS_Interval
  <2> QED
    BY <2>1, <2>3, <2>4
<1>3. IsFiniteSet(D)
  <2> HIDE DEF S, ids
  <2> QED
    BY <1>2, FS_Product
<1>4. g \in [D -> T]
  OBVIOUS
<1>5. IsFiniteSet(T)
  <2>1. IsFiniteSet({g[d] : d \in D})
    <3> HIDE DEF D, g, T
    <3> QED
      BY <1>3, <1>4, FiniteValues
  <2> QED
    BY <2>1
<1>6. \A s \in PlanFits : s \in T
  <2> TAKE s \in PlanFits
  <2>1. PICK n \in 1 .. Len(ids) : IsPlanned(s, ids, n)
    BY PlanIsPlan
  <2> HIDE DEF ids, S
  <2>2. s = [prefix |-> SubSeq(ids, 1, n), held |-> s.held]
    BY <2>1 DEF IsPlanned
  <2>3. s.held \in S \union {Nothing}
    <3>1. \A k \in 1 .. n : k \in 1 .. Len(ids)
      BY <1>1, <2>1 DEF InTime
    <3> QED
      BY <1>1, <2>1, <3>1 DEF IsPlanned, InTime
  <2>4. <<n, s.held>> \in D /\ g[<<n, s.held>>] = s
    BY <2>2, <2>3
  <2> HIDE DEF D, g
  <2> QED
    BY <2>4
<1> HIDE DEF T
<1>7. PlanFits \in SUBSET T
  BY <1>6
<1> QED
  BY <1>5, <1>7, FS_Subset

(* A prefix that prefix_summary accepts is one prefix, with all of its      *)
(* omissions: another that ends at the same time would add its own.         *)
LEMMA GroupOfOnePrefix ==
  ASSUME InputType, DOMAIN results = PlanFits, NEW t \in Checkpoints, FoldsComplete(t)
  PROVE  \E n \in 1 .. Len(Chronological(EligibleContacts)) :
           /\ stop[Chronological(EligibleContacts)[n]] = t
           /\ Len(FullFit(t).prefix) = n
           /\ Folds(t) = Omissions(Chronological(EligibleContacts), n)
<1>1. PICK S : S = EligibleContacts
  OBVIOUS
<1>2. PICK ids : ids = Chronological(EligibleContacts)
  OBVIOUS
<1>3. S \in SUBSET Contact /\ InTime(ids, S) /\ Len(ids) \in Nat /\ ids \in Seq(S)
  BY <1>1, <1>2, EligibleInTime DEF InTime
<1>4. /\ \A s \in PlanFits : \E n \in 1 .. Len(ids) : IsPlanned(s, ids, n)
      /\ \A n \in 1 .. Len(ids) :
         \A h \in {Nothing} \union (IF n > 1 THEN {ids[i] : i \in 1 .. n} ELSE {}) :
           [prefix |-> SubSeq(ids, 1, n), held |-> h] \in PlanFits
  BY <1>2, PlanIsPlan
<1>5. \A s : s \in Group(t) <=> s \in PlanFits /\ CheckpointTime(s) = t
  BY DEF Group
<1>6. ASSUME NEW s \in PlanFits, NEW n \in 1 .. Len(ids), IsPlanned(s, ids, n)
      PROVE  n \in Nat \ {0} /\ Len(s.prefix) = n /\ CheckpointTime(s) = stop[ids[n]]
  <2>1. n \in Nat
    BY <1>3
  <2> QED
    <3>1. n \in Nat \ {0} /\ CheckpointTime(s) = stop[ids[n]]
      <4>1. n \in Nat \ {0} /\ Last(s.prefix) = ids[n]
        <5>1. S \in SUBSET Contact /\ InTime(ids, S)
          BY <1>3
        <5> QED
          BY <1>6, <2>1, <5>1, PlannedParts
      <4> QED
        BY <4>1 DEF CheckpointTime
    <3>2. Len(s.prefix) = n
      BY <1>6 DEF IsPlanned
    <3> QED
      BY <3>1, <3>2
<1>7. ASSUME NEW n \in 1 .. Len(ids),
             NEW h \in {Nothing} \union (IF n > 1 THEN {ids[i] : i \in 1 .. n} ELSE {})
      PROVE  CheckpointTime([prefix |-> SubSeq(ids, 1, n), held |-> h]) = stop[ids[n]]
  <2>1. n \in Nat /\ n >= 1 /\ n \in 1 .. n
    BY <1>3
  <2>2. Len(SubSeq(ids, 1, n)) = n /\ SubSeq(ids, 1, n)[n] = ids[n]
    BY <1>3, <2>1, FirstOfSequence
  <2>3. Last(SubSeq(ids, 1, n)) = ids[n]
    BY <2>2 DEF Last
  <2> QED
    BY <2>3 DEF CheckpointTime
<1> DEFINE Full == {s \in Group(t) : s.held = Nothing}
           Lengths == {Len(s.prefix) : s \in Full}
<1>8. Full # {}
  <2>1. PICK s \in PlanFits : CheckpointTime(s) = t
    BY DEF Checkpoints
  <2>2. PICK n \in 1 .. Len(ids) : IsPlanned(s, ids, n)
    BY <1>4
  <2>3. stop[ids[n]] = t
    BY <1>6, <2>1, <2>2
  <2> DEFINE full == [prefix |-> SubSeq(ids, 1, n), held |-> Nothing]
  <2>4. full \in PlanFits /\ CheckpointTime(full) = t
    BY <1>4, <1>7, <2>3
  <2>5. full.held = Nothing
    OBVIOUS
  <2> HIDE DEF full
  <2> QED
    BY <1>5, <2>4, <2>5
<1>9. PICK full \in Full : \A x \in Full : Len(full.prefix) <= Len(x.prefix)
  <2>1. \A s \in Full : Len(s.prefix) \in Nat
    BY <1>4, <1>5, <1>6
  <2>2. Lengths \subseteq Nat /\ Lengths # {}
    BY <1>8, <2>1
  <2> HIDE DEF Lengths
  <2>3. PICK m \in Lengths : \A k \in Lengths : m <= k
    BY <2>2, LeastNatural
  <2> USE DEF Lengths
  <2>4. PICK s \in Full : m = Len(s.prefix)
    BY <2>3
  <2> QED
    BY <2>3, <2>4
<1>10. /\ FullFit(t) \in Group(t) /\ FullFit(t).held = Nothing
  <2> DEFINE Q(s) == s.held = Nothing /\ \A x \in Group(t) : x.held = Nothing => Len(s.prefix) <= Len(x.prefix)
  <2>1. FullFit(t) = CHOOSE s \in Group(t) : Q(s)
    BY DEF FullFit
  <2>2. full \in Group(t) /\ Q(full)
    BY <1>9
  <2> HIDE DEF Q
  <2>3. FullFit(t) \in Group(t) /\ Q(FullFit(t))
    BY <2>1, <2>2
  <2> QED
    BY <2>3 DEF Q
<1>11. PICK n \in 1 .. Len(ids) : IsPlanned(FullFit(t), ids, n)
  BY <1>4, <1>5, <1>10
<1>12. n \in Nat \ {0} /\ Len(FullFit(t).prefix) = n /\ stop[ids[n]] = t
  BY <1>5, <1>6, <1>10, <1>11
<1>13. Omissions(ids, n) \in SUBSET Folds(t)
  <2> SUFFICES ASSUME n > 1, NEW k \in 1 .. n PROVE Omission(ids, n, k) \in Folds(t)
    BY DEF Omissions
  <2>1. k \in 1 .. Len(ids) /\ ids[k] \in {ids[i] : i \in 1 .. n}
    BY <1>3, <1>12
  <2>2. ids[k] # Nothing
    BY <1>3, <2>1, PrefixStudyAssumption DEF InTime
  <2>3. Omission(ids, n, k) \in PlanFits /\ CheckpointTime(Omission(ids, n, k)) = t
    BY <1>4, <1>7, <1>12, <2>1 DEF Omission
  <2>4. Omission(ids, n, k).held = ids[k]
    BY DEF Omission
  <2> QED
    BY <1>5, <2>2, <2>3, <2>4 DEF Folds
<1>14. IsFiniteSet(Folds(t))
  <2>1. Folds(t) \in SUBSET PlanFits
    BY <1>5 DEF Folds
  <2> QED
    BY <2>1, PlanIsFinite, FS_Subset
<1>15. Cardinality(Folds(t)) = IF n > 1 THEN n ELSE 0
  BY <1>12 DEF FoldsComplete
<1>16. Cardinality(Omissions(ids, n)) = IF n > 1 THEN n ELSE 0
  BY <1>3, OmissionsCounted
<1>17. Folds(t) = Omissions(ids, n)
  BY <1>13, <1>14, <1>15, <1>16, FS_Subset
<1> QED
  BY <1>2, <1>12, <1>17

(* The folds of a summary are those of its prefix, one for each pass.       *)
LEMMA SummaryOfOnePrefixIsTrue == StudyInv => SummaryOfOnePrefix
<1> SUFFICES ASSUME StudyInv, stage = "done", NEW p \in prefixes
             PROVE  /\ \A s, r \in p.folds : s.prefix = r.prefix
                    /\ p.folds # {} => {s.held : s \in p.folds} = ToSet((CHOOSE s \in p.folds : TRUE).prefix)
  BY DEF SummaryOfOnePrefix
<1>1. InputType /\ DOMAIN results = PlanFits
  BY DEF StudyInv, Planned
<1>2. PICK t \in Checkpoints : p = PrefixSummary(t) /\ FoldsComplete(t)
  BY DEF StudyInv, Summarized
<1>3. p.folds = Folds(t)
  BY <1>2 DEF PrefixSummary
<1>4. PICK ids : ids = Chronological(EligibleContacts)
  OBVIOUS
<1>5. PICK n \in 1 .. Len(ids) : p.folds = Omissions(ids, n)
  BY <1>1, <1>2, <1>3, <1>4, GroupOfOnePrefix
<1>6. ids \in Seq(EligibleContacts)
  BY <1>1, <1>4, EligibleInTime DEF InTime
<1>7. \A s \in p.folds : \E k \in 1 .. n : s = Omission(ids, n, k)
  BY <1>5 DEF Omissions
<1>8. \A k : Omission(ids, n, k).prefix = SubSeq(ids, 1, n) /\ Omission(ids, n, k).held = ids[k]
  BY DEF Omission
<1>9. \A s \in p.folds : s.prefix = SubSeq(ids, 1, n)
  BY <1>7, <1>8
<1>10. ASSUME p.folds # {}
       PROVE  {s.held : s \in p.folds} = ToSet((CHOOSE s \in p.folds : TRUE).prefix)
  <2>1. p.folds = {Omission(ids, n, k) : k \in 1 .. n}
    BY <1>5, <1>10 DEF Omissions
  <2>2. {s.held : s \in p.folds} = {ids[k] : k \in 1 .. n}
    BY <1>8, <2>1
  <2>3. (CHOOSE s \in p.folds : TRUE).prefix = SubSeq(ids, 1, n)
    BY <1>9, <1>10
  <2>4. ToSet(SubSeq(ids, 1, n)) = {ids[k] : k \in 1 .. n}
    BY <1>6, FirstOfSequence
  <2> QED
    BY <2>2, <2>3, <2>4
<1> QED
  BY <1>9, <1>10

-----------------------------------------------------------------------------
(* Attainment is earned.                                                    *)

\* How many of the values are below a limit.
CountBelow(f, limit) == Cardinality({x \in DOMAIN f : f[x] < limit})

(* Half of the values are below what the mean of the two middle ones is     *)
(* below, and it is below what more than half of them are below.            *)
LEMMA MedianSplits ==
  ASSUME NEW S, IsFiniteSet(S), S # {}, NEW f \in [S -> Nat], NEW limit \in Nat
  PROVE  LET n == Cardinality(S)
             low == Ranked(f, (n + 1) \div 2)
             high == Ranked(f, (n + 2) \div 2)
         IN /\ low \in Nat /\ high \in Nat
            /\ low + high < 2 * limit => 2 * CountBelow(f, limit) >= n
            /\ 2 * CountBelow(f, limit) > n => low + high < 2 * limit
<1> DEFINE n == Cardinality(S)
           Under(v) == {x \in S : f[x] < v}
           Within(v) == {x \in S : f[x] <= v}
<1>1. n \in Nat /\ n # 0
  BY FS_CardinalityType, FS_EmptySet
<1>2. \A i \in 1 .. n : /\ Ranked(f, i) \in Nat
                        /\ Cardinality(Under(Ranked(f, i))) < i
                        /\ i <= Cardinality(Within(Ranked(f, i)))
  BY RankedIsRanked
<1>3. \A v : /\ IsFiniteSet(Under(v)) /\ IsFiniteSet(Within(v))
             /\ Cardinality(Under(v)) \in Nat /\ Cardinality(Within(v)) \in Nat
  BY FS_Subset, FS_CardinalityType
<1>4. \A v \in Nat : v < limit => Cardinality(Within(v)) <= Cardinality(Under(limit))
  <2> TAKE v \in Nat
  <2>1. v < limit => Within(v) \in SUBSET Under(limit)
    OBVIOUS
  <2> HIDE DEF Within, Under
  <2> QED
    BY <1>3, <2>1, FS_Subset
<1>5. \A v \in Nat : limit <= v => Cardinality(Under(limit)) <= Cardinality(Under(v))
  <2> TAKE v \in Nat
  <2>1. limit <= v => Under(limit) \in SUBSET Under(v)
    OBVIOUS
  <2> HIDE DEF Under
  <2> QED
    BY <1>3, <2>1, FS_Subset
<1>6. CountBelow(f, limit) = Cardinality(Under(limit))
  BY DEF CountBelow
<1> DEFINE c == Cardinality(Under(limit))
           i == (n + 1) \div 2
           j == (n + 2) \div 2
<1> HIDE DEF n, Under, Within
<1>7. i \in 1 .. n /\ j \in 1 .. n /\ i <= j /\ 2 * i >= n /\ 2 * j <= n + 2 /\ c \in Nat
  BY <1>1, <1>3
<1> HIDE DEF c, i, j
<1>8. ASSUME NEW k \in 1 .. n PROVE (Ranked(f, k) < limit => k <= c) /\ (k <= c => Ranked(f, k) < limit)
  <2>1. c = Cardinality(Under(limit))
    BY DEF c
  <2>2. k \in Int
    BY <1>1
  <2>3. Ranked(f, k) \in Nat /\ Cardinality(Under(Ranked(f, k))) < k /\ k <= Cardinality(Within(Ranked(f, k)))
    BY <1>2
  <2>4. Ranked(f, k) < limit => Cardinality(Within(Ranked(f, k))) <= c
    BY <1>4, <2>1, <2>3
  <2>5. limit <= Ranked(f, k) => c <= Cardinality(Under(Ranked(f, k)))
    BY <1>5, <2>1, <2>3
  <2> QED
    BY <1>3, <1>7, <2>2, <2>3, <2>4, <2>5
<1>9. Ranked(f, i) \in Nat /\ Ranked(f, j) \in Nat
  BY <1>2, <1>7
<1>10. /\ Ranked(f, i) < limit <=> i <= c
       /\ Ranked(f, j) < limit <=> j <= c
  BY <1>7, <1>8
<1>11. Ranked(f, i) + Ranked(f, j) < 2 * limit => 2 * c >= n
  BY <1>1, <1>7, <1>9, <1>10
<1>12. 2 * c > n => Ranked(f, i) + Ranked(f, j) < 2 * limit
  BY <1>1, <1>7, <1>9, <1>10
<1> QED
  BY <1>6, <1>9, <1>11, <1>12 DEF n, i, j, c

\* A fold that failed or was rejected, and the values a median is of.
RejectedFit(s) == ~results[s].success \/ ~results[s].accepted
FoldValues(folds) == [s \in folds |-> IF RejectedFit(s) THEN Infinity ELSE results[s].error]

(* What a fit that is not rejected says.                                    *)
LEMMA OutcomeOfFit ==
  ASSUME StudyInv, NEW s \in DOMAIN results
  PROVE  /\ RejectedFit(s) <=> ~results[s].accepted
         /\ results[s].error \in Error \union {Nothing} \/ RejectedFit(s)
<1>1. results[s] \in Outcomes(s)
  BY DEF StudyInv, Planned
<1>2. CASE results[s] = Failed
  BY <1>2 DEF Failed, RejectedFit
<1>3. CASE results[s] # Failed
  <2>1. results[s] \in Fitted(s) /\ results[s].success
    BY <1>1, <1>3 DEF Outcomes
  <2>2. results[s].error \in Error \union {Nothing}
    BY <2>1 DEF Fitted
  <2> QED
    BY <2>1, <2>2 DEF RejectedFit
<1> QED
  BY <1>2, <1>3

(* A median that is given is of the values of the folds, and one that is    *)
(* available is given.                                                      *)
LEMMA QualificationIsMedian ==
  ASSUME StudyInv, NEW folds \in SUBSET DOMAIN results,
         \/ QualificationMedian(folds).twice # Nothing
         \/ QualificationMedian(folds).status = "available"
  PROVE  /\ folds # {}
         /\ \A s \in folds : RejectedFit(s) \/ results[s].error \in Error
         /\ QualificationMedian(folds).twice = TwiceMedian(FoldValues(folds))
         /\ QualificationMedian(folds).status = "available"
<1> DEFINE v == [s \in folds |-> IF ~results[s].success \/ ~results[s].accepted
                                 THEN Infinity ELSE results[s].error]
<1>1. FoldValues(folds) = v
  BY DEF FoldValues, RejectedFit
<1>2. QualificationMedian(folds) =
        IF folds = {} THEN Median(Nothing, "single-pass CV unavailable")
        ELSE IF \E s \in folds : results[s].coverage \notin {"complete", "unknown"}
          THEN Median(Nothing, "reference coverage unavailable")
        ELSE IF \E s \in folds : ~RejectedFit(s) /\ results[s].error = Nothing
          THEN Median(Nothing, "reference accuracy unavailable")
        ELSE IF TwiceMedian(v) = Infinity
          THEN Median(Nothing, "non-attainment")
        ELSE Median(TwiceMedian(v), "available")
  BY DEF QualificationMedian, RejectedFit
<1>3. \A value, status : Median(value, status).twice = value /\ Median(value, status).status = status
  BY DEF Median
<1> HIDE DEF v
<1>4. /\ folds # {}
      /\ ~ \E s \in folds : ~RejectedFit(s) /\ results[s].error = Nothing
      /\ QualificationMedian(folds) = Median(TwiceMedian(v), "available")
  <2> DEFINE Unknown == {"single-pass CV unavailable", "reference coverage unavailable",
                         "reference accuracy unavailable", "non-attainment"}
  <2>1. \A status \in Unknown : status # "available"
    OBVIOUS
  <2>2. \A status \in Unknown : QualificationMedian(folds) # Median(Nothing, status)
    <3> TAKE status \in Unknown
    <3> SUFFICES ASSUME QualificationMedian(folds) = Median(Nothing, status)
                 PROVE  FALSE
      OBVIOUS
    <3>1. QualificationMedian(folds).twice = Nothing /\ QualificationMedian(folds).status = status
      BY <1>3, Zenon
    <3> QED
      BY <2>1, <3>1
  <2>3. QualificationMedian(folds) # Median(Nothing, "single-pass CV unavailable")
    BY <2>2
  <2>4. QualificationMedian(folds) # Median(Nothing, "reference coverage unavailable")
    BY <2>2
  <2>5. QualificationMedian(folds) # Median(Nothing, "reference accuracy unavailable")
    BY <2>2
  <2>6. QualificationMedian(folds) # Median(Nothing, "non-attainment")
    BY <2>2
  <2> HIDE DEF Unknown
  <2> QED
    BY <1>2, <2>3, <2>4, <2>5, <2>6, Zenon
<1>5. \A s \in folds : RejectedFit(s) \/ results[s].error \in Error
  BY <1>4, OutcomeOfFit
<1> QED
  BY <1>1, <1>3, <1>4, <1>5

(* The folds better than a threshold, as the definition of the threshold    *)
(* counts them and as the median does.                                      *)
LEMMA BelowIsCounted ==
  ASSUME StudyInv, DOMAIN results = PlanFits, NEW th \in Threshold,
         NEW n \in 1 .. Len(Chronological(EligibleContacts)),
         NEW folds, folds = Omissions(Chronological(EligibleContacts), n),
         \A s \in folds : RejectedFit(s) \/ results[s].error \in Error
  PROVE  /\ folds \in SUBSET DOMAIN results
         /\ FoldValues(folds) \in [folds -> Nat]
         /\ Cardinality(Below(n, th)) = CountBelow(FoldValues(folds), th)
<1>1. PICK ids : ids = Chronological(EligibleContacts)
  OBVIOUS
<1>2. PICK S : S = EligibleContacts
  OBVIOUS
<1>3. InputType /\ S \in SUBSET Contact /\ InTime(ids, S)
  BY <1>1, <1>2, EligibleInTime DEF StudyInv
<1>4. n \in 1 .. Len(ids) /\ n \in Nat /\ folds = Omissions(ids, n)
  BY <1>1, <1>3 DEF InTime
<1>5. ASSUME NEW s \in folds
      PROVE  s \in DOMAIN results /\ s.held # Nothing /\ Len(s.prefix) = n
  <2>1. PICK k \in 1 .. n : n > 1 /\ s = Omission(ids, n, k)
    BY <1>4 DEF Omissions
  <2>2. s = [prefix |-> SubSeq(ids, 1, n), held |-> ids[k]]
    BY <2>1 DEF Omission
  <2>3. s \in PlanFits
    BY <1>1, <1>3, <1>4, <2>1, <2>2, PlanIsPlan
  <2>4. ids[k] \in Contact
    BY <1>3, <1>4, <2>1 DEF InTime
  <2>5. Len(SubSeq(ids, 1, n)) = n
    <3>1. ids \in Seq(S)
      BY <1>3 DEF InTime
    <3> QED
      BY <1>4, <3>1, FirstOfSequence
  <2> QED
    BY <2>2, <2>3, <2>4, <2>5, PrefixStudyAssumption
<1>6. ASSUME NEW s \in DOMAIN results, s.held # Nothing, Len(s.prefix) = n
      PROVE  s \in folds
  <2>1. PICK m \in 1 .. Len(ids) : IsPlanned(s, ids, m)
    BY <1>1, <1>3, PlanIsPlan
  <2>2. m = n
    BY <1>6, <2>1 DEF IsPlanned
  <2>3. PICK k \in 1 .. n : n > 1 /\ s.held = ids[k]
    BY <1>6, <2>1, <2>2 DEF IsPlanned
  <2>4. s = [prefix |-> SubSeq(ids, 1, n), held |-> ids[k]]
    BY <2>1, <2>2, <2>3 DEF IsPlanned
  <2> QED
    BY <1>4, <2>3, <2>4 DEF Omissions, Omission
<1>7. Infinity \in Nat /\ Error \in SUBSET Nat /\ Nothing \notin Error /\ th \in Nat /\ 2 * th < Infinity
  BY PrefixStudyAssumption
<1>8. \A s \in folds : RejectedFit(s) <=> ~results[s].accepted
  BY <1>5, OutcomeOfFit
<1>9. FoldValues(folds) \in [folds -> Nat]
  BY <1>7 DEF FoldValues
<1>10. ASSUME NEW s \in folds
       PROVE  FoldValues(folds)[s] < th
                <=> results[s].accepted /\ results[s].error \in Error /\ results[s].error < th
  <2>1. CASE RejectedFit(s)
    <3>1. FoldValues(folds)[s] = Infinity /\ ~results[s].accepted
      BY <1>8, <2>1 DEF FoldValues
    <3>2. ~(Infinity < th)
      BY <1>7
    <3> QED
      BY <3>1, <3>2
  <2>2. CASE ~RejectedFit(s)
    <3>1. FoldValues(folds)[s] = results[s].error /\ results[s].accepted /\ results[s].error \in Error
      BY <1>8, <2>2 DEF FoldValues
    <3> QED
      BY <3>1
  <2> QED
    BY <2>1, <2>2
<1>11. Below(n, th) = {s \in folds : FoldValues(folds)[s] < th}
  BY <1>5, <1>6, <1>10 DEF Below
<1>12. DOMAIN FoldValues(folds) = folds
  BY DEF FoldValues
<1> QED
  BY <1>5, <1>9, <1>11, <1>12 DEF CountBelow

(* The hours of a prefix are a time of the study.                           *)
LEMMA ElapsedIsInstant ==
  ASSUME InputType, NEW n \in 1 .. Len(Chronological(EligibleContacts)),
         NEW t, t = stop[Chronological(EligibleContacts)[n]]
  PROVE  /\ t \in Instant /\ FirstPass \in Nat /\ t - FirstPass \in Nat /\ t - FirstPass <= t
<1> DEFINE Stops == {stop[c] : c \in observed}
<1>1. Instant \in SUBSET Nat /\ observed # {} /\ observed \in SUBSET Contact /\ stop \in [Contact -> Instant]
  BY PrefixStudyAssumption DEF InputType
<1>2. Stops \in SUBSET Nat /\ Stops # {}
  BY <1>1
<1>3. FirstPass \in Stops /\ \A u \in Stops : FirstPass <= u
  <2> HIDE DEF Stops
  <2>1. Earliest(Stops) \in Stops /\ \A u \in Stops : Earliest(Stops) <= u
    BY <1>2, EarliestIsLeast
  <2> QED
    BY <2>1 DEF FirstPass, Stops
<1>4. Chronological(EligibleContacts)[n] \in EligibleContacts
  BY EligibleInTime DEF InTime
<1>5. t \in Stops /\ t \in Instant
  BY <1>1, <1>4 DEF EligibleContacts
<1> HIDE DEF Stops
<1>6. t \in Nat /\ FirstPass \in Nat /\ FirstPass <= t
  BY <1>2, <1>3, <1>5
<1> QED
  BY <1>5, <1>6

(* What a summary of the study says.                                        *)
LEMMA SummaryParts ==
  ASSUME StudyInv, stage = "done", NEW p \in prefixes
  PROVE  \E n \in 1 .. Len(Chronological(EligibleContacts)) :
           /\ p.count = n /\ n \in Nat
           /\ p.folds = Omissions(Chronological(EligibleContacts), n)
           /\ p.median = QualificationMedian(p.folds)
           /\ p.elapsed \in Nat /\ \E u \in Instant : p.elapsed <= u
<1>1. InputType /\ DOMAIN results = PlanFits
  BY DEF StudyInv, Planned
<1>2. PICK t \in Checkpoints : p = PrefixSummary(t) /\ FoldsComplete(t)
  BY DEF StudyInv, Summarized
<1>3. /\ p.count = Len(FullFit(t).prefix) /\ p.elapsed = t - FirstPass
      /\ p.folds = Folds(t) /\ p.median = QualificationMedian(Folds(t))
  BY <1>2 DEF PrefixSummary
<1>4. PICK n \in 1 .. Len(Chronological(EligibleContacts)) :
        /\ stop[Chronological(EligibleContacts)[n]] = t
        /\ Len(FullFit(t).prefix) = n
        /\ Folds(t) = Omissions(Chronological(EligibleContacts), n)
  BY <1>1, <1>2, GroupOfOnePrefix
<1>5. t \in Instant /\ FirstPass \in Nat /\ t - FirstPass \in Nat /\ t - FirstPass <= t
  BY <1>1, <1>4, ElapsedIsInstant
<1>6. n \in Nat
  BY <1>1, EligibleInTime DEF InTime
<1> QED
  BY <1>3, <1>4, <1>5, <1>6

(* A prefix crosses a threshold only with half of its omissions below it,   *)
(* and one that is scored does with more than half.                         *)
LEMMA CrossingIsEarned ==
  ASSUME StudyInv, stage = "done", NEW p \in prefixes, NEW th \in Threshold
  PROVE  /\ (p.median.twice # Nothing /\ p.median.twice < 2 * th)
              => p.count > 1 /\ 2 * Cardinality(Below(p.count, th)) >= p.count
         /\ (2 * Cardinality(Below(p.count, th)) > p.count /\ p.median.status = "available")
              => p.median.twice # Nothing /\ p.median.twice < 2 * th
<1> SUFFICES ASSUME p.median.twice # Nothing \/ p.median.status = "available"
             PROVE  /\ p.median.twice < 2 * th
                         => p.count > 1 /\ 2 * Cardinality(Below(p.count, th)) >= p.count
                    /\ 2 * Cardinality(Below(p.count, th)) > p.count
                         => p.median.twice # Nothing /\ p.median.twice < 2 * th
  OBVIOUS
<1>1. InputType /\ DOMAIN results = PlanFits
  BY DEF StudyInv, Planned
<1>2. PICK n \in 1 .. Len(Chronological(EligibleContacts)) :
        /\ p.count = n /\ n \in Nat
        /\ p.folds = Omissions(Chronological(EligibleContacts), n)
        /\ p.median = QualificationMedian(p.folds)
  BY SummaryParts
<1>3. PICK folds : folds = p.folds
  OBVIOUS
<1>4. PICK ids : ids = Chronological(EligibleContacts)
  OBVIOUS
<1>5. folds \in SUBSET DOMAIN results
  <2> SUFFICES ASSUME NEW s \in folds PROVE s \in PlanFits
    BY <1>1
  <2>1. PICK k \in 1 .. n : n > 1 /\ s = [prefix |-> SubSeq(ids, 1, n), held |-> ids[k]]
    BY <1>2, <1>3, <1>4 DEF Omissions, Omission
  <2> QED
    BY <1>1, <1>2, <1>4, <2>1, PlanIsPlan
<1>6. /\ folds # {}
      /\ \A s \in folds : RejectedFit(s) \/ results[s].error \in Error
      /\ p.median.twice = TwiceMedian(FoldValues(folds))
  BY <1>2, <1>3, <1>5, QualificationIsMedian
<1>7. /\ FoldValues(folds) \in [folds -> Nat]
      /\ Cardinality(Below(n, th)) = CountBelow(FoldValues(folds), th)
  BY <1>1, <1>2, <1>3, <1>6, BelowIsCounted
<1>8. n > 1 /\ IsFiniteSet(folds) /\ Cardinality(folds) = n
  <2>1. n > 1
    BY <1>2, <1>3, <1>6 DEF Omissions
  <2>2. InTime(ids, EligibleContacts) /\ EligibleContacts \in SUBSET Contact
    BY <1>1, <1>4, EligibleInTime
  <2>3. PICK S : S = EligibleContacts
    OBVIOUS
  <2>4. IsFiniteSet(Omissions(ids, n)) /\ Cardinality(Omissions(ids, n)) = IF n > 1 THEN n ELSE 0
    BY <1>2, <1>4, <2>2, <2>3, OmissionsCounted
  <2> QED
    BY <1>2, <1>3, <1>4, <2>1, <2>4
<1>9. PICK v : v = FoldValues(folds)
  OBVIOUS
<1>10. v \in [folds -> Nat] /\ Cardinality(DOMAIN v) = n
  BY <1>7, <1>8, <1>9
<1> DEFINE low == Ranked(v, (n + 1) \div 2)
           high == Ranked(v, (n + 2) \div 2)
<1>11. th \in Nat /\ Infinity \in Nat /\ 2 * th < Infinity /\ Nothing \notin Nat
  BY PrefixStudyAssumption
<1>12. /\ low \in Nat /\ high \in Nat
       /\ low + high < 2 * th => 2 * CountBelow(v, th) >= n
       /\ 2 * CountBelow(v, th) > n => low + high < 2 * th
  BY <1>6, <1>8, <1>10, <1>11, MedianSplits
<1>13. p.median.twice = IF low + high < Infinity THEN low + high ELSE Infinity
  BY <1>6, <1>9, <1>10 DEF TwiceMedian
<1> HIDE DEF low, high
<1>14. /\ p.median.twice \in Nat /\ p.median.twice # Nothing
       /\ p.median.twice < 2 * th <=> low + high < 2 * th
  BY <1>11, <1>12, <1>13
<1> QED
  BY <1>2, <1>7, <1>8, <1>9, <1>12, <1>14

(* Attainment is the first crossing.                                        *)
LEMMA AttainmentIsFirst ==
  ASSUME StudyInv, stage = "done", NEW th \in Threshold
  PROVE  LET Crosses(p) == p.median.twice # Nothing /\ p.median.twice < 2 * th IN
         /\ events[th] # Nothing =>
              /\ events[th] \in Nat /\ \E u \in Instant : events[th] <= u
              /\ \E p \in prefixes : p.elapsed = events[th] /\ Crosses(p)
         /\ \A p \in prefixes : Crosses(p) => events[th] # Nothing /\ events[th] <= p.elapsed
<1> DEFINE Crosses(p) == p.median.twice # Nothing /\ p.median.twice < 2 * th
           crossing == {p \in prefixes : Crosses(p)}
           Times == {p.elapsed : p \in crossing}
<1>1. events[th] = FirstAttainment(prefixes, th)
  BY DEF StudyInv, Summarized
<1>2. events[th] = IF crossing = {} THEN Nothing ELSE Earliest(Times)
  BY <1>1 DEF FirstAttainment
<1>3. \A p \in prefixes : p.elapsed \in Nat /\ \E u \in Instant : p.elapsed <= u
  BY SummaryParts
<1> HIDE DEF Crosses
<1>4. CASE crossing = {}
  BY <1>2, <1>4 DEF Crosses
<1>5. CASE crossing # {}
  <2>1. Times \in SUBSET Nat /\ Times # {}
    BY <1>3, <1>5
  <2> HIDE DEF Times
  <2>2. Earliest(Times) \in Times /\ \A u \in Times : Earliest(Times) <= u
    BY <2>1, EarliestIsLeast
  <2>3. events[th] \in Times /\ (\A u \in Times : events[th] <= u) /\ events[th] # Nothing
    <3>1. events[th] = Earliest(Times)
      BY <1>2, <1>5
    <3> QED
      BY <2>1, <2>2, <3>1, PrefixStudyAssumption
  <2> USE DEF Times
  <2>4. PICK p \in prefixes : Crosses(p) /\ p.elapsed = events[th]
    BY <2>3
  <2>5. \A q \in prefixes : Crosses(q) => events[th] <= q.elapsed
    BY <2>3
  <2> QED
    BY <1>3, <2>3, <2>4, <2>5 DEF Crosses
<1> QED
  BY <1>4, <1>5

(* Every attainment has half of its omissions below the threshold.          *)
LEMMA AttainmentEarnedIsTrue == StudyInv => AttainmentEarned
<1> SUFFICES ASSUME StudyInv, stage = "done", NEW th \in Threshold
             PROVE  /\ events[th] # Nothing => \E p \in prefixes :
                         p.elapsed = events[th] /\ p.count > 1 /\ 2 * Cardinality(Below(p.count, th)) >= p.count
                    /\ \A p \in prefixes :
                         (/\ 2 * Cardinality(Below(p.count, th)) > p.count
                          /\ p.median.status = "available") =>
                           events[th] # Nothing /\ events[th] <= p.elapsed
  BY DEF AttainmentEarned
<1>1. ASSUME events[th] # Nothing
      PROVE  \E p \in prefixes : p.elapsed = events[th] /\ p.count > 1 /\ 2 * Cardinality(Below(p.count, th)) >= p.count
  <2>1. PICK p \in prefixes : p.elapsed = events[th] /\ p.median.twice # Nothing /\ p.median.twice < 2 * th
    BY <1>1, AttainmentIsFirst
  <2> QED
    BY <2>1, CrossingIsEarned
<1>2. ASSUME NEW p \in prefixes, 2 * Cardinality(Below(p.count, th)) > p.count, p.median.status = "available"
      PROVE  events[th] # Nothing /\ events[th] <= p.elapsed
  <2>1. p.median.twice # Nothing /\ p.median.twice < 2 * th
    BY <1>2, CrossingIsEarned
  <2> QED
    BY <2>1, AttainmentIsFirst
<1> QED
  BY <1>1, <1>2

-----------------------------------------------------------------------------
(* The time by which half of the spacecraft are there.                      *)

\* A spacecraft's time: the one studied stands among the others as Nothing.
TimeOf(s, th) == IF s = Nothing THEN events[th] ELSE others[s]
Attained(th) == {s \in Others \union {Nothing} : TimeOf(s, th) # Nothing}
Within(t, th) == {s \in Attained(th) : TimeOf(s, th) <= t}
AttainedBy(t, th) ==
  Cardinality({x \in Others : others[x] # Nothing /\ others[x] <= t})
    + IF events[th] # Nothing /\ events[th] <= t THEN 1 ELSE 0

(* Who has attained by a time, counted with and without the one studied.    *)
LEMMA WithinIsAttained ==
  ASSUME NEW th, NEW t
  PROVE  /\ IsFiniteSet(Attained(th)) /\ IsFiniteSet(Within(t, th))
         /\ Cardinality(Within(t, th)) = AttainedBy(t, th)
<1>1. IsFiniteSet(Others) /\ Nothing \notin Others
  BY PrefixStudyAssumption
<1> DEFINE A == {x \in Others : others[x] # Nothing /\ others[x] <= t}
<1>2. IsFiniteSet(A) /\ Cardinality(A) \in Nat /\ Nothing \notin A
  BY <1>1, FS_Subset, FS_CardinalityType
<1>3. Within(t, th) = IF events[th] # Nothing /\ events[th] <= t THEN A \union {Nothing} ELSE A
  BY <1>1 DEF Within, Attained, TimeOf
<1>4. IsFiniteSet(Others \union {Nothing})
  BY <1>1, FS_AddElement
<1>5. IsFiniteSet(Attained(th))
  BY <1>4, FS_Subset DEF Attained
<1>6. IsFiniteSet(Within(t, th))
  BY <1>5, FS_Subset DEF Within
<1>7. AttainedBy(t, th) = Cardinality(A) + IF events[th] # Nothing /\ events[th] <= t THEN 1 ELSE 0
  BY DEF AttainedBy
<1> HIDE DEF A
<1>8. Cardinality(A \union {Nothing}) = Cardinality(A) + 1
  BY <1>2, FS_AddElement
<1>9. CASE events[th] # Nothing /\ events[th] <= t
  BY <1>2, <1>3, <1>5, <1>6, <1>7, <1>8, <1>9
<1>10. CASE ~(events[th] # Nothing /\ events[th] <= t)
  BY <1>2, <1>3, <1>5, <1>6, <1>7, <1>10
<1> QED
  BY <1>9, <1>10

(* The value in the middle of the list is the first time by which half of   *)
(* all of them are there.                                                   *)
LEMMA HalfAttainedIsTrue == StudyInv => HalfAttained
<1> DEFINE By(t, th) == Cardinality({x \in Others : others[x] # Nothing /\ others[x] <= t})
                          + IF events[th] # Nothing /\ events[th] <= t THEN 1 ELSE 0
           Half(th) == {t \in 0 .. Latest(Instant) : 2 * By(t, th) >= Cardinality(Others) + 1}
<1> SUFFICES ASSUME StudyInv, stage = "done", NEW th \in Threshold
             PROVE  FiftyPercent(th) = IF Half(th) = {} THEN Nothing ELSE Earliest(Half(th))
  BY DEF HalfAttained
<1>1. InputType /\ others \in [Others -> Instant \union {Nothing}]
  BY DEF StudyInv, Summarized
<1>2. /\ Instant \in SUBSET Nat /\ IsFiniteSet(Instant) /\ IsFiniteSet(Others)
      /\ Nothing \notin Nat /\ Nothing \notin Others
  BY PrefixStudyAssumption
<1>3. Instant # {}
  BY <1>1 DEF InputType
<1>4. Latest(Instant) \in Instant /\ \A u \in Instant : u <= Latest(Instant)
  <2>1. PICK m \in Instant : \A k \in Instant : k <= m
    BY <1>2, <1>3, GreatestNatural
  <2> QED
    BY <2>1 DEF Latest
<1> DEFINE n == Cardinality(Others) + 1
           k == (n + 1) \div 2
           T == Attained(th)
           f == [s \in T |-> TimeOf(s, th)]
<1>5. n \in Nat /\ n >= 1
  BY <1>2, FS_CardinalityType
<1> HIDE DEF n
<1>6. k \in Nat /\ k >= 1 /\ Middle(n) + 1 = k /\ \A b \in Nat : 2 * b >= n <=> b >= k
  BY <1>5 DEF Middle
<1>7. \A s \in T : TimeOf(s, th) \in Nat /\ TimeOf(s, th) <= Latest(Instant)
  <2> TAKE s \in T
  <2>1. CASE s = Nothing
    <3>1. TimeOf(s, th) = events[th] /\ events[th] # Nothing
      BY <2>1 DEF Attained, TimeOf
    <3>2. events[th] \in Nat /\ \E u \in Instant : events[th] <= u
      BY <3>1, AttainmentIsFirst
    <3>3. PICK u \in Instant : events[th] <= u
      BY <3>2
    <3>4. u \in Nat /\ Latest(Instant) \in Nat /\ u <= Latest(Instant)
      BY <1>2, <1>4
    <3>5. events[th] <= Latest(Instant)
      BY <3>2, <3>3, <3>4
    <3> QED
      BY <3>1, <3>2, <3>5
  <2>2. CASE s # Nothing
    <3>1. s \in Others /\ TimeOf(s, th) = others[s] /\ others[s] # Nothing
      BY <2>2 DEF Attained, TimeOf
    <3> QED
      BY <1>1, <1>2, <1>4, <3>1
  <2> QED
    BY <2>1, <2>2
<1>8. f \in [T -> Nat] /\ DOMAIN f = T
  BY <1>7
<1>9. \A t : /\ IsFiniteSet(T) /\ IsFiniteSet(Within(t, th))
             /\ Cardinality(Within(t, th)) = By(t, th) /\ By(t, th) \in Nat
  <2> TAKE t
  <2>1. AttainedBy(t, th) = By(t, th)
    BY DEF AttainedBy
  <2> HIDE DEF By
  <2> QED
    BY <2>1, WithinIsAttained, FS_CardinalityType
<1>10. FiftyPercent(th) = IF Cardinality(T) > Middle(n) THEN Ranked(f, Middle(n) + 1) ELSE Nothing
  BY DEF FiftyPercent, TimeOf, Attained, n
<1>11. Half(th) = {t \in 0 .. Latest(Instant) : By(t, th) >= k}
  <2>1. \A t : 2 * By(t, th) >= n <=> By(t, th) >= k
    <3> HIDE DEF By, k
    <3> QED
      BY <1>6, <1>9
  <2> HIDE DEF By, k
  <2> QED
    BY <2>1 DEF n
<1>12. Cardinality(T) \in Nat
  BY <1>9, FS_CardinalityType
<1> HIDE DEF f, k, T, By, Half
<1>13. CASE Cardinality(T) >= k
  <2> DEFINE v == Ranked(f, k)
             Under == {x \in T : f[x] < v}
             UpToIt == {x \in T : f[x] <= v}
  <2>1. k \in 1 .. Cardinality(T)
    BY <1>6, <1>12, <1>13
  <2>2. /\ v \in {f[x] : x \in T} /\ v \in Nat
        /\ Cardinality(Under) < k /\ k <= Cardinality(UpToIt)
    BY <1>8, <1>9, <2>1, RankedIsRanked
  <2>3. v \in 0 .. Latest(Instant)
    <3>1. PICK x \in T : v = f[x]
      BY <2>2
    <3>2. f[x] = TimeOf(x, th)
      BY DEF f
    <3> HIDE DEF v
    <3> QED
      BY <1>2, <1>4, <1>7, <2>2, <3>1, <3>2
  <2> HIDE DEF v
  <2>4. UpToIt = Within(v, th)
    BY DEF Within, T, f
  <2>5. v \in Half(th)
    <3>1. By(v, th) >= k
      BY <1>6, <1>9, <2>2, <2>4
    <3> QED
      BY <1>11, <2>3, <3>1
  <2>6. ASSUME NEW t \in Half(th), ~(v <= t) PROVE FALSE
    <3>1. t \in Nat /\ t < v /\ By(t, th) >= k
      BY <1>2, <1>4, <1>11, <2>2, <2>6
    <3>2. Within(t, th) \in SUBSET Under
      <4> SUFFICES ASSUME NEW x \in Within(t, th) PROVE x \in T /\ f[x] < v
        OBVIOUS
      <4>1. x \in T /\ f[x] = TimeOf(x, th) /\ TimeOf(x, th) <= t
        BY DEF Within, T, f
      <4>2. TimeOf(x, th) \in Nat
        BY <1>7, <4>1
      <4> QED
        BY <2>2, <3>1, <4>1, <4>2
    <3>3. IsFiniteSet(Under)
      BY <1>9, FS_Subset
    <3> HIDE DEF Under
    <3>4. Cardinality(Within(t, th)) <= Cardinality(Under) /\ Cardinality(Under) \in Nat
      BY <3>2, <3>3, FS_Subset, FS_CardinalityType
    <3> QED
      BY <1>6, <1>9, <2>2, <3>1, <3>4
  <2>7. Half(th) \in SUBSET Nat /\ Half(th) # {}
    BY <1>2, <1>4, <1>11, <2>5
  <2>8. Earliest(Half(th)) \in Half(th) /\ \A u \in Half(th) : Earliest(Half(th)) <= u
    BY <2>7, EarliestIsLeast
  <2>9. Earliest(Half(th)) = v
    BY <2>2, <2>5, <2>6, <2>7, <2>8
  <2>10. FiftyPercent(th) = v
    BY <1>6, <1>10, <1>12, <1>13, <1>5 DEF v, Middle
  <2> QED
    BY <2>7, <2>9, <2>10
<1>14. CASE ~(Cardinality(T) >= k)
  <2>1. Half(th) = {}
    <3> SUFFICES ASSUME NEW t \in Half(th) PROVE FALSE
      OBVIOUS
    <3>1. By(t, th) >= k
      BY <1>11
    <3>2. Within(t, th) \in SUBSET T
      BY DEF Within, T
    <3>3. Cardinality(Within(t, th)) <= Cardinality(T)
      BY <1>9, <3>2, FS_Subset
    <3> QED
      BY <1>6, <1>9, <1>12, <1>14, <3>1, <3>3
  <2>2. FiftyPercent(th) = Nothing
    BY <1>5, <1>6, <1>10, <1>12, <1>14 DEF Middle
  <2> QED
    BY <2>1, <2>2
<1> QED
  BY <1>13, <1>14

(* Every number of the report is earned by the fits it is about             *)
(* (prefix_summary, attainment, population_summary).                        *)
THEOREM ReportIsEarned == StudySpec => []ReportEarned
<1>1. StudyInv => ReportEarned
  BY SummaryOfOnePrefixIsTrue, AttainmentEarnedIsTrue, HalfAttainedIsTrue DEF ReportEarned
<1> QED
  BY <1>1, StudyFollowsItsPlan, PTL

=============================================================================
