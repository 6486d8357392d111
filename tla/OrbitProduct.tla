----------------------------- MODULE OrbitProduct -----------------------------
(***************************************************************************)
(* The GPS orbit product of one satellite (scripts/smooth_gps.py,          *)
(* dart/gmat.py, dart/io/gps.py): GPS fixes are screened and prepared into *)
(* a directory; GMAT fits them without the withheld ones ("validation"),   *)
(* then with all of them ("final"); each fit has a checkpoint, is exported *)
(* as an OEM and assessed; what passes twice is delivered.  The operator   *)
(* repeats `run` until the product is accepted; somebody may update GMAT's *)
(* data, also while a command runs.                                        *)
(***************************************************************************)
EXTENDS Integers, FiniteSets, Sequences

CONSTANTS
  Inputs,     \* position files: sequences of rows
  First, Stop, \* the window
  Withheld,   \* epochs of holdout_mask
  Enough,     \* training and withheld observations prepare asks for
  Runtime,    \* GMAT installations: program, weather, Earth orientation
  Covering,   \* those that cover the window
  MaxFaults,  \* bound: failures, crashes and updates
  Torn,       \* a file that is being written, or was when its writer died
  None

FitConfig ==
  /\ First \in Int /\ Stop \in Int /\ First < Stop /\ Withheld \subseteq Int
  /\ Covering \subseteq Runtime /\ None \notin Runtime /\ MaxFaults \in Nat
  /\ Enough.training \in Nat /\ Enough.withheld \in Nat
  /\ None \notin Int
  /\ Inputs \subseteq Seq([epoch : Int \union {None}, sigma : Nat,
                          sound : BOOLEAN, velocity : BOOLEAN])

ASSUME ProductAssumption == FitConfig

VARIABLES
  input,     \* the rows of the position file
  runtime,   \* GMAT as it is installed
  updated,   \* was it updated while a command was past its comparison?
  good,      \* [Stage -> does its fit meet every check of assess_stage?]
  proc,      \* the command that runs
  manifest,  \* manifest.json with the prepared observations
  stage,     \* [Stage -> the files of its directory]
  quality,   \* quality.json of the run
  product,   \* FOREST-N.oem
  faults

prepared == <<input, good, manifest>>
gmat == <<runtime, updated>>
vars == <<input, runtime, updated, good, proc, manifest, stage, quality, product, faults>>

Stage == {"validation", "final"}

\* A directory without manifest.json.
NoManifest == [runtime |-> None, kept |-> {}, rejected |-> {}]
HasManifest == manifest.runtime # None

Idle == [at |-> "idle", stage |-> None, runtime |-> None, failed |-> FALSE]

\* script: the inputs of GMAT; fitted: what the estimation wrote; checkpoint:
\* fit_complete.json; candidate: what the export wrote.
NoFiles == [script |-> None, fitted |-> None, checkpoint |-> None, candidate |-> None]

Init ==
  /\ input \in Inputs
  /\ runtime \in Runtime /\ updated = FALSE
  /\ good \in [Stage -> BOOLEAN]
  /\ proc = Idle
  /\ manifest = NoManifest /\ quality = None /\ product = None
  /\ stage = [s \in Stage |-> NoFiles]
  /\ faults = 0

-----------------------------------------------------------------------------
(* load_bestxyz.                                                           *)

\* A row whose receiver epoch is known and outside the window is passed over.
InWindow(row) == row.epoch = None \/ (First <= row.epoch /\ row.epoch <= Stop)

Reject(acc, line) == [kept |-> acc.kept, rejected |-> acc.rejected \union {line}]

(* Mutant: a later row of the same epoch replaces the earlier one. *)
RetainLast(acc, line) ==
  LET epoch == input[line].epoch
      same == {i \in acc.kept : input[i].epoch = epoch}
  IN  [acc EXCEPT !.kept = (@ \ same) \union {line}, !.rejected = @ \union same]

\* Of the rows of one epoch the best is kept, of equal ones the first.
RetainBest(acc, line) ==
  LET same == {i \in acc.kept : input[i].epoch = input[line].epoch}
  IN  IF \E i \in same : input[line].sigma >= input[i].sigma THEN Reject(acc, line)
      ELSE [kept |-> (acc.kept \ same) \union {line}, rejected |-> acc.rejected \union same]

\* A row without an epoch, or refused by its latency, a conflict of epochs, its
\* radius or its uncertainty, is rejected.
ScreenRow(acc, line) ==
  IF ~InWindow(input[line]) THEN acc
  ELSE IF input[line].epoch = None \/ ~input[line].sound THEN Reject(acc, line)
  ELSE RetainBest(acc, line)

Screened ==
  LET upTo[n \in 0 .. Len(input)] ==
        IF n = 0 THEN [kept |-> {}, rejected |-> {}] ELSE ScreenRow(upTo[n - 1], n)
  IN  upTo[Len(input)]

Held(lines) == {i \in lines : input[i].epoch \in Withheld}
Sufficient(lines) ==
  /\ Cardinality(lines \ Held(lines)) >= Enough.training
  /\ Cardinality(Held(lines)) >= Enough.withheld

-----------------------------------------------------------------------------
At(step) == proc.at = step
Goto(step) == proc' = [proc EXCEPT !.at = step]
Write(s, field, content) == stage' = [stage EXCEPT ![s][field] = content]

\* A command that raises, or returns.
End == proc' = Idle

\* `run`: a directory without a manifest is prepared first.
Run ==
  /\ At("idle")
  /\ Goto(IF HasManifest THEN "reading" ELSE "checking")
  /\ UNCHANGED <<prepared, gmat, stage, quality, product, faults>>

\* runtime_manifest: a missing file or missing coverage raises.
CheckRuntime ==
  /\ At("checking")
  /\ IF runtime \in Covering /\ Sufficient(Screened.kept)
       THEN proc' = [proc EXCEPT !.at = "manifest", !.runtime = runtime] ELSE End
  /\ UNCHANGED <<prepared, gmat, stage, quality, product, faults>>

\* The observations are on disk before the manifest that has their checksums.
WriteManifest ==
  /\ At("manifest")
  /\ manifest' = [runtime |-> proc.runtime, kept |-> Screened.kept,
                  rejected |-> Screened.rejected]
  /\ proc' = [proc EXCEPT !.at = "directory", !.stage = "validation"]
  /\ UNCHANGED <<input, good, gmat, stage, quality, product, faults>>

Subset(s) ==
  IF s = "validation" THEN manifest.kept \ Held(manifest.kept) ELSE manifest.kept

\* write_gmd, then write_script, which needs a velocity to start from.
WriteScript ==
  LET s == proc.stage IN
  /\ At("directory")
  /\ IF \E i \in Subset(s) : input[i].velocity
       THEN /\ Write(s, "script", Subset(s))
            /\ proc' = IF s = "validation" THEN [proc EXCEPT !.stage = "final"]
                       ELSE [Idle EXCEPT !.at = "reading"]
       ELSE End /\ UNCHANGED stage
  /\ UNCHANGED <<prepared, gmat, quality, product, faults>>

-----------------------------------------------------------------------------
(* execute.                                                                *)

\* validate_oem refuses a file whose records break off.
WellFormed(oem) == oem # Torn

\* An accepted run is validated again and not touched.
Accepted == quality # None /\ quality.accepted

(* Mutant: GMAT's data is not compared with the manifest. *)
ReadAnyRuntime ==
  /\ At("reading")
  /\ proc' = [proc EXCEPT !.at = IF Accepted THEN "validating" ELSE "stage", !.stage = "validation"]
  /\ UNCHANGED <<prepared, gmat, stage, quality, product, faults>>

ReadPrepared ==
  /\ At("reading")
  /\ IF Accepted THEN Goto("validating")
     ELSE IF runtime = manifest.runtime
       THEN proc' = [proc EXCEPT !.at = "stage", !.stage = "validation"]
       ELSE End
  /\ UNCHANGED <<prepared, gmat, stage, quality, product, faults>>

\* What run_stage and the deliveries raise is recorded.
Record == proc' = [proc EXCEPT !.at = "recording", !.failed = TRUE]

\* run_stage: a fit with a checkpoint is not repeated, if its files still match.
RunStage ==
  LET files == stage[proc.stage] IN
  /\ At("stage")
  /\ IF files.checkpoint # None
       THEN IF files.checkpoint = files.fitted THEN Goto("export") ELSE Record
       ELSE IF files.script # None THEN Goto("fit") ELSE Record
  /\ UNCHANGED <<prepared, gmat, stage, quality, product, faults>>

\* GmatConsole, which reads GMAT's data as it is when it starts or when it ends.
StartGmat(step) == proc' = [proc EXCEPT !.at = step, !.runtime = runtime]
HasRead == {proc.runtime, runtime}

\* It truncates its reports, and ...
StartFit ==
  /\ At("fit")
  /\ Write(proc.stage, "fitted", Torn)
  /\ StartGmat("fitting")
  /\ UNCHANGED <<prepared, gmat, quality, product, faults>>

\* ... has written them when it ends.
EndFit ==
  /\ At("fitting")
  /\ \E r \in HasRead :
       Write(proc.stage, "fitted", [of |-> stage[proc.stage].script, runtime |-> r])
  /\ Goto("fitted")
  /\ UNCHANGED <<prepared, gmat, quality, product, faults>>

(* Mutant: the checkpoint is written while GMAT still writes. *)
SaveCheckpointEarly ==
  /\ \/ /\ At("fitting") /\ stage[proc.stage].checkpoint = None
        /\ Write(proc.stage, "checkpoint", stage[proc.stage].fitted)
        /\ UNCHANGED proc
     \/ At("fitted") /\ Goto("export") /\ UNCHANGED stage
  /\ UNCHANGED <<prepared, gmat, quality, product, faults>>

SaveCheckpoint ==
  /\ At("fitted")
  /\ Write(proc.stage, "checkpoint", stage[proc.stage].fitted)
  /\ Goto("export")
  /\ UNCHANGED <<prepared, gmat, quality, product, faults>>

(* Mutant: the export's script still names the report of the fitted state. *)
StartExportTruncating ==
  /\ At("export")
  /\ stage' = [stage EXCEPT ![proc.stage].candidate = Torn, ![proc.stage].fitted = Torn]
  /\ StartGmat("exporting")
  /\ UNCHANGED <<prepared, gmat, quality, product, faults>>

\* The export's script starts from the fitted state, and leaves its report alone.
StartExport ==
  /\ At("export")
  /\ Write(proc.stage, "candidate", Torn)
  /\ StartGmat("exporting")
  /\ UNCHANGED <<prepared, gmat, quality, product, faults>>

EndExport ==
  /\ At("exporting")
  /\ \E r \in HasRead :
       Write(proc.stage, "candidate", [fit |-> stage[proc.stage].fitted, runtime |-> r])
  /\ Goto("assess")
  /\ UNCHANGED <<prepared, gmat, quality, product, faults>>

\* assess_stage, and where execute goes with its verdict.
Assess ==
  LET s == proc.stage IN
  /\ At("assess")
  /\ LET passed == WellFormed(stage[s].candidate) /\ good[s]
     IN  proc' = IF s = "validation" /\ passed
                   THEN [proc EXCEPT !.at = "stage", !.stage = "final"]
                   ELSE [proc EXCEPT !.at = IF passed THEN "deliver" ELSE "recording",
                                     !.failed = ~passed]
  /\ UNCHANGED <<prepared, gmat, stage, quality, product, faults>>

\* write_bytes truncates FOREST-N.oem, then fills it.
OpenProduct ==
  /\ At("deliver")
  /\ product' = Torn
  /\ Goto("delivering")
  /\ UNCHANGED <<prepared, gmat, stage, quality, faults>>

FillProduct ==
  /\ At("delivering")
  /\ product' = stage["final"].candidate
  /\ Goto("recording")
  /\ UNCHANGED <<prepared, gmat, stage, quality, faults>>

\* quality.json is replaced as one file.
RecordQuality ==
  /\ At("recording")
  /\ quality' = [accepted |-> ~proc.failed, oem |-> IF proc.failed THEN None ELSE product]
  /\ End
  /\ UNCHANGED <<prepared, gmat, stage, product, faults>>

\* validate_product: the delivered file, the final candidate and quality.json
\* name one OEM, and both stages still pass.
Valid ==
  /\ Accepted
  /\ product = quality.oem /\ stage["final"].candidate = quality.oem
  /\ \A s \in Stage : WellFormed(stage[s].candidate) /\ good[s]

Validate ==
  /\ At("validating")
  /\ End
  /\ UNCHANGED <<prepared, gmat, stage, quality, product, faults>>

-----------------------------------------------------------------------------
(* What goes wrong.                                                        *)
Fault == faults < MaxFaults /\ faults' = faults + 1

\* GMAT fails or takes too long (and is killed); the disk is full.
StageFails ==
  /\ proc.at \in {"fitting", "fitted", "exporting", "assess", "delivering"}
  /\ Fault /\ Record
  /\ UNCHANGED <<prepared, gmat, stage, quality, product>>

\* The command is killed with GMAT, or the machine goes down.
Crash ==
  /\ ~At("idle")
  /\ Fault /\ End
  /\ UNCHANGED <<prepared, gmat, stage, quality, product>>

\* execute compares GMAT with the manifest once, before the four times it runs it.
Compared ==
  proc.at \in {"stage", "fit", "fitting", "fitted", "export", "exporting", "assess"}

\* GMAT's data is updated, at any time, ...
Update ==
  /\ Fault
  /\ \E r \in Runtime \ {runtime} : runtime' = r
  /\ updated' = (updated \/ Compared)
  /\ UNCHANGED <<prepared, proc, stage, quality, product>>

\* ... and the operator can put the recorded one back.
Restore ==
  /\ runtime' \in IF HasManifest THEN {manifest.runtime} ELSE Covering
  /\ UNCHANGED <<prepared, updated, proc, stage, quality, product, faults>>

CommandStep ==
  \/ CheckRuntime \/ WriteManifest \/ WriteScript
  \/ ReadPrepared \/ RunStage \/ StartFit \/ EndFit \/ SaveCheckpoint
  \/ StartExport \/ EndExport \/ Assess \/ OpenProduct \/ FillProduct
  \/ RecordQuality \/ Validate

Next == Run \/ CommandStep \/ StageFails \/ Crash \/ Update \/ Restore

\* The operator repeats `run` until the product is accepted, under GMAT as the
\* manifest has it; a command that runs goes on.
ProductSpec ==
  /\ Init /\ [][Next]_vars
  /\ WF_vars(CommandStep)
  /\ WF_vars(Run /\ ~Accepted /\ (HasManifest => runtime = manifest.runtime))
  /\ SF_vars(Restore)

-----------------------------------------------------------------------------
(* Properties.                                                             *)

\* Every row of the window is kept or rejected, once; of each epoch the best
\* row is kept, the first of equals; what is fitted for validation has no
\* withheld row, what is fitted in the end has all.
ObservationsAccounted ==
  HasManifest =>
    LET rows == {i \in DOMAIN input : InWindow(input[i])}
        fit == {i \in rows : input[i].epoch # None /\ input[i].sound}
    IN
    /\ manifest.kept \intersect manifest.rejected = {}
    /\ manifest.kept \union manifest.rejected = rows
    /\ \A i \in fit : \E k \in manifest.kept :
         /\ input[k].epoch = input[i].epoch
         /\ input[k].sigma < input[i].sigma \/ (input[k].sigma = input[i].sigma /\ k <= i)
    /\ \A i, k \in manifest.kept : input[i].epoch = input[k].epoch => i = k
    /\ manifest.kept \subseteq fit
    /\ \A s \in Stage : stage[s].script # None =>
         stage[s].script = {i \in manifest.kept :
                              s = "final" \/ input[i].epoch \notin Withheld}

\* An accepted product is the OEM of the final fit of all observations, behind
\* a validation fit that passed without the withheld ones; validate confirms it.
\* Both are computed and exported by the GMAT that was prepared for, whatever is
\* updated, unless an update came after a command had compared it.
AcceptedWasAssessed ==
  Accepted =>
    /\ Valid
    /\ \A s \in Stage :
         /\ stage[s].candidate.fit.of = stage[s].script
         /\ stage[s].checkpoint = stage[s].candidate.fit
         /\ ~updated => /\ stage[s].candidate.runtime = manifest.runtime
                        /\ stage[s].candidate.fit.runtime = manifest.runtime

\* A fit with a checkpoint is never touched again, whatever is exported, killed
\* or repeated; an accepted product neither.
CheckpointsHold ==
  [][/\ \A s \in Stage : stage[s].checkpoint # None =>
          /\ stage'[s].checkpoint = stage[s].checkpoint
          /\ stage'[s].fitted = stage[s].fitted
     /\ Accepted => UNCHANGED <<quality, product>>]_vars

\* Once both stages are prepared, repeating `run` ends with the verdict the
\* observations deserve.
RunsSettle ==
  (\A s \in Stage : stage[s].script # None) ~>
    [](quality # None /\ quality.accepted = (good["validation"] /\ good["final"]))
=============================================================================
