---------------------------- MODULE OrbitProductProofs ----------------------------
(***************************************************************************)
(* OrbitProduct for every position file, window, set of GMAT installations  *)
(* and number of faults: what is accepted was fitted, exported and assessed,*)
(* under the GMAT it was prepared for unless that was updated behind a      *)
(* comparison, and no checkpoint is touched again.                          *)
(* Of the rows of the file, each in the window is kept or rejected, once,   *)
(* and of each epoch the best is kept.                                      *)
(***************************************************************************)
EXTENDS OrbitProduct, OrderingProofs, TLAPS

USE DEF FitConfig

-----------------------------------------------------------------------------
(* The GMAT of the manifest, but for an update that no command has seen.    *)
Recorded(r) == r \in Runtime /\ (~updated => r = manifest.runtime)

(* A fit of a stage is of its script, an export of the fit.                 *)
Fitted(s) ==
  \E r \in Runtime : Recorded(r) /\ stage[s].fitted = [of |-> stage[s].script, runtime |-> r]
Exported(s) ==
  \E r \in Runtime : Recorded(r) /\ stage[s].candidate = [fit |-> stage[s].fitted, runtime |-> r]

(* Where a command is at work on a stage, and where it hands the product out. *)
Working    == {"stage", "fit", "fitting", "fitted", "export", "exporting", "assess"}
Delivering == {"deliver", "delivering"}
Preparing  == {"checking", "manifest", "directory"}

File == {"script", "fitted", "checkpoint", "candidate"}

Place == {"idle", "reading", "validating", "recording"} \cup Preparing \cup Working
         \cup Delivering

Command == [at : Place, stage : Stage \cup {None}, runtime : Runtime \cup {None},
            failed : BOOLEAN]

(* Commands and directories have their shape.                               *)
Shape ==
  /\ proc \in Command
  /\ proc.at \in {"directory"} \cup Working => proc.stage \in Stage
  /\ proc.at = "manifest" => proc.runtime \in Runtime
  /\ stage = [s \in Stage |-> [f \in File |-> stage[s][f]]]

(* Without a manifest nothing is there; a manifest is written once, before  *)
(* anything else.                                                           *)
Prepares ==
  /\ ~HasManifest =>
       /\ quality = None /\ stage = [s \in Stage |-> NoFiles]
       /\ proc.at \in {"idle", "checking", "manifest"}
  /\ HasManifest => proc.at \notin {"checking", "manifest"}
  /\ proc.at = "directory" =>
       /\ quality = None
       /\ \A s \in Stage : stage[s].checkpoint = None

(* Each script is of the observations its stage is for.                     *)
ScriptsMatch ==
  \A s \in Stage : stage[s].script # None => stage[s].script = Subset(s)

(* A stage at work runs under the GMAT of the manifest, or was overtaken by *)
(* an update.                                                               *)
SameRuntime ==
  /\ runtime \in Runtime
  /\ HasManifest => manifest.runtime \in Runtime
  /\ proc.at \in Working => Recorded(runtime)
  /\ proc.at \in {"fitting", "exporting"} => Recorded(proc.runtime)

(* A checkpoint is of the fit of its stage; how far the present fit is.     *)
Checkpointed(s) == stage[s].checkpoint = stage[s].fitted /\ Fitted(s)

Fits ==
  /\ \A s \in Stage : stage[s].checkpoint # None => Checkpointed(s)
  /\ proc.at \in {"fit", "fitting", "fitted"} => stage[proc.stage].checkpoint = None
  /\ proc.at = "fitted" => Fitted(proc.stage)
  /\ proc.at \in {"export", "exporting", "assess"} => Checkpointed(proc.stage)
  /\ proc.at = "assess" => Exported(proc.stage)

(* A stage that was assessed and passed.                                    *)
Passed(s) ==
  Checkpointed(s) /\ Exported(s) /\ good[s] /\ WellFormed(stage[s].candidate)

(* The final stage is taken up behind a validation that passed, delivery    *)
(* behind both; only what was delivered is recorded as accepted, and no     *)
(* command is at work on an accepted product.                               *)
Assessed ==
  /\ proc.at \in Working /\ proc.stage = "final" => Passed("validation")
  /\ proc.at \in Delivering => Passed("validation") /\ Passed("final")
  /\ proc.at = "recording" /\ ~proc.failed =>
       Passed("validation") /\ Passed("final") /\ product = stage["final"].candidate
  /\ Accepted =>
       /\ Passed("validation") /\ Passed("final")
       /\ product = quality.oem /\ product = stage["final"].candidate
       /\ proc.at \in {"idle", "reading", "validating"}

ProductInv == Shape /\ Prepares /\ ScriptsMatch /\ SameRuntime /\ Fits /\ Assessed

-----------------------------------------------------------------------------
(* Records of commands.                                                     *)

(* What EXCEPT leaves of the record of a command.                           *)
LEMMA CommandExcept ==
  ASSUME NEW c \in Command, NEW a \in Place
  PROVE  /\ [c EXCEPT !.at = a] \in Command
         /\ [c EXCEPT !.at = a].at = a
         /\ [c EXCEPT !.at = a].stage = c.stage
         /\ [c EXCEPT !.at = a].runtime = c.runtime
         /\ [c EXCEPT !.at = a].failed = c.failed
BY DEF Command

(* ... also with its stage,                                                 *)
LEMMA CommandStage ==
  ASSUME NEW c \in Command, NEW a \in Place, NEW s \in Stage
  PROVE  /\ [c EXCEPT !.at = a, !.stage = s] \in Command
         /\ [c EXCEPT !.at = a, !.stage = s].at = a
         /\ [c EXCEPT !.at = a, !.stage = s].stage = s
         /\ [c EXCEPT !.at = a, !.stage = s].runtime = c.runtime
         /\ [c EXCEPT !.at = a, !.stage = s].failed = c.failed
BY DEF Command

(* ... or with its failure.                                                 *)
LEMMA CommandFails ==
  ASSUME NEW c \in Command, NEW a \in Place, NEW b \in BOOLEAN
  PROVE  /\ [c EXCEPT !.at = a, !.failed = b] \in Command
         /\ [c EXCEPT !.at = a, !.failed = b].at = a
         /\ [c EXCEPT !.at = a, !.failed = b].stage = c.stage
         /\ [c EXCEPT !.at = a, !.failed = b].runtime = c.runtime
         /\ [c EXCEPT !.at = a, !.failed = b].failed = b
BY DEF Command

(* No command.                                                              *)
LEMMA IdleIs ==
  /\ Idle \in Command /\ Idle.at = "idle" /\ Idle.failed = FALSE
  /\ [Idle EXCEPT !.at = "reading"] \in Command
  /\ [Idle EXCEPT !.at = "reading"].at = "reading"
BY DEF Idle, Command, Place

(* Writing one file of a stage leaves the others alone.                     *)
LEMMA WriteIs ==
  ASSUME Shape, NEW s \in Stage, NEW field \in File, NEW content, Write(s, field, content)
  PROVE  /\ stage' = [t \in Stage |-> [f \in File |-> stage'[t][f]]]
         /\ \A t \in Stage, f \in File :
              stage'[t][f] = IF t = s /\ f = field THEN content ELSE stage[t][f]
<1>1. stage = [t \in Stage |-> [f \in File |-> stage[t][f]]]
  BY DEF Shape
<1>2. stage' = [stage EXCEPT ![s] = [stage[s] EXCEPT ![field] = content]]
  BY DEF Write
<1>3. \A t \in Stage : stage'[t] = IF t = s THEN [stage[s] EXCEPT ![field] = content]
                                   ELSE stage[t]
  BY <1>1, <1>2
<1>4. \A t \in Stage : stage[t] = [f \in File |-> stage[t][f]]
  BY <1>1
<1>5. \A f \in File : [stage[s] EXCEPT ![field] = content][f] =
                      IF f = field THEN content ELSE stage[s][f]
  BY <1>4
<1>6. [stage[s] EXCEPT ![field] = content] =
      [f \in File |-> IF f = field THEN content ELSE stage[s][f]]
  BY <1>4
<1>7. DOMAIN stage' = Stage
  BY <1>1, <1>2
<1>8. stage' = [t \in Stage |-> stage'[t]]
  BY <1>1, <1>2
<1>9. \A t \in Stage : stage'[t] = [f \in File |-> stage'[t][f]]
  BY <1>3, <1>4, <1>6
<1> QED
  BY <1>3, <1>5, <1>8, <1>9

(* What is not decided by the command stays as long as the files do.        *)
LEMMA Frame ==
  ASSUME UNCHANGED <<prepared, stage>>, updated => updated'
  PROVE  /\ HasManifest' = HasManifest
         /\ \A r : Recorded(r) => Recorded(r)'
         /\ \A s \in Stage : /\ Subset(s)' = Subset(s)
                             /\ (Checkpointed(s) => Checkpointed(s)')
                             /\ (Passed(s) => Passed(s)')
                             /\ stage'[s] = stage[s]
         /\ manifest' = manifest
BY DEF prepared, HasManifest, Recorded, Fitted, Exported, Subset, Held, Checkpointed, Passed,
       WellFormed

(* A step of a command that changes neither files nor verdict keeps what is *)
(* said of the files, if its new place is one where it may be.              *)
LEMMA QuietStep ==
  ASSUME ProductInv, UNCHANGED <<prepared, gmat, stage, quality, product>>,
         proc' \in Command,
         proc'.at \in {"directory"} \cup Working => proc'.stage \in Stage,
         proc'.at = "manifest" => proc'.runtime \in Runtime,
         HasManifest => proc'.at \notin {"checking", "manifest", "directory"},
         ~HasManifest => proc'.at \in {"idle", "checking", "manifest"},
         proc'.at \in Working => Recorded(runtime),
         proc'.at \notin {"fitting", "fitted", "exporting"},
         proc'.at = "fit" => stage[proc'.stage].checkpoint = None,
         proc'.at = "export" => Checkpointed(proc'.stage),
         proc'.at # "assess",
         proc'.at \in Working /\ proc'.stage = "final" => Passed("validation"),
         proc'.at \in Delivering => Passed("validation") /\ Passed("final"),
         proc'.at = "recording" => proc'.failed,
         Accepted => proc'.at \in {"idle", "reading", "validating"}
  PROVE  ProductInv'
<1>1. /\ HasManifest' = HasManifest /\ manifest' = manifest
      /\ \A s \in Stage : /\ Subset(s)' = Subset(s)
                          /\ (Checkpointed(s) => Checkpointed(s)')
                          /\ (Passed(s) => Passed(s)')
                          /\ stage'[s] = stage[s]
      /\ stage' = stage /\ quality' = quality /\ product' = product
      /\ runtime' = runtime /\ updated' = updated
      /\ Accepted' = Accepted
  BY Frame DEF Accepted, gmat
<1>2. Shape'
  BY <1>1 DEF ProductInv, Shape
<1>3. Prepares'
  BY <1>1 DEF ProductInv, Prepares
<1>4. ScriptsMatch' /\ SameRuntime'
  BY <1>1 DEF ProductInv, ScriptsMatch, SameRuntime, Recorded
<1>5. Fits'
  <2>1. proc'.at = "export" => Checkpointed(proc.stage)'
    BY <1>1 DEF Checkpointed, Fitted, Recorded
  <2> QED
    BY <1>1, <2>1 DEF ProductInv, Fits
<1>6. Assessed'
  BY <1>1 DEF ProductInv, Assessed, Stage
<1> QED
  BY <1>2, <1>3, <1>4, <1>5, <1>6 DEF ProductInv

-----------------------------------------------------------------------------
(* An empty directory satisfies the invariant.                              *)
LEMMA InitInv == Init => ProductInv
<1> SUFFICES ASSUME Init PROVE ProductInv
  OBVIOUS
<1>1. /\ proc = Idle /\ quality = None /\ stage = [s \in Stage |-> NoFiles]
      /\ manifest = NoManifest
  BY DEF Init
<1>2. ~HasManifest /\ ~Accepted
  BY <1>1 DEF HasManifest, NoManifest, Accepted
<1>3. \A s \in Stage : stage[s].checkpoint = None /\ stage[s].script = None
  BY <1>1 DEF NoFiles
<1>4. stage = [s \in Stage |-> [f \in File |-> stage[s][f]]]
  BY <1>1 DEF NoFiles, File
<1>5. Shape
  BY <1>1, <1>4, IdleIs DEF Shape, Working
<1>6. Prepares /\ ScriptsMatch /\ SameRuntime
  BY <1>1, <1>2, <1>3, IdleIs DEF Init, Prepares, ScriptsMatch, SameRuntime, Working, Delivering
<1>7. Fits /\ Assessed
  BY <1>1, <1>2, <1>3, IdleIs DEF Fits, Assessed, Working, Delivering
<1> QED
  BY <1>5, <1>6, <1>7 DEF ProductInv

(* A command begins,                                                        *)
LEMMA RunInv == ProductInv /\ Run => ProductInv'
<1> SUFFICES ASSUME ProductInv, Run PROVE ProductInv'
  OBVIOUS
<1>1. /\ proc.at = "idle" /\ proc \in Command
      /\ UNCHANGED <<prepared, gmat, stage, quality, product>>
  BY DEF Run, At, ProductInv, Shape
<1>2. PICK a \in {"checking", "reading"} : /\ proc' = [proc EXCEPT !.at = a]
                                           /\ HasManifest <=> a = "reading"
  BY DEF Run, Goto
<1>3. proc' \in Command /\ proc'.at = a
  BY <1>1, <1>2, CommandExcept DEF Place, Preparing
<1>4. Accepted => HasManifest
  BY DEF ProductInv, Prepares, Accepted
<1> QED
  BY <1>1, <1>2, <1>3, <1>4, QuietStep DEF Working, Delivering

(* ... looks at GMAT,                                                       *)
LEMMA CheckRuntimeInv == ProductInv /\ CheckRuntime => ProductInv'
<1> SUFFICES ASSUME ProductInv, CheckRuntime PROVE ProductInv'
  OBVIOUS
<1>1. /\ proc.at = "checking" /\ proc \in Command /\ ~HasManifest /\ ~Accepted
      /\ UNCHANGED <<prepared, gmat, stage, quality, product>>
  BY DEF CheckRuntime, At, ProductInv, Shape, Prepares, Accepted
<1>2. CASE proc' = Idle
  BY <1>1, <1>2, IdleIs, QuietStep DEF Working, Delivering
<1>3. CASE runtime \in Covering /\ proc' = [proc EXCEPT !.at = "manifest", !.runtime = runtime]
  <2>1. runtime \in Runtime
    BY <1>3, ProductAssumption
  <2>2. proc' \in Command /\ proc'.at = "manifest" /\ proc'.runtime = runtime
    BY <1>1, <1>3, <2>1 DEF Command, Place, Preparing
  <2> QED
    BY <1>1, <2>1, <2>2, QuietStep DEF Working, Delivering
<1> QED
  BY <1>2, <1>3 DEF CheckRuntime, End

(* ... reads what was prepared,                                             *)
LEMMA ReadPreparedInv == ProductInv /\ ReadPrepared => ProductInv'
<1> SUFFICES ASSUME ProductInv, ReadPrepared PROVE ProductInv'
  OBVIOUS
<1>1. /\ proc.at = "reading" /\ proc \in Command /\ HasManifest
      /\ UNCHANGED <<prepared, gmat, stage, quality, product>>
  BY DEF ReadPrepared, At, ProductInv, Shape, Prepares
<1>2. CASE proc' = Idle
  BY <1>1, <1>2, IdleIs, QuietStep DEF Working, Delivering
<1>3. CASE proc' = [proc EXCEPT !.at = "validating"]
  <2>1. proc' \in Command /\ proc'.at = "validating"
    BY <1>1, <1>3, CommandExcept DEF Place
  <2> QED
    BY <1>1, <2>1, QuietStep DEF Working, Delivering
<1>4. CASE /\ ~Accepted /\ runtime = manifest.runtime
           /\ proc' = [proc EXCEPT !.at = "stage", !.stage = "validation"]
  <2>1. proc' \in Command /\ proc'.at = "stage" /\ proc'.stage = "validation"
    <3>1. "stage" \in Place /\ "validation" \in Stage
      BY DEF Place, Working, Stage
    <3> QED
      BY <1>1, <1>4, <3>1, CommandStage
  <2>2. Recorded(runtime)
    BY <1>4 DEF ProductInv, SameRuntime, Recorded
  <2> QED
    BY <1>1, <1>4, <2>1, <2>2, QuietStep DEF Stage, Delivering
<1> QED
  BY <1>2, <1>3, <1>4 DEF ReadPrepared, Goto, End

(* What a place of work says of the product and GMAT.                       *)
LEMMA AtWork ==
  ASSUME ProductInv, proc.at \in Working
  PROVE  /\ ~Accepted /\ HasManifest /\ Recorded(runtime)
         /\ proc \in Command /\ proc.stage \in Stage
         /\ proc.stage = "final" => Passed("validation")
BY DEF ProductInv, Shape, Prepares, SameRuntime, Assessed, Working

(* ... takes up a stage,                                                    *)
LEMMA RunStageInv == ProductInv /\ RunStage => ProductInv'
<1> SUFFICES ASSUME ProductInv, RunStage PROVE ProductInv'
  OBVIOUS
<1>1. /\ proc.at = "stage"
      /\ UNCHANGED <<prepared, gmat, stage, quality, product>>
  BY DEF RunStage, At
<1>2. /\ ~Accepted /\ HasManifest /\ Recorded(runtime)
      /\ proc \in Command /\ proc.stage \in Stage
      /\ proc.stage = "final" => Passed("validation")
  BY <1>1, AtWork DEF Working
<1>3. CASE proc' = [proc EXCEPT !.at = "recording", !.failed = TRUE]
  <2>1. proc' \in Command /\ proc'.at = "recording" /\ proc'.failed
    BY <1>2, <1>3, CommandFails DEF Place
  <2> QED
    BY <1>1, <1>2, <2>1, QuietStep DEF Working, Delivering
<1>4. CASE /\ stage[proc.stage].checkpoint # None
           /\ proc' = [proc EXCEPT !.at = "export"]
  <2>1. proc' \in Command /\ proc'.at = "export" /\ proc'.stage = proc.stage
    BY <1>2, <1>4, CommandExcept DEF Place, Working
  <2>2. Checkpointed(proc.stage)
    BY <1>2, <1>4 DEF ProductInv, Fits
  <2> QED
    BY <1>1, <1>2, <2>1, <2>2, QuietStep DEF Delivering
<1>5. CASE /\ stage[proc.stage].checkpoint = None
           /\ proc' = [proc EXCEPT !.at = "fit"]
  <2>1. proc' \in Command /\ proc'.at = "fit" /\ proc'.stage = proc.stage
    BY <1>2, <1>5, CommandExcept DEF Place, Working
  <2> QED
    BY <1>1, <1>2, <1>5, <2>1, QuietStep DEF Delivering
<1> QED
  BY <1>3, <1>4, <1>5 DEF RunStage, Goto, Record

(* ... judges it,                                                           *)
LEMMA AssessInv == ProductInv /\ Assess => ProductInv'
<1> SUFFICES ASSUME ProductInv, Assess PROVE ProductInv'
  OBVIOUS
<1> DEFINE passed == WellFormed(stage[proc.stage].candidate) /\ good[proc.stage]
<1>1. /\ proc.at = "assess"
      /\ UNCHANGED <<prepared, gmat, stage, quality, product>>
      /\ proc' = IF proc.stage = "validation" /\ passed
                   THEN [proc EXCEPT !.at = "stage", !.stage = "final"]
                   ELSE [proc EXCEPT !.at = IF passed THEN "deliver" ELSE "recording",
                                     !.failed = ~passed]
  BY DEF Assess, At
<1>2. /\ ~Accepted /\ HasManifest /\ Recorded(runtime)
      /\ proc \in Command /\ proc.stage \in Stage
      /\ proc.stage = "final" => Passed("validation")
  BY <1>1, AtWork DEF Working
<1>3. passed => Passed(proc.stage)
  BY <1>1 DEF ProductInv, Fits, Passed
<1> HIDE DEF passed
<1>4. CASE ~passed
  <2>1. proc' = [proc EXCEPT !.at = "recording", !.failed = TRUE]
    BY <1>1, <1>4
  <2>2. proc' \in Command /\ proc'.at = "recording" /\ proc'.failed
    BY <1>2, <2>1, CommandFails DEF Place
  <2> QED
    BY <1>1, <1>2, <2>2, QuietStep DEF Working, Delivering
<1>5. CASE passed /\ proc.stage = "validation"
  <2>1. proc' \in Command /\ proc'.at = "stage" /\ proc'.stage = "final"
    BY <1>1, <1>2, <1>5, CommandStage DEF Place, Working, Stage
  <2> QED
    BY <1>1, <1>2, <1>3, <1>5, <2>1, QuietStep DEF Stage, Delivering
<1>6. CASE passed /\ proc.stage = "final"
  <2>1. proc' = [proc EXCEPT !.at = "deliver", !.failed = FALSE]
    BY <1>1, <1>6
  <2>2. proc' \in Command /\ proc'.at = "deliver"
    BY <1>2, <2>1, CommandFails DEF Place, Delivering
  <2> QED
    BY <1>1, <1>2, <1>3, <1>6, <2>2, QuietStep DEF Working
<1> QED
  BY <1>2, <1>4, <1>5, <1>6 DEF Stage

(* ... ends, is killed, or fails.                                           *)
LEMMA EndInv == ProductInv /\ (Validate \/ Crash \/ StageFails) => ProductInv'
<1> SUFFICES ASSUME ProductInv, Validate \/ Crash \/ StageFails PROVE ProductInv'
  OBVIOUS
<1>1. UNCHANGED <<prepared, gmat, stage, quality, product>>
  BY DEF Validate, Crash, StageFails
<1>2. CASE proc' = Idle
  BY <1>1, <1>2, IdleIs, QuietStep DEF Working, Delivering
<1>3. CASE StageFails
  <2>1. proc' = [proc EXCEPT !.at = "recording", !.failed = TRUE]
        /\ proc.at \in Working \cup Delivering
    BY <1>3 DEF StageFails, Record, Working, Delivering
  <2>2. proc' \in Command /\ proc'.at = "recording" /\ proc'.failed
    <3>1. proc \in Command /\ "recording" \in Place /\ TRUE \in BOOLEAN
      BY DEF Place, ProductInv, Shape
    <3> QED
      BY <2>1, <3>1, CommandFails
  <2>3. ~Accepted /\ HasManifest
    BY <2>1 DEF ProductInv, Prepares, Assessed, Working, Delivering
  <2> QED
    BY <1>1, <2>2, <2>3, QuietStep DEF Working, Delivering
<1> QED
  BY <1>2, <1>3 DEF Validate, Crash, End

(* What is said of fits stays as long as files and places do.               *)
LEMMA FitsFrame ==
  ASSUME ProductInv, UNCHANGED <<prepared, proc, stage>>, updated => updated'
  PROVE  Fits'
<1>1. /\ proc' = proc /\ stage' = stage
      /\ \A r : Recorded(r) => Recorded(r)'
      /\ \A s \in Stage : Checkpointed(s) => Checkpointed(s)'
  BY Frame
<1>2. \A s \in Stage : Fitted(s) => Fitted(s)'
  BY <1>1 DEF Fitted
<1>3. \A s \in Stage : Exported(s) => Exported(s)'
  BY <1>1 DEF Exported
<1>4. proc.at \in Working => proc.stage \in Stage
  BY DEF ProductInv, Shape
<1>5. PICK t : t = proc.stage
  OBVIOUS
<1>6. /\ proc.at = "fitted" => Fitted(t)'
      /\ proc.at \in {"export", "exporting", "assess"} => Checkpointed(t)'
      /\ proc.at = "assess" => Exported(t)'
  <2>1. /\ proc.at = "fitted" => Fitted(t)
        /\ proc.at \in {"export", "exporting", "assess"} => Checkpointed(t)
        /\ proc.at = "assess" => Exported(t)
    BY <1>5 DEF ProductInv, Fits, Fitted, Checkpointed, Exported
  <2> QED
    BY <1>1, <1>2, <1>3, <1>4, <1>5, <2>1 DEF Working
<1>7. /\ proc'.at = "fitted" => Fitted(proc.stage)'
      /\ proc'.at \in {"export", "exporting", "assess"} => Checkpointed(proc.stage)'
      /\ proc'.at = "assess" => Exported(proc.stage)'
  BY <1>1, <1>5, <1>6 DEF Fitted, Checkpointed, Exported
<1> QED
  BY <1>1, <1>7 DEF ProductInv, Fits

(* GMAT changes at any time, but once a command has compared it an update   *)
(* is remembered, and what is put back is the one of the manifest.          *)
LEMMA GmatInv == ProductInv /\ (Update \/ Restore) => ProductInv'
<1> SUFFICES ASSUME ProductInv, Update \/ Restore PROVE ProductInv'
  OBVIOUS
<1>1. /\ UNCHANGED <<prepared, proc, stage, quality, product>>
      /\ updated => updated'
      /\ runtime' \in Runtime
  <2>1. CASE Update
    BY <2>1 DEF Update
  <2>2. CASE Restore
    BY <2>2, ProductAssumption DEF Restore, ProductInv, SameRuntime
  <2> QED
    BY <2>1, <2>2
<1>2. /\ HasManifest' = HasManifest /\ manifest' = manifest
      /\ \A r : Recorded(r) => Recorded(r)'
      /\ \A s \in Stage : /\ Subset(s)' = Subset(s)
                          /\ (Checkpointed(s) => Checkpointed(s)')
                          /\ (Passed(s) => Passed(s)')
                          /\ stage'[s] = stage[s]
      /\ stage' = stage /\ proc' = proc
      /\ Accepted' = Accepted
  BY <1>1, Frame DEF Accepted
<1>3. proc.at \in Working => Recorded(runtime)'
  <2>1. CASE Update
    BY <1>1, <2>1 DEF Update, Compared, Working, Recorded
  <2>2. CASE Restore /\ proc.at \in Working
    <3>1. runtime' = manifest.runtime
      BY <2>2, AtWork DEF Restore
    <3> QED
      BY <1>1, <1>2, <3>1 DEF Recorded
  <2> QED
    BY <2>1, <2>2
<1>4. Shape' /\ Prepares' /\ ScriptsMatch'
  BY <1>1, <1>2 DEF ProductInv, Shape, Prepares, ScriptsMatch
<1>5. SameRuntime'
  <2>1. proc.at \in {"fitting", "exporting"} => Recorded(proc.runtime)'
    BY <1>1 DEF ProductInv, SameRuntime, Recorded, prepared
  <2> QED
    BY <1>1, <1>2, <1>3, <2>1 DEF ProductInv, SameRuntime
<1>6. Fits'
  BY <1>1, <1>2, FitsFrame
<1>7. Assessed'
  BY <1>1, <1>2 DEF ProductInv, Assessed, Stage
<1> QED
  BY <1>4, <1>5, <1>6, <1>7 DEF ProductInv

(* Nothing happens.                                                         *)
LEMMA StutterInv == ProductInv /\ UNCHANGED vars => ProductInv'
<1> SUFFICES ASSUME ProductInv, UNCHANGED vars PROVE ProductInv'
  OBVIOUS
<1>1. UNCHANGED <<prepared, stage, gmat, quality, product, proc>>
  BY DEF vars, prepared, gmat
<1>2. /\ HasManifest' = HasManifest /\ manifest' = manifest
      /\ \A s \in Stage : /\ Subset(s)' = Subset(s)
                          /\ (Checkpointed(s) => Checkpointed(s)')
                          /\ (Passed(s) => Passed(s)')
                          /\ stage'[s] = stage[s]
      /\ Accepted' = Accepted
  BY <1>1, Frame DEF Accepted, gmat
<1>3. Shape' /\ Prepares' /\ ScriptsMatch' /\ SameRuntime'
  BY <1>1, <1>2 DEF ProductInv, Shape, Prepares, ScriptsMatch, SameRuntime, Recorded, gmat
<1>4. Fits'
  BY <1>1, FitsFrame DEF gmat
<1>5. Assessed'
  BY <1>1, <1>2 DEF ProductInv, Assessed, Stage
<1> QED
  BY <1>3, <1>4, <1>5 DEF ProductInv

-----------------------------------------------------------------------------
(* A step of a fit or an export writes one file of the stage at work.       *)

(* What such a step leaves of the two stages.                               *)
LEMMA WorkFrame ==
  ASSUME ProductInv, proc.at \in Working, UNCHANGED <<prepared, gmat>>,
         NEW field \in {"fitted", "checkpoint", "candidate"}, NEW content,
         Write(proc.stage, field, content)
  PROVE  /\ HasManifest' = HasManifest /\ manifest' = manifest
         /\ stage' = [t \in Stage |-> [f \in File |-> stage'[t][f]]]
         /\ \A t \in Stage :
              /\ stage'[t].script = stage[t].script
              /\ Subset(t)' = Subset(t)
              /\ t # proc.stage =>
                   /\ stage'[t].fitted = stage[t].fitted
                   /\ stage'[t].checkpoint = stage[t].checkpoint
                   /\ stage'[t].candidate = stage[t].candidate
                   /\ (Checkpointed(t) => Checkpointed(t)')
                   /\ (Passed(t) => Passed(t)')
         /\ stage'[proc.stage].fitted =
              IF field = "fitted" THEN content ELSE stage[proc.stage].fitted
         /\ stage'[proc.stage].checkpoint =
              IF field = "checkpoint" THEN content ELSE stage[proc.stage].checkpoint
         /\ stage'[proc.stage].candidate =
              IF field = "candidate" THEN content ELSE stage[proc.stage].candidate
<1>1. proc.stage \in Stage /\ Shape /\ field \in File
  BY AtWork DEF ProductInv, File
<1>2. /\ stage' = [t \in Stage |-> [f \in File |-> stage'[t][f]]]
      /\ \A t \in Stage, f \in File :
           stage'[t][f] = IF t = proc.stage /\ f = field THEN content ELSE stage[t][f]
  BY <1>1, WriteIs
<1>3. {"script", "fitted", "checkpoint", "candidate"} \subseteq File
  BY DEF File
<1>4. /\ HasManifest' = HasManifest /\ manifest' = manifest /\ good' = good /\ input' = input
      /\ updated' = updated
  BY DEF prepared, gmat, HasManifest
<1>5. \A t \in Stage :
        /\ stage'[t].script = stage[t].script
        /\ t # proc.stage =>
             /\ stage'[t].fitted = stage[t].fitted
             /\ stage'[t].checkpoint = stage[t].checkpoint
             /\ stage'[t].candidate = stage[t].candidate
  BY <1>2, <1>3
<1>6. \A t \in Stage : Subset(t)' = Subset(t)
  BY <1>4, <1>5 DEF Subset, Held
<1>7. \A t \in Stage : t # proc.stage => /\ (Checkpointed(t) => Checkpointed(t)')
                                         /\ (Passed(t) => Passed(t)')
  BY <1>4, <1>5 DEF Recorded, Fitted, Exported, Checkpointed, Passed, WellFormed
<1> QED
  BY <1>1, <1>2, <1>3, <1>4, <1>5, <1>6, <1>7

(* It keeps the invariant if what it writes is what its next place says of  *)
(* the stage, and if no checkpoint is touched.                              *)
LEMMA WorkStep ==
  ASSUME ProductInv, proc.at \in Working, NEW s \in Stage, s = proc.stage,
         UNCHANGED <<prepared, gmat, quality, product>>,
         NEW a \in Working \ {"stage"}, proc' \in Command, proc'.at = a, proc'.stage = s,
         a \in {"fitting", "exporting"} => Recorded(proc.runtime)',
         NEW field \in {"fitted", "checkpoint", "candidate"}, NEW content,
         Write(proc.stage, field, content),
         stage'[s].checkpoint # None => Checkpointed(s)',
         a \in {"fit", "fitting", "fitted"} => stage'[s].checkpoint = None,
         a = "fitted" => Fitted(s)',
         a \in {"export", "exporting", "assess"} => Checkpointed(s)',
         a = "assess" => Exported(s)'
  PROVE  ProductInv'
<1>1. /\ ~Accepted /\ HasManifest /\ Recorded(runtime)
      /\ s = "final" => Passed("validation")
  BY AtWork
<1>2. /\ HasManifest' /\ manifest' = manifest /\ updated' = updated /\ runtime' = runtime
      /\ stage' = [t \in Stage |-> [f \in File |-> stage'[t][f]]]
      /\ \A t \in Stage :
           /\ stage'[t].script = stage[t].script
           /\ Subset(t)' = Subset(t)
           /\ t # s =>
                /\ stage'[t].checkpoint = stage[t].checkpoint
                /\ (Checkpointed(t) => Checkpointed(t)')
                /\ (Passed(t) => Passed(t)')
  BY <1>1, WorkFrame DEF gmat
<1>3. a \in Working
  OBVIOUS
<1>4. ~Accepted'
  BY <1>1 DEF Accepted
<1>5. Shape'
  BY <1>2, <1>3 DEF Shape, Working
<1>6. Prepares'
  BY <1>2, <1>3 DEF Prepares, Working
<1>7. ScriptsMatch' /\ SameRuntime'
  <2>1. Recorded(runtime)'
    BY <1>1, <1>2 DEF Recorded
  <2>2. SameRuntime'
    BY <1>1, <1>2, <2>1 DEF ProductInv, SameRuntime, Recorded
  <2> QED
    BY <1>2, <2>2 DEF ProductInv, ScriptsMatch
<1>8. Fits'
  <2>1. \A t \in Stage : stage'[t].checkpoint # None => Checkpointed(t)'
    BY <1>2 DEF ProductInv, Fits
  <2> QED
    BY <2>1 DEF Fits, Checkpointed, Fitted, Exported, Recorded
<1>9. Assessed'
  <2>1. s = "final" => Passed("validation")'
    BY <1>1, <1>2 DEF Stage
  <2> QED
    BY <1>3, <1>4, <2>1 DEF Assessed, Working, Delivering
<1> QED
  BY <1>5, <1>6, <1>7, <1>8, <1>9 DEF ProductInv

(* What GMAT has read is of the manifest, but for an update.                *)
LEMMA ReadIsRecorded ==
  ASSUME ProductInv, proc.at \in {"fitting", "exporting"}, NEW r \in HasRead
  PROVE  Recorded(r)
BY DEF ProductInv, SameRuntime, HasRead, Working

(* GMAT starts and ends a fit whose stage has no checkpoint,                *)
LEMMA FitInv == ProductInv /\ (StartFit \/ EndFit) => ProductInv'
<1> SUFFICES ASSUME ProductInv, StartFit \/ EndFit PROVE ProductInv'
  OBVIOUS
<1>1. /\ proc.at \in {"fit", "fitting"} /\ proc.at \in Working
      /\ UNCHANGED <<prepared, gmat, quality, product>>
  BY DEF StartFit, EndFit, At, Working
<1>2. /\ Recorded(runtime) /\ runtime \in Runtime /\ proc \in Command /\ proc.stage \in Stage
      /\ stage[proc.stage].checkpoint = None
  BY <1>1, AtWork DEF ProductInv, Fits, SameRuntime
<1>3. PICK s \in Stage : s = proc.stage
  BY <1>2
<1>4. CASE StartFit
  <2>1. Write(proc.stage, "fitted", Torn)
        /\ proc' = [proc EXCEPT !.at = "fitting", !.runtime = runtime]
    BY <1>4 DEF StartFit, StartGmat
  <2>2. stage'[s].checkpoint = None
    BY <1>1, <1>2, <1>3, <2>1, WorkFrame
  <2>3. "fitting" \in Working \ {"stage"} /\ "fitting" \in Place
    BY DEF Working, Place
  <2>4. proc' \in Command /\ proc'.at = "fitting" /\ proc'.stage = s /\ proc'.runtime = runtime
    BY <1>2, <1>3, <2>1, <2>3 DEF Command
  <2>5. Recorded(proc.runtime)'
    BY <1>1, <1>2, <2>4 DEF Recorded, prepared, gmat
  <2> QED
    BY <1>1, <1>3, <2>1, <2>2, <2>3, <2>4, <2>5, WorkStep
<1>5. CASE EndFit
  <2>1. PICK r \in HasRead :
          Write(proc.stage, "fitted", [of |-> stage[proc.stage].script, runtime |-> r])
    BY <1>5 DEF EndFit
  <2>2. /\ stage'[s].checkpoint = None /\ stage'[s].script = stage[s].script
        /\ stage'[s].fitted = [of |-> stage[s].script, runtime |-> r]
    BY <1>1, <1>2, <1>3, <2>1, WorkFrame
  <2>3. "fitted" \in Working \ {"stage"} /\ "fitted" \in Place
    BY DEF Working, Place
  <2>4. proc' \in Command /\ proc'.at = "fitted" /\ proc'.stage = s
    BY <1>2, <1>3, <1>5, <2>3, CommandExcept DEF EndFit, Goto
  <2>5. Recorded(r)
    BY <1>5, <2>1, ReadIsRecorded DEF EndFit, At
  <2>6. Fitted(s)'
    BY <1>1, <2>2, <2>5 DEF Fitted, Recorded, prepared, gmat
  <2> QED
    BY <1>1, <1>3, <2>1, <2>2, <2>3, <2>4, <2>6, WorkStep
<1> QED
  BY <1>4, <1>5

(* ... its checkpoint is of it,                                             *)
LEMMA CheckpointInv == ProductInv /\ SaveCheckpoint => ProductInv'
<1> SUFFICES ASSUME ProductInv, SaveCheckpoint PROVE ProductInv'
  OBVIOUS
<1>1. /\ proc.at = "fitted" /\ proc.at \in Working
      /\ UNCHANGED <<prepared, gmat, quality, product>>
      /\ Write(proc.stage, "checkpoint", stage[proc.stage].fitted)
      /\ proc' = [proc EXCEPT !.at = "export"]
  BY DEF SaveCheckpoint, At, Working, Goto
<1>2. proc \in Command /\ proc.stage \in Stage
  BY <1>1, AtWork
<1>3. PICK s \in Stage : s = proc.stage
  BY <1>2
<1>4. Fitted(s)
  BY <1>1, <1>3 DEF ProductInv, Fits, Fitted
<1>5. /\ stage'[s].checkpoint = stage[s].fitted /\ stage'[s].fitted = stage[s].fitted
      /\ stage'[s].script = stage[s].script
  BY <1>1, <1>2, <1>3, WorkFrame
<1>6. Checkpointed(s)'
  BY <1>1, <1>4, <1>5 DEF Checkpointed, Fitted, Recorded, prepared, gmat
<1>7. "export" \in Working \ {"stage"} /\ "export" \in Place
  BY DEF Working, Place
<1>8. proc' \in Command /\ proc'.at = "export" /\ proc'.stage = s
  BY <1>1, <1>2, <1>3, <1>7, CommandExcept
<1> QED
  BY <1>1, <1>3, <1>6, <1>7, <1>8, WorkStep

(* ... and the export writes the candidate only.                            *)
LEMMA ExportInv == ProductInv /\ (StartExport \/ EndExport) => ProductInv'
<1> SUFFICES ASSUME ProductInv, StartExport \/ EndExport PROVE ProductInv'
  OBVIOUS
<1>1. /\ proc.at \in {"export", "exporting"} /\ proc.at \in Working
      /\ UNCHANGED <<prepared, gmat, quality, product>>
      /\ \E content : Write(proc.stage, "candidate", content)
  BY DEF StartExport, EndExport, At, Working
<1>2. /\ Recorded(runtime) /\ runtime \in Runtime /\ proc \in Command /\ proc.stage \in Stage
  BY <1>1, AtWork DEF ProductInv, SameRuntime
<1>3. PICK s \in Stage : s = proc.stage
  BY <1>2
<1>4. Checkpointed(s)
  BY <1>1, <1>3 DEF ProductInv, Fits, Checkpointed, Fitted
<1>5. /\ stage'[s].checkpoint = stage[s].checkpoint /\ stage'[s].fitted = stage[s].fitted
      /\ stage'[s].script = stage[s].script
  BY <1>1, <1>2, <1>3, WorkFrame
<1>6. Checkpointed(s)'
  BY <1>1, <1>4, <1>5 DEF Checkpointed, Fitted, Recorded, prepared, gmat
<1>7. CASE StartExport
  <2>1. Write(proc.stage, "candidate", Torn)
        /\ proc' = [proc EXCEPT !.at = "exporting", !.runtime = runtime]
    BY <1>7 DEF StartExport, StartGmat
  <2>2. "exporting" \in Working \ {"stage"} /\ "exporting" \in Place
    BY DEF Working, Place
  <2>3. proc' \in Command /\ proc'.at = "exporting" /\ proc'.stage = s /\ proc'.runtime = runtime
    BY <1>2, <1>3, <2>1, <2>2 DEF Command
  <2>4. Recorded(proc.runtime)'
    BY <1>1, <1>2, <2>3 DEF Recorded, prepared, gmat
  <2> QED
    BY <1>1, <1>3, <1>6, <2>1, <2>2, <2>3, <2>4, WorkStep
<1>8. CASE EndExport
  <2>1. PICK r \in HasRead :
          Write(proc.stage, "candidate", [fit |-> stage[proc.stage].fitted, runtime |-> r])
    BY <1>8 DEF EndExport
  <2>2. stage'[s].candidate = [fit |-> stage[s].fitted, runtime |-> r]
    BY <1>1, <1>2, <1>3, <2>1, WorkFrame
  <2>3. "assess" \in Working \ {"stage"} /\ "assess" \in Place
    BY DEF Working, Place
  <2>4. proc' \in Command /\ proc'.at = "assess" /\ proc'.stage = s
    BY <1>2, <1>3, <1>8, <2>3, CommandExcept DEF EndExport, Goto
  <2>5. Recorded(r)
    BY <1>8, <2>1, ReadIsRecorded DEF EndExport, At
  <2>6. Exported(s)'
    BY <1>1, <1>5, <2>2, <2>5 DEF Exported, Recorded, prepared, gmat
  <2> QED
    BY <1>1, <1>3, <1>6, <2>1, <2>3, <2>4, <2>6, WorkStep
<1> QED
  BY <1>7, <1>8

-----------------------------------------------------------------------------
(* Preparation: the manifest appears in an empty directory,                 *)
LEMMA ManifestInv == ProductInv /\ WriteManifest => ProductInv'
<1> SUFFICES ASSUME ProductInv, WriteManifest PROVE ProductInv'
  OBVIOUS
<1>1. /\ proc.at = "manifest" /\ proc \in Command /\ proc.runtime \in Runtime
      /\ ~HasManifest /\ quality = None /\ stage = [s \in Stage |-> NoFiles]
      /\ runtime \in Runtime /\ UNCHANGED <<gmat, stage, quality, product>>
      /\ manifest'.runtime = proc.runtime
      /\ proc' = [proc EXCEPT !.at = "directory", !.stage = "validation"]
  BY DEF WriteManifest, At, ProductInv, Shape, Prepares, SameRuntime
<1>2. proc' \in Command /\ proc'.at = "directory" /\ proc'.stage \in Stage
  <2>1. "directory" \in Place /\ "validation" \in Stage
    BY DEF Place, Preparing, Stage
  <2> QED
    BY <1>1, <2>1, CommandStage
<1>3. HasManifest' /\ ~Accepted'
  BY <1>1, ProductAssumption DEF HasManifest, Accepted
<1>4. \A s \in Stage : stage'[s].checkpoint = None /\ stage'[s].script = None
  BY <1>1 DEF NoFiles
<1>5. Shape'
  BY <1>1, <1>2 DEF ProductInv, Shape
<1>6. Prepares' /\ ScriptsMatch' /\ SameRuntime'
  BY <1>1, <1>2, <1>3, <1>4 DEF Prepares, ScriptsMatch, SameRuntime, Working, Delivering, gmat
<1>7. Fits' /\ Assessed'
  BY <1>2, <1>3, <1>4 DEF Fits, Assessed, Working, Delivering
<1> QED
  BY <1>5, <1>6, <1>7 DEF ProductInv

(* ... and the scripts of both stages are written before any fit.           *)
LEMMA ScriptInv == ProductInv /\ WriteScript => ProductInv'
<1> SUFFICES ASSUME ProductInv, WriteScript PROVE ProductInv'
  OBVIOUS
<1>1. /\ proc.at = "directory" /\ proc \in Command /\ proc.stage \in Stage /\ Shape
      /\ HasManifest /\ ~Accepted /\ quality = None
      /\ \A s \in Stage : stage[s].checkpoint = None
      /\ UNCHANGED <<prepared, gmat, quality, product>>
  BY DEF WriteScript, At, ProductInv, Shape, Prepares, Accepted
<1>2. CASE proc' = Idle /\ UNCHANGED stage
  BY <1>1, <1>2, IdleIs, QuietStep DEF Working, Delivering
<1>3. CASE /\ Write(proc.stage, "script", Subset(proc.stage))
           /\ proc' = IF proc.stage = "validation" THEN [proc EXCEPT !.stage = "final"]
                      ELSE [Idle EXCEPT !.at = "reading"]
  <2>1. /\ stage' = [t \in Stage |-> [f \in File |-> stage'[t][f]]]
        /\ \A t \in Stage, f \in File :
             stage'[t][f] = IF t = proc.stage /\ f = "script" THEN Subset(proc.stage)
                            ELSE stage[t][f]
    <3>1. "script" \in File
      BY DEF File
    <3> QED
      BY <1>1, <1>3, <3>1, WriteIs
  <2>2. \A t \in Stage : stage'[t].checkpoint = None
    BY <1>1, <2>1 DEF File
  <2>3. /\ HasManifest' /\ manifest' = manifest /\ ~Accepted'
        /\ \A t \in Stage : Subset(t)' = Subset(t)
    BY <1>1 DEF prepared, HasManifest, Accepted, Subset, Held
  <2>4. ScriptsMatch'
    BY <2>1, <2>3 DEF ProductInv, ScriptsMatch, File
  <2>5. /\ proc' \in Command
        /\ \/ proc'.at = "directory" /\ proc'.stage \in Stage
           \/ proc'.at = "reading"
    <3>1. CASE proc.stage = "validation"
      BY <1>1, <1>3, <3>1 DEF Command, Stage
    <3>2. CASE proc.stage # "validation"
      BY <1>3, <3>2, IdleIs
    <3> QED
      BY <3>1, <3>2
  <2>6. Shape'
    BY <2>1, <2>5 DEF Shape, Working
  <2>7. Prepares' /\ SameRuntime'
    BY <1>1, <2>2, <2>3, <2>5 DEF ProductInv, Prepares, SameRuntime, Working, Delivering, gmat
  <2>8. Fits' /\ Assessed'
    BY <2>2, <2>3, <2>5 DEF Fits, Assessed, Working, Delivering
  <2> QED
    BY <2>4, <2>6, <2>7, <2>8 DEF ProductInv
<1> QED
  BY <1>2, <1>3 DEF WriteScript, End

(* The product is handed out from the candidate that passed,                *)
LEMMA DeliverInv == ProductInv /\ (OpenProduct \/ FillProduct) => ProductInv'
<1> SUFFICES ASSUME ProductInv, OpenProduct \/ FillProduct PROVE ProductInv'
  OBVIOUS
<1>1. /\ proc.at \in Delivering /\ proc \in Command /\ HasManifest /\ ~Accepted
      /\ Passed("validation") /\ Passed("final")
      /\ UNCHANGED <<prepared, gmat, stage, quality>>
  BY DEF OpenProduct, FillProduct, At, Delivering, ProductInv, Shape, Prepares, Assessed
<1>2. /\ HasManifest' /\ manifest' = manifest /\ ~Accepted'
      /\ \A s \in Stage : /\ Subset(s)' = Subset(s)
                          /\ (Checkpointed(s) => Checkpointed(s)')
                          /\ (Passed(s) => Passed(s)')
      /\ stage' = stage /\ runtime' = runtime /\ updated' = updated
  BY <1>1, Frame DEF Accepted, gmat
<1>3. /\ proc' \in Command
      /\ \/ proc'.at = "delivering"
         \/ proc'.at = "recording" /\ product' = stage["final"].candidate
  <2>1. CASE OpenProduct
    BY <1>1, <2>1, CommandExcept DEF OpenProduct, Goto, Place, Delivering
  <2>2. CASE FillProduct
    BY <1>1, <2>2, CommandExcept DEF FillProduct, Goto, Place
  <2> QED
    BY <2>1, <2>2
<1>4. Shape'
  BY <1>2, <1>3 DEF ProductInv, Shape, Working
<1>5. Prepares' /\ ScriptsMatch' /\ SameRuntime'
  BY <1>1, <1>2, <1>3 DEF ProductInv, Prepares, ScriptsMatch, SameRuntime, Working
<1>6. Fits'
  BY <1>2, <1>3 DEF ProductInv, Fits
<1>7. Assessed'
  BY <1>1, <1>2, <1>3 DEF Assessed, Working, Delivering, Stage
<1> QED
  BY <1>4, <1>5, <1>6, <1>7 DEF ProductInv

(* ... and recorded as accepted only behind it.                             *)
LEMMA RecordInv == ProductInv /\ RecordQuality => ProductInv'
<1> SUFFICES ASSUME ProductInv, RecordQuality PROVE ProductInv'
  OBVIOUS
<1>1. /\ proc.at = "recording" /\ proc' = Idle /\ HasManifest
      /\ quality' = [accepted |-> ~proc.failed, oem |-> IF proc.failed THEN None ELSE product]
      /\ UNCHANGED <<prepared, gmat, stage, product>>
  BY DEF RecordQuality, At, End, ProductInv, Prepares
<1>2. /\ HasManifest' /\ manifest' = manifest /\ stage' = stage /\ runtime' = runtime
      /\ \A s \in Stage : /\ Subset(s)' = Subset(s)
                          /\ (Checkpointed(s) => Checkpointed(s)')
                          /\ (Passed(s) => Passed(s)')
  BY <1>1, Frame DEF gmat
<1>3. Accepted' => /\ Passed("validation") /\ Passed("final")
                   /\ product' = quality'.oem /\ product' = stage'["final"].candidate
  <2>1. Accepted' => ~proc.failed
    BY <1>1 DEF Accepted
  <2> QED
    BY <1>1, <1>2, <2>1 DEF ProductInv, Assessed
<1>4. Shape' /\ Prepares' /\ ScriptsMatch' /\ SameRuntime'
  BY <1>1, <1>2, IdleIs
  DEF ProductInv, Shape, Prepares, ScriptsMatch, SameRuntime, Working, Delivering
<1>5. Fits' /\ Assessed'
  BY <1>1, <1>2, <1>3, IdleIs DEF ProductInv, Fits, Assessed, Working, Delivering, Stage
<1> QED
  BY <1>4, <1>5 DEF ProductInv

-----------------------------------------------------------------------------
(* Every step keeps the invariant.                                          *)
LEMMA NextInv == ProductInv /\ [Next]_vars => ProductInv'
<1> SUFFICES ASSUME ProductInv, [Next]_vars PROVE ProductInv'
  OBVIOUS
<1>1. CASE Run
  BY <1>1, RunInv
<1>2. CASE CheckRuntime
  BY <1>2, CheckRuntimeInv
<1>3. CASE WriteManifest
  BY <1>3, ManifestInv
<1>4. CASE WriteScript
  BY <1>4, ScriptInv
<1>5. CASE ReadPrepared
  BY <1>5, ReadPreparedInv
<1>6. CASE RunStage
  BY <1>6, RunStageInv
<1>7. CASE StartFit \/ EndFit
  BY <1>7, FitInv
<1>8. CASE SaveCheckpoint
  BY <1>8, CheckpointInv
<1>9. CASE StartExport \/ EndExport
  BY <1>9, ExportInv
<1>10. CASE Assess
  BY <1>10, AssessInv
<1>11. CASE OpenProduct \/ FillProduct
  BY <1>11, DeliverInv
<1>12. CASE RecordQuality
  BY <1>12, RecordInv
<1>13. CASE Validate \/ Crash \/ StageFails
  BY <1>13, EndInv
<1>14. CASE Update \/ Restore
  BY <1>14, GmatInv
<1>15. CASE UNCHANGED vars
  BY <1>15, StutterInv
<1> QED
  BY <1>1, <1>2, <1>3, <1>4, <1>5, <1>6, <1>7, <1>8, <1>9, <1>10, <1>11, <1>12, <1>13,
     <1>14, <1>15
  DEF Next, CommandStep

(* The invariant always holds: scripts are of the observations of their     *)
(* stage, work is under the GMAT of the manifest or was overtaken by an     *)
(* update, checkpoints are of their fits, and the final stage, delivery and *)
(* acceptance come behind what was assessed.                                *)
THEOREM ProductInvariant == ProductSpec => []ProductInv
<1> QED
  BY InitInv, NextInv, PTL DEF ProductSpec

(* AcceptedWasAssessed: whatever was killed, repeated or updated, an        *)
(* accepted product is the candidate of a final fit of all observations,    *)
(* behind a validation that passed; both by the GMAT prepared for, unless   *)
(* that was updated while a command was past its comparison.                *)
THEOREM AcceptanceWasEarned == ProductSpec => []AcceptedWasAssessed
<1>1. ASSUME ProductInv, Accepted PROVE AcceptedWasAssessed
  <2>1. /\ Passed("validation") /\ Passed("final")
        /\ product = quality.oem /\ product = stage["final"].candidate
    BY <1>1 DEF ProductInv, Assessed
  <2>2. \A s \in Stage : Passed(s)
    BY <2>1 DEF Stage
  <2>3. Valid
    BY <1>1, <2>1, <2>2 DEF Valid, Passed
  <2>4. ASSUME NEW s \in Stage
        PROVE  /\ stage[s].candidate.fit.of = stage[s].script
               /\ stage[s].checkpoint = stage[s].candidate.fit
               /\ ~updated => /\ stage[s].candidate.runtime = manifest.runtime
                              /\ stage[s].candidate.fit.runtime = manifest.runtime
    <3>1. stage[s].checkpoint = stage[s].fitted /\ Fitted(s) /\ Exported(s)
      BY <2>2 DEF Passed, Checkpointed
    <3>2. PICK q \in Runtime :
            Recorded(q) /\ stage[s].fitted = [of |-> stage[s].script, runtime |-> q]
      BY <3>1 DEF Fitted
    <3>3. PICK r \in Runtime :
            Recorded(r) /\ stage[s].candidate = [fit |-> stage[s].fitted, runtime |-> r]
      BY <3>1 DEF Exported
    <3>4. stage[s].candidate.fit = stage[s].fitted /\ stage[s].candidate.runtime = r
      BY <3>3
    <3>5. stage[s].fitted.of = stage[s].script /\ stage[s].fitted.runtime = q
      BY <3>2
    <3> QED
      BY <3>1, <3>2, <3>3, <3>4, <3>5 DEF Recorded
  <2> QED
    BY <2>3, <2>4 DEF AcceptedWasAssessed
<1>2. ProductInv => AcceptedWasAssessed
  BY <1>1 DEF AcceptedWasAssessed
<1> QED
  BY <1>2, ProductInvariant, PTL

-----------------------------------------------------------------------------
(* What one step may not touch.                                             *)
Kept ==
  /\ \A s \in Stage : stage[s].checkpoint # None =>
       /\ stage'[s].checkpoint = stage[s].checkpoint
       /\ stage'[s].fitted = stage[s].fitted
  /\ Accepted => UNCHANGED <<quality, product>>

(* No step touches a fit with a checkpoint, or an accepted product.         *)
LEMMA KeptStep == ProductInv /\ [Next]_vars => [Kept]_vars
<1> SUFFICES ASSUME ProductInv, Next PROVE Kept
  OBVIOUS
<1>1. CASE OpenProduct \/ FillProduct \/ RecordQuality
  <2>1. proc.at \in {"deliver", "delivering", "recording"} /\ UNCHANGED stage
    BY <1>1 DEF OpenProduct, FillProduct, RecordQuality, At
  <2>2. ~Accepted
    BY <2>1 DEF ProductInv, Assessed
  <2> QED
    BY <2>1, <2>2 DEF Kept
<1>2. CASE StartFit \/ EndFit \/ SaveCheckpoint
  <2>1. /\ proc.at \in {"fit", "fitting", "fitted"} /\ proc.at \in Working
        /\ UNCHANGED <<prepared, gmat, quality, product>>
        /\ \E content : \E field \in {"fitted", "checkpoint", "candidate"} :
             Write(proc.stage, field, content)
    BY <1>2 DEF StartFit, EndFit, SaveCheckpoint, At, Working
  <2>2. stage[proc.stage].checkpoint = None
    BY <2>1 DEF ProductInv, Fits
  <2>3. \A s \in Stage : s # proc.stage => /\ stage'[s].checkpoint = stage[s].checkpoint
                                           /\ stage'[s].fitted = stage[s].fitted
    BY <2>1, WorkFrame
  <2> QED
    BY <2>1, <2>2, <2>3 DEF Kept
<1>3. CASE StartExport \/ EndExport
  <2>1. /\ proc.at \in Working /\ UNCHANGED <<prepared, gmat, quality, product>>
        /\ \E content : Write(proc.stage, "candidate", content)
    BY <1>3 DEF StartExport, EndExport, At, Working
  <2>2. \A s \in Stage : /\ stage'[s].checkpoint = stage[s].checkpoint
                         /\ stage'[s].fitted = stage[s].fitted
    BY <2>1, WorkFrame
  <2> QED
    BY <2>1, <2>2 DEF Kept
<1>4. CASE WriteScript
  <2>1. /\ proc.at = "directory" /\ UNCHANGED <<quality, product>>
        /\ \A s \in Stage : stage[s].checkpoint = None
    BY <1>4 DEF WriteScript, At, ProductInv, Prepares
  <2> QED
    BY <2>1 DEF Kept
<1>5. CASE Run \/ CheckRuntime \/ WriteManifest \/ ReadPrepared \/ RunStage \/ Assess
           \/ Validate \/ StageFails \/ Crash \/ Update \/ Restore
  <2>1. UNCHANGED <<stage, quality, product>>
    BY <1>5
    DEF Run, CheckRuntime, WriteManifest, ReadPrepared, RunStage, Assess, Validate,
        StageFails, Crash, Update, Restore
  <2> QED
    BY <2>1 DEF Kept
<1> QED
  BY <1>1, <1>2, <1>3, <1>4, <1>5 DEF Next, CommandStep

(* CheckpointsHold: a fit with a checkpoint is never touched again, and an  *)
(* accepted product neither.                                                *)
THEOREM CheckpointsAreNeverTouched == ProductSpec => CheckpointsHold
<1>1. ProductInv /\ [Next]_vars
      => [/\ \A s \in Stage : stage[s].checkpoint # None =>
               /\ stage'[s].checkpoint = stage[s].checkpoint
               /\ stage'[s].fitted = stage[s].fitted
          /\ Accepted => UNCHANGED <<quality, product>>]_vars
  BY KeptStep DEF Kept
<1> QED
  BY <1>1, ProductInvariant, PTL DEF ProductSpec, CheckpointsHold

-----------------------------------------------------------------------------
(* The screening of a file, row by row (load_bestxyz).                      *)

(* A row, and what screening makes of some of them.                         *)
Row == [epoch : Int \union {None}, sigma : Nat, sound : BOOLEAN, velocity : BOOLEAN]
Screening == [kept : SUBSET Nat, rejected : SUBSET Nat]
NothingScreened == [kept |-> {}, rejected |-> {}]

(* A row that may be fitted, and one that is preferred to another.          *)
Fittable(i) == InWindow(input[i]) /\ input[i].epoch # None /\ input[i].sound
NoWorse(k, i) ==
  /\ input[k].epoch = input[i].epoch
  /\ input[k].sigma < input[i].sigma \/ (input[k].sigma = input[i].sigma /\ k <= i)

(* The first n rows are accounted for: those of the window once each, kept  *)
(* or rejected, and of each epoch the best is kept, the first of equals.    *)
Accounted(acc, n) ==
  /\ acc \in Screening
  /\ acc.kept \intersect acc.rejected = {}
  /\ \A i : i \in acc.kept \/ i \in acc.rejected <=> i \in 1 .. n /\ InWindow(input[i])
  /\ \A i \in 1 .. n : Fittable(i) => \E k \in acc.kept : NoWorse(k, i)
  /\ \A i, k \in acc.kept : input[i].epoch = input[k].epoch => i = k
  /\ \A i \in acc.kept : Fittable(i)

(* One more row.                                                            *)
LEMMA RowAccounted ==
  ASSUME input \in Seq(Row), NEW n \in Nat, n + 1 \in 1 .. Len(input), NEW acc, Accounted(acc, n)
  PROVE  Accounted(ScreenRow(acc, n + 1), n + 1)
<1> DEFINE line == n + 1
           same == {i \in acc.kept : input[i].epoch = input[line].epoch}
           more == [kept |-> (acc.kept \ same) \union {line}, rejected |-> acc.rejected \union same]
           less == [kept |-> acc.kept, rejected |-> acc.rejected \union {line}]
<1>1. /\ acc \in Screening /\ acc.kept \in SUBSET Nat /\ acc.rejected \in SUBSET Nat
      /\ acc.kept \intersect acc.rejected = {}
      /\ \A i : i \in acc.kept \/ i \in acc.rejected <=> i \in 1 .. n /\ InWindow(input[i])
      /\ \A i \in 1 .. n : Fittable(i) => \E k \in acc.kept : NoWorse(k, i)
      /\ \A i, k \in acc.kept : input[i].epoch = input[k].epoch => i = k
      /\ \A i \in acc.kept : Fittable(i)
  BY DEF Accounted, Screening
<1>2. /\ line \in Nat /\ line \notin 1 .. n /\ \A i : i \in 1 .. line <=> i \in 1 .. n \/ i = line
      /\ \A i \in 1 .. line : i <= line /\ input[i] \in Row /\ input[i].sigma \in Nat
  <2>1. line \in Nat /\ line \notin 1 .. n /\ \A i : i \in 1 .. line <=> i \in 1 .. n \/ i = line
    OBVIOUS
  <2>2. \A i \in 1 .. line : i <= line /\ i \in 1 .. Len(input)
    OBVIOUS
  <2>3. \A i \in 1 .. Len(input) : input[i] \in Row
    OBVIOUS
  <2>4. \A row \in Row : row.sigma \in Nat
    BY DEF Row
  <2> QED
    BY <2>1, <2>2, <2>3, <2>4
<1>3. line \notin acc.kept /\ line \notin acc.rejected /\ \A i \in acc.kept : i \in 1 .. line
  BY <1>1, <1>2
<1> HIDE DEF line
<1>4. CASE ~InWindow(input[line])
  <2>1. ScreenRow(acc, line) = acc /\ ~Fittable(line)
    BY <1>4 DEF ScreenRow, Fittable
  <2>2. Accounted(acc, line)
    BY <1>1, <1>2, <1>4, <2>1 DEF Accounted
  <2> QED
    BY <2>1, <2>2 DEF line
<1>5. ASSUME InWindow(input[line]), Fittable(line) => \E k \in acc.kept : NoWorse(k, line)
      PROVE  Accounted(less, line)
  <2>1. less \in Screening /\ less.kept = acc.kept /\ less.rejected = acc.rejected \union {line}
    BY <1>1, <1>2 DEF Screening
  <2> HIDE DEF less
  <2>2. less.kept \intersect less.rejected = {}
    BY <1>1, <1>3, <2>1
  <2>3. \A i : i \in less.kept \/ i \in less.rejected <=> i \in 1 .. line /\ InWindow(input[i])
    BY <1>1, <1>2, <1>5, <2>1
  <2>4. \A i \in 1 .. line : Fittable(i) => \E k \in less.kept : NoWorse(k, i)
    <3>1. \A i \in 1 .. n : Fittable(i) => \E k \in less.kept : NoWorse(k, i)
      BY <1>1, <2>1
    <3>2. Fittable(line) => \E k \in less.kept : NoWorse(k, line)
      BY <1>5, <2>1
    <3> QED
      BY <1>2, <3>1, <3>2, Zenon
  <2> QED
    BY <1>1, <2>1, <2>2, <2>3, <2>4 DEF Accounted
<1>6. CASE InWindow(input[line]) /\ (input[line].epoch = None \/ ~input[line].sound)
  <2>1. ScreenRow(acc, line) = less /\ ~Fittable(line)
    BY <1>6 DEF ScreenRow, Fittable, Reject
  <2>2. Accounted(less, line)
    BY <1>5, <1>6, <2>1
  <2> QED
    BY <2>1, <2>2 DEF line
<1>7. CASE Fittable(line) /\ \E i \in same : input[line].sigma >= input[i].sigma
  <2>1. ScreenRow(acc, line) = less
    BY <1>7 DEF ScreenRow, Fittable, RetainBest, Reject
  <2>2. PICK k \in acc.kept : input[k].epoch = input[line].epoch /\ input[line].sigma >= input[k].sigma
    BY <1>7
  <2>3. NoWorse(k, line)
    <3>1. k <= line /\ input[k].sigma \in Nat /\ input[line].sigma \in Nat
      BY <1>2, <1>3
    <3> QED
      BY <2>2, <3>1 DEF NoWorse
  <2>4. Accounted(less, line)
    BY <1>5, <1>7, <2>3 DEF Fittable
  <2> QED
    BY <2>1, <2>4 DEF line
<1>8. CASE Fittable(line) /\ ~ \E i \in same : input[line].sigma >= input[i].sigma
  <2>1. ScreenRow(acc, line) = more
    BY <1>8 DEF ScreenRow, Fittable, RetainBest
  <2>2. /\ more.kept = (acc.kept \ same) \union {line} /\ more.rejected = acc.rejected \union same
        /\ more \in Screening
    BY <1>1, <1>2 DEF Screening
  <2> HIDE DEF more
  <2>3. more.kept \intersect more.rejected = {}
    BY <1>1, <1>3, <2>2
  <2>4. \A i : i \in more.kept \/ i \in more.rejected <=> i \in 1 .. line /\ InWindow(input[i])
    <3>1. InWindow(input[line])
      BY <1>8 DEF Fittable
    <3> QED
      BY <1>1, <1>2, <2>2, <3>1
  <2>5. ASSUME NEW i \in 1 .. line, Fittable(i) PROVE \E k \in more.kept : NoWorse(k, i)
    <3>1. CASE i = line
      <4>1. NoWorse(line, line)
        BY <1>2 DEF NoWorse
      <4> QED
        BY <2>2, <3>1, <4>1
    <3>2. CASE i # line
      <4>1. PICK k \in acc.kept : NoWorse(k, i)
        BY <1>1, <1>2, <2>5, <3>2
      <4>2. CASE k \in same
        <5>1. input[k].sigma \in Nat /\ input[line].sigma \in Nat /\ input[i].sigma \in Nat
          BY <1>2, <1>3
        <5>2. input[line].sigma < input[k].sigma /\ input[k].epoch = input[line].epoch
          BY <1>8, <4>2, <5>1
        <5>3. NoWorse(line, i)
          BY <4>1, <5>1, <5>2 DEF NoWorse
        <5> QED
          BY <2>2, <5>3
      <4>3. CASE k \notin same
        BY <2>2, <4>1, <4>3
      <4> QED
        BY <4>2, <4>3
    <3> QED
      BY <3>1, <3>2
  <2>6. \A i, k \in more.kept : input[i].epoch = input[k].epoch => i = k
    BY <1>1, <2>2
  <2>7. \A i \in more.kept : Fittable(i)
    BY <1>1, <1>8, <2>2
  <2>8. Accounted(more, line)
    BY <2>2, <2>3, <2>4, <2>5, <2>6, <2>7 DEF Accounted
  <2> QED
    BY <2>1, <2>8 DEF line
<1> QED
  BY <1>4, <1>6, <1>7, <1>8 DEF Fittable, line

(* g screens the rows up to the n-th.                                       *)
Screens(g, n) ==
  /\ g = [m \in 0 .. n |-> g[m]]
  /\ g[0] = NothingScreened
  /\ \A m \in 1 .. n : g[m] = ScreenRow(g[m - 1], m)

(* There is a function that screens the rows one after the other: the       *)
(* recursive definition in Screened defines one.                            *)
LEMMA ScreeningExists ==
  ASSUME NEW N \in Nat
  PROVE  \E g : Screens(g, N)
<1> DEFINE T == {n \in Nat : \E g : Screens(g, n)}
<1>1. 0 \in T
  <2> DEFINE g == [m \in 0 .. 0 |-> NothingScreened]
  <2>1. Screens(g, 0)
    BY DEF Screens
  <2> QED
    BY <2>1
<1>2. ASSUME NEW n \in Nat, n \in T PROVE n + 1 \in T
  <2>1. PICK g : Screens(g, n)
    BY <1>2
  <2> DEFINE h == [m \in 0 .. (n + 1) |-> IF m = n + 1 THEN ScreenRow(g[n], n + 1) ELSE g[m]]
  <2>2. h = [m \in 0 .. (n + 1) |-> h[m]]
    OBVIOUS
  <2>3. h[0] = NothingScreened
    BY <2>1 DEF Screens
  <2>4. ASSUME NEW m \in 1 .. (n + 1) PROVE h[m] = ScreenRow(h[m - 1], m)
    <3>1. CASE m = n + 1
      <4>1. h[m] = ScreenRow(g[n], n + 1) /\ m - 1 = n /\ h[n] = g[n]
        BY <3>1
      <4> HIDE DEF h
      <4> QED
        BY <3>1, <4>1
    <3>2. CASE m # n + 1
      <4>1. m \in 1 .. n /\ h[m] = g[m] /\ h[m - 1] = g[m - 1]
        BY <3>2
      <4>2. g[m] = ScreenRow(g[m - 1], m)
        BY <2>1, <4>1 DEF Screens
      <4> HIDE DEF h
      <4> QED
        BY <4>1, <4>2
    <3> QED
      BY <3>1, <3>2
  <2>5. Screens(h, n + 1)
    <3> HIDE DEF h
    <3> QED
      BY <2>2, <2>3, <2>4 DEF Screens
  <2> QED
    BY <2>5
<1>3. Nat \subseteq T
  <2> HIDE DEF T
  <2> QED
    BY <1>1, <1>2, NaturalInduction
<1> QED
  BY <1>3

(* What is screened is accounted for.                                       *)
LEMMA ScreenedAccounts ==
  ASSUME input \in Seq(Row)
  PROVE  Accounted(Screened, Len(input))
<1> DEFINE N == Len(input)
           Q(g) == g = [n \in 0 .. N |-> IF n = 0 THEN NothingScreened ELSE ScreenRow(g[n - 1], n)]
           f == CHOOSE g : Q(g)
<1>1. N \in Nat
  OBVIOUS
<1>2. Screened = f[N]
  BY DEF Screened, NothingScreened
<1>3. \E g : Q(g)
  <2> HIDE DEF N
  <2>1. PICK g : Screens(g, N)
    BY <1>1, ScreeningExists
  <2>2. \A m \in 0 .. N : g[m] = IF m = 0 THEN NothingScreened ELSE ScreenRow(g[m - 1], m)
    <3>1. g[0] = NothingScreened /\ \A m \in 1 .. N : g[m] = ScreenRow(g[m - 1], m)
      BY <2>1 DEF Screens
    <3>2. \A m \in 0 .. N : m = 0 \/ (m \in 1 .. N /\ m # 0)
      BY <1>1
    <3> QED
      BY <3>1, <3>2, Zenon
  <2>3. g = [m \in 0 .. N |-> g[m]]
    BY <2>1 DEF Screens
  <2>4. [m \in 0 .. N |-> g[m]] = [n \in 0 .. N |-> IF n = 0 THEN NothingScreened ELSE ScreenRow(g[n - 1], n)]
    BY <2>2
  <2> QED
    BY <2>3, <2>4
<1>4. Q(f)
  <2> HIDE DEF Q
  <2> QED
    BY <1>3
<1> DEFINE T == {n \in Nat : n <= N => Accounted(f[n], n)}
<1>5. \A n \in 0 .. N : f[n] = IF n = 0 THEN NothingScreened ELSE ScreenRow(f[n - 1], n)
  <2> HIDE DEF f, N
  <2> QED
    BY <1>4
<1> HIDE DEF f, Q
<1>6. 0 \in T
  <2>1. f[0] = NothingScreened
    BY <1>1, <1>5
  <2>2. Accounted(NothingScreened, 0)
    BY DEF Accounted, NothingScreened, Screening
  <2> QED
    BY <2>1, <2>2
<1>7. ASSUME NEW n \in Nat, n \in T PROVE n + 1 \in T
  <2> SUFFICES ASSUME n + 1 <= N PROVE Accounted(f[n + 1], n + 1)
    OBVIOUS
  <2>1. Accounted(f[n], n)
    BY <1>1, <1>7
  <2>2. n + 1 \in 0 .. N /\ n + 1 # 0 /\ (n + 1) - 1 = n /\ n + 1 \in 1 .. N
    BY <1>1
  <2>3. f[n + 1] = ScreenRow(f[n], n + 1)
    BY <1>5, <2>2
  <2>4. Accounted(ScreenRow(f[n], n + 1), n + 1)
    BY <2>1, <2>2, RowAccounted
  <2> QED
    BY <2>3, <2>4
<1>8. Nat \subseteq T
  <2> HIDE DEF T
  <2> QED
    BY <1>6, <1>7, NaturalInduction
<1>9. Accounted(f[N], N)
  BY <1>1, <1>8
<1> QED
  BY <1>2, <1>9

-----------------------------------------------------------------------------
(* The manifest is of the screened file.                                    *)
ManifestScreened ==
  /\ input \in Inputs
  /\ HasManifest => manifest.kept = Screened.kept /\ manifest.rejected = Screened.rejected

(* Only WriteManifest writes it, and the file stays.                        *)
LEMMA ScreenedKept == ManifestScreened /\ [Next]_vars => ManifestScreened'
<1> SUFFICES ASSUME ManifestScreened, [Next]_vars PROVE ManifestScreened'
  OBVIOUS
<1>1. input' = input
  BY DEF Next, CommandStep, vars, prepared, Run, CheckRuntime, WriteManifest, WriteScript, ReadPrepared,
     RunStage, StartFit, EndFit, SaveCheckpoint, StartExport, EndExport, Assess, OpenProduct, FillProduct,
     RecordQuality, Validate, StageFails, Crash, Update, Restore
<1>2. Screened' = Screened
  BY <1>1 DEF Screened, ScreenRow, InWindow, Reject, RetainBest
<1>3. CASE WriteManifest
  <2>1. manifest'.kept = Screened.kept /\ manifest'.rejected = Screened.rejected
    BY <1>3 DEF WriteManifest
  <2> QED
    BY <1>1, <1>2, <2>1 DEF ManifestScreened
<1>4. CASE manifest' = manifest
  BY <1>1, <1>2, <1>4 DEF ManifestScreened, HasManifest
<1>5. WriteManifest \/ manifest' = manifest
  BY DEF Next, CommandStep, vars, prepared, Run, CheckRuntime, WriteScript, ReadPrepared,
     RunStage, StartFit, EndFit, SaveCheckpoint, StartExport, EndExport, Assess, OpenProduct, FillProduct,
     RecordQuality, Validate, StageFails, Crash, Update, Restore
<1> QED
  BY <1>3, <1>4, <1>5

(* ObservationsAccounted: every row of the window is kept or rejected,      *)
(* once, of each epoch the best row is kept, and each fit is of what it is  *)
(* for (load_bestxyz, prepare, write_gmd).                                  *)
THEOREM ObservationsAreAccounted == ProductSpec => []ObservationsAccounted
<1>1. Init => ManifestScreened
  BY DEF Init, ManifestScreened, HasManifest, NoManifest
<1>2. ASSUME ManifestScreened, ProductInv PROVE ObservationsAccounted
  <2> SUFFICES ASSUME HasManifest PROVE ObservationsAccounted
    BY DEF ObservationsAccounted
  <2> DEFINE rows == {i \in DOMAIN input : InWindow(input[i])}
             fit == {i \in rows : input[i].epoch # None /\ input[i].sound}
  <2>1. input \in Seq(Row)
    BY <1>2, ProductAssumption DEF ManifestScreened, Row
  <2>2. DOMAIN input = 1 .. Len(input)
    BY <2>1
  <2>3. Accounted(Screened, Len(input))
    BY <2>1, ScreenedAccounts
  <2>4. /\ manifest.kept \intersect manifest.rejected = {}
        /\ \A i : i \in manifest.kept \/ i \in manifest.rejected
                    <=> i \in 1 .. Len(input) /\ InWindow(input[i])
        /\ \A i \in 1 .. Len(input) : Fittable(i) => \E k \in manifest.kept : NoWorse(k, i)
        /\ \A i, k \in manifest.kept : input[i].epoch = input[k].epoch => i = k
        /\ \A i \in manifest.kept : Fittable(i)
    BY <1>2, <2>3 DEF ManifestScreened, Accounted
  <2>5. \A i : i \in fit <=> i \in 1 .. Len(input) /\ Fittable(i)
    BY <2>2 DEF Fittable
  <2>6. manifest.kept \union manifest.rejected = rows
    BY <2>2, <2>4
  <2>7. manifest.kept \subseteq fit
    BY <2>4, <2>5
  <2>8. \A i \in fit : \E k \in manifest.kept :
          /\ input[k].epoch = input[i].epoch
          /\ input[k].sigma < input[i].sigma \/ (input[k].sigma = input[i].sigma /\ k <= i)
    BY <2>4, <2>5 DEF NoWorse
  <2>9. \A s \in Stage : stage[s].script # None =>
          stage[s].script = {i \in manifest.kept : s = "final" \/ input[i].epoch \notin Withheld}
    <3> TAKE s \in Stage
    <3>1. stage[s].script # None => stage[s].script = Subset(s)
      BY <1>2 DEF ProductInv, ScriptsMatch
    <3>2. Subset(s) = {i \in manifest.kept : s = "final" \/ input[i].epoch \notin Withheld}
      BY DEF Stage, Subset, Held
    <3> QED
      BY <3>1, <3>2
  <2>10. /\ manifest.kept \intersect manifest.rejected = {}
         /\ \A i, k \in manifest.kept : input[i].epoch = input[k].epoch => i = k
    BY <2>4
  <2> HIDE DEF rows, fit
  <2> QED
    BY <2>6, <2>7, <2>8, <2>9, <2>10 DEF ObservationsAccounted, rows, fit
<1> QED
  BY <1>1, <1>2, ScreenedKept, ProductInvariant, PTL DEF ProductSpec
=============================================================================
