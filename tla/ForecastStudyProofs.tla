------------------------- MODULE ForecastStudyProofs -------------------------
(***************************************************************************)
(* ForecastStudy for any number of commands, spacecraft, output names,     *)
(* planned fits and failures: who may write where, what that makes of the  *)
(* inputs of a fit, and why no run costs another its work.                 *)
(***************************************************************************)
EXTENDS ForecastStudy, TLAPS

-----------------------------------------------------------------------------
(* Types.                                                                  *)
AtStep == {"idle", "checking", "claiming", "caching", "acquiring", "filling", "sealing",
           "freezing", "replacing", "resealing", "running", "fitted", "publishing",
           "gathering", "staged", "cleaning"}
Gathered == UNION {[S -> SavedCase] : S \in SUBSET Case}
Command == [command : {"none", "study", "rerun", "rebuild", "export"}, step : AtStep,
            version : {4, 5}, out : Output \union {None}, source : Output \union {None},
            asked : SUBSET Case, todo : SUBSET (Category \union Craft \union Case),
            case : {None} \union Craft \union Case, run : {None} \union Run,
            gathered : Gathered]

Typed ==
  /\ cache \in [Craft -> {None} \union Snapshot]
  /\ proc \in [Process -> Command]
  /\ work \in [Output -> {None} \union Work]
  /\ output \in [Output -> {None} \union Publication]

-----------------------------------------------------------------------------
(* Who may write where.                                                    *)
Owns(p) ==
  proc[p].command \in {"study", "rerun"} /\ proc[p].step \notin {"idle", "checking", "claiming"}
Fills(p) == proc[p].step \in {"filling", "sealing"}

\* Only the command that made a working directory writes in it, and only the one
\* that made a snapshot fills it.
Exclusive ==
  /\ \A p \in Process : Owns(p) => work[proc[p].out] # None
  /\ \A p, q \in Process :
       /\ Owns(p) /\ Owns(q) /\ proc[p].out = proc[q].out => p = q
       /\ Fills(p) /\ Fills(q) /\ proc[p].case = proc[q].case => p = q

\* A snapshot is opened, filled and sealed, in that order.
Filled == [Opened EXCEPT !.data = "whole"]
Sealed == [Filled EXCEPT !.manifest = Contents(Filled)]
CacheInOrder == \A c \in Craft : cache[c] \in {None, Opened, Filled, Sealed}

-----------------------------------------------------------------------------
(* What a command knows of the disk, by its step; the inputs of a case c    *)
(* are frozen as those of a bundle are: Bundled(c).                         *)

\* Copied as it was, with its own manifest or none.
HalfFrozen(s) == s.manifest # None => s.data = "whole" /\ s.manifest.data = "whole"

Filling(p) ==
  LET now == proc[p] IN
  /\ now.step \in {"acquiring", "filling", "sealing"} => now.case \in Craft
  /\ now.step \in {"caching", "acquiring", "filling", "sealing"} => now.todo \subseteq Craft
  /\ now.step = "filling" => cache[now.case] = Opened
  /\ now.step = "sealing" => cache[now.case] = Filled

Freezing(p) ==
  LET now == proc[p]
      mine == work[now.out]
  IN
  /\ now.step \in {"caching", "acquiring", "filling", "sealing",
                   "freezing", "replacing", "resealing"} =>
       now.command = "study" /\ \A c \in Case : mine.saved[c] = None
  /\ now.step \in {"freezing", "replacing", "resealing"} =>
       /\ now.todo \subseteq now.asked
       /\ \A c \in now.asked \ now.todo : mine.inputs[c] = Bundled(c)
  /\ now.step \in {"replacing", "resealing"} =>
       /\ now.case \in now.todo
       /\ mine.inputs[now.case] # None /\ HalfFrozen(mine.inputs[now.case])
  /\ now.step = "resealing" => mine.inputs[now.case].prior = now.case[1]

Done(c, version, saved) == saved[c] # None /\ Finished(version, saved[c])

Fitting(p) ==
  LET now == proc[p]
      mine == work[now.out]
  IN
  now.step \in {"running", "fitted"} =>
    /\ now.command \in {"study", "rerun"} /\ now.todo \subseteq now.asked
    /\ now.command = "study" => \A c \in now.asked : mine.inputs[c] = Bundled(c)
    /\ \A c \in now.asked \ now.todo : Done(c, now.version, mine.saved)
    /\ \A c \in Case : mine.saved[c] # None => c \in now.asked
    /\ now.step = "fitted" \/ now.case # None =>
         /\ now.case \in now.todo /\ mine.saved[now.case] # None
         /\ mine.inputs[now.case] = Bundled(now.case)
    /\ now.step = "fitted" => now.run = Contents(Bundled(now.case))

Publishing(p) ==
  LET now == proc[p]
      mine == work[now.out]
  IN
  /\ now.step \notin {"gathering", "staged", "cleaning"} => now.gathered = << >>
  /\ now.step \in {"gathering", "staged"} =>
       \A c \in DOMAIN now.gathered : Sound(c, now.gathered[c]) /\ Len(now.gathered[c].runs) >= Fits
  /\ now.step \in {"publishing", "gathering", "staged"} /\ Owns(p) =>
       /\ now.source = now.out
       /\ \A c \in now.asked : Done(c, now.version, mine.saved)
       /\ \A c \in Case : mine.saved[c] # None => c \in now.asked
  /\ now.step \in {"gathering", "staged"} /\ Owns(p) =>
       /\ DOMAIN now.gathered =
            {c \in now.asked : now.step = "gathering" => c[1] \notin now.todo}
       /\ \A c \in DOMAIN now.gathered : now.gathered[c] = mine.saved[c]
  /\ now.step = "cleaning" =>
       /\ output[now.out] # None
       /\ \A c \in Case : mine.saved[c] # None =>
            c \in DOMAIN output[now.out].cases /\ output[now.out].cases[c] = mine.saved[c]

\* A command that runs has an output name; only runs of their own go through all
\* the steps.
Named(p) ==
  LET now == proc[p] IN
  /\ now.step # "idle" => now.out \in Output /\ now.command # "none"
  /\ now.step \in {"checking", "claiming", "cleaning"} => now.command \in {"study", "rerun"}
  /\ now.step \in {"checking", "claiming", "caching", "freezing"} => now.case = None
  /\ now.step = "publishing" => now.command = "rebuild" \/ now.source \in Output
  /\ now.step = "gathering" => now.command # "rebuild" /\ now.source \in Output

Local(p) == Named(p) /\ Filling(p) /\ Freezing(p) /\ Fitting(p) /\ Publishing(p)

\* The two invariants, name by name.
SoundWork(o) ==
  work[o] # None => \A c \in Case : work[o].saved[c] # None => Sound(c, work[o].saved[c])

WholeOutput(o) ==
  output[o] # None =>
    LET cases == output[o].cases IN
    /\ \A c \in DOMAIN cases : Sound(c, cases[c]) /\ Len(cases[c].runs) >= Fits
    /\ output[o].command \in {"study", "rerun"} =>
         /\ DOMAIN cases = output[o].asked
         /\ \A c \in DOMAIN cases : Finished(output[o].version, cases[c])

StudyInv ==
  /\ Typed /\ Exclusive /\ CacheInOrder
  /\ \A p \in Process : Local(p)
  /\ \A o \in Output : SoundWork(o) /\ WholeOutput(o)

-----------------------------------------------------------------------------
(* Values.                                                                 *)

\* No document is the absence of one.
LEMMA NoneIsNoDocument ==
  None \notin Snapshot /\ None \notin SavedCase /\ None \notin Work /\ None \notin Publication
  BY StudyAssumption

LEMMA EmptyGathered == << >> \in Gathered /\ DOMAIN << >> = {}
<1>1. << >> \in [{} -> SavedCase]
  OBVIOUS
<1>2. QED
  BY <1>1 DEF Gathered

\* The states of a snapshot, a case whose inputs are frozen and a new case.
LEMMA Documents ==
  /\ Opened \in Snapshot /\ Filled \in Snapshot /\ Sealed \in Snapshot
  /\ NewCase \in SavedCase /\ Idle \in Command
  /\ \A v \in {4, 5} : EmptyWork(v) \in Work
  /\ \A c \in Case : Bundled(c) \in Snapshot /\ Contents(Bundled(c)) \in Run
                     /\ Contents(Bundled(c)) = [data |-> "whole", prior |-> c[1]]
<1>1. Opened \in Snapshot /\ Filled \in Snapshot
  BY DEF Opened, Filled, Snapshot
<1>2. Sealed \in Snapshot
  BY DEF Opened, Filled, Sealed, Contents, Snapshot, Run
<1>3. NewCase \in SavedCase
  BY DEF NewCase, SavedCase
<1>4. Idle \in Command
  BY EmptyGathered DEF Idle, Command, AtStep
<1>5. \A v \in {4, 5} : EmptyWork(v) \in Work
  BY DEF EmptyWork, Work
<1>6. ASSUME NEW c \in Case
      PROVE  /\ Bundled(c) \in Snapshot /\ Contents(Bundled(c)) \in Run
             /\ Contents(Bundled(c)) = [data |-> "whole", prior |-> c[1]]
  BY DEF Case, Bundled, Contents, Snapshot, Run
<1>7. QED
  BY <1>1, <1>2, <1>3, <1>4, <1>5, <1>6

-----------------------------------------------------------------------------
(* What one step leaves alone.                                             *)

\* What a command knows of the disk stays true while it does not move and nobody
\* touches what it fills, owns or has published.
LEMMA OthersKnowStill ==
  ASSUME NEW q \in Process, Local(q), proc'[q] = proc[q],
         Fills(q) => cache'[proc[q].case] = cache[proc[q].case],
         Owns(q) => work'[proc[q].out] = work[proc[q].out],
         Owns(q) /\ output[proc[q].out] # None => output'[proc[q].out] = output[proc[q].out]
  PROVE  Local(q)'
<1> USE DEF Local, Owns
<1>1. Named(q)'
  BY DEF Named
<1>2. Filling(q)'
  BY DEF Filling, Fills
<1>3. Freezing(q)'
  BY DEF Freezing
<1>4. Fitting(q)'
  BY Zenon DEF Fitting, Done, Finished
<1>5. Publishing(q)'
  <2> DEFINE now == proc[q]
             mine == work[now.out]
  <2>1. now.step = "cleaning" => Owns(q)
    BY DEF Named
  <2>2. CASE ~Owns(q)
    BY <2>1, <2>2 DEF Publishing
  <2>3. CASE Owns(q) /\ now.step # "cleaning"
    <3>1. proc'[q] = now /\ work'[now.out] = mine
      BY <2>3
    <3>2. QED
      BY ONLY <2>3, <3>1, Publishing(q) DEF Publishing, Owns
  <2>4. CASE now.step = "cleaning"
    <3>1. output'[now.out] = output[now.out] /\ mine' = mine
      BY <2>1, <2>4 DEF Publishing
    <3>2. QED
      BY <2>4, <3>1 DEF Publishing
  <2>5. QED
    BY <2>2, <2>3, <2>4
<1>6. QED
  BY <1>1, <1>2, <1>3, <1>4, <1>5

\* A step of p: what it writes is its own.
LEMMA StudyStep ==
  ASSUME StudyInv, NEW p \in Process, Typed', CacheInOrder', Local(p)',
         \A q \in Process : q # p => proc'[q] = proc[q],
         \A c \in Craft : cache'[c] = cache[c]
           \/ \A q \in Process : Fills(q) /\ proc[q].case = c => q = p,
         \A o \in Output : work'[o] = work[o]
           \/ (SoundWork(o)' /\ \A q \in Process : Owns(q) /\ proc[q].out = o => q = p),
         \A o \in Output : output'[o] = output[o] \/ (output[o] = None /\ WholeOutput(o)'),
         Owns(p)' => /\ work'[proc'[p].out] # None
                     /\ \A q \in Process : Owns(q) /\ proc[q].out = proc'[p].out => q = p,
         Fills(p)' => \A q \in Process : Fills(q) /\ proc[q].case = proc'[p].case => q = p
  PROVE  StudyInv'
<1>1. \A q \in Process : q # p => (Owns(q)' <=> Owns(q)) /\ (Fills(q)' <=> Fills(q))
  BY DEF Owns, Fills
<1>2. ASSUME NEW q \in Process, q # p
      PROVE  /\ Fills(q) => cache'[proc[q].case] = cache[proc[q].case]
             /\ Owns(q) => work'[proc[q].out] = work[proc[q].out]
             /\ Owns(q) /\ output[proc[q].out] # None =>
                  output'[proc[q].out] = output[proc[q].out]
  <2>1. Fills(q) => proc[q].case \in Craft
    BY DEF StudyInv, Local, Filling, Fills
  <2>2. Owns(q) => proc[q].out \in Output
    BY DEF StudyInv, Local, Named, Owns
  <2>3. QED
    BY <1>2, <2>1, <2>2
<1>3. \A q \in Process : Local(q)'
  BY <1>2, OthersKnowStill DEF StudyInv
<1>4. \A o \in Output : SoundWork(o)' /\ WholeOutput(o)'
  <2>1. ASSUME NEW o \in Output, work'[o] = work[o] PROVE SoundWork(o)'
    BY <2>1 DEF StudyInv, SoundWork
  <2>2. ASSUME NEW o \in Output, output'[o] = output[o] PROVE WholeOutput(o)'
    BY <2>2 DEF StudyInv, WholeOutput
  <2>3. QED
    BY <2>1, <2>2
<1>5. \A q \in Process : Owns(q)' => work'[proc'[q].out] # None
  BY <1>1, <1>2 DEF StudyInv, Exclusive
<1>6. ASSUME NEW q \in Process, NEW r \in Process
      PROVE  /\ Owns(q)' /\ Owns(r)' /\ proc'[q].out = proc'[r].out => q = r
             /\ Fills(q)' /\ Fills(r)' /\ proc'[q].case = proc'[r].case => q = r
  BY <1>1 DEF StudyInv, Exclusive
<1>7. QED
  BY <1>3, <1>4, <1>5, <1>6 DEF StudyInv, Exclusive

\* A step of p that writes nothing.
LEMMA MoveOn ==
  ASSUME StudyInv, NEW p \in Process, NEW now \in Command, Become(p, now),
         UNCHANGED <<cache, work, output>>, Local(p)',
         Owns(p)' => Owns(p) /\ now.out = proc[p].out,
         Fills(p)' => Fills(p) /\ now.case = proc[p].case
  PROVE  StudyInv'
<1>1. proc'[p] = now /\ \A q \in Process : q # p => proc'[q] = proc[q]
  BY DEF Become, StudyInv, Typed
<1>2. Typed' /\ CacheInOrder'
  BY DEF Become, StudyInv, Typed, CacheInOrder
<1>3. Owns(p)' => /\ work'[proc'[p].out] # None
                  /\ \A q \in Process : Owns(q) /\ proc[q].out = proc'[p].out => q = p
  BY <1>1 DEF StudyInv, Exclusive
<1>4. Fills(p)' => \A q \in Process : Fills(q) /\ proc[q].case = proc'[p].case => q = p
  BY <1>1 DEF StudyInv, Exclusive
<1>5. QED
  BY <1>1, <1>2, <1>3, <1>4, StudyStep

\* A command that has ended knows nothing.
LEMMA IdleLocal ==
  ASSUME NEW p \in Process, proc'[p] = Idle
  PROVE  Local(p)' /\ ~Owns(p)' /\ ~Fills(p)'
BY EmptyGathered DEF Idle, Local, Named, Filling, Freezing, Fitting, Publishing, Owns, Fills

LEMMA EndKeeps ==
  ASSUME StudyInv, NEW p \in Process, End(p), UNCHANGED <<cache, work, output>>
  PROVE  StudyInv'
<1>1. Idle \in Command /\ Become(p, Idle)
  BY Documents DEF End
<1>2. proc'[p] = Idle
  BY <1>1 DEF Become, StudyInv, Typed
<1>3. QED
  BY <1>1, <1>2, IdleLocal, MoveOn

-----------------------------------------------------------------------------
(* Steps that write nothing: starting, looking, moving on, failing.        *)

\* A command that starts owns nothing yet.
LEMMA StartKeeps ==
  ASSUME StudyInv, NEW p \in Process, Start(p)
  PROVE  StudyInv'
<1>1. PICK o \in Output, categories \in Sources :
        \/ StartStudy(p, Asked(o, categories)) \/ StartRerun(p, Asked(o, categories))
        \/ StartRebuild(p, Asked(o, categories)) \/ StartExport(p, Asked(o, categories))
  BY DEF Start
<1>2. Asked(o, categories).asked \in SUBSET Case /\ Asked(o, categories) =
        [Idle EXCEPT !.out = o, !.asked = categories \X Craft, !.step = "checking"]
  BY StudyAssumption DEF Asked, Idle, Case
<1> DEFINE new == Asked(o, categories)
           Starts(now) ==
             /\ now \in Command /\ Become(p, now) /\ now.out = o /\ now.gathered = << >> /\ now.case = None
             /\ \/ now.step = "checking" /\ now.command \in {"study", "rerun"}
                \/ now.step = "publishing" /\ now.command = "rebuild"
                \/ now.step = "publishing" /\ now.command = "export" /\ now.source \in Output
<1>4. PICK now \in Command : Starts(now)
  <2> new = [Idle EXCEPT !.out = o, !.asked = categories \X Craft, !.step = "checking"]
    BY <1>2
  <2>1. CASE StartStudy(p, new)
    <3> DEFINE now == [new EXCEPT !.command = "study"]
    <3>1. now \in Command /\ now.out = o /\ now.gathered = << >> /\ now.case = None
          /\ now.step = "checking" /\ now.command = "study"
      BY <1>2, EmptyGathered DEF Idle, Command, AtStep
    <3>2. QED
      BY <2>1, <3>1 DEF StartStudy
  <2>2. CASE StartRerun(p, new)
    <3>1. PICK v \in {4, 5} : Become(p, [new EXCEPT !.command = "rerun", !.version = v])
      BY <2>2 DEF StartRerun
    <3> DEFINE now == [new EXCEPT !.command = "rerun", !.version = v]
    <3>2. now \in Command /\ now.out = o /\ now.gathered = << >> /\ now.case = None
          /\ now.step = "checking" /\ now.command = "rerun"
      BY <1>2, EmptyGathered DEF Idle, Command, AtStep
    <3>3. QED
      BY <3>1, <3>2
  <2>3. CASE StartRebuild(p, new)
    <3> DEFINE now == [new EXCEPT !.command = "rebuild", !.step = "publishing"]
    <3>1. now \in Command /\ now.out = o /\ now.gathered = << >> /\ now.case = None
          /\ now.step = "publishing" /\ now.command = "rebuild"
      BY <1>2, EmptyGathered DEF Idle, Command, AtStep
    <3>2. QED
      BY <2>3, <3>1 DEF StartRebuild
  <2>4. CASE StartExport(p, new)
    <3>1. PICK s \in Output, v \in {4, 5} :
            Become(p, [new EXCEPT !.command = "export", !.step = "publishing",
                                  !.source = s, !.version = v])
      BY <2>4 DEF StartExport
    <3> DEFINE now == [new EXCEPT !.command = "export", !.step = "publishing",
                                  !.source = s, !.version = v]
    <3>2. now \in Command /\ now.out = o /\ now.gathered = << >> /\ now.case = None
          /\ now.step = "publishing" /\ now.command = "export" /\ now.source = s
      BY <1>2, EmptyGathered DEF Idle, Command, AtStep
    <3>3. QED
      BY <3>1, <3>2
  <2>5. QED
    BY <1>1, <2>1, <2>2, <2>3, <2>4
<1>5. proc'[p] = now
  BY <1>4 DEF Become, StudyInv, Typed
<1>6. ~Owns(p)' /\ ~Fills(p)'
  BY <1>4, <1>5 DEF Owns, Fills
<1>7. Local(p)'
  BY <1>4, <1>5, <1>6 DEF Local, Named, Filling, Freezing, Fitting, Publishing
<1>8. UNCHANGED <<cache, work, output>>
  BY DEF Start
<1>9. QED
  BY <1>4, <1>6, <1>7, <1>8, MoveOn

\* The command that takes a step is one of them.
LEMMA IsCommand ==
  ASSUME StudyInv, NEW p \in Process
  PROVE  /\ proc[p] \in Command /\ Local(p)
         /\ \A now : Become(p, now) =>
              proc'[p] = now /\ \A q \in Process : q # p => proc'[q] = proc[q]
BY DEF StudyInv, Typed, Become

LEMMA CheckOutputKeeps ==
  ASSUME StudyInv, NEW p \in Process, CheckOutput(p)
  PROVE  StudyInv'
<1>1. CASE End(p)
  BY <1>1, EndKeeps DEF CheckOutput
<1>2. CASE Goto(p, "claiming")
  <2> DEFINE now == [proc[p] EXCEPT !.step = "claiming"]
  <2>1. now \in Command /\ Become(p, now) /\ proc'[p] = now
    BY <1>2, IsCommand DEF Goto, Command, AtStep
  <2>2. now.step = "claiming" /\ now.out = proc[p].out /\ now.command = proc[p].command
        /\ now.gathered = proc[p].gathered /\ now.case = proc[p].case
    BY IsCommand DEF Command
  <2>3. ~Owns(p)' /\ ~Fills(p)' /\ proc[p].step = "checking"
    BY <2>1, <2>2 DEF Owns, Fills, CheckOutput, At
  <2>4. Local(p)'
    <3> HIDE DEF now
    <3>1. QED
      BY <2>1, <2>2, <2>3, IsCommand DEF Local, Named, Filling, Freezing, Fitting, Publishing
  <2>5. QED
    BY <2>1, <2>3, <2>4, MoveOn DEF CheckOutput
<1>3. QED
  BY <1>1, <1>2 DEF CheckOutput

\* A snapshot of the shared cache that can be read is whole.
LEMMA LookUpKeeps ==
  ASSUME StudyInv, NEW p \in Process, LookUp(p)
  PROVE  StudyInv'
<1>1. PICK c \in proc[p].todo :
        IF cache[c] = None THEN Become(p, [proc[p] EXCEPT !.step = "acquiring", !.case = c])
        ELSE IF Readable(cache[c]) THEN Become(p, [proc[p] EXCEPT !.todo = @ \ {c}])
        ELSE End(p)
  BY DEF LookUp
<1>2. proc[p].step = "caching" /\ UNCHANGED <<cache, work, output>>
  BY DEF LookUp, At
<1>3. c \in Craft /\ proc[p] \in Command /\ Local(p)
  BY <1>2, IsCommand DEF Local, Filling
<1>4. CASE cache[c] = None
  <2> DEFINE now == [proc[p] EXCEPT !.step = "acquiring", !.case = c]
  <2>1. now \in Command /\ now.step = "acquiring" /\ now.case = c
        /\ now.out = proc[p].out /\ now.command = proc[p].command
        /\ now.gathered = proc[p].gathered /\ now.todo = proc[p].todo
    BY <1>3 DEF Command, AtStep
  <2>2. Become(p, now) /\ proc'[p] = now
    BY <1>1, <1>4, IsCommand
  <2> HIDE DEF now
  <2>3. Owns(p) /\ ~Fills(p)'
    BY <1>2, <1>3, <2>1, <2>2 DEF Owns, Fills, Local, Freezing
  <2>4. Local(p)'
    BY <1>2, <1>3, <2>1, <2>2, <2>3
    DEF Local, Named, Filling, Freezing, Fitting, Publishing, Owns
  <2>5. QED
    BY <1>2, <2>1, <2>2, <2>3, <2>4, MoveOn
<1>5. CASE cache[c] # None /\ Readable(cache[c])
  <2> DEFINE now == [proc[p] EXCEPT !.todo = @ \ {c}]
  <2>1. now \in Command /\ now.step = "caching" /\ now.case = proc[p].case
        /\ now.out = proc[p].out /\ now.command = proc[p].command
        /\ now.gathered = proc[p].gathered /\ now.todo \subseteq proc[p].todo
    BY <1>2, <1>3 DEF Command, AtStep
  <2>2. Become(p, now) /\ proc'[p] = now
    BY <1>1, <1>5, IsCommand
  <2> HIDE DEF now
  <2>3. Owns(p) /\ ~Fills(p)'
    BY <1>2, <1>3, <2>1, <2>2 DEF Owns, Fills, Local, Freezing
  <2>4. Local(p)'
    BY <1>2, <1>3, <2>1, <2>2, <2>3
    DEF Local, Named, Filling, Freezing, Fitting, Publishing, Owns
  <2>5. QED
    BY <1>2, <2>1, <2>2, <2>3, <2>4, MoveOn
<1>6. CASE End(p)
  BY <1>2, <1>6, EndKeeps
<1>7. QED
  BY <1>1, <1>4, <1>5, <1>6

\* All inputs are downloaded.
LEMMA CachedKeeps ==
  ASSUME StudyInv, NEW p \in Process, Cached(p)
  PROVE  StudyInv'
<1> DEFINE now == [proc[p] EXCEPT !.step = "freezing", !.todo = proc[p].asked]
<1>1. proc[p].step = "caching" /\ proc[p] \in Command /\ Local(p) /\ UNCHANGED <<cache, work, output>>
  BY IsCommand DEF Cached, At, Goto
<1>2. Become(p, now) /\ proc'[p] = now
  BY IsCommand DEF Cached, Goto
<1>3. now \in Command /\ now.step = "freezing" /\ now.todo = proc[p].asked
     /\ now.out = proc[p].out /\ now.command = proc[p].command /\ now.case = proc[p].case
     /\ now.gathered = proc[p].gathered /\ now.asked = proc[p].asked /\ now.version = proc[p].version
  BY <1>1 DEF Command, AtStep
<1> HIDE DEF now
<1>5. Owns(p)' <=> Owns(p)
  BY <1>1, <1>2, <1>3 DEF Owns
<1>6. ~Fills(p)'
  BY <1>2, <1>3 DEF Fills
<1>7. Named(p)' /\ Filling(p)' /\ Freezing(p)'
  BY <1>1, <1>2, <1>3 DEF Local, Named, Filling, Freezing
<1>8. Fitting(p)'
  BY <1>1, <1>2, <1>3 DEF Local, Named, Freezing, Fitting, Publishing, Done
<1>9. Publishing(p)'
  BY <1>1, <1>2, <1>3, <1>5 DEF Local, Named, Freezing, Fitting, Publishing, Done
<1>10. QED
  BY <1>1, <1>2, <1>3, <1>5, <1>6, <1>7, <1>8, <1>9, MoveOn DEF Local

\* All inputs are frozen and no case has a fit yet.
LEMMA FrozenKeeps ==
  ASSUME StudyInv, NEW p \in Process, Frozen(p)
  PROVE  StudyInv'
<1> DEFINE now == [proc[p] EXCEPT !.step = "running", !.todo = proc[p].asked]
<1>1. proc[p].step = "freezing" /\ proc[p] \in Command /\ Local(p) /\ UNCHANGED <<cache, work, output>>
  BY IsCommand DEF Frozen, At, Goto
<1>2. Become(p, now) /\ proc'[p] = now
  BY IsCommand DEF Frozen, Goto
<1>3. now \in Command /\ now.step = "running" /\ now.todo = proc[p].asked
     /\ now.out = proc[p].out /\ now.command = proc[p].command /\ now.case = proc[p].case
     /\ now.gathered = proc[p].gathered /\ now.asked = proc[p].asked /\ now.version = proc[p].version
  BY <1>1 DEF Command, AtStep
<1>4. proc[p].todo = {}
  BY DEF Frozen
<1> HIDE DEF now
<1>5. Owns(p)' <=> Owns(p)
  BY <1>1, <1>2, <1>3 DEF Owns
<1>6. ~Fills(p)'
  BY <1>2, <1>3 DEF Fills
<1>7. Named(p)' /\ Filling(p)' /\ Freezing(p)'
  BY <1>1, <1>2, <1>3, <1>4 DEF Local, Named, Filling, Freezing
<1>8. Fitting(p)'
  BY <1>1, <1>2, <1>3, <1>4 DEF Local, Named, Freezing, Fitting, Publishing, Done
<1>9. Publishing(p)'
  BY <1>1, <1>2, <1>3, <1>4, <1>5 DEF Local, Named, Freezing, Fitting, Publishing, Done
<1>10. QED
  BY <1>1, <1>2, <1>3, <1>5, <1>6, <1>7, <1>8, <1>9, MoveOn DEF Local

\* A run ends with every case it was asked for.
LEMMA EndRunKeeps ==
  ASSUME StudyInv, NEW p \in Process, EndRun(p)
  PROVE  StudyInv'
<1> DEFINE now == [proc[p] EXCEPT !.step = "publishing", !.source = proc[p].out]
<1>1. proc[p].step = "running" /\ proc[p] \in Command /\ Local(p) /\ UNCHANGED <<cache, work, output>>
  BY IsCommand DEF EndRun, At, Goto
<1>2. Become(p, now) /\ proc'[p] = now
  BY IsCommand DEF EndRun, Goto
<1>3. now \in Command /\ now.step = "publishing" /\ now.source = proc[p].out
     /\ now.out = proc[p].out /\ now.command = proc[p].command /\ now.case = proc[p].case
     /\ now.gathered = proc[p].gathered /\ now.asked = proc[p].asked /\ now.version = proc[p].version
  BY <1>1 DEF Command, AtStep
<1>4. proc[p].todo = {} /\ proc[p].case = None
  BY DEF EndRun
<1> HIDE DEF now
<1>5. Owns(p)' <=> Owns(p)
  BY <1>1, <1>2, <1>3 DEF Owns
<1>6. ~Fills(p)'
  BY <1>2, <1>3 DEF Fills
<1>7. Named(p)' /\ Filling(p)' /\ Freezing(p)'
  BY <1>1, <1>2, <1>3, <1>4 DEF Local, Named, Filling, Freezing
<1>8. Fitting(p)'
  BY <1>1, <1>2, <1>3, <1>4 DEF Local, Named, Freezing, Fitting, Publishing, Done
<1>9. Publishing(p)'
  BY <1>1, <1>2, <1>3, <1>4, <1>5 DEF Local, Named, Freezing, Fitting, Publishing, Done
<1>10. QED
  BY <1>1, <1>2, <1>3, <1>5, <1>6, <1>7, <1>8, <1>9, MoveOn DEF Local

\* What is gathered has every category.
LEMMA StageKeeps ==
  ASSUME StudyInv, NEW p \in Process, Stage(p)
  PROVE  StudyInv'
<1> DEFINE now == [proc[p] EXCEPT !.step = "staged"]
<1>1. proc[p].step = "gathering" /\ proc[p] \in Command /\ Local(p) /\ UNCHANGED <<cache, work, output>>
  BY IsCommand DEF Stage, At, Goto
<1>2. Become(p, now) /\ proc'[p] = now
  BY IsCommand DEF Stage, Goto
<1>3. now \in Command /\ now.step = "staged"
     /\ now.out = proc[p].out /\ now.command = proc[p].command /\ now.case = proc[p].case /\ now.source = proc[p].source
     /\ now.gathered = proc[p].gathered /\ now.asked = proc[p].asked /\ now.version = proc[p].version
  BY <1>1 DEF Command, AtStep
<1>4. proc[p].todo = {}
  BY DEF Stage
<1> HIDE DEF now
<1>5. Owns(p)' <=> Owns(p)
  BY <1>1, <1>2, <1>3 DEF Owns
<1>6. ~Fills(p)'
  BY <1>2, <1>3 DEF Fills
<1>7. Named(p)' /\ Filling(p)' /\ Freezing(p)'
  BY <1>1, <1>2, <1>3, <1>4 DEF Local, Named, Filling, Freezing
<1>8. Fitting(p)'
  BY <1>1, <1>2, <1>3, <1>4 DEF Local, Named, Freezing, Fitting, Publishing, Done
<1>9. Publishing(p)'
  BY <1>1, <1>2, <1>3, <1>4, <1>5 DEF Local, Named, Freezing, Fitting, Publishing, Done
<1>10. QED
  BY <1>1, <1>2, <1>3, <1>5, <1>6, <1>7, <1>8, <1>9, MoveOn DEF Local

\* A fit of version 5 is computed from frozen inputs.
LEMMA ExecuteKeeps ==
  ASSUME StudyInv, NEW p \in Process, Execute(p)
  PROVE  StudyInv'
<1> DEFINE now == [proc[p] EXCEPT !.step = "fitted", !.run = Contents(Own(p).inputs[proc[p].case])]
<1>1. proc[p].step = "running" /\ proc[p] \in Command /\ Local(p) /\ UNCHANGED <<cache, work, output>>
  BY IsCommand DEF Execute, At, Goto, Benchmark
<1>21. /\ proc[p].case \in Case /\ proc[p].case \in proc[p].todo
       /\ Own(p).inputs[proc[p].case] = Bundled(proc[p].case)
  BY <1>1 DEF Local, Fitting, Own, Command, Execute
<1>22. Contents(Own(p).inputs[proc[p].case]) = Contents(Bundled(proc[p].case))
       /\ Contents(Bundled(proc[p].case)) \in Run
  BY <1>21, Documents
<1>2. Become(p, now) /\ proc'[p] = now
  BY IsCommand DEF Execute, Goto, Benchmark
<1>3. now \in Command /\ now.step = "fitted" /\ now.run = Contents(Bundled(proc[p].case))
     /\ now.out = proc[p].out /\ now.command = proc[p].command /\ now.case = proc[p].case
     /\ now.gathered = proc[p].gathered /\ now.asked = proc[p].asked /\ now.version = proc[p].version /\ now.todo = proc[p].todo /\ now.source = proc[p].source
  BY <1>1, <1>21, <1>22 DEF Command, AtStep
<1>4. proc[p].case # None
  BY DEF Execute
<1> HIDE DEF now
<1>5. Owns(p)' <=> Owns(p)
  BY <1>1, <1>2, <1>3 DEF Owns
<1>6. ~Fills(p)'
  BY <1>2, <1>3 DEF Fills
<1>7. Named(p)' /\ Filling(p)' /\ Freezing(p)'
  BY <1>1, <1>2, <1>3, <1>4, <1>5 DEF Local, Named, Filling, Freezing, Fitting, Owns
<1>8. Fitting(p)'
  BY <1>1, <1>2, <1>3, <1>4, <1>5, <1>21, <1>22 DEF Local, Named, Freezing, Fitting, Publishing, Done
<1>9. Publishing(p)'
  BY <1>1, <1>2, <1>3, <1>4, <1>5 DEF Local, Named, Freezing, Fitting, Publishing, Done
<1>10. QED
  BY <1>1, <1>2, <1>3, <1>5, <1>6, <1>7, <1>8, <1>9, MoveOn DEF Local

\* So is one of version 4.
LEMMA RunCaseKeeps ==
  ASSUME StudyInv, NEW p \in Process, RunCase(p)
  PROVE  StudyInv'
<1> DEFINE now == [proc[p] EXCEPT !.step = "fitted", !.run = Contents(Own(p).inputs[proc[p].case])]
<1>1. proc[p].step = "running" /\ proc[p] \in Command /\ Local(p) /\ UNCHANGED <<cache, work, output>>
  BY IsCommand DEF RunCase, At, Goto, Benchmark
<1>21. /\ proc[p].case \in Case /\ proc[p].case \in proc[p].todo
       /\ Own(p).inputs[proc[p].case] = Bundled(proc[p].case)
  BY <1>1 DEF Local, Fitting, Own, Command, RunCase
<1>22. Contents(Own(p).inputs[proc[p].case]) = Contents(Bundled(proc[p].case))
       /\ Contents(Bundled(proc[p].case)) \in Run
  BY <1>21, Documents
<1>2. Become(p, now) /\ proc'[p] = now
  BY IsCommand DEF RunCase, Goto, Benchmark
<1>3. now \in Command /\ now.step = "fitted" /\ now.run = Contents(Bundled(proc[p].case))
     /\ now.out = proc[p].out /\ now.command = proc[p].command /\ now.case = proc[p].case
     /\ now.gathered = proc[p].gathered /\ now.asked = proc[p].asked /\ now.version = proc[p].version /\ now.todo = proc[p].todo /\ now.source = proc[p].source
  BY <1>1, <1>21, <1>22 DEF Command, AtStep
<1>4. proc[p].case # None
  BY DEF RunCase
<1> HIDE DEF now
<1>5. Owns(p)' <=> Owns(p)
  BY <1>1, <1>2, <1>3 DEF Owns
<1>6. ~Fills(p)'
  BY <1>2, <1>3 DEF Fills
<1>7. Named(p)' /\ Filling(p)' /\ Freezing(p)'
  BY <1>1, <1>2, <1>3, <1>4, <1>5 DEF Local, Named, Filling, Freezing, Fitting, Owns
<1>8. Fitting(p)'
  BY <1>1, <1>2, <1>3, <1>4, <1>5, <1>21, <1>22 DEF Local, Named, Freezing, Fitting, Publishing, Done
<1>9. Publishing(p)'
  BY <1>1, <1>2, <1>3, <1>4, <1>5 DEF Local, Named, Freezing, Fitting, Publishing, Done
<1>10. QED
  BY <1>1, <1>2, <1>3, <1>5, <1>6, <1>7, <1>8, <1>9, MoveOn DEF Local

\* A case is left when it is finished.
LEMMA CloseCaseKeeps ==
  ASSUME StudyInv, NEW p \in Process, CloseCase(p)
  PROVE  StudyInv'
<1> DEFINE now == [proc[p] EXCEPT !.todo = @ \ {proc[p].case}, !.case = None]
<1>1. proc[p].step = "running" /\ proc[p] \in Command /\ Local(p) /\ UNCHANGED <<cache, work, output>>
  BY IsCommand DEF CloseCase, At, Goto, Benchmark
<1>2. Become(p, now) /\ proc'[p] = now
  BY IsCommand DEF CloseCase, Goto, Benchmark
<1>3. now \in Command /\ now.step = "running" /\ now.case = None /\ now.todo = proc[p].todo \ {proc[p].case}
     /\ now.out = proc[p].out /\ now.command = proc[p].command /\ now.source = proc[p].source
     /\ now.gathered = proc[p].gathered /\ now.asked = proc[p].asked /\ now.version = proc[p].version
  BY <1>1 DEF Command, AtStep
<1>4. proc[p].case # None /\ Finished(proc[p].version, work[proc[p].out].saved[proc[p].case])
  BY DEF CloseCase, Own
<1> HIDE DEF now
<1>5. Owns(p)' <=> Owns(p)
  BY <1>1, <1>2, <1>3 DEF Owns
<1>6. ~Fills(p)'
  BY <1>2, <1>3 DEF Fills
<1>7. Named(p)' /\ Filling(p)' /\ Freezing(p)'
  BY <1>1, <1>2, <1>3, <1>4, <1>5 DEF Local, Named, Filling, Freezing, Fitting, Owns
<1>8. Fitting(p)'
  <2> DEFINE saved == work[proc[p].out].saved
  <2>1. Fitting(p)
    BY <1>1 DEF Local
  <2>2. Done(proc[p].case, proc[p].version, saved)
    BY <1>1, <1>4, <2>1 DEF Fitting, Done
  <2>3. \A c \in proc[p].asked \ now.todo : Done(c, proc[p].version, saved)
    BY <1>1, <1>3, <2>1, <2>2 DEF Fitting
  <2>4. QED
    BY <1>1, <1>2, <1>3, <2>1, <2>3 DEF Fitting
<1>9. Publishing(p)'
  BY <1>1, <1>2, <1>3, <1>4, <1>5 DEF Local, Named, Freezing, Fitting, Publishing, Done
<1>10. QED
  BY <1>1, <1>2, <1>3, <1>5, <1>6, <1>7, <1>8, <1>9, MoveOn DEF Local

\* A command that raises or is killed writes nothing.
LEMMA FailKeeps ==
  ASSUME StudyInv, NEW p \in Process, Fail(p)
  PROVE  StudyInv'
BY EndKeeps DEF Fail

\* What is published: a bundle as it is, or what will be gathered.
LEMMA OpenPublicationKeeps ==
  ASSUME StudyInv, NEW p \in Process, OpenPublication(p)
  PROVE  StudyInv'
<1>1. proc[p].step = "publishing" /\ proc[p] \in Command /\ Local(p) /\ UNCHANGED <<cache, work, output>>
  BY IsCommand DEF OpenPublication, At
<1>2. CASE End(p)
  BY <1>1, <1>2, EndKeeps
<1>3. CASE proc[p].command = "rebuild" /\ Rebuild(p)
  <2> DEFINE gathered == [c \in proc[p].asked |->
               [runs |-> [i \in 1..Fits |-> Contents(Bundled(c))], pruning |-> "none"]]
             now == [proc[p] EXCEPT !.step = "staged", !.gathered = gathered]
  <2>1. Become(p, now) /\ proc'[p] = now
    BY <1>3, IsCommand DEF Rebuild
  <2>2. proc[p].asked \subseteq Case /\ Fits \in Nat
    BY <1>1, StudyAssumption DEF Command
  <2>3. ASSUME NEW c \in proc[p].asked
        PROVE  /\ gathered[c] \in SavedCase
               /\ Sound(c, gathered[c]) /\ Len(gathered[c].runs) >= Fits
    <3> DEFINE runs == [i \in 1..Fits |-> Contents(Bundled(c))]
    <3>1. Contents(Bundled(c)) \in Run /\ Contents(Bundled(c)) = [data |-> "whole", prior |-> c[1]]
      BY <2>2, Documents
    <3>2. runs \in Seq(Run) /\ Len(runs) = Fits
          /\ \A i \in 1..Len(runs) : runs[i] = [data |-> "whole", prior |-> c[1]]
      BY <2>2, <3>1
    <3>3. gathered[c] = [runs |-> runs, pruning |-> "none"]
      OBVIOUS
    <3> HIDE DEF runs, gathered
    <3>4. QED
      BY <2>2, <3>2, <3>3 DEF SavedCase, Sound
  <2>4. gathered \in Gathered /\ DOMAIN gathered = proc[p].asked
    <3>1. gathered \in [proc[p].asked -> SavedCase]
      BY <2>3
    <3>2. QED
      BY <2>2, <3>1 DEF Gathered
  <2> HIDE DEF gathered
  <2>5. now \in Command /\ now.step = "staged" /\ now.gathered = gathered
        /\ now.out = proc[p].out /\ now.command = "rebuild"
    BY <1>1, <1>3, <2>4 DEF Command, AtStep
  <2> HIDE DEF now
  <2>6. ~Owns(p)' /\ ~Fills(p)'
    BY <2>1, <2>5 DEF Owns, Fills
  <2>7. Local(p)'
    BY <1>1, <2>1, <2>3, <2>4, <2>5, <2>6
    DEF Local, Named, Filling, Freezing, Fitting, Publishing
  <2>8. QED
    BY <1>1, <2>1, <2>5, <2>6, <2>7, MoveOn
<1>4. CASE /\ proc[p].command # "rebuild"
           /\ Become(p, [proc[p] EXCEPT !.step = "gathering", !.todo = {c[1] : c \in proc[p].asked}])
  <2> DEFINE now == [proc[p] EXCEPT !.step = "gathering", !.todo = {c[1] : c \in proc[p].asked}]
  <2>1. Become(p, now) /\ proc'[p] = now
    BY <1>4, IsCommand
  <2>2. {c[1] : c \in proc[p].asked} \subseteq Category
    BY <1>1 DEF Command, Case
  <2>3. now \in Command /\ now.step = "gathering" /\ now.todo = {c[1] : c \in proc[p].asked}
        /\ now.out = proc[p].out /\ now.command = proc[p].command /\ now.source = proc[p].source
        /\ now.gathered = proc[p].gathered /\ now.asked = proc[p].asked
        /\ now.version = proc[p].version
    BY <1>1, <2>2 DEF Command, AtStep
  <2> HIDE DEF now
  <2>4. (Owns(p)' <=> Owns(p)) /\ ~Fills(p)'
    BY <1>1, <2>1, <2>3 DEF Owns, Fills
  <2>5. Named(p)' /\ Filling(p)' /\ Freezing(p)' /\ Fitting(p)'
    BY <1>1, <1>4, <2>1, <2>3 DEF Local, Named, Filling, Freezing, Fitting
  <2>6. DOMAIN now.gathered = {} /\ {c \in now.asked : c[1] \notin now.todo} = {}
    BY <1>1, <2>3, EmptyGathered DEF Local, Publishing
  <2>7. Publishing(p)'
    BY <1>1, <2>1, <2>3, <2>4, <2>6 DEF Local, Publishing, Done
  <2>8. QED
    BY <1>1, <2>1, <2>3, <2>4, <2>5, <2>7, MoveOn DEF Local
<1>5. QED
  BY <1>2, <1>3, <1>4 DEF OpenPublication

\* What passes the check of its directory has every planned fit.
LEMMA CheckedIsWhole ==
  ASSUME NEW version, NEW c \in Case, NEW saved \in SavedCase, NEW inputs,
         Checked(version, saved, inputs)
  PROVE  Len(saved.runs) >= Fits
<1>1. Len(saved.runs) = Fits \/ Len(saved.runs) \in Fits..(Fits + 1)
  BY DEF Checked, CheckPruned, CheckCase
<1>2. Fits \in Nat
  BY StudyAssumption
<1>3. QED
  BY <1>1, <1>2

\* The fits gathered are those that are saved; of its own directory a run gathers
\* every case.
LEMMA GatherKeeps ==
  ASSUME StudyInv, NEW p \in Process, Gather(p)
  PROVE  StudyInv'
<1> DEFINE source == work[proc[p].source]
           gathered == proc[p].gathered
           Cases(k) == IF source = None THEN {}
                       ELSE {c \in proc[p].asked : c[1] = k /\ source.saved[c] # None}
           More(cases) == [c \in DOMAIN gathered \union cases |->
                             IF c \in cases THEN source.saved[c] ELSE gathered[c]]
<1>2. proc[p].step = "gathering" /\ proc[p] \in Command /\ Local(p) /\ UNCHANGED <<cache, work, output>>
  BY IsCommand, Zenon DEF Gather, At
<1>3. PICK k \in proc[p].todo :
        \/ /\ Cases(k) # {}
           /\ \A c \in Cases(k) : Checked(proc[p].version, source.saved[c], source.inputs[c])
           /\ Become(p, [proc[p] EXCEPT !.todo = @ \ {k}, !.gathered = More(Cases(k))])
        \/ End(p)
  BY Zenon DEF Gather
<1>4. CASE End(p)
  BY <1>2, <1>4, EndKeeps
<1>1. source = work[proc[p].source] /\ gathered = proc[p].gathered
  OBVIOUS
<1>5. CASE ~End(p)
  <2>1. PICK cases, more : cases = Cases(k) /\ more = More(cases)
    OBVIOUS
  <2>2. /\ Become(p, [proc[p] EXCEPT !.todo = @ \ {k}, !.gathered = more]) /\ cases # {}
        /\ \A c \in cases : Checked(proc[p].version, source.saved[c], source.inputs[c])
    BY <1>3, <1>5, <2>1, Zenon
  <2>3. PICK now : /\ now = [proc[p] EXCEPT !.todo = @ \ {k}, !.gathered = more]
                   /\ Become(p, now) /\ proc'[p] = now
    BY <2>2, IsCommand
  <2>4. cases = {c \in proc[p].asked : c[1] = k /\ source.saved[c] # None} /\ source # None
    BY <2>1, <2>2
  <2>5. more = [c \in DOMAIN gathered \union cases |->
                  IF c \in cases THEN source.saved[c] ELSE gathered[c]]
    BY <2>1
  <2> HIDE DEF Cases, More, source, gathered
  <2>6. proc[p].source \in Output /\ proc[p].asked \subseteq Case /\ gathered \in Gathered
    BY <1>1, <1>2 DEF Local, Named, Command
  <2>7. source.saved \in [Case -> {None} \union SavedCase]
        /\ \A c \in Case : source.saved[c] # None => Sound(c, source.saved[c])
    <3>1. source \in Work /\ SoundWork(proc[p].source)
      BY <1>1, <2>4, <2>6 DEF StudyInv, Typed
    <3>2. QED
      BY <1>1, <2>4, <3>1 DEF SoundWork, Work
  <2>8. cases \in SUBSET Case /\ \A c \in cases : source.saved[c] # None
    BY <2>4, <2>6
  <2>9. /\ more \in Gathered /\ DOMAIN more = DOMAIN gathered \union cases
        /\ \A c \in cases : more[c] = source.saved[c]
        /\ \A c \in DOMAIN gathered \ cases : more[c] = gathered[c]
    <3>1. PICK S \in SUBSET Case : gathered \in [S -> SavedCase]
      BY <2>6 DEF Gathered
    <3>2. \A c \in cases : source.saved[c] \in SavedCase
      BY <2>7, <2>8
    <3>3. /\ DOMAIN more = S \union cases /\ DOMAIN gathered = S
          /\ \A c \in S \union cases :
               more[c] = IF c \in cases THEN source.saved[c] ELSE gathered[c]
      BY <2>5, <3>1
    <3>4. more = [c \in S \union cases |-> more[c]]
      BY <2>5, <3>1, <3>3
    <3>5. \A c \in S \union cases : more[c] \in SavedCase
      BY <3>1, <3>2, <3>3
    <3>6. more \in [S \union cases -> SavedCase] /\ S \union cases \in SUBSET Case
      BY ONLY <2>8, <3>1, <3>4, <3>5
    <3>7. more \in Gathered
      BY ONLY <3>6, Zenon DEF Gathered
    <3>8. QED
      BY <3>1, <3>3, <3>7
  <2>10. \A c \in DOMAIN more : Sound(c, more[c]) /\ Len(more[c].runs) >= Fits
    <3>1. ASSUME NEW c \in cases PROVE Sound(c, more[c]) /\ Len(more[c].runs) >= Fits
      <4>1. c \in Case /\ source.saved[c] \in SavedCase /\ Sound(c, source.saved[c])
        BY <2>7, <2>8
      <4>2. Len(source.saved[c].runs) >= Fits
        BY <2>2, <4>1, CheckedIsWhole
      <4>3. QED
        BY <2>9, <4>1, <4>2
    <3>2. ASSUME NEW c \in DOMAIN gathered \ cases
          PROVE  Sound(c, more[c]) /\ Len(more[c].runs) >= Fits
      BY <1>1, <1>2, <2>9 DEF Local, Publishing
    <3>3. QED
      BY <2>9, <3>1, <3>2
  <2>11. /\ now \in Command /\ now.step = "gathering" /\ now.todo = proc[p].todo \ {k}
         /\ now.gathered = more
         /\ now.out = proc[p].out /\ now.command = proc[p].command /\ now.source = proc[p].source
         /\ now.asked = proc[p].asked /\ now.version = proc[p].version
    <3>1. proc[p] \in Command /\ more \in Gathered
          /\ now = [proc[p] EXCEPT !.todo = @ \ {k}, !.gathered = more]
      BY <1>2, <2>3, <2>9
    <3>2. now.todo = proc[p].todo \ {k} /\ now.gathered = more /\ now.step = proc[p].step
          /\ now.out = proc[p].out /\ now.command = proc[p].command /\ now.source = proc[p].source
          /\ now.asked = proc[p].asked /\ now.version = proc[p].version
      BY ONLY <3>1 DEF Command
    <3>3. now \in Command
      BY ONLY <3>1 DEF Command
    <3>4. QED
      BY <1>2, <3>2, <3>3
  <2>12. Owns(p) => /\ DOMAIN more = {c \in proc[p].asked : c[1] \notin now.todo}
                    /\ \A c \in DOMAIN more : more[c] = work[proc[p].out].saved[c]
    <3> SUFFICES ASSUME Owns(p)
                 PROVE  /\ DOMAIN more = {c \in proc[p].asked : c[1] \notin now.todo}
                        /\ \A c \in DOMAIN more : more[c] = work[proc[p].out].saved[c]
      OBVIOUS
    <3>1. /\ proc[p].source = proc[p].out
          /\ \A c \in proc[p].asked : source.saved[c] # None
          /\ DOMAIN gathered = {c \in proc[p].asked : c[1] \notin proc[p].todo}
          /\ \A c \in DOMAIN gathered : gathered[c] = source.saved[c]
      BY <1>1, <1>2 DEF Local, Publishing, Done
    <3>2. cases = {c \in proc[p].asked : c[1] = k}
      BY <2>4, <3>1
    <3>3. QED
      BY <1>1, <2>9, <2>11, <3>1, <3>2
  <2>13. (Owns(p)' <=> Owns(p)) /\ ~Fills(p)'
    BY <1>2, <2>3, <2>11 DEF Owns, Fills
  <2>14. Named(p)' /\ Filling(p)' /\ Freezing(p)' /\ Fitting(p)'
    BY <1>2, <2>3, <2>11 DEF Local, Named, Filling, Freezing, Fitting
  <2>15. Publishing(p)'
    <3>1. /\ proc'[p] = now /\ work'[now.out] = work[proc[p].out] /\ now.step = "gathering"
      BY <1>2, <2>3, <2>11
    <3>2. Owns(p) => /\ now.source = now.out
                     /\ \A c \in now.asked : Done(c, now.version, work[proc[p].out].saved)
                     /\ \A c \in Case : work[proc[p].out].saved[c] # None => c \in now.asked
      BY <1>2, <2>11 DEF Local, Publishing
    <3>3. QED
      BY ONLY <2>10, <2>11, <2>12, <2>13, <3>1, <3>2 DEF Publishing
  <2>16. QED
    BY <1>2, <2>3, <2>11, <2>13, <2>14, <2>15, MoveOn DEF Local
<1>6. QED
  BY <1>4, <1>5

-----------------------------------------------------------------------------
(* Steps of a run in its own working directory.                            *)

\* Nobody else writes there: a step that leaves it sound and knows what it wrote
\* keeps the invariant.
LEMMA OwnStep ==
  ASSUME StudyInv, NEW p \in Process, proc[p].out \in Output,
         NEW mine \in {None} \union Work, work' = [work EXCEPT ![proc[p].out] = mine],
         NEW now \in Command, Become(p, now), UNCHANGED <<cache, output>>,
         \A q \in Process : Owns(q) /\ proc[q].out = proc[p].out => q = p,
         mine # None => \A c \in Case : mine.saved[c] # None => Sound(c, mine.saved[c]),
         Owns(p)' => now.out = proc[p].out /\ mine # None,
         ~Fills(p)', Local(p)'
  PROVE  StudyInv'
<1>1. proc'[p] = now /\ \A q \in Process : q # p => proc'[q] = proc[q]
  BY IsCommand
<1>2. Typed' /\ CacheInOrder'
  BY DEF Become, StudyInv, Typed, CacheInOrder
<1>3. work'[proc[p].out] = mine /\ \A o \in Output : o # proc[p].out => work'[o] = work[o]
  BY DEF StudyInv, Typed
<1>4. ASSUME NEW o \in Output, o = proc[p].out PROVE SoundWork(o)'
  BY <1>3, <1>4 DEF SoundWork
<1>5. \A o \in Output : work'[o] = work[o]
        \/ (SoundWork(o)' /\ \A q \in Process : Owns(q) /\ proc[q].out = o => q = p)
  BY <1>3, <1>4
<1>6. Owns(p)' => /\ work'[proc'[p].out] # None
                  /\ \A q \in Process : Owns(q) /\ proc[q].out = proc'[p].out => q = p
  BY <1>1, <1>3
<1>7. QED
  BY <1>1, <1>2, <1>5, <1>6, StudyStep

\* What an owner knows of its directory.
LEMMA OwnersDirectory ==
  ASSUME StudyInv, NEW p \in Process, Owns(p)
  PROVE  /\ proc[p].out \in Output /\ Own(p) \in Work
         /\ \A q \in Process : Owns(q) /\ proc[q].out = proc[p].out => q = p
         /\ \A c \in Case : Own(p).saved[c] # None => Sound(c, Own(p).saved[c])
<1>1. proc[p].out \in Output /\ work[proc[p].out] # None
  BY DEF StudyInv, Exclusive, Local, Named, Owns
<1>2. Own(p) \in Work /\ Own(p) # None
  BY <1>1 DEF StudyInv, Typed, Own
<1>3. \A c \in Case : Own(p).saved[c] # None => Sound(c, Own(p).saved[c])
  BY <1>1, <1>2 DEF StudyInv, SoundWork, Own
<1>4. QED
  BY <1>1, <1>2, <1>3 DEF StudyInv, Exclusive

\* Only a name nobody works under is claimed.
LEMMA ClaimKeeps ==
  ASSUME StudyInv, NEW p \in Process, Claim(p)
  PROVE  StudyInv'
<1>1. /\ proc[p].step = "claiming" /\ proc[p] \in Command /\ Local(p)
      /\ UNCHANGED <<cache, output>> /\ proc[p].out \in Output
      /\ proc[p].command \in {"study", "rerun"} /\ proc[p].case = None
      /\ proc[p].gathered = << >>
  BY IsCommand DEF Claim, At, Local, Named, Publishing
<1>2. CASE End(p) /\ UNCHANGED work
  BY <1>1, <1>2, EndKeeps
<1>3. CASE ~(End(p) /\ UNCHANGED work)
  <2> DEFINE mine == EmptyWork(proc[p].version)
             step == IF proc[p].command = "study" THEN "caching" ELSE "running"
             todo == IF proc[p].command = "study" THEN Craft ELSE proc[p].asked
             now == [proc[p] EXCEPT !.step = step, !.todo = todo]
  <2>1. work[proc[p].out] = None /\ work' = [work EXCEPT ![proc[p].out] = mine] /\ Become(p, now)
    BY <1>3 DEF Claim, Own
  <2>2. mine \in Work /\ mine # None /\ mine.saved = [c \in Case |-> None]
    <3>1. proc[p].version \in {4, 5}
      BY <1>1 DEF Command
    <3>2. QED
      BY <3>1, Documents, NoneIsNoDocument DEF EmptyWork
  <2>3. now \in Command /\ now.step = step /\ now.todo = todo
        /\ now.out = proc[p].out /\ now.command = proc[p].command /\ now.case = None
        /\ now.gathered = << >> /\ now.asked = proc[p].asked /\ proc'[p] = now
    <3>1. step \in {"caching", "running"} /\ todo \in SUBSET (Category \union Craft \union Case)
      BY <1>1 DEF Command
    <3> HIDE DEF step, todo
    <3>2. now \in Command /\ now.step = step /\ now.todo = todo
      BY <1>1, <3>1, ZenonT(30) DEF Command, AtStep
    <3>3. now.out = proc[p].out /\ now.command = proc[p].command /\ now.case = None
          /\ now.gathered = << >> /\ now.asked = proc[p].asked
      BY <1>1 DEF Command
    <3>4. QED
      BY <2>1, <3>2, <3>3, IsCommand
  <2>4. work'[now.out] = mine
    BY <1>1, <2>1, <2>3 DEF StudyInv, Typed
  <2>5. \A q \in Process : ~(Owns(q) /\ proc[q].out = proc[p].out)
    BY <2>1 DEF StudyInv, Exclusive
  <2>6. \A c \in Case : mine.saved[c] = None
    BY <2>2
  <2> HIDE DEF now, mine
  <2>7. ~Fills(p)' /\ Owns(p)'
    BY <1>1, <2>3 DEF Fills, Owns
  <2>8. CASE proc[p].command = "study"
    <3>1. Local(p)'
      BY <1>1, <2>3, <2>4, <2>6, <2>8 DEF Local, Named, Filling, Freezing, Fitting, Publishing
    <3>2. QED
      BY <1>1, <2>1, <2>2, <2>3, <2>5, <2>6, <2>7, <3>1, OwnStep
  <2>9. CASE proc[p].command # "study"
    <3>1. Local(p)'
      BY <1>1, <2>3, <2>4, <2>6, <2>9 DEF Local, Named, Filling, Freezing, Fitting, Publishing
    <3>2. QED
      BY <1>1, <2>1, <2>2, <2>3, <2>5, <2>6, <2>7, <3>1, OwnStep
  <2>10. QED
    BY <2>8, <2>9
<1>4. QED
  BY <1>2, <1>3

\* The inputs of a case are replaced.
LEMMA WriteInputs ==
  ASSUME StudyInv, NEW p \in Process, Owns(p), NEW c \in Case, NEW s \in Snapshot, SetInputs(p, c, s)
  PROVE  \E mine \in Work :
         /\ mine # None /\ work' = [work EXCEPT ![proc[p].out] = mine]
         /\ work'[proc[p].out] = mine
         /\ mine.saved = Own(p).saved /\ mine.inputs[c] = s
         /\ \A d \in Case : d # c => mine.inputs[d] = Own(p).inputs[d]
<1> DEFINE mine == [Own(p) EXCEPT !.inputs[c] = s]
<1>1. proc[p].out \in Output /\ Own(p) \in Work
  BY OwnersDirectory
<1>2. mine \in Work
  BY <1>1 DEF Work
<1>3. mine.saved = Own(p).saved /\ mine.inputs[c] = s
      /\ \A d \in Case : d # c => mine.inputs[d] = Own(p).inputs[d]
  BY <1>1 DEF Work
<1>4. work' = [work EXCEPT ![proc[p].out] = mine]
  BY <1>1 DEF SetInputs, Own, StudyInv, Typed
<1>5. work'[proc[p].out] = mine
  BY <1>1, <1>4 DEF StudyInv, Typed
<1>6. QED
  BY <1>2, <1>3, <1>4, <1>5, NoneIsNoDocument

\* What is saved of a case is replaced.
LEMMA WriteSaved ==
  ASSUME StudyInv, NEW p \in Process, Owns(p), NEW c \in Case, NEW s \in SavedCase, SetSaved(p, c, s)
  PROVE  \E mine \in Work :
         /\ mine # None /\ work' = [work EXCEPT ![proc[p].out] = mine]
         /\ work'[proc[p].out] = mine
         /\ mine.inputs = Own(p).inputs /\ mine.saved[c] = s
         /\ \A d \in Case : d # c => mine.saved[d] = Own(p).saved[d]
<1> DEFINE mine == [Own(p) EXCEPT !.saved[c] = s]
<1>1. proc[p].out \in Output /\ Own(p) \in Work
  BY OwnersDirectory
<1>2. mine \in Work
  BY <1>1 DEF Work
<1>3. mine.inputs = Own(p).inputs /\ mine.saved[c] = s
      /\ \A d \in Case : d # c => mine.saved[d] = Own(p).saved[d]
  BY <1>1 DEF Work
<1>4. work' = [work EXCEPT ![proc[p].out] = mine]
  BY <1>1 DEF SetSaved, Own, StudyInv, Typed
<1>5. work'[proc[p].out] = mine
  BY <1>1, <1>4 DEF StudyInv, Typed
<1>6. QED
  BY <1>2, <1>3, <1>4, <1>5, NoneIsNoDocument

\* A snapshot of the cache, in whatever state, is what is copied.
LEMMA CopyKeeps ==
  ASSUME StudyInv, NEW p \in Process, Copy(p)
  PROVE  StudyInv'
<1>1. proc[p].step = "freezing" /\ proc[p] \in Command /\ Local(p) /\ UNCHANGED <<cache, output>>
  BY IsCommand DEF Copy, At
<1>2. PICK c \in Due(proc[p].todo) :
        IF cache[c[2]] = None THEN End(p) /\ UNCHANGED work
        ELSE /\ SetInputs(p, c, cache[c[2]])
             /\ Become(p, [proc[p] EXCEPT !.step = "replacing", !.case = c])
  BY DEF Copy
<1>3. c \in proc[p].todo /\ proc[p].todo \subseteq proc[p].asked /\ proc[p].asked \subseteq Case
      /\ Owns(p) /\ proc[p].command = "study"
  BY <1>1 DEF Due, Local, Freezing, Command, Owns
<1>4. CASE cache[c[2]] = None
  BY <1>1, <1>2, <1>4, EndKeeps
<1>5. CASE cache[c[2]] # None
  <2> DEFINE s == cache[c[2]]
             now == [proc[p] EXCEPT !.step = "replacing", !.case = c]
  <2>1. c[2] \in Craft /\ s \in {Opened, Filled, Sealed}
    BY <1>3, <1>5 DEF StudyInv, CacheInOrder, Case
  <2>2. s \in Snapshot /\ s # None /\ HalfFrozen(s)
    <3>1. HalfFrozen(Opened) /\ HalfFrozen(Filled) /\ HalfFrozen(Sealed)
      BY DEF HalfFrozen, Opened, Filled, Sealed, Contents
    <3>2. QED
      BY <2>1, <1>5, <3>1, Documents
  <2>3. SetInputs(p, c, s) /\ Become(p, now) /\ proc'[p] = now
    BY <1>2, <1>5, IsCommand
  <2>4. now \in Command /\ now.step = "replacing" /\ now.case = c /\ now.todo = proc[p].todo
        /\ now.out = proc[p].out /\ now.command = proc[p].command
        /\ now.gathered = proc[p].gathered /\ now.asked = proc[p].asked
    BY <1>1, <1>3 DEF Command, AtStep
  <2> HIDE DEF s, now
  <2>5. PICK mine \in Work :
        /\ mine # None /\ work' = [work EXCEPT ![proc[p].out] = mine]
        /\ work'[proc[p].out] = mine
        /\ mine.saved = Own(p).saved /\ mine.inputs[c] = s
        /\ \A d \in Case : d # c => mine.inputs[d] = Own(p).inputs[d]
    BY <1>3, <2>2, <2>3, WriteInputs
  <2>6. Owns(p)' /\ ~Fills(p)'
    BY <1>3, <2>3, <2>4 DEF Owns, Fills
  <2>7. Local(p)'
    <3>1. /\ \A d \in Case : mine.saved[d] = None
          /\ \A d \in now.asked \ now.todo : mine.inputs[d] = Bundled(d)
      BY <1>1, <1>3, <2>4, <2>5 DEF Local, Freezing, Own
    <3>2. /\ now.case \in now.todo /\ mine.inputs[now.case] # None
          /\ HalfFrozen(mine.inputs[now.case])
      BY <1>3, <2>2, <2>4, <2>5
    <3>3. /\ now.command = "study" /\ now.step = "replacing" /\ now.todo \subseteq now.asked
          /\ proc'[p] = now /\ work'[now.out] = mine
      BY <1>3, <2>3, <2>4, <2>5
    <3>4. Freezing(p)'
      BY ONLY <3>1, <3>2, <3>3 DEF Freezing
    <3>5. QED
      BY <1>1, <2>3, <2>4, <3>4 DEF Local, Named, Filling, Fitting, Publishing
  <2>8. /\ proc[p].out \in Output
        /\ \A q \in Process : Owns(q) /\ proc[q].out = proc[p].out => q = p
        /\ \A d \in Case : mine.saved[d] # None => Sound(d, mine.saved[d])
    BY <1>3, <2>5, OwnersDirectory
  <2>9. QED
    BY <1>1, <2>3, <2>4, <2>5, <2>6, <2>7, <2>8, OwnStep
<1>6. QED
  BY <1>4, <1>5

\* Its prior is replaced first.
LEMMA ReplacePriorKeeps ==
  ASSUME StudyInv, NEW p \in Process, ReplacePrior(p)
  PROVE  StudyInv'
<1> DEFINE c == proc[p].case
           old == Own(p).inputs[c]
           s == [old EXCEPT !.prior = c[1]]
           now == [proc[p] EXCEPT !.step = "resealing"]
<1>1. /\ proc[p].step = "replacing" /\ proc[p] \in Command /\ Local(p) /\ UNCHANGED <<cache, output>>
      /\ SetInputs(p, c, s) /\ Become(p, now) /\ proc'[p] = now
  BY IsCommand DEF ReplacePrior, At, Goto
<1>2. c \in proc[p].todo /\ proc[p].todo \subseteq proc[p].asked /\ proc[p].asked \subseteq Case
      /\ c \in Case /\ Owns(p) /\ proc[p].command = "study" /\ old # None /\ HalfFrozen(old)
  BY <1>1 DEF Local, Freezing, Command, Owns, Own
<1>3. s \in Snapshot /\ s # None /\ HalfFrozen(s) /\ s.prior = c[1]
  <2>1. old \in Snapshot /\ c[1] \in Category
    BY <1>2, OwnersDirectory DEF Work, Case
  <2>2. s \in Snapshot /\ s.prior = c[1] /\ s.data = old.data /\ s.manifest = old.manifest
    BY <2>1 DEF Snapshot
  <2>3. QED
    BY <1>2, <2>2, NoneIsNoDocument DEF HalfFrozen
<1>4. now \in Command /\ now.step = "resealing" /\ now.case = c /\ now.todo = proc[p].todo
      /\ now.out = proc[p].out /\ now.command = proc[p].command
      /\ now.gathered = proc[p].gathered /\ now.asked = proc[p].asked
  BY <1>1 DEF Command, AtStep
<1> HIDE DEF s, now
<1>5. PICK mine \in Work :
        /\ mine # None /\ work' = [work EXCEPT ![proc[p].out] = mine]
      /\ work'[proc[p].out] = mine
      /\ mine.saved = Own(p).saved /\ mine.inputs[c] = s
      /\ \A d \in Case : d # c => mine.inputs[d] = Own(p).inputs[d]
  BY <1>1, <1>2, <1>3, WriteInputs
<1>6. Owns(p)' /\ ~Fills(p)'
  BY <1>1, <1>2, <1>4 DEF Owns, Fills
<1>7. Local(p)'
  <2>1. /\ \A d \in Case : mine.saved[d] = None
        /\ \A d \in now.asked \ now.todo : mine.inputs[d] = Bundled(d)
    BY <1>1, <1>2, <1>4, <1>5 DEF Local, Freezing, Own
  <2>2. /\ now.case \in now.todo /\ mine.inputs[now.case] # None
        /\ HalfFrozen(mine.inputs[now.case]) /\ mine.inputs[now.case].prior = now.case[1]
    BY <1>2, <1>3, <1>4, <1>5
  <2>3. /\ now.command = "study" /\ now.step = "resealing" /\ now.todo \subseteq now.asked
        /\ proc'[p] = now /\ work'[now.out] = mine
    BY <1>1, <1>2, <1>4, <1>5
  <2>4. Freezing(p)'
    BY ONLY <2>1, <2>2, <2>3 DEF Freezing
  <2>5. QED
    BY <1>1, <1>4, <2>4 DEF Local, Named, Filling, Fitting, Publishing
<1>8. /\ proc[p].out \in Output
      /\ \A q \in Process : Owns(q) /\ proc[q].out = proc[p].out => q = p
      /\ \A d \in Case : mine.saved[d] # None => Sound(d, mine.saved[d])
  BY <1>2, <1>5, OwnersDirectory
<1>9. QED
  BY <1>1, <1>4, <1>5, <1>6, <1>7, <1>8, OwnStep

\* Its checksum next: a copy that was sealed is now whole and of its category.
LEMMA ReplaceChecksumKeeps ==
  ASSUME StudyInv, NEW p \in Process, ReplaceChecksum(p)
  PROVE  StudyInv'
<1> DEFINE c == proc[p].case
           old == Own(p).inputs[c]
           s == [old EXCEPT !.manifest.prior = c[1]]
           now == [proc[p] EXCEPT !.step = "freezing", !.todo = @ \ {c}, !.case = None]
<1>1. proc[p].step = "resealing" /\ proc[p] \in Command /\ Local(p) /\ UNCHANGED <<cache, output>>
  BY IsCommand DEF ReplaceChecksum, At
<1>2. c \in proc[p].todo /\ proc[p].todo \subseteq proc[p].asked /\ proc[p].asked \subseteq Case
      /\ c \in Case /\ Owns(p) /\ proc[p].command = "study"
      /\ old # None /\ HalfFrozen(old) /\ old.prior = c[1]
  BY <1>1 DEF Local, Freezing, Command, Owns, Own
<1>3. CASE old.manifest = None
  BY <1>1, <1>3, EndKeeps DEF ReplaceChecksum
<1>4. CASE old.manifest # None
  <2>1. SetInputs(p, c, s) /\ Become(p, now) /\ proc'[p] = now
    BY <1>4, IsCommand DEF ReplaceChecksum
  <2>2. s = Bundled(c)
    <3>1. old \in Snapshot
      BY <1>2, OwnersDirectory DEF Work
    <3>2. old.data = "whole" /\ old.prior = c[1] /\ old.manifest \in Run
          /\ old.manifest.data = "whole"
      BY <1>2, <1>4, <3>1 DEF HalfFrozen, Snapshot
    <3>3. old = [data |-> "whole", prior |-> c[1], manifest |-> old.manifest]
      BY <3>1, <3>2 DEF Snapshot
    <3>4. s.manifest = [old.manifest EXCEPT !.prior = c[1]]
      BY <3>3
    <3>5. [old.manifest EXCEPT !.prior = c[1]] = [data |-> "whole", prior |-> c[1]]
      BY <3>2 DEF Run
    <3>6. s = [data |-> "whole", prior |-> c[1], manifest |-> [old.manifest EXCEPT !.prior = c[1]]]
      BY <3>3
    <3>7. QED
      BY <3>5, <3>6 DEF Bundled
  <2>3. s \in Snapshot /\ s # None
    BY <1>2, <2>2, Documents, NoneIsNoDocument, SMTT(20)
  <2>4. now \in Command /\ now.step = "freezing" /\ now.case = None /\ now.todo = proc[p].todo \ {c}
        /\ now.out = proc[p].out /\ now.command = proc[p].command
        /\ now.gathered = proc[p].gathered /\ now.asked = proc[p].asked
    BY <1>1 DEF Command, AtStep
  <2> HIDE DEF s, now
  <2>5. PICK mine \in Work :
        /\ mine # None /\ work' = [work EXCEPT ![proc[p].out] = mine]
        /\ work'[proc[p].out] = mine
        /\ mine.saved = Own(p).saved /\ mine.inputs[c] = s
        /\ \A d \in Case : d # c => mine.inputs[d] = Own(p).inputs[d]
    BY <1>2, <2>1, <2>3, WriteInputs
  <2>6. Owns(p)' /\ ~Fills(p)'
    BY <1>2, <2>1, <2>4 DEF Owns, Fills
  <2>7. Freezing(p)'
    <3>1. /\ \A d \in Case : mine.saved[d] = None
          /\ \A d \in now.asked \ now.todo : mine.inputs[d] = Bundled(d)
      BY <1>1, <1>2, <2>2, <2>4, <2>5 DEF Local, Freezing, Own
    <3>2. /\ now.command = "study" /\ now.step = "freezing" /\ now.todo \subseteq now.asked
          /\ proc'[p] = now /\ work'[now.out] = mine
      BY <1>2, <2>1, <2>4, <2>5
    <3>3. QED
      BY ONLY <3>1, <3>2 DEF Freezing
  <2>8. Local(p)'
    BY <1>1, <2>1, <2>4, <2>7 DEF Local, Named, Filling, Fitting, Publishing
  <2>9. /\ proc[p].out \in Output
        /\ \A q \in Process : Owns(q) /\ proc[q].out = proc[p].out => q = p
        /\ \A d \in Case : mine.saved[d] # None => Sound(d, mine.saved[d])
    BY <1>2, <2>5, OwnersDirectory
  <2>10. QED
    BY <1>1, <2>1, <2>4, <2>5, <2>6, <2>8, <2>9, OwnStep
<1>5. QED
  BY <1>3, <1>4

\* A case is opened on frozen inputs, without a fit.
LEMMA OpenCaseKeeps ==
  ASSUME StudyInv, NEW p \in Process, OpenCase(p)
  PROVE  StudyInv'
<1>1. proc[p].step = "running" /\ proc[p].case = None /\ proc[p] \in Command /\ Local(p)
      /\ UNCHANGED <<cache, output>>
  BY IsCommand DEF OpenCase, At
<1> DEFINE Inputs(c) == IF proc[p].command = "study" THEN Own(p).inputs[c] ELSE Bundled(c)
<1>2. PICK c \in Due(proc[p].todo) :
        IF ~Readable(Inputs(c)) THEN End(p) /\ UNCHANGED work
        ELSE /\ work' = [work EXCEPT ![proc[p].out].inputs[c] = Inputs(c),
                           ![proc[p].out].saved[c] = NewCase]
             /\ Become(p, [proc[p] EXCEPT !.case = c])
  BY DEF OpenCase
<1>3. c \in proc[p].todo /\ proc[p].todo \subseteq proc[p].asked /\ proc[p].asked \subseteq Case
      /\ c \in Case /\ Owns(p) /\ Inputs(c) = Bundled(c)
  BY <1>1 DEF Due, Local, Fitting, Command, Owns, Own
<1>4. CASE ~Readable(Inputs(c))
  BY <1>1, <1>2, <1>4, EndKeeps
<1>5. CASE Readable(Inputs(c))
  <2> DEFINE s == Bundled(c)
             mine == [Own(p) EXCEPT !.inputs[c] = s, !.saved[c] = NewCase]
             now == [proc[p] EXCEPT !.case = c]
  <2>1. /\ work' = [work EXCEPT ![proc[p].out].inputs[c] = s, ![proc[p].out].saved[c] = NewCase]
        /\ Become(p, now) /\ proc'[p] = now
    BY <1>2, <1>3, <1>5, IsCommand
  <2>2. s \in Snapshot /\ s # None /\ NewCase \in SavedCase /\ NewCase # None /\ Sound(c, NewCase)
    BY <1>3, Documents, NoneIsNoDocument DEF Sound, NewCase
  <2>3. now \in Command /\ now.step = "running" /\ now.case = c /\ now.todo = proc[p].todo
        /\ now.out = proc[p].out /\ now.command = proc[p].command
        /\ now.gathered = proc[p].gathered /\ now.asked = proc[p].asked
        /\ now.version = proc[p].version
    BY <1>1, <1>3 DEF Command
  <2>4. /\ proc[p].out \in Output /\ Own(p) \in Work
        /\ \A q \in Process : Owns(q) /\ proc[q].out = proc[p].out => q = p
        /\ \A d \in Case : Own(p).saved[d] # None => Sound(d, Own(p).saved[d])
    BY <1>3, OwnersDirectory
  <2> HIDE DEF s, now
  <2>5. /\ mine \in Work /\ mine.inputs[c] = s /\ mine.saved[c] = NewCase
        /\ \A d \in Case : d # c => mine.inputs[d] = Own(p).inputs[d]
        /\ \A d \in Case : d # c => mine.saved[d] = Own(p).saved[d]
    BY <1>3, <2>2, <2>4 DEF Work
  <2>6. /\ work' = [work EXCEPT ![proc[p].out] = mine] /\ work'[proc[p].out] = mine
        /\ mine # None
    <3>1. work \in [Output -> {None} \union Work]
      BY DEF StudyInv, Typed
    <3>2. work' = [work EXCEPT ![proc[p].out] = mine]
      BY ONLY <2>1, <2>4, <3>1 DEF Own, mine
    <3>3. QED
      BY <2>4, <2>5, <3>1, <3>2, NoneIsNoDocument
  <2>7. \A d \in Case : mine.saved[d] # None => Sound(d, mine.saved[d])
    BY <2>2, <2>4, <2>5
  <2> HIDE DEF mine
  <2>8. Owns(p)' /\ ~Fills(p)'
    BY <1>3, <2>1, <2>3 DEF Owns, Fills
  <2>9. Fitting(p)'
    <3>1. /\ now.command \in {"study", "rerun"}
          /\ now.command = "study" => \A d \in now.asked : Own(p).inputs[d] = Bundled(d)
          /\ \A d \in now.asked \ now.todo : Done(d, now.version, Own(p).saved)
          /\ \A d \in Case : Own(p).saved[d] # None => d \in now.asked
      BY <1>1, <2>3 DEF Local, Fitting, Own
    <3>2. now.command = "study" => \A d \in now.asked : mine.inputs[d] = Bundled(d)
      BY <1>3, <2>3, <2>5, <3>1 DEF s
    <3>3. \A d \in now.asked \ now.todo : Done(d, now.version, mine.saved)
      BY <1>3, <2>3, <2>5, <3>1 DEF Done
    <3>4. \A d \in Case : mine.saved[d] # None => d \in now.asked
      BY <1>3, <2>3, <2>5, <3>1
    <3>5. /\ now.case \in now.todo /\ now.todo \subseteq now.asked
          /\ mine.saved[now.case] # None /\ mine.inputs[now.case] = Bundled(now.case)
      BY <1>3, <2>2, <2>3, <2>5 DEF s
    <3>6. proc'[p] = now /\ work'[now.out] = mine /\ now.step = "running"
      BY <2>1, <2>3, <2>6
    <3>7. QED
      BY ONLY <3>1, <3>2, <3>3, <3>4, <3>5, <3>6 DEF Fitting
  <2>10. Local(p)'
    BY <1>1, <2>1, <2>3, <2>9 DEF Local, Named, Filling, Freezing, Publishing
  <2>11. QED
    BY <1>1, <2>1, <2>3, <2>4, <2>5, <2>6, <2>7, <2>8, <2>10, OwnStep
<1>6. QED
  BY <1>4, <1>5

\* What a fitting run knows once a case it has open is written, the rest of its
\* directory as it was.
LEMMA FittingStill ==
  ASSUME NEW p \in Process, Fitting(p), proc[p].step \in {"running", "fitted"},
         proc[p].step = "fitted" \/ proc[p].case # None, NEW now, NEW mine,
         proc'[p] = now, work'[now.out] = mine, now.step = "running",
         now.command = proc[p].command, now.todo = proc[p].todo, now.asked = proc[p].asked,
         now.version = proc[p].version, now.case = proc[p].case,
         mine.inputs = work[proc[p].out].inputs, mine.saved[proc[p].case] # None,
         \A d \in Case : d # proc[p].case => mine.saved[d] = work[proc[p].out].saved[d],
         proc[p].asked \subseteq Case
  PROVE  Fitting(p)'
<1>1. /\ now.command \in {"study", "rerun"} /\ now.todo \subseteq now.asked
      /\ now.command = "study" => \A d \in now.asked : mine.inputs[d] = Bundled(d)
      /\ now.case \in now.todo /\ mine.inputs[now.case] = Bundled(now.case)
      /\ mine.saved[now.case] # None
  BY DEF Fitting
<1>2. \A d \in now.asked \ now.todo : Done(d, now.version, mine.saved)
  BY DEF Fitting, Done
<1>3. \A d \in Case : mine.saved[d] # None => d \in now.asked
  BY DEF Fitting
<1>4. QED
  BY ONLY <1>1, <1>2, <1>3, proc'[p] = now, work'[now.out] = mine, now.step = "running" DEF Fitting

\* One more sound fit.
LEMMA OneMoreFit ==
  ASSUME NEW c \in Case, NEW runs \in Seq(Run), NEW run \in Run,
         run = [data |-> "whole", prior |-> c[1]],
         \A i \in 1..Len(runs) : runs[i] = [data |-> "whole", prior |-> c[1]]
  PROVE  /\ Append(runs, run) \in Seq(Run)
         /\ \A i \in 1..Len(Append(runs, run)) :
              Append(runs, run)[i] = [data |-> "whole", prior |-> c[1]]
<1>1. Append(runs, run) \in Seq(Run) /\ Len(Append(runs, run)) = Len(runs) + 1
  OBVIOUS
<1>2. Len(runs) \in Nat /\ \A i \in 1..(Len(runs) + 1) :
        Append(runs, run)[i] = IF i <= Len(runs) THEN runs[i] ELSE run
  OBVIOUS
<1>3. QED
  BY <1>1, <1>2

\* What is saved of the case a fitting run has open is replaced by something sound.
LEMMA SavedStep ==
  ASSUME StudyInv, NEW p \in Process, proc[p].step \in {"running", "fitted"},
         proc[p].step = "fitted" \/ proc[p].case # None,
         NEW c, c = proc[p].case,
         NEW s \in SavedCase, Sound(c, s), SetSaved(p, c, s),
         NEW now \in Command, Become(p, now), UNCHANGED <<cache, output>>,
         now.step = "running", now.out = proc[p].out, now.command = proc[p].command,
         now.todo = proc[p].todo, now.asked = proc[p].asked, now.version = proc[p].version,
         now.case = c, now.gathered = proc[p].gathered
  PROVE  StudyInv'
<1>1. proc[p] \in Command /\ Local(p) /\ proc'[p] = now
  BY IsCommand
<1>2. proc[p].asked \subseteq Case /\ c \in Case /\ Owns(p)
  BY <1>1 DEF Local, Fitting, Command, Owns
<1>3. /\ proc[p].out \in Output
      /\ \A q \in Process : Owns(q) /\ proc[q].out = proc[p].out => q = p
      /\ \A d \in Case : Own(p).saved[d] # None => Sound(d, Own(p).saved[d])
  BY <1>2, OwnersDirectory
<1>4. PICK mine \in Work :
        /\ mine # None /\ work' = [work EXCEPT ![proc[p].out] = mine]
        /\ work'[proc[p].out] = mine
        /\ mine.inputs = Own(p).inputs /\ mine.saved[c] = s
        /\ \A d \in Case : d # c => mine.saved[d] = Own(p).saved[d]
  BY <1>2, WriteSaved
<1>5. Owns(p)' /\ ~Fills(p)'
  BY <1>1, <1>2 DEF Owns, Fills
<1>6. \A d \in Case : mine.saved[d] # None => Sound(d, mine.saved[d])
  BY <1>3, <1>4
<1>7. Fitting(p)'
  BY <1>1, <1>2, <1>4, NoneIsNoDocument, FittingStill DEF Local, Own
<1>8. Local(p)'
  BY <1>1, <1>7 DEF Local, Named, Filling, Freezing, Publishing
<1>9. QED
  BY <1>1, <1>3, <1>4, <1>5, <1>6, <1>8, OwnStep

\* A fit is saved as it was computed.
LEMMA SaveKeeps ==
  ASSUME StudyInv, NEW p \in Process, Save(p)
  PROVE  StudyInv'
<1> DEFINE old == Own(p).saved[proc[p].case]
           now == [proc[p] EXCEPT !.step = "running", !.run = None]
<1>1. /\ proc[p].step = "fitted" /\ proc[p] \in Command /\ Local(p)
      /\ UNCHANGED <<cache, output>> /\ Become(p, now)
  BY IsCommand DEF Save, At
<1>2. PICK c : c = proc[p].case
  OBVIOUS
<1>3. c \in Case /\ Owns(p) /\ old # None /\ proc[p].run = Contents(Bundled(c))
  <2>1. Fitting(p) /\ proc[p].asked \subseteq Case
    BY <1>1 DEF Local, Command
  <2>2. QED
    BY <1>1, <1>2, <2>1 DEF Fitting, Owns, Own
<1>4. PICK s \in SavedCase : Sound(c, s) /\ SetSaved(p, c, s)
  <2>1. old \in SavedCase /\ Sound(c, old)
    BY <1>2, <1>3, OwnersDirectory DEF Work
  <2>2. proc[p].run \in Run /\ proc[p].run = [data |-> "whole", prior |-> c[1]]
    BY <1>3, Documents
  <2>3. old.runs \in Seq(Run) /\ old.pruning \in {"none", "no refit", "refit", "refitted"}
    BY <2>1 DEF SavedCase
  <2> DEFINE s == [runs |-> Append(old.runs, proc[p].run),
                   pruning |-> IF old.pruning = "refit" THEN "refitted" ELSE old.pruning]
  <2>4. /\ Append(old.runs, proc[p].run) \in Seq(Run)
        /\ \A i \in 1..Len(Append(old.runs, proc[p].run)) :
             Append(old.runs, proc[p].run)[i] = [data |-> "whole", prior |-> c[1]]
    BY <1>3, <2>1, <2>2, <2>3, OneMoreFit DEF Sound
  <2>5. s.runs = Append(old.runs, proc[p].run) /\ s \in SavedCase
    BY <2>3, <2>4 DEF SavedCase
  <2>6. SetSaved(p, c, s)
    BY <1>2 DEF Save
  <2> HIDE DEF s
  <2>7. QED
    BY <2>4, <2>5, <2>6 DEF Sound
<1>5. /\ now \in Command /\ now.step = "running"
      /\ now.out = proc[p].out /\ now.command = proc[p].command
      /\ now.todo = proc[p].todo /\ now.asked = proc[p].asked /\ now.version = proc[p].version
      /\ now.case = c /\ now.gathered = proc[p].gathered
  BY <1>1, <1>2 DEF Command, AtStep
<1> HIDE DEF now
<1>6. QED
  BY <1>1, <1>2, <1>4, <1>5, SavedStep

\* The decision on noisy passes changes no fit.
LEMMA PruneKeeps ==
  ASSUME StudyInv, NEW p \in Process, Prune(p)
  PROVE  StudyInv'
<1> DEFINE old == Own(p).saved[proc[p].case]
<1>1. /\ proc[p].step = "running" /\ proc[p].case # None /\ proc[p] \in Command /\ Local(p)
      /\ UNCHANGED <<cache, output, proc>>
  BY IsCommand DEF Prune, At
<1>2. PICK c : c = proc[p].case
  OBVIOUS
<1>3. c \in Case /\ Owns(p) /\ old # None
  BY <1>1, <1>2 DEF Local, Fitting, Command, Owns, Own
<1>4. PICK s \in SavedCase : Sound(c, s) /\ SetSaved(p, c, s)
  <2>1. old \in SavedCase /\ Sound(c, old)
    BY <1>2, <1>3, OwnersDirectory DEF Work
  <2>2. PICK reason \in {"no refit", "refit"} : SetSaved(p, c, [old EXCEPT !.pruning = reason])
    BY <1>2 DEF Prune
  <2> DEFINE s == [old EXCEPT !.pruning = reason]
  <2>3. s \in SavedCase /\ s.runs = old.runs
    BY <2>1 DEF SavedCase
  <2>4. QED
    BY <2>1, <2>2, <2>3 DEF Sound
<1>5. Become(p, proc[p])
  BY <1>1 DEF Become, StudyInv, Typed
<1>6. QED
  BY <1>1, <1>2, <1>4, <1>5, SavedStep

\* After its publication a run removes its directory and ends.
LEMMA CleanKeeps ==
  ASSUME StudyInv, NEW p \in Process, Clean(p)
  PROVE  StudyInv'
<1>1. Owns(p) /\ UNCHANGED <<cache, output>>
  BY IsCommand DEF Clean, At, Local, Named, Owns
<1>2. /\ work' = [work EXCEPT ![proc[p].out] = None] /\ Become(p, Idle)
      /\ Idle \in Command /\ proc'[p] = Idle
  BY IsCommand, Documents DEF Clean, End
<1>3. QED
  BY <1>1, <1>2, IdleLocal, OwnersDirectory, OwnStep

-----------------------------------------------------------------------------
(* Steps on the shared cache.                                              *)

\* A run that opens, fills or seals a snapshot nobody else fills.
LEMMA CacheStep ==
  ASSUME StudyInv, NEW p \in Process, NEW c \in Craft, NEW s \in {Opened, Filled, Sealed},
         cache' = [cache EXCEPT ![c] = s], UNCHANGED <<work, output>>,
         NEW now \in Command, Become(p, now), now.out = proc[p].out, Owns(p),
         now.command = proc[p].command, now.todo \subseteq proc[p].todo,
         now.gathered = proc[p].gathered, now.asked = proc[p].asked,
         proc[p].step \in {"acquiring", "filling", "sealing"},
         \/ now.step = "filling" /\ now.case = c /\ s = Opened
         \/ now.step = "sealing" /\ now.case = c /\ s = Filled
         \/ now.step = "caching" /\ now.case = None,
         \A q \in Process : Fills(q) /\ proc[q].case = c => q = p
  PROVE  StudyInv'
<1>1. /\ proc[p] \in Command /\ Local(p) /\ proc'[p] = now
      /\ \A q \in Process : q # p => proc'[q] = proc[q]
  BY IsCommand
<1>2. Typed' /\ CacheInOrder'
  BY Documents DEF Become, StudyInv, Typed, CacheInOrder
<1>3. cache'[c] = s /\ \A d \in Craft : d # c => cache'[d] = cache[d]
  BY DEF StudyInv, Typed
<1>4. /\ Owns(p)' /\ work'[now.out] # None
      /\ \A q \in Process : Owns(q) /\ proc[q].out = now.out => q = p
  <2>1. Owns(p)'
    BY <1>1 DEF Owns
  <2>2. QED
    BY <2>1 DEF StudyInv, Exclusive
<1>5. Fills(p)' => \A q \in Process : Fills(q) /\ proc[q].case = proc'[p].case => q = p
  BY <1>1 DEF Fills
<1>6. Named(p)' /\ Filling(p)' /\ Freezing(p)'
  BY <1>1, <1>3 DEF Local, Named, Filling, Freezing
<1>7. Local(p)'
  BY <1>1, <1>6 DEF Local, Fitting, Publishing
<1>8. QED
  BY <1>1, <1>2, <1>3, <1>4, <1>5, <1>7, StudyStep

\* A snapshot nobody has is opened.
LEMMA AcquireKeeps ==
  ASSUME StudyInv, NEW p \in Process, Acquire(p)
  PROVE  StudyInv'
<1>1. PICK c : c = proc[p].case
  OBVIOUS
<1>2. /\ proc[p].step = "acquiring" /\ proc[p] \in Command /\ Local(p)
      /\ UNCHANGED <<work, output>> /\ c \in Craft /\ Owns(p)
  BY <1>1, IsCommand DEF Acquire, At, Local, Filling, Freezing, Owns
<1>3. CASE cache[c] # None
  BY <1>1, <1>2, <1>3, EndKeeps DEF Acquire
<1>4. CASE cache[c] = None
  <2> DEFINE now == [proc[p] EXCEPT !.step = "filling"]
  <2>1. cache' = [cache EXCEPT ![c] = Opened] /\ Become(p, now)
    BY <1>1, <1>4 DEF Acquire, Goto
  <2>2. /\ now \in Command /\ now.step = "filling" /\ now.case = c /\ now.out = proc[p].out
        /\ now.command = proc[p].command /\ now.todo = proc[p].todo
        /\ now.gathered = proc[p].gathered /\ now.asked = proc[p].asked
    BY <1>1, <1>2 DEF Command, AtStep
  <2>3. \A q \in Process : ~(Fills(q) /\ proc[q].case = c)
    BY <1>4, Documents, NoneIsNoDocument DEF StudyInv, Local, Filling, Fills
  <2> HIDE DEF now
  <2>4. QED
    BY <1>2, <2>1, <2>2, <2>3, CacheStep
<1>5. QED
  BY <1>3, <1>4

\* The command that opened it writes its files.
LEMMA WriteFilesKeeps ==
  ASSUME StudyInv, NEW p \in Process, WriteFiles(p)
  PROVE  StudyInv'
<1> DEFINE now == [proc[p] EXCEPT !.step = "sealing"]
<1>1. PICK c : c = proc[p].case
  OBVIOUS
<1>2. /\ proc[p].step = "filling" /\ proc[p] \in Command /\ Local(p)
      /\ UNCHANGED <<work, output>> /\ c \in Craft /\ Owns(p) /\ cache[c] = Opened
      /\ Become(p, now)
  BY <1>1, IsCommand DEF WriteFiles, At, Goto, Local, Filling, Freezing, Owns
<1>3. cache' = [cache EXCEPT ![c] = Filled]
  BY <1>1, <1>2 DEF WriteFiles, Filled, StudyInv, Typed
<1>4. /\ now \in Command /\ now.step = "sealing" /\ now.case = c /\ now.out = proc[p].out
      /\ now.command = proc[p].command /\ now.todo = proc[p].todo
      /\ now.gathered = proc[p].gathered /\ now.asked = proc[p].asked
  BY <1>1, <1>2 DEF Command, AtStep
<1>5. \A q \in Process : Fills(q) /\ proc[q].case = c => q = p
  BY <1>1, <1>2 DEF StudyInv, Exclusive, Fills
<1> HIDE DEF now
<1>6. QED
  BY <1>2, <1>3, <1>4, <1>5, CacheStep

\* And its manifest last.
LEMMA WriteManifestKeeps ==
  ASSUME StudyInv, NEW p \in Process, WriteManifest(p)
  PROVE  StudyInv'
<1>1. PICK c : c = proc[p].case
  OBVIOUS
<1> DEFINE now == [proc[p] EXCEPT !.step = "caching", !.todo = @ \ {c}, !.case = None]
<1>2. /\ proc[p].step = "sealing" /\ proc[p] \in Command /\ Local(p)
      /\ UNCHANGED <<work, output>> /\ c \in Craft /\ Owns(p) /\ cache[c] = Filled
      /\ Become(p, now)
  BY <1>1, IsCommand DEF WriteManifest, At, Local, Filling, Freezing, Owns
<1>3. cache' = [cache EXCEPT ![c] = Sealed]
  BY <1>1, <1>2 DEF WriteManifest, Sealed, StudyInv, Typed
<1>4. /\ now \in Command /\ now.step = "caching" /\ now.case = None /\ now.out = proc[p].out
      /\ now.command = proc[p].command /\ now.todo \subseteq proc[p].todo
      /\ now.gathered = proc[p].gathered /\ now.asked = proc[p].asked
  BY <1>1, <1>2 DEF Command, AtStep
<1>5. \A q \in Process : Fills(q) /\ proc[q].case = c => q = p
  BY <1>1, <1>2 DEF StudyInv, Exclusive, Fills
<1> HIDE DEF now
<1>6. QED
  BY <1>2, <1>3, <1>4, <1>5, CacheStep

\* The operator removes nothing a command is filling.
LEMMA ClearCacheKeeps ==
  ASSUME StudyInv, NEW c \in Craft, ClearCache(c)
  PROVE  StudyInv'
<1>1. /\ cache' = [cache EXCEPT ![c] = None] /\ UNCHANGED <<proc, work, output>>
      /\ \A q \in Process : ~(Fills(q) /\ proc[q].case = c)
  BY DEF ClearCache, Fills
<1>2. Typed' /\ CacheInOrder'
  BY <1>1 DEF StudyInv, Typed, CacheInOrder
<1>3. \A q \in Process : Fills(q) => cache'[proc[q].case] = cache[proc[q].case]
  BY <1>1 DEF StudyInv, Typed, Local, Filling, Fills
<1>4. \A q \in Process : Local(q)'
  BY <1>1, <1>3, OthersKnowStill DEF StudyInv
<1>5. Exclusive' /\ \A o \in Output : SoundWork(o)' /\ WholeOutput(o)'
  BY <1>1 DEF StudyInv, Exclusive, Owns, Fills, SoundWork, WholeOutput
<1>6. QED
  BY <1>2, <1>4, <1>5 DEF StudyInv

-----------------------------------------------------------------------------
(* The step on the published directories, and all steps.                   *)

\* A name in use is never published under again, and a run knows what it
\* published.
LEMMA RenameKeeps ==
  ASSUME StudyInv, NEW p \in Process, Rename(p)
  PROVE  StudyInv'
<1>1. /\ proc[p].step = "staged" /\ proc[p] \in Command /\ Local(p)
      /\ UNCHANGED <<cache, work>> /\ proc[p].out \in Output
  BY IsCommand DEF Rename, At, Local, Named
<1>2. CASE output[proc[p].out] # None
  BY <1>1, <1>2, EndKeeps DEF Rename
<1>3. CASE output[proc[p].out] = None
  <2>1. PICK made \in Publication :
          /\ made.command = proc[p].command /\ made.version = proc[p].version
          /\ made.asked = proc[p].asked /\ made.cases = proc[p].gathered
          /\ output' = [output EXCEPT ![proc[p].out] = made]
    <3> DEFINE made == [command |-> proc[p].command, version |-> proc[p].version,
                        asked |-> proc[p].asked, cases |-> proc[p].gathered]
    <3>1. /\ proc[p].command \in {"study", "rerun", "rebuild", "export"}
          /\ proc[p].version \in {4, 5} /\ proc[p].asked \in SUBSET Case
          /\ proc[p].gathered \in UNION {[S -> SavedCase] : S \in SUBSET Case}
      BY <1>1 DEF Command, Gathered, Local, Named
    <3>3. made \in Publication
      BY <3>1 DEF Publication
    <3>2. QED
      BY <1>3, <3>3 DEF Rename
  <2>2. made # None /\ output'[proc[p].out] = made
        /\ \A o \in Output : o # proc[p].out => output'[o] = output[o]
    BY <1>1, <2>1, NoneIsNoDocument DEF StudyInv, Typed
  <2>3. ASSUME NEW o \in Output, o = proc[p].out PROVE WholeOutput(o)'
    <3>1. \A c \in DOMAIN made.cases : Sound(c, made.cases[c]) /\ Len(made.cases[c].runs) >= Fits
      BY <1>1, <2>1 DEF Local, Publishing
    <3>2. made.command \in {"study", "rerun"} =>
            /\ DOMAIN made.cases = made.asked
            /\ \A c \in DOMAIN made.cases : Finished(made.version, made.cases[c])
      <4>1. made.command \in {"study", "rerun"} => Owns(p)
        BY <1>1, <2>1 DEF Owns
      <4>2. Owns(p) => /\ DOMAIN made.cases = made.asked
                       /\ \A c \in made.asked : Done(c, made.version, work[proc[p].out].saved)
                       /\ \A c \in DOMAIN made.cases : made.cases[c] = work[proc[p].out].saved[c]
        BY <1>1, <2>1 DEF Local, Publishing
      <4>3. QED
        BY <4>1, <4>2 DEF Done
    <3>3. QED
      BY <2>2, <2>3, <3>1, <3>2 DEF WholeOutput
  <2>4. \A o \in Output : output'[o] = output[o] \/ (output[o] = None /\ WholeOutput(o)')
    BY <1>3, <2>2, <2>3
  <2>5. PICK now \in Command :
          /\ Become(p, now)
          /\ \/ now = Idle
             \/ /\ proc[p].command \in {"study", "rerun"} /\ now.step = "cleaning"
                /\ now.out = proc[p].out /\ now.command = proc[p].command
    <3> DEFINE now == [proc[p] EXCEPT !.step = "cleaning"]
    <3>1. now \in Command /\ now.step = "cleaning"
          /\ now.out = proc[p].out /\ now.command = proc[p].command
      BY <1>1 DEF Command, AtStep
    <3> HIDE DEF now
    <3>2. QED
      BY <1>3, <3>1, Documents DEF now, Rename, End, Goto
  <2>6. Typed' /\ CacheInOrder'
    BY <1>1, <2>1, <2>5 DEF Become, StudyInv, Typed, CacheInOrder
  <2>7. /\ proc'[p] = now /\ \A q \in Process : q # p => proc'[q] = proc[q]
    BY <2>5, IsCommand
  <2>8. CASE now = Idle
    BY <1>1, <2>4, <2>6, <2>7, <2>8, IdleLocal, StudyStep
  <2>9. CASE now # Idle
    <3>1. Owns(p) /\ Owns(p)' /\ ~Fills(p)'
      BY <1>1, <2>5, <2>7, <2>9 DEF Owns, Fills
    <3>2. \A c \in Case : work[now.out].saved[c] # None =>
            c \in DOMAIN made.cases /\ made.cases[c] = work[now.out].saved[c]
      BY <1>1, <2>1, <2>5, <2>9, <3>1 DEF Local, Publishing
    <3>3. Publishing(p)'
      BY <1>1, <2>1, <2>2, <2>5, <2>7, <2>9, <3>2 DEF Publishing
    <3>4. Local(p)'
      BY <1>1, <2>5, <2>7, <2>9, <3>3 DEF Local, Named, Filling, Freezing, Fitting
    <3>5. /\ work'[now.out] # None
          /\ \A q \in Process : Owns(q) /\ proc[q].out = now.out => q = p
      BY <1>1, <2>5, <2>9, <3>1 DEF StudyInv, Exclusive
    <3>6. QED
      BY <1>1, <2>4, <2>6, <2>7, <3>1, <3>4, <3>5, StudyStep
  <2>10. QED
    BY <2>8, <2>9
<1>4. QED
  BY <1>2, <1>3

\* Every step keeps the invariant.
LEMMA StudyInvKept ==
  StudyInv /\ [Next]_vars => StudyInv'
<1> SUFFICES ASSUME StudyInv, [Next]_vars PROVE StudyInv'
  OBVIOUS
<1>1. ASSUME NEW p \in Process, Start(p) PROVE StudyInv'
  BY <1>1, StartKeeps
<1>2. ASSUME NEW p \in Process, Step(p) PROVE StudyInv'
  BY <1>2, CheckOutputKeeps, ClaimKeeps, LookUpKeeps, AcquireKeeps, WriteFilesKeeps,
     WriteManifestKeeps, CachedKeeps, CopyKeeps, ReplacePriorKeeps, ReplaceChecksumKeeps,
     FrozenKeeps, OpenCaseKeeps, ExecuteKeeps, RunCaseKeeps, SaveKeeps, PruneKeeps,
     CloseCaseKeeps, EndRunKeeps, OpenPublicationKeeps, GatherKeeps, StageKeeps, RenameKeeps,
     CleanKeeps DEF Step
<1>3. ASSUME NEW p \in Process, Fail(p) PROVE StudyInv'
  BY <1>3, FailKeeps
<1>4. ASSUME NEW c \in Craft, ClearCache(c) PROVE StudyInv'
  BY <1>4, ClearCacheKeeps
<1>5. CASE UNCHANGED vars
  <2>1. UNCHANGED <<cache, proc, work, output>>
    BY <1>5 DEF vars
  <2>2. \A q \in Process : Local(q)'
    BY <2>1, OthersKnowStill DEF StudyInv
  <2>3. Typed' /\ Exclusive' /\ CacheInOrder' /\ \A o \in Output : SoundWork(o)' /\ WholeOutput(o)'
    BY <2>1 DEF StudyInv, Typed, Exclusive, CacheInOrder, Owns, Fills, SoundWork, WholeOutput
  <2>4. QED
    BY <2>2, <2>3 DEF StudyInv
<1>6. QED
  BY <1>1, <1>2, <1>3, <1>4, <1>5 DEF Next

-----------------------------------------------------------------------------
(* What a step can take away.                                              *)

\* Only Rename publishes.
LEMMA OnlyRenamePublishes ==
  ASSUME Next, NEW o \in Output, output'[o] # output[o]
  PROVE  \E p \in Process : Rename(p)
<1>1. ASSUME NEW p \in Process, Step(p), ~Rename(p) PROVE output' = output
  <2>1. CASE CheckOutput(p) \/ Claim(p) \/ LookUp(p) \/ Acquire(p) \/ WriteFiles(p)
             \/ WriteManifest(p) \/ Cached(p) \/ Copy(p) \/ ReplacePrior(p) \/ ReplaceChecksum(p)
             \/ Frozen(p)
    BY <2>1, Zenon DEF CheckOutput, Claim, LookUp, Acquire, WriteFiles, WriteManifest, Cached, Copy,
       ReplacePrior, ReplaceChecksum, Frozen
  <2>2. CASE OpenCase(p) \/ Execute(p) \/ RunCase(p) \/ Save(p) \/ Prune(p) \/ CloseCase(p)
             \/ EndRun(p)
    BY <2>2, Zenon DEF OpenCase, Execute, RunCase, Benchmark, Save, Prune, CloseCase, EndRun
  <2>3. CASE OpenPublication(p) \/ Gather(p) \/ Stage(p) \/ Clean(p)
    BY <2>3, Zenon DEF OpenPublication, Gather, Stage, Clean
  <2>4. QED
    BY <1>1, <2>1, <2>2, <2>3 DEF Step
<1>2. ASSUME NEW p \in Process, Start(p) \/ Fail(p) PROVE output' = output
  BY <1>2 DEF Start, Fail
<1>3. ASSUME NEW c \in Craft, ClearCache(c) PROVE output' = output
  BY <1>3 DEF ClearCache
<1>4. QED
  BY <1>1, <1>2, <1>3 DEF Next

\* A run that writes in its directory still owns it afterwards.
LEMMA WritersOwn ==
  ASSUME StudyInv, NEW p \in Process,
         \/ Copy(p) \/ ReplacePrior(p) \/ ReplaceChecksum(p) \/ OpenCase(p) \/ Save(p) \/ Prune(p)
  PROVE  \/ work' = work
         \/ /\ Owns(p)' /\ proc'[p].out = proc[p].out
            /\ \A o \in Output : o # proc[p].out => work'[o] = work[o]
<1>1. /\ proc[p] \in Command /\ Local(p)
      /\ \A now : Become(p, now) => proc'[p] = now
      /\ work \in [Output -> {None} \union Work]
  BY IsCommand DEF StudyInv, Typed
<1>2. proc[p].step \in {"freezing", "replacing", "resealing", "running", "fitted"} =>
        proc[p].command \in {"study", "rerun"}
  BY <1>1 DEF Local, Freezing, Fitting
<1> DEFINE Still == proc'[p].command = proc[p].command /\ proc'[p].out = proc[p].out
                    /\ proc'[p].step \in {"freezing", "replacing", "resealing", "running", "fitted"}
                    /\ proc[p].step \in {"freezing", "replacing", "resealing", "running", "fitted"}
           Only == \A o \in Output : o # proc[p].out => work'[o] = work[o]
<1>3. CASE Copy(p)
  <2>1. work' = work \/ (Still /\ Only)
    BY <1>1, <1>3 DEF Copy, At, SetInputs, Command
  <2>2. QED
    BY <1>2, <2>1 DEF Owns
<1>4. CASE ReplacePrior(p)
  <2>1. Still /\ Only
    BY <1>1, <1>4 DEF ReplacePrior, At, Goto, SetInputs, Command
  <2>2. QED
    BY <1>2, <2>1 DEF Owns
<1>5. CASE ReplaceChecksum(p)
  <2>1. work' = work \/ (Still /\ Only)
    BY <1>1, <1>5 DEF ReplaceChecksum, At, SetInputs, Command
  <2>2. QED
    BY <1>2, <2>1 DEF Owns
<1>6. CASE OpenCase(p)
  <2>1. work' = work \/ (Still /\ Only)
    BY <1>1, <1>6 DEF OpenCase, At, Command
  <2>2. QED
    BY <1>2, <2>1 DEF Owns
<1>7. CASE Save(p)
  <2>1. Still /\ Only
    BY <1>1, <1>7 DEF Save, At, SetSaved, Command
  <2>2. QED
    BY <1>2, <2>1 DEF Owns
<1>8. CASE Prune(p)
  <2>1. Still /\ Only
    BY <1>1, <1>8 DEF Prune, At, SetSaved
  <2>2. QED
    BY <1>2, <2>1 DEF Owns
<1>9. QED
  BY <1>3, <1>4, <1>5, <1>6, <1>7, <1>8

\* Only a run that has published removes a directory: its own.
LEMMA OnlyCleanRemoves ==
  ASSUME StudyInv, Next, NEW o \in Output, work[o] # None, work'[o] = None
  PROVE  \E p \in Process : Clean(p) /\ proc[p].out = o
<1>1. StudyInv'
  BY StudyInvKept
<1>2. ASSUME NEW p \in Process, work' = work \/
               \/ /\ Owns(p)' /\ proc'[p].out = proc[p].out
                  /\ \A n \in Output : n # proc[p].out => work'[n] = work[n]
      PROVE  FALSE
  <2>1. Owns(p)' => work'[proc'[p].out] # None
    BY <1>1 DEF StudyInv, Exclusive
  <2>2. QED
    BY <1>2, <2>1
<1>3. ASSUME NEW p \in Process, Claim(p) PROVE FALSE
  <2>1. work' = work \/ (Own(p) = None /\ work' = [work EXCEPT ![proc[p].out] = EmptyWork(proc[p].version)])
    BY <1>3 DEF Claim
  <2>2. \A n \in Output : n # proc[p].out => work'[n] = work[n]
    BY <2>1 DEF StudyInv, Typed
  <2>3. QED
    BY <2>1, <2>2 DEF Own
<1>4. ASSUME NEW p \in Process, Clean(p) PROVE proc[p].out = o
  BY <1>4 DEF Clean, StudyInv, Typed
<1>5. ASSUME NEW p \in Process, Step(p), ~Clean(p) PROVE FALSE
  <2>1. CASE Copy(p) \/ ReplacePrior(p) \/ ReplaceChecksum(p) \/ OpenCase(p) \/ Save(p) \/ Prune(p)
    BY <1>2, <2>1, WritersOwn
  <2>2. CASE CheckOutput(p) \/ LookUp(p) \/ Acquire(p) \/ WriteFiles(p) \/ WriteManifest(p)
             \/ Cached(p) \/ Frozen(p)
    BY <2>2, Zenon DEF CheckOutput, LookUp, Acquire, WriteFiles, WriteManifest, Cached, Frozen
  <2>3. CASE Execute(p) \/ RunCase(p) \/ CloseCase(p) \/ EndRun(p)
    BY <2>3, Zenon DEF Execute, RunCase, Benchmark, CloseCase, EndRun
  <2>4. CASE OpenPublication(p) \/ Gather(p) \/ Stage(p) \/ Rename(p)
    BY <2>4, Zenon DEF OpenPublication, Gather, Stage, Rename
  <2>5. QED
    BY <1>3, <1>5, <2>1, <2>2, <2>3, <2>4 DEF Step
<1>6. ASSUME NEW p \in Process, Start(p) \/ Fail(p) PROVE FALSE
  BY <1>6 DEF Start, Fail
<1>7. ASSUME NEW c \in Craft, ClearCache(c) PROVE FALSE
  BY <1>7 DEF ClearCache
<1>8. QED
  BY <1>4, <1>5, <1>6, <1>7 DEF Next

-----------------------------------------------------------------------------
(* Theorems.                                                               *)

\* Who writes where, what every command knows of the disk, and what that makes of
\* the fits and publications, in every state (freeze_prior, run_spacecraft,
\* experiment, publish_v5, export_v4).
THEOREM StudyInvariant == StudySpec => []StudyInv
<1>1. Init => StudyInv
  <2> SUFFICES ASSUME Init PROVE StudyInv
    OBVIOUS
  <2>1. \A p \in Process : proc[p] = Idle
    BY DEF Init
  <2>2. Typed /\ CacheInOrder
    BY Documents DEF Init, Typed, CacheInOrder
  <2>3. ASSUME NEW p \in Process PROVE Local(p) /\ ~Owns(p) /\ ~Fills(p)
    BY <2>1, EmptyGathered
    DEF Idle, Local, Named, Filling, Freezing, Fitting, Publishing, Owns, Fills
  <2>4. \A o \in Output : SoundWork(o) /\ WholeOutput(o)
    BY DEF Init, SoundWork, WholeOutput
  <2>5. QED
    BY <2>2, <2>3, <2>4 DEF StudyInv, Exclusive
<1>2. QED
  BY <1>1, StudyInvKept, PTL DEF StudySpec

\* No fit is ever computed from a half-written download or from another prior
\* than its category's (load_inputs, freeze_prior, benchmark).
THEOREM FitsComeFromFrozenInputs == StudySpec => []FitsUseFrozenInputs
<1>1. StudyInv => FitsUseFrozenInputs
  BY DEF StudyInv, SoundWork, FitsUseFrozenInputs
<1>2. QED
  BY <1>1, StudyInvariant, PTL

\* What is published has every planned fit, and what a run publishes of itself
\* every case and every refit (publish_v5, export_v4, _check_case).
THEOREM StudiesArePublishedWhole == StudySpec => []PublishedIsWhole
<1>1. StudyInv => PublishedIsWhole
  BY DEF StudyInv, WholeOutput, PublishedIsWhole
<1>2. QED
  BY <1>1, StudyInvariant, PTL

\* Published directories are never replaced, and work is removed only when all of
\* it is published (_publication, shutil.rmtree).
THEOREM NoRunCostsAnother == StudySpec => NothingIsLost
<1> DEFINE Final == \A o \in Output : output[o] # None => output'[o] = output[o]
           Outlives ==
             \A o \in Output : work[o] # None /\ work'[o] = None =>
               /\ output[o] # None
               /\ \A c \in Case : work[o].saved[c] # None =>
                    c \in DOMAIN output[o].cases /\ output[o].cases[c] = work[o].saved[c]
<1>1. StudyInv /\ [Next]_vars => [Final]_vars
  <2> SUFFICES ASSUME StudyInv, Next, NEW o \in Output, output[o] # None, output'[o] # output[o]
               PROVE  FALSE
    OBVIOUS
  <2>1. PICK p \in Process : Rename(p)
    BY OnlyRenamePublishes
  <2>2. output[proc[p].out] = None /\ \A n \in Output : n # proc[p].out => output'[n] = output[n]
    BY <2>1 DEF Rename, StudyInv, Typed
  <2>3. QED
    BY <2>2
<1>2. StudyInv /\ [Next]_vars => [Outlives]_vars
  <2> SUFFICES ASSUME StudyInv, Next, NEW o \in Output, work[o] # None, work'[o] = None
               PROVE  /\ output[o] # None
                      /\ \A c \in Case : work[o].saved[c] # None =>
                           c \in DOMAIN output[o].cases /\ output[o].cases[c] = work[o].saved[c]
    OBVIOUS
  <2>1. PICK p \in Process : Clean(p) /\ proc[p].out = o
    BY OnlyCleanRemoves
  <2>2. QED
    BY <2>1 DEF Clean, At, StudyInv, Local, Publishing
<1>3. QED
  BY <1>1, <1>2, StudyInvariant, PTL DEF StudySpec, NothingIsLost, OutputIsFinal, WorkOutlivesFailure
=============================================================================
