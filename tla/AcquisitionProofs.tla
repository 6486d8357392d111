--------------------------- MODULE AcquisitionProofs ---------------------------
(***************************************************************************)
(* Acquisition for every sweep, tolerance, settling time and sample age:    *)
(* the object never forgets a command, completes at zero, takes no way but  *)
(* that to zero once it is told to stop, and tracks only the middle of a    *)
(* window that it has probed.                                               *)
(***************************************************************************)
EXTENDS Acquisition, TLAPS

USE DEF AcquisitionConfig

(* What the proofs need of the types: offsets are integers.                 *)
Basic ==
  /\ state \in State
  /\ outstanding \in Int \cup {None} /\ applied \in Int /\ antenna \in Int
  /\ sweep \in [index : Nat \ {0}, left : Int \cup {None}, right : Int \cup {None},
                confirming : BOOLEAN, resume : BOOLEAN]
  /\ samples \in [value : BOOLEAN \cup {None}, count : Nat, lag : Nat]
  /\ probe \in [offset : Int, lag : Nat] /\ effectAge \in Nat

(* A command in effect has moved the antenna to where it says, up to the    *)
(* tolerance.                                                               *)
InEffectIsThere ==
  outstanding # None /\ inEffect => AtZero(antenna - outstanding)

Leaving == {"resetting", "hold", "complete", "fault"}

(* A reset waits for its zero; tracking and completion wait for nothing.    *)
OnTheWay ==
  /\ state = "resetting" => outstanding = 0
  /\ state = "tracking" => outstanding = None
  /\ state = "complete" => outstanding = None /\ AtZero(applied)

(* A lost lock waits to resume only behind the reset that it caused.        *)
ResumesFromZero ==
  sweep.resume =>
    /\ state \in Leaving
    /\ outstanding = 0 \/ (outstanding = None /\ AtZero(applied))

(* Told to stop, the object is on its way out and does not resume.          *)
StopIsFinal ==
  stopped => state \in Leaving /\ (state = "resetting" => ~sweep.resume)

AcquisitionInv ==
  /\ Basic /\ OffsetKnown
  /\ InEffectIsThere /\ OnTheWay /\ ResumesFromZero /\ StopIsFinal

-----------------------------------------------------------------------------
(* The offsets to probe are a non-empty sequence of integers.               *)
LEMMA SweepIsThere == Sweep \in Seq(Int) /\ Len(Sweep) \in Nat \ {0}
<1> DEFINE count == (SweepMax - SweepMin) \div SweepStep
           grid  == [i \in 1 .. count + 1 |-> SweepMin + (i - 1) * SweepStep]
<1>1. count \in Nat
  BY AcquisitionAssumption
<1>2. grid \in Seq(Int) /\ Len(grid) = count + 1
  BY <1>1, AcquisitionAssumption
<1>3. Append(grid, SweepMax) \in Seq(Int) /\ Len(Append(grid, SweepMax)) = count + 2
  BY <1>1, <1>2, AcquisitionAssumption
<1>4. Sweep = grid \/ Sweep = Append(grid, SweepMax)
  BY DEF Sweep
<1> HIDE DEF count, grid
<1> QED
  BY <1>1, <1>2, <1>3, <1>4

(* The invariant holds when a pass is planned.                              *)
LEMMA InitInv == AcquisitionInit => AcquisitionInv
BY AcquisitionAssumption, SweepIsThere
DEF AcquisitionInit, AcquisitionInv, Basic, OffsetKnown, InEffectIsThere, OnTheWay,
    ResumesFromZero, StopIsFinal, State, Active, NewSweep, NoSamples, Probe, AtZero, Leaving

(* Every reset ends in a fault, in completion at zero, or on the way there. *)
LEMMA ResetStep ==
  ASSUME ResetOffset, UNCHANGED <<applied, antenna>>, AcquisitionInv
  PROVE  /\ state' \in {"fault", "complete", "resetting"}
         /\ outstanding' \in Int \cup {None} /\ OffsetKnown' /\ InEffectIsThere'
         /\ outstanding' = outstanding \/ outstanding' = 0
         /\ OnTheWay'
         /\ sweep.resume => /\ outstanding' = 0 \/ (outstanding' = None /\ AtZero(applied))
                            /\ state' # "resetting"
BY AcquisitionAssumption
DEF ResetOffset, Issue, IssueNothing, AcquisitionInv, Basic, OffsetKnown,
    InEffectIsThere, OnTheWay, ResumesFromZero, State, Active

(* The steps on the way to a search keep it,                                *)
LEMMA TransitionInv ==
  ASSUME AcquisitionInv, NEW from, NEW to, Transition(from, to),
         <<from, to>> \in {<<"planned", "precheck">>, <<"precheck", "waiting">>,
                           <<"waiting", "acquiring">>}
  PROVE  AcquisitionInv'
BY DEF Transition, AcquisitionInv, Basic, OffsetKnown, InEffectIsThere, OnTheWay,
       ResumesFromZero, StopIsFinal, Leaving, State, Active, plant

(* ... and so does its beginning.                                           *)
LEMMA StartInv == AcquisitionInv /\ Start => AcquisitionInv'
BY AcquisitionAssumption, SweepIsThere
DEF Start, Issue, AcquisitionInv, Basic, OffsetKnown, InEffectIsThere, OnTheWay,
    ResumesFromZero, StopIsFinal, Leaving, State, Active

(* Actions that touch neither offsets, sweep nor the place in the protocol. *)
LEMMA AsideInv ==
  ASSUME AcquisitionInv,
         Acknowledge \/ Elapse \/ DeadlineArrives \/ CommandExpires
  PROVE  AcquisitionInv'
BY AcquisitionAssumption
DEF Acknowledge, Elapse, DeadlineArrives, CommandExpires, object, plant, clocks,
       AcquisitionInv, Basic, OffsetKnown, InEffectIsThere, OnTheWay,
       ResumesFromZero, StopIsFinal, Leaving, State, Active

(* A readback without acknowledgement, foreign telemetry, a timeout.        *)
LEMMA OutInv ==
  ASSUME AcquisitionInv, ReadbackUnacknowledged \/ ForeignTelemetry \/ Timeout
  PROVE  AcquisitionInv'
<1>1. /\ state' \in {"hold", "fault"}
      /\ UNCHANGED <<outstanding, applied, sweep, samples, probe>>
      /\ UNCHANGED <<antenna, inEffect, effectAge, stopped>>
  BY DEF ReadbackUnacknowledged, ForeignTelemetry, Timeout, plant
<1>2. Basic' /\ OffsetKnown' /\ InEffectIsThere'
  BY <1>1 DEF AcquisitionInv, Basic, OffsetKnown, InEffectIsThere, State
<1>3. OnTheWay' /\ ResumesFromZero' /\ StopIsFinal'
  BY <1>1 DEF AcquisitionInv, OnTheWay, ResumesFromZero, StopIsFinal, Leaving
<1> QED
  BY <1>2, <1>3 DEF AcquisitionInv

(* A confirmation by telemetry keeps it, and so does what follows at once.   *)
LEMMA ConfirmInv == AcquisitionInv /\ ConfirmApplied => AcquisitionInv'
<1> SUFFICES ASSUME AcquisitionInv, ConfirmApplied PROVE AcquisitionInv'
  OBVIOUS
<1> USE DEF AcquisitionInv
<1>0. /\ outstanding # None /\ inEffect /\ AtZero(antenna - outstanding)
      /\ applied' = antenna /\ antenna \in Int /\ outstanding \in Int
      /\ samples' = NoSamples /\ UNCHANGED <<antenna, effectAge, probe, stopped>>
  BY DEF ConfirmApplied, InEffectIsThere, Basic
<1>1. CASE state = "resetting" /\ outstanding = 0 /\ Resumes
  <2>1. /\ state' = "reacquiring" /\ sweep' = NewSweep /\ ~stopped
        /\ outstanding' = Sweep[1] /\ ~inEffect'
    BY <1>1 DEF ConfirmApplied, Resumes, Issue, StopIsFinal
  <2>2. Sweep[1] \in Int /\ None \notin Int /\ Len(Sweep) \in Nat \ {0}
    BY SweepIsThere, AcquisitionAssumption
  <2> QED
    BY <1>0, <2>1, <2>2
    DEF Basic, OffsetKnown, InEffectIsThere, OnTheWay, ResumesFromZero, StopIsFinal,
        State, Active, NewSweep, NoSamples
<1>2. CASE state = "resetting" /\ outstanding = 0 /\ ~Resumes
  <2>1. state' = "complete" /\ outstanding' = None /\ UNCHANGED sweep
    BY <1>2 DEF ConfirmApplied
  <2>2. AtZero(applied')
    BY <1>0, <1>2
  <2> QED
    BY <1>0, <2>1, <2>2
    DEF Basic, OffsetKnown, InEffectIsThere, OnTheWay, ResumesFromZero, StopIsFinal,
        State, Leaving, NoSamples
<1>3. CASE ~(state = "resetting" /\ outstanding = 0)
  <2>1. outstanding' = None /\ UNCHANGED <<state, sweep>>
    BY <1>3 DEF ConfirmApplied
  <2>2. sweep.resume => AtZero(applied')
    BY <1>0 DEF ResumesFromZero
  <2>3. state # "resetting" /\ state # "complete"
    BY <1>0, <1>3 DEF OnTheWay
  <2> QED
    BY <1>0, <2>1, <2>2, <2>3
    DEF Basic, OffsetKnown, InEffectIsThere, OnTheWay, ResumesFromZero, StopIsFinal, NoSamples
<1> QED
  BY <1>1, <1>2, <1>3

(* The antenna obeying keeps the invariant.                                 *)
LEMMA ObeyInv == AcquisitionInv /\ Obey => AcquisitionInv'
BY AcquisitionAssumption
DEF Obey, AcquisitionInv, Basic, OffsetKnown, InEffectIsThere, OnTheWay, object, clocks,
    ResumesFromZero, StopIsFinal, Leaving, State, Active, AtZero

(* abort, reset and the pass deadline.                                      *)
LEMMA LeaveInv == AcquisitionInv /\ (Stop \/ PassDeadline) => AcquisitionInv'
BY ResetStep
DEF Stop, PassDeadline, AcquisitionInv, Basic, OffsetKnown, InEffectIsThere, OnTheWay,
    ResumesFromZero, StopIsFinal, Leaving, State, Active

-----------------------------------------------------------------------------
(* observe_lock *)

(* What EXCEPT leaves of a typed record.                                    *)
LEMMA CountedRecord ==
  ASSUME NEW V, NEW r \in [value : V, count : Nat, lag : Nat], NEW c \in Nat,
         NEW o \in Nat
  PROVE  [r EXCEPT !.count = c, !.lag = o] \in [value : V, count : Nat, lag : Nat]
OBVIOUS

(* What a probe leaves in the record of the sweep is of its type.           *)
LEMMA SweptRecord ==
  ASSUME NEW V, NEW r \in [index : Nat \ {0}, left : V, right : V,
                           confirming : BOOLEAN, resume : BOOLEAN],
         NEW l \in V, NEW i \in Nat \ {0}
  PROVE  [r EXCEPT !.left = l, !.index = i] \in
         [index : Nat \ {0}, left : V, right : V, confirming : BOOLEAN, resume : BOOLEAN]
OBVIOUS

(* One sample more is counted with a lag of its own or of those before it.  *)
LEMMA SampledIsTyped ==
  ASSUME Basic, NEW locked \in BOOLEAN, NEW age \in Nat
  PROVE  Sampled(locked, age) \in [value : BOOLEAN \cup {None}, count : Nat, lag : Nat]
<1> DEFINE longest == IF Lag(age) > samples.lag THEN Lag(age) ELSE samples.lag
<1>1. /\ samples \in [value : BOOLEAN \cup {None}, count : Nat, lag : Nat]
      /\ Lag(age) \in Nat /\ longest \in Nat /\ samples.count + 1 \in Nat
  BY DEF Basic, Lag
<1>2. Sampled(locked, age) =
        IF locked # samples.value THEN [value |-> locked, count |-> 1, lag |-> Lag(age)]
        ELSE [samples EXCEPT !.count = samples.count + 1, !.lag = longest]
  BY <1>1 DEF Sampled
<1> HIDE DEF longest
<1>3. CASE locked # samples.value
  BY <1>1, <1>2, <1>3
<1>4. CASE locked = samples.value
  <2>1. [samples EXCEPT !.count = samples.count + 1, !.lag = longest]
        \in [value : BOOLEAN \cup {None}, count : Nat, lag : Nat]
    BY <1>1, CountedRecord, Zenon
  <2> QED
    BY <1>2, <1>4, <2>1
<1> QED
  BY <1>3, <1>4

(* Where a sweep goes after a probe: on, to the middle, or back.            *)
LEMMA AdvanceStep ==
  ASSUME AcquisitionInv, state \in Active, outstanding = None, NEW locked \in BOOLEAN,
         Advance(locked), UNCHANGED <<applied, antenna>>
  PROVE  /\ sweep' \in [index : Nat \ {0}, left : Int \cup {None}, right : Int \cup {None},
                        confirming : BOOLEAN, resume : BOOLEAN]
         /\ ~sweep'.resume
         /\ outstanding' \in Int \cup {None} /\ OffsetKnown' /\ InEffectIsThere'
         /\ state' \in {"tracking", "fault", "complete", "resetting"} \cup Active
         /\ OnTheWay'
<1> USE DEF AcquisitionInv
<1>0. ~sweep.resume /\ sweep \in [index : Nat \ {0}, left : Int \cup {None},
          right : Int \cup {None}, confirming : BOOLEAN, resume : BOOLEAN]
  BY DEF ResumesFromZero, Basic, Active, Leaving
<1> DEFINE Fine == /\ outstanding' \in Int \cup {None} /\ OffsetKnown' /\ InEffectIsThere'
                   /\ state' \in {"tracking", "fault", "complete", "resetting"} \cup Active
                   /\ OnTheWay'
<1>1. ASSUME ResetOffset PROVE Fine
  BY <1>1, ResetStep
<1>2. ASSUME IssueNothing, state' = "tracking" PROVE Fine
  BY <1>2 DEF IssueNothing, Basic, OffsetKnown, InEffectIsThere, OnTheWay
<1>3. ASSUME NEW offset \in Int, Issue(offset), UNCHANGED state PROVE Fine
  BY <1>3, AcquisitionAssumption
  DEF Issue, Basic, OffsetKnown, InEffectIsThere, OnTheWay, Active
<1>4. ASSUME NextInSweep PROVE Fine
  <2>1. sweep.index < Len(Sweep) => Sweep[sweep.index + 1] \in Int
    BY <1>0, SweepIsThere
  <2> QED
    BY <1>1, <1>3, <1>4, <2>1 DEF NextInSweep
<1> HIDE DEF Fine
<1>5. ASSUME sweep.left # None
      PROVE  probe.offset \in Int /\ (sweep.left + probe.offset) \div 2 \in Int
  <2>1. sweep.left \in Int
    BY <1>0, <1>5
  <2>2. probe.offset \in Int
    BY DEF Basic
  <2> QED
    BY <2>1, <2>2
<1>6. applied \in Int
  BY DEF Basic
<1>7. Fine /\ ~sweep'.resume
      /\ sweep' \in [index : Nat \ {0}, left : Int \cup {None},
          right : Int \cup {None}, confirming : BOOLEAN, resume : BOOLEAN]
  <2>1. CASE sweep.confirming
    BY <1>0, <1>1, <1>2, <2>1 DEF Advance
  <2>2. CASE ~sweep.confirming /\ sweep.left # None /\ ~locked
    <3>1. Issue((sweep.left + probe.offset) \div 2) /\ UNCHANGED state
          /\ sweep' = [sweep EXCEPT !.right = probe.offset, !.confirming = TRUE]
      BY <2>2 DEF Advance
    <3> QED
      BY <1>0, <1>3, <1>5, <2>2, <3>1
  <2>3. CASE ~sweep.confirming /\ sweep.left = None /\ locked
    <3>1. CASE sweep.index = 1
      BY <1>0, <1>1, <2>3, <3>1 DEF Advance
    <3>2. CASE sweep.index > 1
      <4>1. sweep' = [sweep EXCEPT !.left = applied, !.index = sweep.index + 1] /\ NextInSweep
        BY <2>3, <3>2, <1>0 DEF Advance
      <4>2. Fine
        BY <1>4, <4>1
      <4>3. [sweep EXCEPT !.left = applied, !.index = sweep.index + 1]
            \in [index : Nat \ {0}, left : Int \cup {None},
                 right : Int \cup {None}, confirming : BOOLEAN, resume : BOOLEAN]
        <5>1. sweep.index + 1 \in Nat \ {0}
          BY <1>0
        <5>2. applied \in Int \cup {None}
          BY <1>6
        <5> QED
          BY <1>0, <5>1, <5>2, SweptRecord, Zenon
      <4>4. ~sweep'.resume
        BY <1>0, <4>1
      <4> QED
        BY <4>1, <4>2, <4>3, <4>4
    <3> QED
      BY <1>0, <3>1, <3>2
  <2>4. CASE ~sweep.confirming /\ (sweep.left # None <=> locked)
    BY <1>0, <1>4, <2>4 DEF Advance
  <2> QED
    BY <2>1, <2>2, <2>3, <2>4
<1> QED
  BY <1>7 DEF Fine

(* Scoring a lock sample keeps the invariant,                               *)
LEMMA ObserveLockInv ==
  ASSUME AcquisitionInv, NEW locked \in BOOLEAN, NEW age \in 0 .. MaxAge,
         ObserveLock(locked, age)
  PROVE  AcquisitionInv'
<1> USE DEF AcquisitionInv
<1> DEFINE counted == Sampled(locked, age)
<1>1. /\ state \in Active /\ outstanding = None /\ state \notin Leaving /\ ~stopped
      /\ UNCHANGED <<applied, antenna, effectAge, stopped>>
  BY DEF ObserveLock, StopIsFinal, Leaving, Active
<1>2. counted \in [value : BOOLEAN \cup {None}, count : Nat, lag : Nat]
  BY SampledIsTyped, AcquisitionAssumption
<1>3. NoSamples \in [value : BOOLEAN \cup {None}, count : Nat, lag : Nat]
  BY DEF NoSamples
<1> HIDE DEF counted
<1>4. CASE /\ samples' = counted
           /\ UNCHANGED <<state, outstanding, sweep, probe, expired, inEffect>>
  BY <1>1, <1>2, <1>4
  DEF Basic, OffsetKnown, InEffectIsThere, OnTheWay, ResumesFromZero, StopIsFinal
<1>5. CASE /\ samples' = NoSamples
           /\ probe' = Probe(applied, counted.lag)
           /\ Advance(locked)
  <2>1. probe' \in [offset : Int, lag : Nat]
    BY <1>2, <1>5 DEF Probe, Basic
  <2>2. state' \in State
    BY <1>1, <1>5, AdvanceStep DEF State, Active
  <2> QED
    BY <1>1, <1>3, <1>5, <2>1, <2>2, AdvanceStep
    DEF Basic, ResumesFromZero, StopIsFinal
<1> QED
  BY <1>4, <1>5 DEF ObserveLock, counted

(* ... and so does losing the lock,                                         *)
LEMMA ObserveTrackingInv ==
  ASSUME AcquisitionInv, NEW locked \in BOOLEAN, ObserveTracking(locked)
  PROVE  AcquisitionInv'
<1> USE DEF AcquisitionInv
<1>1. /\ state = "tracking" /\ ~sweep.resume /\ ~stopped
      /\ UNCHANGED <<applied, probe, antenna, effectAge, stopped>>
  BY DEF ObserveTracking, ResumesFromZero, StopIsFinal, Leaving
<1>2. samples' \in [value : BOOLEAN \cup {None}, count : Nat, lag : Nat]
  BY DEF ObserveTracking, Basic
<1>3. CASE UNCHANGED <<state, sweep>> /\ IssueNothing
  BY <1>1, <1>2, <1>3
  DEF IssueNothing, Basic, OffsetKnown, InEffectIsThere, OnTheWay, ResumesFromZero,
      StopIsFinal
<1>4. CASE sweep' = [sweep EXCEPT !.resume = TRUE] /\ ResetOffset
  <2>1. outstanding = None
    BY <1>1 DEF OnTheWay
  <2>2. /\ state' \in {"fault", "complete", "resetting"}
        /\ outstanding' \in Int \cup {None} /\ OffsetKnown' /\ InEffectIsThere' /\ OnTheWay'
        /\ outstanding' = 0 \/ (outstanding' = None /\ AtZero(applied'))
    BY <1>1, <1>4, <2>1, ResetStep
       DEF ResetOffset, Issue, IssueNothing
  <2>3. Basic'
    BY <1>1, <1>2, <1>4, <2>2 DEF Basic, State
  <2>4. ResumesFromZero' /\ StopIsFinal'
    BY <1>1, <1>4, <2>2 DEF ResumesFromZero, StopIsFinal, Leaving
  <2> QED
    BY <2>2, <2>3, <2>4
<1> QED
  BY <1>3, <1>4 DEF ObserveTracking

-----------------------------------------------------------------------------
(* ... and every other step.                                                *)
LEMMA NextInv == AcquisitionInv /\ [AcquisitionNext]_acquisitionVars => AcquisitionInv'
<1> SUFFICES ASSUME AcquisitionInv, [AcquisitionNext]_acquisitionVars
             PROVE  AcquisitionInv'
  OBVIOUS
<1>1. CASE Transition("planned", "precheck") \/ Transition("precheck", "waiting")
           \/ StartRefused
  BY <1>1, TransitionInv DEF StartRefused
<1>2. CASE Start
  BY <1>2, StartInv
<1>3. CASE Acknowledge \/ Elapse \/ DeadlineArrives \/ CommandExpires
  BY <1>3, AsideInv
<1>4. CASE ReadbackUnacknowledged \/ ForeignTelemetry \/ Timeout
  BY <1>4, OutInv
<1>5. CASE ConfirmApplied
  BY <1>5, ConfirmInv
<1>6. CASE \E locked \in BOOLEAN, age \in 0 .. MaxAge : ObserveLock(locked, age)
  BY <1>6, ObserveLockInv
<1>7. CASE \E locked \in BOOLEAN : ObserveTracking(locked)
  BY <1>7, ObserveTrackingInv
<1>8. CASE Stop \/ PassDeadline
  BY <1>8, LeaveInv
<1>9. CASE Obey
  BY <1>9, ObeyInv
<1>10. CASE UNCHANGED acquisitionVars
  BY <1>10
  DEF acquisitionVars, object, clocks, plant, AcquisitionInv, Basic, OffsetKnown,
      InEffectIsThere, OnTheWay, ResumesFromZero, StopIsFinal, Leaving
<1> QED
  BY <1>1, <1>2, <1>3, <1>4, <1>5, <1>6, <1>7, <1>8, <1>9, <1>10
  DEF AcquisitionNext, Tick

(* The books of the object balance in every reachable state.                *)
THEOREM AcquisitionInvariant == AcquisitionSpec => []AcquisitionInv
<1> QED
  BY InitInv, NextInv, PTL DEF AcquisitionSpec

-----------------------------------------------------------------------------
(* One step of an object that was told to stop.                             *)
ZeroOrNothing == stopped /\ outstanding' # outstanding => outstanding' \in {None, 0}

(* A step of a search that was told to stop commands nothing but zero.      *)
LEMMA StoppedStep ==
  AcquisitionInv /\ [AcquisitionNext]_acquisitionVars => [ZeroOrNothing]_acquisitionVars
<1> SUFFICES ASSUME AcquisitionInv, AcquisitionNext, stopped, outstanding' # outstanding
             PROVE  outstanding' \in {None, 0}
  BY DEF ZeroOrNothing
<1>0. state \in Leaving /\ (state = "resetting" => ~sweep.resume)
  BY DEF AcquisitionInv, StopIsFinal
<1>1. CASE Stop \/ PassDeadline
  BY <1>1 DEF Stop, PassDeadline, ResetOffset, Issue, IssueNothing
<1>2. CASE ConfirmApplied
  BY <1>0, <1>2 DEF ConfirmApplied, Resumes
<1>3. ~Start /\ (\A locked, age : ~ObserveLock(locked, age))
      /\ \A locked : ~ObserveTracking(locked)
  BY <1>0 DEF Start, ObserveLock, ObserveTracking, Leaving, Active
<1>4. ~(Transition("planned", "precheck") \/ Transition("precheck", "waiting")
        \/ StartRefused \/ Acknowledge \/ ReadbackUnacknowledged \/ ForeignTelemetry
        \/ Timeout \/ Obey \/ Elapse \/ DeadlineArrives \/ CommandExpires)
  BY DEF Transition, StartRefused, Acknowledge, ReadbackUnacknowledged, ForeignTelemetry,
         Timeout, Obey, Elapse, DeadlineArrives, CommandExpires, object
<1> QED
  BY <1>1, <1>2, <1>3, <1>4 DEF AcquisitionNext, Tick

(* OffsetAccounted: a command the object has forgotten can never move the   *)
(* antenna, completion finds it at zero, and a stopped object commands      *)
(* nothing but zero.                                                        *)
THEOREM OffsetIsAccounted == AcquisitionSpec => OffsetAccounted
<1>1. AcquisitionInv => OffsetKnown /\ CompleteIsZero
  BY DEF AcquisitionInv, OffsetKnown, OnTheWay, CompleteIsZero
<1>2. AcquisitionInv /\ [AcquisitionNext]_acquisitionVars
      => [stopped /\ outstanding' # outstanding => outstanding' \in {None, 0}]_acquisitionVars
  BY StoppedStep DEF ZeroOrNothing
<1> QED
  BY AcquisitionInvariant, <1>1, <1>2, PTL
  DEF AcquisitionSpec, OffsetAccounted, OnlyZeroAfterStop

-----------------------------------------------------------------------------
(* Multiples keep the order.                                                *)
LEMMA TimesKeepsOrder ==
  ASSUME NEW a \in Nat, NEW b \in Nat, NEW c \in Nat, a <= b PROVE a * c <= b * c
OBVIOUS

(* What a quotient leaves.                                                  *)
LEMMA Quotient ==
  ASSUME NEW a \in Nat, NEW b \in Nat \ {0}
  PROVE /\ a \div b \in Nat
        /\ (a \div b) * b <= a
        /\ a < (a \div b) * b + b
OBVIOUS

(* The values to probe lie between the bounds of the sweep.                 *)
LEMMA SweptIsWithin ==
  ASSUME NEW i \in 1 .. Len(Sweep) PROVE Sweep[i] \in SweepMin .. SweepMax
<1> DEFINE count == (SweepMax - SweepMin) \div SweepStep
           grid  == [k \in 1 .. count + 1 |-> SweepMin + (k - 1) * SweepStep]
<1>1. /\ count \in Nat /\ SweepMin + count * SweepStep <= SweepMax
      /\ SweepMin \in Int /\ SweepMax \in Int /\ SweepMin < SweepMax
      /\ SweepStep \in Nat \ {0}
  <2>1. SweepMax - SweepMin \in Nat
    BY AcquisitionAssumption
  <2> QED
    BY <2>1, Quotient, AcquisitionAssumption
<1>2. Sweep = Append(grid, SweepMax) \/ Sweep = grid
  BY DEF Sweep
<1> HIDE DEF count
<1>3. grid \in Seq(Int) /\ Len(grid) = count + 1
  BY <1>1
<1>4. \A k \in 1 .. count + 1 : grid[k] \in SweepMin .. SweepMax
  <2> TAKE k \in 1 .. count + 1
  <2>1. k - 1 \in Nat /\ k - 1 <= count
    BY <1>1
  <2>2. (k - 1) * SweepStep \in Nat /\ (k - 1) * SweepStep <= count * SweepStep
    BY <1>1, <2>1, TimesKeepsOrder
  <2>3. count * SweepStep \in Nat /\ grid[k] = SweepMin + (k - 1) * SweepStep
    BY <1>1
  <2> HIDE DEF grid
  <2> QED
    BY <1>1, <2>2, <2>3
<1> HIDE DEF grid
<1>5. CASE Sweep = Append(grid, SweepMax)
  <2>1. Sweep[i] = SweepMax \/ (i \in 1 .. count + 1 /\ Sweep[i] = grid[i])
    BY <1>1, <1>3, <1>5
  <2> QED
    BY <1>1, <1>4, <2>1
<1>6. CASE Sweep = grid
  BY <1>3, <1>4, <1>6
<1> QED
  BY <1>2, <1>5, <1>6

-----------------------------------------------------------------------------
(* Where a command of the sweep puts the offset: the next value to probe, or *)
(* the middle of the window.                                                *)
Middle == (sweep.left + sweep.right) \div 2
Place  == IF sweep.confirming THEN Middle ELSE Sweep[sweep.index]

(* Every offset is one of the sweep or zero, up to the tolerance.           *)
Within ==
  /\ applied \in Offset /\ antenna \in Offset /\ probe.offset \in Offset
  /\ outstanding \in Request \cup {None}
  /\ sweep.index <= Len(Sweep) + 1
  /\ sweep.left \in OffsetRange \cup {None} /\ sweep.right \in OffsetRange \cup {None}

(* How long the oldest sample accepted after settling may precede the move. *)
Overhang == IF MaxAge > Settle THEN MaxAge - Settle ELSE 0

(* When it has settled, the antenna has been at its offset for the settling *)
(* time, or for longer than any sample accepted.                            *)
Clocked ==
  /\ settling \in 0 .. Settle /\ effectAge \in 0 .. MaxAge
  /\ outstanding = None => effectAge + settling + Overhang >= MaxAge

Flags == {acked, deadlinePast, expired, inEffect, stopped} \subseteq BOOLEAN

(* No sample is counted that precedes the move by more.                     *)
Scored ==
  /\ samples.lag <= Overhang /\ samples.count <= Consecutive
  /\ state \notin Leaving => samples.count < Consecutive
  /\ ScoredAfterSettling

(* A search is at the place its sweep says, or waits to get there; before   *)
(* its first command the offset may be anywhere.                            *)
Searching ==
  state \in Active =>
    /\ sweep.index <= Len(Sweep)
    /\ outstanding # None => outstanding = Place
    /\ outstanding = None => \/ AtZero(applied - Place)
                             \/ ~sweep.confirming /\ sweep.index = 1

(* The left edge was probed at a swept value between the first and the      *)
(* present one, and the last probe is that of the value before this.        *)
LeftEdge ==
  state \in Active /\ ~sweep.confirming /\ sweep.left # None =>
    /\ sweep.index > 2
    /\ \E i \in 2 .. sweep.index - 1 : AtZero(sweep.left - Sweep[i])
    /\ AtZero(probe.offset - Sweep[sweep.index - 1])

(* Both edges were probed between the first and the last value, in order.   *)
EdgesProbed ==
  \E i, j \in 2 .. Len(Sweep) - 1 :
    i <= j /\ AtZero(sweep.left - Sweep[i]) /\ AtZero(sweep.right - Sweep[j])

BothEdges ==
  state \in Active \cup {"tracking"} /\ sweep.confirming =>
    None \notin {sweep.left, sweep.right} /\ EdgesProbed

(* Tracking is at the middle of the two; before the start nothing is swept. *)
InTheMiddle ==
  /\ state = "tracking" => sweep.confirming /\ AtZero(applied - Middle)
  /\ state \in {"planned", "precheck", "waiting"} => sweep = NewSweep /\ outstanding = None

Geometry == Searching /\ LeftEdge /\ BothEdges /\ InTheMiddle

WindowInv == Within /\ Clocked /\ Flags /\ Scored /\ Geometry

-----------------------------------------------------------------------------
(* None is no offset.                                                       *)
LEMMA NoneIsNoOffset ==
  None \notin Int /\ None # 0 /\ None \notin Offset /\ None \notin OffsetRange
BY AcquisitionAssumption DEF Offset, OffsetRange

(* What a request puts the antenna at, up to the tolerance, is an offset,   *)
LEMMA NearIsOffset ==
  ASSUME NEW o \in Request, NEW a \in Int, AtZero(a - o)
  PROVE  a \in Offset
BY AcquisitionAssumption DEF Offset, Request, OffsetRange, AtZero

(* ... and near a swept value it is within the range of the sweep.          *)
LEMMA NearSwept ==
  ASSUME NEW i \in 1 .. Len(Sweep), NEW a \in Int, AtZero(a - Sweep[i])
  PROVE  a \in OffsetRange
<1>1. Sweep[i] \in SweepMin .. SweepMax
  BY SweptIsWithin
<1> QED
  BY <1>1, AcquisitionAssumption DEF OffsetRange, AtZero

(* A swept value may be requested.                                          *)
LEMMA SweptIsRequest ==
  ASSUME NEW i \in 1 .. Len(Sweep)
  PROVE  Sweep[i] \in Request /\ Sweep[i] # None
<1>1. Sweep[i] \in SweepMin .. SweepMax
  BY SweptIsWithin
<1> QED
  BY <1>1, NoneIsNoOffset, AcquisitionAssumption DEF OffsetRange, Request

(* The middle of two offsets in the range of the sweep is one.              *)
LEMMA Halfway ==
  ASSUME NEW a \in OffsetRange, NEW b \in OffsetRange
  PROVE  (a + b) \div 2 \in OffsetRange
BY AcquisitionAssumption DEF OffsetRange

(* What is planned is within the sweep,                                     *)
LEMMA WindowInit == AcquisitionInit => WindowInv
<1> SUFFICES ASSUME AcquisitionInit PROVE WindowInv
  OBVIOUS
<1>1. 0 \in Offset /\ Len(Sweep) \in Nat \ {0}
  BY SweepIsThere, AcquisitionAssumption DEF Offset
<1>2. Within /\ Geometry
  BY <1>1
  DEF AcquisitionInit, Within, Geometry, Searching, LeftEdge, BothEdges, InTheMiddle,
      NewSweep, Probe, Active
<1>3. Clocked
  BY AcquisitionAssumption DEF AcquisitionInit, Clocked, Overhang
<1>5. Flags
  BY DEF AcquisitionInit, Flags
<1>4. Scored
  BY AcquisitionAssumption
  DEF AcquisitionInit, Scored, NoSamples, Probe, ScoredAfterSettling, Overhang
<1> QED
  BY <1>2, <1>3, <1>4, <1>5 DEF WindowInv

(* Out of the search, the geometry of the window asks for nothing.          *)
LEMMA OutOfSearch ==
  ASSUME state' \in Leaving PROVE Geometry'
BY DEF Geometry, Searching, LeftEdge, BothEdges, InTheMiddle, Leaving, Active

(* A reset keeps the offsets within the sweep.                              *)
LEMMA ResetWindow ==
  ASSUME ResetOffset, WindowInv
  PROVE  /\ state' \in Leaving /\ Geometry'
         /\ outstanding' \in Request \cup {None}
         /\ inEffect' \in BOOLEAN /\ expired' \in BOOLEAN
         /\ outstanding' = None => outstanding = None
<1>1. /\ state' \in Leaving
      /\ outstanding' \in Request \cup {None}
      /\ inEffect' \in BOOLEAN /\ expired' \in BOOLEAN
      /\ outstanding' = None => outstanding = None
  BY NoneIsNoOffset
  DEF ResetOffset, Issue, IssueNothing, WindowInv, Within, Flags, Leaving, Request
<1> QED
  BY <1>1, OutOfSearch

(* Steps before the search,                                                 *)
LEMMA TransitionWindow ==
  ASSUME AcquisitionInv, WindowInv, NEW from, NEW to, Transition(from, to),
         <<from, to>> \in {<<"planned", "precheck">>, <<"precheck", "waiting">>,
                           <<"waiting", "acquiring">>}
  PROVE  WindowInv'
<1> USE DEF WindowInv
<1>1. /\ state = from /\ state' = to
      /\ UNCHANGED <<outstanding, acked, applied, sweep, samples, probe, settling,
                     deadlinePast, expired, antenna, inEffect, effectAge, stopped>>
      /\ sweep = NewSweep /\ outstanding = None
      /\ state' \in {"precheck", "waiting", "acquiring"}
  BY DEF Transition, clocks, plant, Geometry, InTheMiddle
<1>2. Within' /\ Clocked' /\ Flags'
  BY <1>1 DEF Within, Clocked, Flags
<1>3. Scored'
  <2>1. state \notin Leaving
    BY <1>1 DEF Leaving
  <2> QED
    BY <1>1, <2>1 DEF Scored, ScoredAfterSettling
<1>4. Geometry'
  BY <1>1, SweepIsThere
  DEF Geometry, Searching, LeftEdge, BothEdges, InTheMiddle, NewSweep, Active
<1> QED
  BY <1>2, <1>3, <1>4

(* ... its start,                                                           *)
LEMMA SweepStarts ==
  ASSUME state' \in Active, sweep' = NewSweep, outstanding' = Sweep[1]
  PROVE  Geometry' /\ outstanding' \in Request /\ outstanding' # None
<1>1. Len(Sweep) \in Nat \ {0} /\ 1 \in 1 .. Len(Sweep)
  BY SweepIsThere
<1>2. outstanding' \in Request /\ outstanding' # None
  BY <1>1, SweptIsRequest
<1> QED
  BY <1>1, <1>2
  DEF Geometry, Searching, LeftEdge, BothEdges, InTheMiddle, Place, NewSweep, Active

(* ... so the first command goes to the first swept value.                  *)
LEMMA StartWindow ==
  ASSUME AcquisitionInv, WindowInv, Start PROVE WindowInv'
<1> USE DEF WindowInv
<1>1. /\ state = "waiting" /\ state' = "acquiring" /\ sweep = NewSweep
      /\ outstanding' = Sweep[1] /\ expired' = FALSE /\ inEffect' = FALSE
      /\ deadlinePast' = FALSE
      /\ UNCHANGED <<acked, applied, sweep, samples, probe, settling,
                     antenna, effectAge, stopped>>
  BY DEF Start, Issue, Geometry, InTheMiddle
<1>2. Geometry' /\ outstanding' \in Request /\ outstanding' # None
  BY <1>1, SweepStarts DEF Active
<1>3. Within' /\ Clocked' /\ Flags'
  BY <1>1, <1>2 DEF Within, Clocked, Flags
<1>4. Scored'
  BY <1>1 DEF Scored, ScoredAfterSettling, Leaving
<1> QED
  BY <1>2, <1>3, <1>4

(* ... and steps beside it.                                                 *)
LEMMA AsideWindow ==
  ASSUME WindowInv,
         Acknowledge \/ Elapse \/ DeadlineArrives \/ CommandExpires
  PROVE  WindowInv'
<1> USE DEF WindowInv
<1>1. UNCHANGED <<state, outstanding, applied, sweep, samples, probe, antenna, inEffect, stopped>>
  BY DEF Acknowledge, Elapse, DeadlineArrives, CommandExpires, object, plant, clocks
<1>2. Within' /\ Scored' /\ Geometry'
  BY <1>1
  DEF Within, Scored, ScoredAfterSettling, Geometry, Searching, LeftEdge, BothEdges, InTheMiddle,
      EdgesProbed, Place, Middle
<1>3. Clocked'
  <2>1. CASE Elapse
    BY <1>1, <2>1, AcquisitionAssumption DEF Clocked, Elapse, Overhang
  <2>2. CASE UNCHANGED <<settling, effectAge>>
    BY <1>1, <2>2 DEF Clocked
  <2> QED
    BY <2>1, <2>2 DEF Acknowledge, DeadlineArrives, CommandExpires, plant, clocks
<1>4. Flags'
  BY <1>1
  DEF Flags, Acknowledge, Elapse, DeadlineArrives, CommandExpires, object, plant, clocks
<1> QED
  BY <1>2, <1>3, <1>4

(* Readbacks without acknowledgement, foreign telemetry, timeouts.          *)
LEMMA OutWindow ==
  ASSUME WindowInv, ReadbackUnacknowledged \/ ForeignTelemetry \/ Timeout
  PROVE  WindowInv'
<1> USE DEF WindowInv
<1>1. /\ state' \in Leaving
      /\ UNCHANGED <<outstanding, acked, applied, sweep, samples, probe, settling,
                     deadlinePast, expired, antenna, inEffect, effectAge, stopped>>
  BY DEF ReadbackUnacknowledged, ForeignTelemetry, Timeout, plant, clocks, Leaving
<1>2. Within' /\ Clocked' /\ Flags'
  BY <1>1 DEF Within, Clocked, Flags
<1>3. Scored'
  BY <1>1 DEF Scored, ScoredAfterSettling
<1> QED
  BY <1>1, <1>2, <1>3, OutOfSearch

(* abort, reset and the pass deadline.                                      *)
LEMMA LeaveWindow ==
  ASSUME WindowInv, Stop \/ PassDeadline PROVE WindowInv'
<1> USE DEF WindowInv
<1>1. /\ ResetOffset /\ stopped' \in BOOLEAN
      /\ UNCHANGED <<acked, applied, sweep, samples, probe, settling, deadlinePast,
                     antenna, effectAge>>
  BY DEF Stop, PassDeadline, Flags
<1>2. /\ state' \in Leaving /\ Geometry'
      /\ outstanding' \in Request \cup {None}
      /\ inEffect' \in BOOLEAN /\ expired' \in BOOLEAN
      /\ outstanding' = None => outstanding = None
  BY <1>1, ResetWindow
<1>3. Within' /\ Clocked' /\ Flags'
  BY <1>1, <1>2 DEF Within, Clocked, Flags
<1>4. Scored'
  BY <1>1, <1>2 DEF Scored, ScoredAfterSettling
<1> QED
  BY <1>2, <1>3, <1>4

(* The antenna obeys within the tolerance.                                  *)
LEMMA ObeyWindow ==
  ASSUME AcquisitionInv, WindowInv, Obey PROVE WindowInv'
<1> USE DEF WindowInv
<1>1. /\ outstanding # None /\ inEffect' = TRUE /\ effectAge' = 0
      /\ AtZero(antenna' - outstanding) /\ antenna' \in Int
      /\ UNCHANGED <<state, outstanding, acked, applied, sweep, samples, probe, settling,
                     deadlinePast, expired, stopped>>
  BY AcquisitionAssumption
  DEF Obey, object, clocks, AtZero, AcquisitionInv, Basic
<1>2. antenna' \in Offset
  BY <1>1, NearIsOffset DEF Within
<1>5. Flags'
  BY <1>1 DEF Flags
<1>3. Within' /\ Clocked'
  BY <1>1, <1>2, AcquisitionAssumption DEF Within, Clocked
<1>4. Scored' /\ Geometry'
  BY <1>1
  DEF Scored, ScoredAfterSettling, Geometry, Searching, LeftEdge, BothEdges, InTheMiddle,
      EdgesProbed, Place, Middle
<1> QED
  BY <1>3, <1>4, <1>5

(* A confirmation: the offset applied is near the one requested, and        *)
(* settling begins.                                                         *)
LEMMA ConfirmWindow ==
  ASSUME AcquisitionInv, WindowInv, ConfirmApplied PROVE WindowInv'
<1> USE DEF WindowInv
<1>1. /\ outstanding # None /\ AtZero(antenna - outstanding)
      /\ applied' = antenna /\ acked' = FALSE /\ settling' = Settle /\ samples' = NoSamples
      /\ UNCHANGED <<probe, deadlinePast, antenna, effectAge, stopped>>
  BY DEF ConfirmApplied, AcquisitionInv, InEffectIsThere
<1>2. Scored'
  BY <1>1, AcquisitionAssumption DEF Scored, ScoredAfterSettling, NoSamples, Overhang
<1>3. CASE state = "resetting" /\ outstanding = 0 /\ Resumes
  <2>1. /\ state' = "reacquiring" /\ sweep' = NewSweep
        /\ outstanding' = Sweep[1] /\ inEffect' = FALSE /\ expired' = FALSE
    BY <1>3 DEF ConfirmApplied, Issue, Resumes
  <2>2. Geometry' /\ outstanding' \in Request /\ outstanding' # None
    BY <2>1, SweepStarts DEF Active
  <2>3. Within'
    BY <1>1, <2>1, <2>2, SweepIsThere DEF Within, NewSweep
  <2>4. Clocked'
    <3>1. settling' \in 0 .. Settle
      BY <1>1, AcquisitionAssumption
    <3> QED
      BY <1>1, <2>2, <3>1 DEF Clocked
  <2>5. Flags'
    BY <1>1, <2>1 DEF Flags
  <2> QED
    BY <1>2, <2>2, <2>3, <2>4, <2>5
<1>4. CASE ~(state = "resetting" /\ outstanding = 0 /\ Resumes)
  <2>1. /\ outstanding' = None /\ UNCHANGED <<sweep, expired, inEffect>>
        /\ state' = state \/ state' = "complete"
    BY <1>4 DEF ConfirmApplied
  <2>2. Within'
    BY <1>1, <2>1 DEF Within
  <2>3. Clocked'
    <3>1. settling' = Settle /\ Settle \in Nat /\ MaxAge \in Nat
          /\ effectAge' = effectAge /\ effectAge \in 0 .. MaxAge
      BY <1>1, AcquisitionAssumption DEF Clocked
    <3> QED
      BY <3>1 DEF Clocked, Overhang
  <2>5. Flags'
    BY <1>1, <2>1 DEF Flags
  <2>4. Geometry'
    <3>1. CASE state' = "complete"
      BY <3>1, OutOfSearch DEF Leaving
    <3>2. CASE state' = state
      <4>1. state # "tracking" /\ state \notin {"planned", "precheck", "waiting"}
        BY <1>1 DEF AcquisitionInv, OnTheWay, Geometry, InTheMiddle
      <4>2. Place' = Place
        BY <2>1 DEF Place, Middle
      <4>3. state \in Active => AtZero(applied' - Place')
        BY <1>1, <4>2 DEF Geometry, Searching
      <4>4. Searching'
        BY <2>1, <3>2, <4>3 DEF Geometry, Searching
      <4>5. LeftEdge' /\ BothEdges'
        BY <1>1, <2>1, <3>2 DEF Geometry, LeftEdge, BothEdges, EdgesProbed
      <4> QED
        BY <3>2, <4>1, <4>4, <4>5 DEF Geometry, InTheMiddle
    <3> QED
      BY <2>1, <3>1, <3>2
  <2> QED
    BY <1>2, <2>2, <2>3, <2>4, <2>5
<1> QED
  BY <1>3, <1>4

(* Losing the lock, or keeping it.                                          *)
LEMMA ObserveTrackingWindow ==
  ASSUME AcquisitionInv, WindowInv, NEW locked \in BOOLEAN, ObserveTracking(locked)
  PROVE  WindowInv'
<1> USE DEF WindowInv
<1>1. /\ state = "tracking"
      /\ UNCHANGED <<acked, applied, probe, settling, deadlinePast, antenna, effectAge, stopped>>
      /\ samples \in [value : BOOLEAN \cup {None}, count : Nat, lag : Nat]
  BY DEF ObserveTracking, AcquisitionInv, Basic
<1>2. CASE UNCHANGED <<state, sweep>> /\ IssueNothing /\ samples'.lag = samples.lag
           /\ samples'.count \in Nat /\ samples'.count < Consecutive
  <2>1. UNCHANGED <<outstanding, expired, inEffect>>
    BY <1>2 DEF IssueNothing
  <2>2. Within' /\ Clocked' /\ Flags'
    BY <1>1, <1>2, <2>1 DEF Within, Clocked, Flags
  <2>3. Scored'
    <3>1. samples'.count <= Consecutive
      BY <1>2, AcquisitionAssumption
    <3> QED
      BY <1>1, <1>2, <3>1 DEF Scored, ScoredAfterSettling
  <2>4. Geometry'
    BY <1>1, <1>2, <2>1
    DEF Geometry, Searching, LeftEdge, BothEdges, EdgesProbed, InTheMiddle,
      Place, Middle, Active
  <2> QED
    BY <2>2, <2>3, <2>4
<1>3. CASE sweep' = [sweep EXCEPT !.resume = TRUE] /\ ResetOffset
           /\ samples'.lag = samples.lag /\ samples'.count <= Consecutive
  <2>1. /\ state' \in Leaving /\ Geometry'
        /\ outstanding' \in Request \cup {None}
        /\ inEffect' \in BOOLEAN /\ expired' \in BOOLEAN
        /\ outstanding' = None => outstanding = None
    BY <1>3, ResetWindow
  <2>2. /\ sweep'.index = sweep.index /\ sweep'.left = sweep.left /\ sweep'.right = sweep.right
    BY <1>3 DEF AcquisitionInv, Basic
  <2>3. Within' /\ Clocked' /\ Flags'
    BY <1>1, <2>1, <2>2 DEF Within, Clocked, Flags
  <2>4. Scored'
    BY <1>1, <1>3, <2>1 DEF Scored, ScoredAfterSettling
  <2> QED
    BY <2>1, <2>3, <2>4
<1>4. samples.count < Consecutive
  BY <1>1 DEF Scored, Leaving
<1> QED
  BY <1>1, <1>2, <1>3, <1>4, AcquisitionAssumption DEF ObserveTracking

-----------------------------------------------------------------------------
(* After settling, no sample accepted precedes the move by more than the    *)
(* oldest outlasts settling.                                                *)
LEMMA SampledAfterSettling ==
  ASSUME AcquisitionInv, WindowInv, state \in Active, outstanding = None, Settled,
         NEW locked \in BOOLEAN, NEW age \in 0 .. MaxAge
  PROVE  /\ Sampled(locked, age).lag <= Overhang
         /\ Sampled(locked, age).count \in Nat
         /\ Sampled(locked, age).count <= Consecutive
<1>1. Lag(age) \in Nat /\ Lag(age) <= Overhang
  BY AcquisitionAssumption DEF WindowInv, Clocked, Settled, Lag, Overhang
<1>2. samples.lag <= Overhang /\ samples.count \in Nat /\ samples.count < Consecutive
      /\ samples \in [value : BOOLEAN \cup {None}, count : Nat, lag : Nat]
  BY DEF WindowInv, Scored, AcquisitionInv, Basic, Active, Leaving
<1>3. CASE locked # samples.value
  <2>1. Sampled(locked, age) = [value |-> locked, count |-> 1, lag |-> Lag(age)]
    BY <1>3 DEF Sampled
  <2> QED
    BY <1>1, <2>1, AcquisitionAssumption
<1>4. CASE locked = samples.value
  <2> DEFINE longest == IF Lag(age) > samples.lag THEN Lag(age) ELSE samples.lag
  <2>1. Sampled(locked, age) =
        [samples EXCEPT !.count = samples.count + 1, !.lag = longest]
    BY <1>2, <1>4 DEF Sampled
  <2>2. longest <= Overhang
    BY <1>1, <1>2
  <2> HIDE DEF longest
  <2> QED
    BY <1>2, <2>1, <2>2, AcquisitionAssumption
<1> QED
  BY <1>3, <1>4

(* Where the search goes after a probe at its place.                        *)
LEMMA AdvanceWindow ==
  ASSUME AcquisitionInv, WindowInv, state \in Active, outstanding = None,
         NEW locked \in BOOLEAN, Advance(locked), UNCHANGED <<applied, antenna>>,
         probe'.offset = applied
  PROVE  /\ Within' /\ Geometry'
         /\ inEffect' \in BOOLEAN /\ expired' \in BOOLEAN
<1> DEFINE Goal == /\ Within' /\ Geometry'
                   /\ inEffect' \in BOOLEAN /\ expired' \in BOOLEAN
<1> SUFFICES Goal
  OBVIOUS
<1>0. /\ sweep \in [index : Nat \ {0}, left : Int \cup {None}, right : Int \cup {None},
                    confirming : BOOLEAN, resume : BOOLEAN]
      /\ applied \in Int /\ probe.offset \in Int /\ Len(Sweep) \in Nat \ {0}
      /\ inEffect \in BOOLEAN /\ expired \in BOOLEAN
      /\ sweep.index \in 1 .. Len(Sweep)
  BY SweepIsThere
  DEF AcquisitionInv, Basic, WindowInv, Flags, Geometry, Searching
<1>1. Within
  BY DEF WindowInv
<1>2. ASSUME sweep'.left = sweep.left \/ sweep'.left \in OffsetRange,
             sweep'.right = sweep.right \/ sweep'.right \in OffsetRange,
             sweep'.index <= Len(Sweep) + 1, outstanding' \in Request \cup {None}
      PROVE  Within'
  BY <1>1, <1>2 DEF Within
<1>3. ASSUME ResetOffset, sweep'.left = sweep.left \/ sweep'.left \in OffsetRange,
             sweep'.right = sweep.right, sweep'.index <= Len(Sweep) + 1
      PROVE  Goal
  BY <1>2, <1>3, ResetWindow
<1>4. CASE sweep.confirming /\ locked
  <2>1. /\ state' = "tracking" /\ UNCHANGED <<outstanding, expired, inEffect, sweep>>
    BY <1>4 DEF Advance, IssueNothing
  <2>2. AtZero(applied - Middle)
    BY <1>4 DEF WindowInv, Geometry, Searching, Place
  <2>3. BothEdges'
    BY <1>4, <2>1 DEF WindowInv, Geometry, BothEdges, EdgesProbed
  <2>4. Geometry'
    BY <1>4, <2>1, <2>2, <2>3 DEF Geometry, Searching, LeftEdge, InTheMiddle, Active, Middle
  <2> QED
    BY <1>0, <1>1, <1>2, <2>1, <2>4 DEF Within
<1>5. CASE sweep.confirming /\ ~locked
  BY <1>0, <1>3, <1>5 DEF Advance
<1>6. CASE ~sweep.confirming /\ sweep.left = None /\ locked /\ sweep.index = 1
  BY <1>0, <1>3, <1>6 DEF Advance
<1>7. sweep.index > 1 /\ ~sweep.confirming => AtZero(applied - Sweep[sweep.index])
  BY DEF WindowInv, Geometry, Searching, Place
<1>8. CASE ~sweep.confirming /\ sweep.left # None /\ ~locked
  <2>1. /\ sweep' = [sweep EXCEPT !.right = probe.offset, !.confirming = TRUE]
        /\ Issue((sweep.left + probe.offset) \div 2) /\ UNCHANGED state
    BY <1>8 DEF Advance
  <2>2. /\ sweep.index > 2 /\ AtZero(probe.offset - Sweep[sweep.index - 1])
        /\ sweep.index - 1 \in 2 .. Len(Sweep) - 1
    BY <1>0, <1>8 DEF WindowInv, Geometry, LeftEdge
  <2>3. PICK i \in 2 .. sweep.index - 1 : AtZero(sweep.left - Sweep[i])
    BY <1>8 DEF WindowInv, Geometry, LeftEdge
  <2>4. i \in 2 .. Len(Sweep) - 1 /\ i <= sweep.index - 1
    BY <1>0, <2>2, <2>3
  <2>5. sweep.left \in OffsetRange /\ probe.offset \in OffsetRange
    <3>1. sweep.index - 1 \in 1 .. Len(Sweep)
      BY <1>0, <2>2
    <3> QED
      BY <1>0, <1>1, <1>8, <2>2, <3>1, NearSwept DEF Within
  <2>6. /\ sweep'.left = sweep.left /\ sweep'.right = probe.offset
        /\ sweep'.confirming = TRUE /\ sweep'.index = sweep.index
        /\ outstanding' = (sweep.left + probe.offset) \div 2
        /\ inEffect' = FALSE /\ expired' = FALSE
    BY <1>0, <2>1 DEF Issue
  <2>7. outstanding' \in OffsetRange /\ outstanding' \in Request /\ outstanding' # None
    BY <2>5, <2>6, Halfway, NoneIsNoOffset DEF Request
  <2>8. Within'
    BY <1>0, <1>2, <2>5, <2>6, <2>7
  <2>9. BothEdges'
    <3>1. sweep'.left # None /\ sweep'.right # None
      BY <2>5, <2>6, NoneIsNoOffset
    <3>2. EdgesProbed'
      BY <2>2, <2>3, <2>4, <2>6 DEF EdgesProbed
    <3> QED
      BY <3>1, <3>2 DEF BothEdges
  <2>10. Place' = outstanding'
    BY <2>6 DEF Place, Middle
  <2>11. Searching'
    BY <1>0, <2>6, <2>7, <2>10 DEF Searching
  <2>12. Geometry'
    BY <2>1, <2>6, <2>9, <2>11 DEF Geometry, LeftEdge, InTheMiddle, Active
  <2> QED
    BY <2>6, <2>8, <2>12
<1>9. ASSUME ~sweep.confirming, NextInSweep,
             sweep'.left = sweep.left \/ sweep'.left \in OffsetRange,
             sweep'.right = sweep.right, sweep'.confirming = FALSE,
             sweep'.index = sweep.index + 1,
             sweep.index < Len(Sweep) => LeftEdge'
      PROVE  Goal
  <2>1. CASE sweep.index < Len(Sweep)
    <3>1. outstanding' = Sweep[sweep.index + 1] /\ UNCHANGED state
          /\ inEffect' = FALSE /\ expired' = FALSE
      BY <1>9, <2>1 DEF NextInSweep, Issue
    <3>2. outstanding' \in Request /\ outstanding' # None
      BY <1>0, <2>1, <3>1, SweptIsRequest
    <3>3. Within'
      BY <1>0, <1>2, <1>9, <2>1, <3>2
    <3>4. Searching' /\ BothEdges' /\ InTheMiddle'
      BY <1>0, <1>9, <2>1, <3>1, <3>2
      DEF Searching, BothEdges, InTheMiddle, Place, Active
    <3> QED
      BY <1>9, <2>1, <3>1, <3>3, <3>4 DEF Geometry
  <2>2. CASE ~(sweep.index < Len(Sweep))
    BY <1>0, <1>3, <1>9, <2>2 DEF NextInSweep
  <2> QED
    BY <2>1, <2>2
<1>10. CASE ~sweep.confirming /\ sweep.left = None /\ locked /\ sweep.index > 1
  <2>1. sweep' = [sweep EXCEPT !.left = applied, !.index = sweep.index + 1] /\ NextInSweep
    BY <1>0, <1>10 DEF Advance
  <2>2. /\ sweep'.left = applied /\ sweep'.right = sweep.right /\ sweep'.confirming = FALSE
        /\ sweep'.index = sweep.index + 1
    BY <1>0, <1>10, <2>1
  <2>3. AtZero(applied - Sweep[sweep.index]) /\ applied \in OffsetRange
    BY <1>0, <1>7, <1>10, NearSwept
  <2>4. LeftEdge'
    <3>1. sweep'.index - 1 = sweep.index /\ sweep'.index > 2
          /\ sweep.index \in 2 .. sweep'.index - 1
      BY <1>0, <1>10, <2>2
    <3> QED
      BY <2>2, <2>3, <3>1 DEF LeftEdge
  <2> QED
    BY <1>9, <1>10, <2>1, <2>2, <2>3, <2>4
<1>11. CASE ~sweep.confirming /\ (sweep.left # None <=> locked)
  <2>1. sweep' = [sweep EXCEPT !.index = sweep.index + 1] /\ NextInSweep
    BY <1>0, <1>11 DEF Advance
  <2>2. /\ sweep'.left = sweep.left /\ sweep'.right = sweep.right /\ sweep'.confirming = FALSE
        /\ sweep'.index = sweep.index + 1
    BY <1>0, <1>11, <2>1
  <2>3. ASSUME sweep.left # None PROVE LeftEdge'
    <3>1. PICK i \in 2 .. sweep.index - 1 : AtZero(sweep.left - Sweep[i])
      BY <1>11, <2>3 DEF WindowInv, Geometry, LeftEdge
    <3>2. sweep.index > 2 /\ AtZero(applied - Sweep[sweep.index])
      <4>1. sweep.index > 2
        BY <1>11, <2>3 DEF WindowInv, Geometry, LeftEdge
      <4> QED
        BY <1>0, <1>7, <1>11, <4>1
    <3>3. sweep'.index > 2 /\ sweep'.index - 1 = sweep.index /\ i \in 2 .. sweep'.index - 1
      BY <1>0, <2>2, <3>1, <3>2
    <3> QED
      BY <2>2, <3>1, <3>2, <3>3 DEF LeftEdge
  <2>4. sweep.left = None => LeftEdge'
    BY <2>2 DEF LeftEdge
  <2> QED
    BY <1>9, <1>11, <2>1, <2>2, <2>3, <2>4
<1> HIDE DEF Goal
<1> QED
  BY <1>0, <1>4, <1>5, <1>6, <1>8, <1>10, <1>11

(* Scoring a lock sample.                                                   *)
LEMMA ObserveLockWindow ==
  ASSUME AcquisitionInv, WindowInv, NEW locked \in BOOLEAN,
         NEW age \in 0 .. MaxAge, ObserveLock(locked, age)
  PROVE  WindowInv'
<1> DEFINE counted == Sampled(locked, age)
<1>1. /\ state \in Active /\ outstanding = None /\ Settled
      /\ UNCHANGED <<acked, applied, settling, deadlinePast, antenna, effectAge, stopped>>
  BY DEF ObserveLock
<1>2. counted.lag <= Overhang /\ counted.count \in Nat /\ counted.count <= Consecutive
  BY <1>1, SampledAfterSettling
<1>3. \/ /\ counted.count < Consecutive
         /\ samples' = counted
         /\ UNCHANGED <<state, outstanding, sweep, probe, expired, inEffect>>
      \/ /\ samples' = NoSamples
         /\ probe' = Probe(applied, counted.lag)
         /\ Advance(locked)
  BY <1>2 DEF ObserveLock
<1> HIDE DEF counted
<1>4. CASE /\ counted.count < Consecutive
           /\ samples' = counted
           /\ UNCHANGED <<state, outstanding, sweep, probe, expired, inEffect>>
  <2>1. Within' /\ Clocked' /\ Flags'
    BY <1>1, <1>4 DEF WindowInv, Within, Clocked, Flags
  <2>2. Scored'
    BY <1>2, <1>4 DEF WindowInv, Scored, ScoredAfterSettling
  <2>3. Geometry'
    BY <1>1, <1>4
    DEF WindowInv, Geometry, Searching, LeftEdge, BothEdges, EdgesProbed, InTheMiddle,
      Place, Middle
  <2> QED
    BY <2>1, <2>2, <2>3 DEF WindowInv
<1>5. CASE /\ samples' = NoSamples
           /\ probe' = Probe(applied, counted.lag)
           /\ Advance(locked)
  <2>1. probe'.offset = applied /\ probe'.lag = counted.lag
    BY <1>5 DEF Probe
  <2>2. /\ Within' /\ Geometry'
        /\ inEffect' \in BOOLEAN /\ expired' \in BOOLEAN
    BY <1>1, <1>5, <2>1, AdvanceWindow
  <2>3. Clocked'
    BY <1>1 DEF WindowInv, Clocked
  <2>4. Flags'
    BY <1>1, <2>2 DEF WindowInv, Flags
  <2>5. Scored'
    <3>1. samples'.lag = 0 /\ samples'.count = 0
      BY <1>5 DEF NoSamples
    <3>2. 0 < Consecutive /\ 0 <= Consecutive /\ 0 <= Overhang
      BY AcquisitionAssumption DEF Overhang
    <3> QED
      BY <1>2, <2>1, <3>1, <3>2 DEF Scored, ScoredAfterSettling, Overhang
  <2> QED
    BY <2>2, <2>3, <2>4, <2>5 DEF WindowInv
<1> QED
  BY <1>3, <1>4, <1>5

(* Every step keeps it.                                                     *)
LEMMA WindowNext ==
  ASSUME AcquisitionInv, WindowInv, [AcquisitionNext]_acquisitionVars
  PROVE  WindowInv'
<1>1. CASE Transition("planned", "precheck") \/ Transition("precheck", "waiting")
           \/ StartRefused
  BY <1>1, TransitionWindow DEF StartRefused
<1>2. CASE Start
  BY <1>2, StartWindow
<1>3. CASE Acknowledge \/ Elapse \/ DeadlineArrives \/ CommandExpires
  BY <1>3, AsideWindow
<1>4. CASE ReadbackUnacknowledged \/ ForeignTelemetry \/ Timeout
  BY <1>4, OutWindow
<1>5. CASE ConfirmApplied
  BY <1>5, ConfirmWindow
<1>6. CASE \E locked \in BOOLEAN, age \in 0 .. MaxAge : ObserveLock(locked, age)
  BY <1>6, ObserveLockWindow
<1>7. CASE \E locked \in BOOLEAN : ObserveTracking(locked)
  BY <1>7, ObserveTrackingWindow
<1>8. CASE Stop \/ PassDeadline
  BY <1>8, LeaveWindow
<1>9. CASE Obey
  BY <1>9, ObeyWindow
<1>10. CASE UNCHANGED acquisitionVars
  <2>1. Within' /\ Clocked' /\ Flags' /\ Scored'
    BY <1>10
    DEF acquisitionVars, object, clocks, plant, WindowInv, Within, Clocked, Flags, Scored,
        ScoredAfterSettling
  <2>2. Geometry'
    BY <1>10
    DEF acquisitionVars, object, clocks, plant, WindowInv, Geometry, Searching, LeftEdge,
        BothEdges, EdgesProbed, InTheMiddle, Place, Middle
  <2> QED
    BY <2>1, <2>2 DEF WindowInv
<1> QED
  BY <1>1, <1>2, <1>3, <1>4, <1>5, <1>6, <1>7, <1>8, <1>9, <1>10
  DEF AcquisitionNext, Tick

(* What the invariant says of the property.                                 *)
LEMMA WindowIsProbed ==
  ASSUME AcquisitionInv, WindowInv PROVE ProbedWindow
<1>1. TrackedWindow
  BY DEF WindowInv, Geometry, BothEdges, EdgesProbed, InTheMiddle, TrackedWindow, Middle
<1>2. ScoredAfterSettling
  BY DEF WindowInv, Scored
<1>3. state \in State /\ applied \in Offset /\ antenna \in Offset
      /\ outstanding \in Request \cup {None}
  BY AcquisitionAssumption
  DEF AcquisitionInv, Basic, WindowInv, Within, Offset, OffsetRange
<1>4. sweep \in [index : 1 .. Len(Sweep) + 1, left : OffsetRange \cup {None},
                 right : OffsetRange \cup {None}, confirming : BOOLEAN, resume : BOOLEAN]
  BY SweepIsThere DEF AcquisitionInv, Basic, WindowInv, Within
<1>5. samples \in [value : BOOLEAN \cup {None}, count : 0 .. Consecutive, lag : 0 .. MaxAge]
  <2>1. samples.lag <= MaxAge
    BY AcquisitionAssumption DEF AcquisitionInv, Basic, WindowInv, Scored, Overhang
  <2> QED
    BY <2>1, AcquisitionAssumption DEF AcquisitionInv, Basic, WindowInv, Scored
<1>6. probe \in [offset : Offset, lag : 0 .. MaxAge]
  <2>1. probe.lag <= MaxAge
    BY <1>2, AcquisitionAssumption DEF AcquisitionInv, Basic, ScoredAfterSettling
  <2> QED
    BY <2>1, AcquisitionAssumption DEF AcquisitionInv, Basic, WindowInv, Within
<1>7. settling \in 0 .. Settle /\ effectAge \in 0 .. MaxAge
      /\ {acked, deadlinePast, expired, inEffect, stopped} \subseteq BOOLEAN
  BY DEF WindowInv, Clocked, Flags
<1> QED
  BY <1>1, <1>2, <1>3, <1>4, <1>5, <1>6, <1>7 DEF ProbedWindow, AcquisitionTypeOK

(* ProbedWindow: what is tracked is the middle of a window whose two edges  *)
(* were both probed, in order and at swept values other than the bounds, by *)
(* no sample that precedes the move by more than it outlasts settling, and  *)
(* every offset requested on the way was one of the sweep or the reset.     *)
THEOREM TrackedWindowsWereProbed == AcquisitionSpec => []ProbedWindow
<1>1. AcquisitionInit => WindowInv
  BY WindowInit
<1>2. AcquisitionInv /\ WindowInv /\ [AcquisitionNext]_acquisitionVars => WindowInv'
  BY WindowNext
<1>3. AcquisitionInv /\ WindowInv => ProbedWindow
  BY WindowIsProbed
<1> QED
  BY AcquisitionInvariant, <1>1, <1>2, <1>3, PTL DEF AcquisitionSpec
=============================================================================
