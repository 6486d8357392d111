----------------------------- MODULE Acquisition -----------------------------
(***************************************************************************)
(* BinaryLockAcquisition of dart/controller/acquisition.py: the sweep that  *)
(* looks for the offsets at which the receiver locks, issues one offset     *)
(* command at a time, settles on the middle of the window and takes the     *)
(* offset back at the end of the pass.                                      *)
(*                                                                         *)
(* The runtime that drives the object is not in the repository, so its      *)
(* methods are called in any order.  Around it the antenna (external) obeys *)
(* each command some time after it was issued, or never, and the readbacks  *)
(* and lock samples report what it did, late.  Offsets are integers, half   *)
(* the configured unit each, so that the middle of two swept values is one. *)
(***************************************************************************)
EXTENDS Integers, Sequences

CONSTANTS
  SweepMin, SweepMax, SweepStep,  \* sweep_min_s, sweep_max_s, sweep_step_s
  Tolerance,     \* readback_tolerance_s
  Settle,        \* settle_s, in clock ticks
  MaxAge,        \* maximum_sample_age_s, in clock ticks
  Consecutive,   \* consecutive_samples
  None           \* Python's None

(* validate, and what the integer scale needs *)
AcquisitionConfig ==
  /\ SweepMin \in Int /\ SweepMax \in Int /\ SweepStep \in Nat \ {0}
  /\ SweepMin < SweepMax
  /\ \A v \in {SweepMin, SweepMax, SweepStep} : v % 2 = 0
  /\ Tolerance \in Nat /\ Settle \in Nat \ {0} /\ MaxAge \in Nat
  /\ Consecutive \in Nat \ {0}
  /\ None \notin Int /\ None \notin BOOLEAN

ASSUME AcquisitionAssumption == AcquisitionConfig

VARIABLES
  state,        \* AcquisitionState
  outstanding,  \* the offset the outstanding command requests, or None
  acked,        \* api_acknowledged
  applied,      \* applied_offset_s
  sweep,        \* _sweep_index, the edges, _confirming_midpoint, _resume_after_reset
  samples,      \* _sample_value, _sample_count; lag: see Sampled
  probe,        \* the last of probes, at zero before the first
  settling,     \* _settled_after minus the clock, 0 when past
  deadlinePast, \* has the clock reached _deadline?
  expired,      \* has it passed expires_monotonic_s of the outstanding command?
  antenna,      \* the offset the antenna really applies
  inEffect,     \* has the antenna obeyed the outstanding command?
  effectAge,    \* clock ticks since the antenna last obeyed one, up to MaxAge
  stopped       \* has the caller ever called abort or reset?

object == <<state, outstanding, acked, applied, sweep, samples, probe>>
clocks == <<settling, deadlinePast, expired>>
plant  == <<antenna, inEffect, effectAge>>
acquisitionVars == <<object, clocks, plant, stopped>>

Active == {"acquiring", "reacquiring"}
State  == {"planned", "precheck", "waiting", "tracking", "hold", "resetting",
           "complete", "fault"} \cup Active

(* _sweep_values: the multiples of the step, and the upper bound if the last *)
(* of them falls short of it.                                               *)
Sweep ==
  LET count == (SweepMax - SweepMin) \div SweepStep
      grid  == [i \in 1 .. count + 1 |-> SweepMin + (i - 1) * SweepStep]
  IN IF grid[count + 1] < SweepMax - Tolerance THEN Append(grid, SweepMax) ELSE grid

AtZero(offset) == offset \in -Tolerance .. Tolerance

NewSweep  == [index |-> 1, left |-> None, right |-> None,
              confirming |-> FALSE, resume |-> FALSE]
NoSamples == [value |-> None, count |-> 0, lag |-> 0]

(* _record_probe; lag: the longest lag of the samples it counts *)
Probe(offset, lag) == [offset |-> offset, lag |-> lag]

AcquisitionInit ==
  /\ state = "planned"
  /\ outstanding = None /\ acked = FALSE /\ applied = 0
  /\ sweep = NewSweep /\ samples = NoSamples /\ probe = Probe(0, 0)
  /\ settling = 0 /\ deadlinePast = TRUE /\ expired = FALSE
  /\ antenna = 0 /\ inEffect = FALSE /\ effectAge = MaxAge
  /\ stopped = FALSE

-----------------------------------------------------------------------------
(* _issue *)
Issue(offset) ==
  /\ outstanding' = offset
  /\ expired' = FALSE
  /\ inEffect' = FALSE

IssueNothing == UNCHANGED <<outstanding, expired, inEffect>>

(* reset, the part every caller of it shares: with a command outstanding it *)
(* is a fault, an offset already at zero needs no command.                  *)
ResetOffset ==
  \/ /\ outstanding # None
     /\ state' = "fault"
     /\ IssueNothing
  \/ /\ outstanding = None /\ AtZero(applied)
     /\ state' = "complete"
     /\ IssueNothing
  \/ /\ outstanding = None /\ ~AtZero(applied)
     /\ state' = "resetting"
     /\ Issue(0)

-----------------------------------------------------------------------------
(* precheck, wait *)
Transition(from, to) ==
  /\ state = from
  /\ state' = to
  /\ UNCHANGED <<outstanding, acked, applied, sweep, samples, probe,
                 clocks, plant, stopped>>

(* start; _deadline is 0.0 before it *)
Start ==
  /\ state = "waiting"
  /\ state' = "acquiring"
  /\ deadlinePast' = FALSE
  /\ Issue(Sweep[1])
  /\ UNCHANGED <<acked, applied, sweep, samples, probe, settling,
                 antenna, effectAge, stopped>>

(* A deadline that is not in the future is refused after the transition.    *)
StartRefused == Transition("waiting", "acquiring")

Acknowledge ==
  /\ outstanding # None /\ ~acked
  /\ acked' = TRUE
  /\ UNCHANGED <<state, outstanding, applied, sweep, samples, probe,
                 clocks, plant, stopped>>

(* confirm_applied, for a fresh readback of the outstanding command within  *)
(* the tolerance; every other readback is ignored.                          *)
ReadbackUnacknowledged ==
  /\ outstanding # None /\ inEffect /\ ~acked
  /\ state' = "hold"
  /\ UNCHANGED <<outstanding, acked, applied, sweep, samples, probe,
                 clocks, plant, stopped>>

(* The reset was for a lost lock, and there is time for another sweep.      *)
Resumes == sweep.resume /\ ~deadlinePast

(* Mutant: outside of a sweep every command back to zero is taken for the   *)
(* reset, also one that was outstanding when the object was told to stop.   *)
ConfirmAnyZero ==
  LET reset == state \notin Active /\ outstanding = 0 IN
  /\ outstanding # None /\ inEffect /\ acked
  /\ applied' = antenna /\ acked' = FALSE
  /\ settling' = Settle /\ samples' = NoSamples
  /\ IF reset /\ Resumes
     THEN state' = "reacquiring" /\ sweep' = NewSweep /\ Issue(Sweep[1])
     ELSE /\ state' = IF reset THEN "complete" ELSE state
          /\ outstanding' = None
          /\ UNCHANGED <<sweep, expired, inEffect>>
  /\ UNCHANGED <<probe, deadlinePast, antenna, effectAge, stopped>>

ConfirmApplied ==
  /\ outstanding # None /\ inEffect /\ acked
  /\ applied' = antenna
  /\ acked' = FALSE
  /\ settling' = Settle
  /\ samples' = NoSamples
  /\ IF state = "resetting" /\ outstanding = 0
     THEN \/ /\ Resumes
             /\ state' = "reacquiring"
             /\ sweep' = NewSweep
             /\ Issue(Sweep[1])
          \/ /\ ~Resumes
             /\ state' = "complete"
             /\ outstanding' = None
             /\ UNCHANGED <<sweep, expired, inEffect>>
     ELSE /\ outstanding' = None
          /\ UNCHANGED <<state, sweep, expired, inEffect>>
  /\ UNCHANGED <<probe, deadlinePast, antenna, effectAge, stopped>>

(* _require_identity: telemetry of another contact, antenna or ephemeris.   *)
ForeignTelemetry ==
  /\ state' = "fault"
  /\ UNCHANGED <<outstanding, acked, applied, sweep, samples, probe,
                 clocks, plant, stopped>>

-----------------------------------------------------------------------------
(* observe_lock *)

(* Mutant: no settling time.                                                *)
SettledAtOnce == TRUE

Settled == settling = 0

(* How long before the antenna took up its offset a sample of that age was  *)
(* measured.                                                                *)
Lag(age) == IF age > effectAge THEN age - effectAge ELSE 0

(* _count_sample.  lag: history, the longest of the samples counted.        *)
Sampled(locked, age) ==
  IF locked # samples.value THEN [value |-> locked, count |-> 1, lag |-> Lag(age)]
  ELSE [samples EXCEPT !.count = @ + 1,
                       !.lag = IF Lag(age) > @ THEN Lag(age) ELSE @]

NextInSweep ==
  IF sweep.index < Len(Sweep)
  THEN /\ Issue(Sweep[sweep.index + 1])
       /\ UNCHANGED state
  ELSE ResetOffset

(* _advance, once the probe at the current offset is locked or not; the     *)
(* right edge is the probe before this one.                                 *)
Advance(locked) ==
  \/ /\ sweep.confirming /\ locked
     /\ state' = "tracking"
     /\ IssueNothing
     /\ UNCHANGED sweep
  \/ /\ sweep.confirming /\ ~locked
     /\ ResetOffset
     /\ UNCHANGED sweep
  \/ /\ ~sweep.confirming /\ sweep.left = None /\ locked /\ sweep.index = 1
     /\ ResetOffset
     /\ UNCHANGED sweep
  \/ /\ ~sweep.confirming /\ sweep.left = None /\ locked /\ sweep.index > 1
     /\ sweep' = [sweep EXCEPT !.left = applied, !.index = @ + 1]
     /\ NextInSweep
  \/ /\ ~sweep.confirming /\ sweep.left # None /\ ~locked
     /\ sweep' = [sweep EXCEPT !.right = probe.offset, !.confirming = TRUE]
     /\ Issue((sweep.left + probe.offset) \div 2)
     /\ UNCHANGED state
  \/ /\ ~sweep.confirming /\ (sweep.left # None <=> locked)
     /\ sweep' = [sweep EXCEPT !.index = @ + 1]
     /\ NextInSweep

ObserveLock(locked, age) ==
  /\ state \in Active /\ outstanding = None /\ Settled
  /\ LET counted == Sampled(locked, age) IN
     \/ /\ counted.count < Consecutive
        /\ samples' = counted
        /\ UNCHANGED <<state, outstanding, sweep, probe, expired, inEffect>>
     \/ /\ counted.count >= Consecutive
        /\ samples' = NoSamples
        /\ probe' = Probe(applied, counted.lag)
        /\ Advance(locked)
  /\ UNCHANGED <<acked, applied, settling, deadlinePast, antenna, effectAge, stopped>>

(* _observe_tracking *)
ObserveTracking(locked) ==
  /\ state = "tracking"
  /\ \/ /\ locked
        /\ samples' = [samples EXCEPT !.count = 0]
        /\ UNCHANGED <<state, sweep>> /\ IssueNothing
     \/ /\ ~locked /\ samples.count + 1 < Consecutive
        /\ samples' = [samples EXCEPT !.count = @ + 1]
        /\ UNCHANGED <<state, sweep>> /\ IssueNothing
     \/ /\ ~locked /\ samples.count + 1 >= Consecutive
        /\ samples' = [samples EXCEPT !.count = @ + 1]
        /\ sweep' = [sweep EXCEPT !.resume = TRUE]
        /\ ResetOffset
  /\ UNCHANGED <<acked, applied, probe, settling, deadlinePast,
                 antenna, effectAge, stopped>>

-----------------------------------------------------------------------------
(* tick *)
Timeout ==
  /\ state \notin {"complete", "fault"}
  /\ outstanding # None /\ expired
  /\ state' = "fault"
  /\ UNCHANGED <<outstanding, acked, applied, sweep, samples, probe,
                 clocks, plant, stopped>>

(* Mutant: only a sweep in progress is ended by the deadline.               *)
DeadlineWhenActive ==
  /\ state \in Active
  /\ ~(outstanding # None /\ expired)
  /\ deadlinePast
  /\ ResetOffset
  /\ UNCHANGED <<acked, applied, sweep, samples, probe, settling, deadlinePast,
                 antenna, effectAge, stopped>>

PassDeadline ==
  /\ state \notin {"complete", "fault", "resetting"}
  /\ ~(outstanding # None /\ expired)
  /\ deadlinePast
  /\ ResetOffset
  /\ UNCHANGED <<acked, applied, sweep, samples, probe, settling, deadlinePast,
                 antenna, effectAge, stopped>>

Tick == Timeout \/ PassDeadline

(* abort, and reset called from outside *)
Stop ==
  /\ ResetOffset
  /\ stopped' = TRUE
  /\ UNCHANGED <<acked, applied, sweep, samples, probe, settling, deadlinePast,
                 antenna, effectAge>>

-----------------------------------------------------------------------------
(* The antenna obeys the outstanding command, off by at most the tolerance. *)
Obey ==
  /\ outstanding # None /\ ~inEffect
  /\ \E offset \in outstanding - Tolerance .. outstanding + Tolerance :
       antenna' = offset
  /\ inEffect' = TRUE
  /\ effectAge' = 0
  /\ UNCHANGED <<object, clocks, stopped>>

(* A clock tick: the settling time runs off, the last change gets older.    *)
Elapse ==
  /\ settling' = IF settling > 0 THEN settling - 1 ELSE 0
  /\ effectAge' = IF effectAge < MaxAge THEN effectAge + 1 ELSE MaxAge
  /\ UNCHANGED <<object, deadlinePast, expired, antenna, inEffect, stopped>>

(* The clock reaches the deadline, or passes the time by which the          *)
(* outstanding command should have been confirmed.                          *)
DeadlineArrives ==
  /\ ~deadlinePast
  /\ deadlinePast' = TRUE
  /\ UNCHANGED <<object, settling, expired, plant, stopped>>

CommandExpires ==
  /\ outstanding # None /\ ~expired
  /\ expired' = TRUE
  /\ UNCHANGED <<object, settling, deadlinePast, plant, stopped>>

-----------------------------------------------------------------------------

AcquisitionNext ==
  \/ Transition("planned", "precheck") \/ Transition("precheck", "waiting")
  \/ Start \/ StartRefused
  \/ Acknowledge \/ ReadbackUnacknowledged \/ ConfirmApplied \/ ForeignTelemetry
  \/ \E locked \in BOOLEAN, age \in 0 .. MaxAge : ObserveLock(locked, age)
  \/ \E locked \in BOOLEAN : ObserveTracking(locked)
  \/ Tick \/ Stop
  \/ Obey \/ Elapse \/ DeadlineArrives \/ CommandExpires

AcquisitionSpec == AcquisitionInit /\ [][AcquisitionNext]_acquisitionVars

(* Fairness: the clock runs and the runtime calls tick time and again.      *)
(* Nothing is assumed of the antenna or of telemetry.                       *)
FairAcquisitionSpec ==
  /\ AcquisitionSpec
  /\ WF_acquisitionVars(DeadlineArrives)
  /\ WF_acquisitionVars(CommandExpires)
  /\ WF_acquisitionVars(Tick)

-----------------------------------------------------------------------------
(* The offsets that a sweep applies, and the middles of two of them; what   *)
(* the object may request, and what the antenna then applies.               *)
OffsetRange == (SweepMin - Tolerance) .. (SweepMax + Tolerance)
Request     == OffsetRange \cup {0}
Offset      == (SweepMin - 2 * Tolerance) .. (SweepMax + 2 * Tolerance)
               \cup -Tolerance .. Tolerance

(* Type invariant; in particular every offset requested lies within the     *)
(* configured sweep, up to the tolerance, or is the reset to zero.          *)
AcquisitionTypeOK ==
  /\ state \in State
  /\ outstanding \in Request \cup {None}
  /\ applied \in Offset /\ antenna \in Offset
  /\ sweep \in [index : 1 .. Len(Sweep) + 1, left : OffsetRange \cup {None},
                right : OffsetRange \cup {None}, confirming : BOOLEAN, resume : BOOLEAN]
  /\ samples \in [value : BOOLEAN \cup {None}, count : 0 .. Consecutive, lag : 0 .. MaxAge]
  /\ probe \in [offset : Offset, lag : 0 .. MaxAge]
  /\ settling \in 0 .. Settle /\ effectAge \in 0 .. MaxAge
  /\ {acked, deadlinePast, expired, inEffect, stopped} \subseteq BOOLEAN

(* "Never more than one unconfirmed command": when the object believes that *)
(* none is outstanding, the antenna is where it believes it to be, so no    *)
(* forgotten command can move it any more.                                  *)
OffsetKnown == outstanding = None => antenna = applied

(* COMPLETE is claimed only with the antenna back at zero.                  *)
CompleteIsZero == state = "complete" => AtZero(antenna)

(* TRACKING happens only at the middle of a window whose two edges were     *)
(* both seen, in order, at swept values other than the first and the last   *)
(* (a window that touches a bound of the sweep is rejected).                *)
TrackedWindow ==
  state = "tracking" =>
    /\ None \notin {sweep.left, sweep.right}
    /\ \E i, j \in 2 .. Len(Sweep) - 1 :
         i <= j /\ AtZero(sweep.left - Sweep[i]) /\ AtZero(sweep.right - Sweep[j])
    /\ AtZero(applied - (sweep.left + sweep.right) \div 2)

(* Settling precedes scoring: a probe counts no lock sample measured longer *)
(* before the antenna reached the offset of the probe than the oldest       *)
(* accepted sample outlasts settling; none at all when settling takes the   *)
(* sample age.                                                              *)
ScoredAfterSettling ==
  probe.lag <= IF MaxAge > Settle THEN MaxAge - Settle ELSE 0

(* Once told to stop, the object issues no command but the reset to zero,   *)
(* whatever was pending (lock loss, resumption, an early readback).         *)
OnlyZeroAfterStop ==
  [][stopped /\ outstanding' # outstanding => outstanding' \in {None, 0}]_acquisitionVars

(* Every pass ends: the offset is back at zero, or a fault is raised.       *)
PassEnds ==
  state \in Active ~> (state = "complete" /\ AtZero(antenna)) \/ state = "fault"

(* The object always knows what the antenna has: in every state its books   *)
(* balance, completion is claimed at zero only, and after abort the only    *)
(* way is to zero.                                                          *)
OffsetAccounted == []OffsetKnown /\ []CompleteIsZero /\ OnlyZeroAfterStop

(* What is tracked is the middle of a window whose edges were both probed   *)
(* after settling, and every offset requested on the way there was within   *)
(* the sweep.                                                               *)
ProbedWindow == AcquisitionTypeOK /\ TrackedWindow /\ ScoredAfterSettling
=============================================================================
