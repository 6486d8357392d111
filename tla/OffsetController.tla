--------------------------- MODULE OffsetController ---------------------------
(***************************************************************************)
(* TimeOffsetController of dart/controller/controller.py: slow PI control   *)
(* of an antenna's time offset, one write at a time, each confirmed by the  *)
(* telemetry (ADX) before the next.                                         *)
(*                                                                         *)
(* The writer (dart/io/orbital.py) may accept a write, refuse it, or raise  *)
(* an exception that leaves it open whether the antenna (external) received *)
(* it.  Offsets are integers in units of the smallest step that matters,    *)
(* and the readback tolerance is below one unit.  As in Acquisition, the    *)
(* runtime that calls the methods is not in the repository: any order.      *)
(***************************************************************************)
EXTENDS Integers

CONSTANTS
  MaxOffset,    \* maximum_abs_offset_s
  MaxStep,      \* maximum_step_s
  MaxRate,      \* maximum_rate_s_per_s, per clock tick
  MaxDt,        \* maximum_dt_s, in clock ticks
  MinInterval,  \* minimum_update_interval_s, in clock ticks
  Deadband,     \* deadband_s
  Kp, Ki,       \* the gains
  Target,       \* the offsets estimates ask for (bound)
  Acquired,     \* the offsets at which tracking may take over (bound)
  Outcomes,     \* how a write may end
  None          \* Python's None

(* validate, and the integers of the model *)
ControllerConfig ==
  /\ {MaxOffset, MaxStep, MaxRate, MaxDt, MinInterval} \subseteq Nat \ {0}
  /\ {Deadband, Kp, Ki} \subseteq Nat
  /\ Target \subseteq Int /\ Acquired \subseteq Int
  /\ Outcomes \subseteq {"accepted", "refused", "unknown"}
  /\ None \notin Int

ASSUME ControllerAssumption == ControllerConfig

VARIABLES
  live,        \* config.live_writes_enabled
  state,       \* ControlState
  confirmed,   \* confirmed_applied_offset_s
  pending,     \* the offset of the pending write, or None
  integral,    \* _integral_s
  last,        \* clock ticks since _last_update_monotonic_s, up to Latest; None
  authorized,  \* is there a live-write authorization, not yet expired?
  overdue,     \* is the clock past the deadline of the pending write?
  antenna,     \* the offset the antenna really applies
  received,    \* has the antenna applied the pending write?
  strays,      \* writes of unknown outcome the antenna may still apply
  doubt        \* history: has the outcome of any write been unknown?

memory == <<state, confirmed, pending, integral, last>>
clocks == <<authorized, overdue>>
plant  == <<antenna, received, strays, doubt>>
controllerVars == <<live, memory, clocks, plant>>

ControllerInit ==
  /\ live \in BOOLEAN
  /\ state = "idle" /\ confirmed = 0 /\ pending = None
  /\ integral = 0 /\ last = None
  /\ authorized = FALSE /\ overdue = FALSE
  /\ antenna = 0 /\ received = FALSE /\ strays = {} /\ doubt = FALSE

-----------------------------------------------------------------------------
(* The control law.                                                         *)

Smaller(a, b) == IF a < b THEN a ELSE b
Larger(a, b)  == IF a > b THEN a ELSE b
Magnitude(x)  == IF x < 0 THEN -x ELSE x

(* _clamp, bounds in either order *)
Clamp(value, lower, upper) == Smaller(Larger(value, lower), upper)

(* More clock ticks than this make no difference.                           *)
Latest == Larger(MaxDt, MinInterval)

(* elapsed_s *)
Elapsed == Smaller(last, MaxDt)

Error(target) == target - confirmed

Tentative(target) == integral + Ki * Error(target) * Elapsed

Raw(target) == target + Kp * Error(target) + Tentative(target)

(* Mutant: the rate limit is left out.                                      *)
MoveByStep == MaxStep

MaximumMove == Smaller(MaxStep, MaxRate * Elapsed)

(* _pi_request: bounded in magnitude, then in the move from where the       *)
(* antenna is.                                                              *)
Requested(target) ==
  Clamp(Clamp(Raw(target), -MaxOffset, MaxOffset),
        confirmed - MaximumMove, confirmed + MaximumMove)

(* The integral follows unless the request saturates and it would make the  *)
(* saturation worse.                                                        *)
NextIntegral(target) ==
  LET raw == Raw(target)  requested == Requested(target) IN
  IF \/ requested = raw
     \/ raw > requested /\ Error(target) < 0
     \/ raw < requested /\ Error(target) > 0
  THEN Tentative(target) ELSE integral

-----------------------------------------------------------------------------
(* The writer call and what the caller of it does with the outcome.         *)
Write(offset, outcome) ==
  \/ /\ outcome = "accepted"
     /\ pending' = offset
     /\ overdue' = FALSE /\ received' = FALSE
     /\ UNCHANGED <<strays, doubt>>
  \/ /\ outcome # "accepted"
     /\ strays' = IF outcome = "unknown" THEN strays \cup {offset} ELSE strays
     /\ doubt' = (doubt \/ outcome = "unknown")
     /\ UNCHANGED <<pending, overdue, received>>

-----------------------------------------------------------------------------
(* arm_live_writes, with a recent authorization *)
Arm ==
  /\ live /\ ~authorized
  /\ authorized' = TRUE
  /\ UNCHANGED <<live, memory, overdue, plant>>

(* enable_tracking; the caller passes the offset really applied, which at   *)
(* first is the one an acquisition hands over.                              *)
EnableTracking(target, handover) ==
  /\ antenna' = IF state = "idle" THEN handover ELSE antenna
  /\ confirmed' = antenna'
  /\ LET error == target - confirmed' IN
     integral' = confirmed' - target - Kp * error
  /\ last' = 0
  /\ state' = "tracking"
  /\ UNCHANGED <<live, pending, clocks, received, strays, doubt>>

(* _rejection_reason; estimates of bad quality or age change nothing.       *)
Accepts ==
  /\ state = "tracking"
  /\ pending = None
  /\ live => authorized
  /\ last >= MinInterval

(* update *)
DryRunUpdate(target) ==
  /\ ~live /\ Accepts /\ Magnitude(Error(target)) > Deadband
  /\ integral' = NextIntegral(target)
  /\ last' = 0
  /\ UNCHANGED <<live, state, confirmed, pending, clocks, plant>>

Update(target, outcome) ==
  /\ live /\ Accepts /\ Magnitude(Error(target)) > Deadband
  /\ integral' = NextIntegral(target)
  /\ Write(Requested(target), outcome)
  /\ IF outcome = "accepted"
     THEN last' = 0 /\ UNCHANGED state
     ELSE state' = "fault" /\ UNCHANGED last
  /\ UNCHANGED <<live, confirmed, authorized, antenna>>

(* An estimate or a readback of another contact, or of another version of   *)
(* the estimator.                                                           *)
ForeignIdentity ==
  /\ state' = "fault"
  /\ UNCHANGED <<live, confirmed, pending, integral, last, clocks, plant>>

(* Mutant: the acknowledgement of the writer stands for the readback.       *)
ConfirmOnAcknowledgement ==
  /\ pending # None
  /\ confirmed' = pending /\ pending' = None
  /\ state' = IF state = "resetting" /\ pending = 0 THEN "complete" ELSE state
  /\ UNCHANGED <<live, integral, last, clocks, plant>>

(* confirm_applied, for a fresh readback of the pending write; readbacks of *)
(* other commands and other offsets are ignored.                            *)
ConfirmApplied ==
  /\ pending # None /\ received
  /\ confirmed' = pending
  /\ pending' = None
  /\ state' = IF state = "resetting" /\ pending = 0 THEN "complete" ELSE state
  /\ UNCHANGED <<live, integral, last, clocks, plant>>

Hold ==
  /\ state' = "hold"
  /\ integral' = 0
  /\ last' = None
  /\ UNCHANGED <<live, confirmed, pending, clocks, plant>>

(* Mutant: only a tracking controller watches its confirmation.             *)
TickWhileTracking ==
  /\ pending # None /\ overdue /\ state = "tracking"
  /\ state' = "fault"
  /\ integral' = 0
  /\ UNCHANGED <<live, confirmed, pending, last, clocks, plant>>

(* tick; the overdue write stays pending *)
Tick ==
  /\ pending # None /\ overdue
  /\ state' = "fault"
  /\ integral' = 0
  /\ UNCHANGED <<live, confirmed, pending, last, clocks, plant>>

(* terminate *)
ResetBlocked ==
  /\ pending # None
  /\ state' = "fault" /\ integral' = 0
  /\ UNCHANGED <<live, confirmed, pending, last, clocks, plant>>

(* Nothing to undo; or nothing was ever written.                            *)
ResetComplete ==
  /\ pending = None
  /\ confirmed = 0 \/ ~live
  /\ state' = "complete" /\ integral' = 0
  /\ UNCHANGED <<live, confirmed, pending, last, clocks, plant>>

ResetWrite(outcome) ==
  /\ pending = None /\ confirmed # 0 /\ live
  /\ state' = IF outcome = "accepted" THEN "resetting" ELSE "fault"
  /\ integral' = 0
  /\ Write(0, outcome)
  /\ UNCHANGED <<live, confirmed, last, authorized, antenna>>

Terminate == ResetBlocked \/ ResetComplete \/ \E outcome \in Outcomes : ResetWrite(outcome)

-----------------------------------------------------------------------------
(* The antenna applies the pending write, or one of unknown outcome.        *)
Obey ==
  /\ pending # None /\ ~received
  /\ antenna' = pending /\ received' = TRUE
  /\ UNCHANGED <<live, memory, clocks, strays, doubt>>

ObeyStray(offset) ==
  /\ antenna' = offset
  /\ strays' = strays \ {offset}
  /\ UNCHANGED <<live, memory, clocks, received, doubt>>

Elapse ==
  /\ last # None /\ last < Latest
  /\ last' = last + 1
  /\ UNCHANGED <<live, state, confirmed, pending, integral, clocks, plant>>

AuthorizationExpires ==
  /\ authorized
  /\ authorized' = FALSE
  /\ UNCHANGED <<live, memory, overdue, plant>>

PendingExpires ==
  /\ pending # None /\ ~overdue
  /\ overdue' = TRUE
  /\ UNCHANGED <<live, memory, authorized, plant>>

-----------------------------------------------------------------------------

ControllerNext ==
  \/ Arm
  \/ \E target \in Target :
       \/ \E handover \in Acquired : EnableTracking(target, handover)
       \/ DryRunUpdate(target)
       \/ \E outcome \in Outcomes : Update(target, outcome)
  \/ ForeignIdentity \/ ConfirmApplied \/ Hold \/ Tick \/ Terminate
  \/ Obey \/ \E offset \in strays : ObeyStray(offset)
  \/ Elapse \/ AuthorizationExpires \/ PendingExpires

ControllerSpec == ControllerInit /\ [][ControllerNext]_controllerVars

(* Fairness: the clock runs and the runtime calls tick time and again.      *)
FairControllerSpec ==
  ControllerSpec /\ WF_controllerVars(PendingExpires) /\ WF_controllerVars(Tick)

-----------------------------------------------------------------------------
(* How far out the antenna can be: as far as the permitted magnitude, or as  *)
(* an acquired offset.                                                      *)
Reach == {MaxOffset} \cup {Magnitude(a) : a \in Acquired}

InReach(x) == x \in Int /\ \E far \in Reach : Magnitude(x) <= far

ControllerTypeOK ==
  /\ {live, authorized, overdue, received, doubt} \subseteq BOOLEAN
  /\ state \in {"idle", "tracking", "hold", "resetting", "complete", "fault"}
  /\ \A x \in {confirmed, antenna} \cup strays \cup ({pending} \ {None}) : InReach(x)
  /\ integral \in Int
  /\ last \in 0 .. Latest \cup {None}

(* Anti-windup works: however long the estimates ask for what the limits    *)
(* forbid, and however the errors alternate, the integral stays within what *)
(* it takes to command the largest offset for some estimate.                *)
IntegralBounded ==
  integral # 0 =>
    \E far \in Reach, target \in Target :
      Magnitude(integral) <= far + Magnitude(target) + Kp * (Magnitude(target) + far)

(* One write at a time, confirmed by telemetry: as long as every write was  *)
(* accepted or refused, and none is pending, the antenna is where the       *)
(* controller believes it is.                                               *)
OffsetKnown == pending = None /\ ~doubt => antenna = confirmed

(* COMPLETE is claimed only with the antenna back at zero (a live pass),    *)
(* whatever the order of the calls, if every write was accepted or refused. *)
CompleteIsZero == live /\ state = "complete" /\ ~doubt => antenna = 0

(* What a step writes.                                                      *)
Written == (strays' \ strays) \cup ({pending'} \ {pending, None})

(* No write leaves the permitted magnitude; the bound on the move comes     *)
(* last, so one that starts from beyond it (no check keeps an acquisition   *)
(* from handing over such an offset) may stay beyond, but is on its way     *)
(* back.                                                                    *)
WithinMagnitude ==
  [][\A offset \in Written :
       \/ Magnitude(offset) <= MaxOffset
       \/ Magnitude(offset) < Magnitude(confirmed)]_controllerVars

(* A write other than the reset to zero needs a live authorization in force *)
(* at that moment, and moves the antenna by no more than step and rate      *)
(* allow from where it was last confirmed.                                  *)
GuardedMoves ==
  [][\A offset \in Written :
       offset # 0 => /\ live /\ authorized /\ state = "tracking"
                     /\ Magnitude(offset - confirmed) <= MaxStep
                     /\ Magnitude(offset - confirmed) <= MaxRate * last]_controllerVars

(* An acknowledged write that telemetry never confirms does not go          *)
(* unnoticed.                                                               *)
SilenceIsNoticed ==
  pending # None ~> pending = None \/ state = "fault"

(* As long as no outcome was unknown, the controller knows what the antenna *)
(* has, and claims completion at zero only.                                 *)
OffsetAccounted == OffsetKnown /\ CompleteIsZero

(* Every limit holds at once, though each is enforced by a clamp of its own *)
(* and the clamps follow one another: magnitude, step, rate, authorization, *)
(* and the integral that feeds them.                                        *)
LimitsHold ==
  []ControllerTypeOK /\ WithinMagnitude /\ []IntegralBounded /\ GuardedMoves
=============================================================================
