--------------------------- MODULE AntennaProofs ----------------------------
(***************************************************************************)
(* Theorems about what is done with antennas.  ShadowScheduler, for any    *)
(* number of runs, overlapping in time or not, and whatever KOGS lists: what*)
(* a run has written to the log and what it has booked are both determined *)
(* by where it stands, and no run touches what is another's.               *)
(* OffsetController, for every limit, gain, target and order of calls: what*)
(* the controller knows of the antenna, what a write may ask for, and how  *)
(* far the integral may wind up.                                           *)
(***************************************************************************)
EXTENDS ShadowScheduler, OffsetController, FiniteSetTheorems, TLAPS

(* The records of a booking that is neither finished nor given up. *)
Open == {"planned", "booked", "ephemeris_assigned"}

(* What the place of a run in execute says about its log and its contact.   *)
Placed(r) ==
  /\ pc[r] \in {"ready", "finding", "recording"} => audit[r] = "none"
  /\ pc[r] \in Busy \ {"finding", "recording"} => audit[r] \in Open
  /\ pc[r] \in {"booked", "assigning", "assigned", "completing"} =>
       contacts[r].state = "live" /\ contacts[r].source = plan[r].source
  /\ pc[r] \in {"assigned", "completing"} => contacts[r].ephemeris
  /\ pc[r] = "compensated" => contacts[r].state = "canceled"

(* AuditTruth and LeftoverRecorded, for one run. *)
Truth(r) ==
  /\ audit[r] = "none" => contacts[r].state = "none"
  /\ audit[r] \in {"booked", "ephemeris_assigned"} => contacts[r].state # "none"
  /\ audit[r] = "complete" =>
       /\ contacts[r].state = "live" /\ contacts[r].ephemeris
       /\ contacts[r].source = plan[r].source
  /\ audit[r] = "compensated" => contacts[r].state = "canceled"

Flagged(r) ==
  pc[r] = "failed" /\ contacts[r].state = "live" => audit[r] = "reconciliation_required"

RunInv(r) == Placed(r) /\ Truth(r) /\ Flagged(r)

SchedulerInv == SchedulerTypeOK /\ \A r \in Run : RunInv(r)

(* A step of r leaves the others alone. *)
OnlyRun(r) ==
  \A q \in Run \ {r} : /\ pc'[q] = pc[q] /\ plan'[q] = plan[q]
                       /\ contacts'[q] = contacts[q] /\ audit'[q] = audit[q]

-----------------------------------------------------------------------------

(* Before any run the invariant holds.                                      *)
LEMMA SchedulerInitInv == SchedulerInit => SchedulerInv
<1> SUFFICES ASSUME SchedulerInit PROVE SchedulerInv
  OBVIOUS
<1>1. SchedulerTypeOK
  BY DEF SchedulerInit, SchedulerTypeOK, NoPlan, NoContact
<1>2. ASSUME NEW r \in Run PROVE RunInv(r)
  BY DEF SchedulerInit, RunInv, Placed, Truth, Flagged, NoContact, Busy
<1> QED
  BY <1>1, <1>2 DEF SchedulerInv

(* It is enough to look at the run that takes the step. *)
LEMMA RunStep ==
  ASSUME SchedulerInv, NEW r \in Run, SchedulerTypeOK', OnlyRun(r), RunInv(r)'
  PROVE  SchedulerInv'
<1>1. ASSUME NEW q \in Run \ {r} PROVE RunInv(q)'
  BY <1>1 DEF OnlyRun, SchedulerInv, RunInv, Placed, Truth, Flagged
<1> QED
  BY <1>1 DEF SchedulerInv

(* It is kept by each step of a run: planning,                              *)
LEMMA PlanInv ==
  ASSUME SchedulerInv, NEW r \in Run, Plan(r) \/ PlanFails(r)
  PROVE  SchedulerInv'
<1>1. CASE Plan(r)
  <2>1. PICK s \in Source, x \in Run \cup {Absent} :
          /\ plan' = [plan EXCEPT ![r] = [source |-> s, existing |-> x]]
          /\ pc' = [pc EXCEPT ![r] = IF x = Absent THEN "recording" ELSE "finding"]
    <3>1. PICK s \in Source :
            \E x \in IF Existing(s) # {} THEN Existing(s) ELSE {Absent} :
              /\ plan' = [plan EXCEPT ![r] = [source |-> s, existing |-> x]]
              /\ pc' = [pc EXCEPT ![r] = IF x = Absent THEN "recording" ELSE "finding"]
      BY <1>1 DEF Plan
    <3>2. Existing(s) \subseteq Run
      BY DEF Existing
    <3>3. PICK x \in Run \cup {Absent} :
            /\ plan' = [plan EXCEPT ![r] = [source |-> s, existing |-> x]]
            /\ pc' = [pc EXCEPT ![r] = IF x = Absent THEN "recording" ELSE "finding"]
      <4>1. CASE Existing(s) # {}
        BY <3>1, <3>2, <4>1
      <4>2. CASE Existing(s) = {}
        BY <3>1, <4>2
      <4> QED
        BY <4>1, <4>2
    <3> QED
      BY <3>3
  <2>2. pc[r] = "ready" /\ UNCHANGED <<contacts, audit, returned>>
    BY <1>1 DEF Plan
  <2>3. SchedulerTypeOK' /\ OnlyRun(r)
    BY <2>1, <2>2 DEF SchedulerInv, SchedulerTypeOK, OnlyRun, Busy
  <2>4. RunInv(r)'
    <3>1. pc'[r] \in {"recording", "finding"} /\ audit[r] = "none" /\ contacts[r].state = "none"
      BY <2>1, <2>2 DEF SchedulerInv, SchedulerTypeOK, RunInv, Placed, Truth
    <3> QED
      BY <2>2, <3>1 DEF RunInv, Placed, Truth, Flagged, Busy
  <2> QED
    BY <2>3, <2>4, RunStep
<1>2. CASE PlanFails(r)
  <2>1. SchedulerTypeOK' /\ OnlyRun(r)
    BY <1>2 DEF PlanFails, SchedulerInv, SchedulerTypeOK, OnlyRun, Ended
  <2>2. RunInv(r)'
    BY <1>2 DEF PlanFails, SchedulerInv, SchedulerTypeOK, RunInv, Placed, Truth, Flagged, Busy
  <2> QED
    BY <2>1, <2>2, RunStep
<1> QED
  BY <1>1, <1>2

(* ... returning a shadow that is there,                                    *)
LEMMA FindInv ==
  ASSUME SchedulerInv, NEW r \in Run, FindExisting(r)
  PROVE  SchedulerInv'
<1>1. plan[r].existing \in Run \cup {Absent}
  BY DEF SchedulerInv, SchedulerTypeOK
<1>2. SchedulerTypeOK' /\ OnlyRun(r)
  BY <1>1 DEF FindExisting, SchedulerInv, SchedulerTypeOK, OnlyRun, Ended
<1>3. RunInv(r)'
  BY DEF FindExisting, SchedulerInv, SchedulerTypeOK, RunInv, Placed, Truth, Flagged, Busy
<1> QED
  BY <1>2, <1>3, RunStep

(* What every appended line leaves true. *)
LEMMA RecordTyped ==
  ASSUME SchedulerInv, NEW r \in Run, NEW at, NEW status \in Lifecycle,
         NEW next \in Busy \cup Ended, NEW otherwise \in Busy \cup Ended,
         Record(r, at, status, next, otherwise)
  PROVE  /\ SchedulerTypeOK' /\ OnlyRun(r)
         /\ plan' = plan /\ contacts' = contacts
         /\ \/ pc'[r] = next /\ audit'[r] = status
            \/ pc'[r] = otherwise /\ audit'[r] = audit[r]
BY SMTT(20) DEF Record, SchedulerInv, SchedulerTypeOK, OnlyRun

(* ... writing to the audit log,                                            *)
LEMMA RecordInv ==
  ASSUME SchedulerInv, NEW r \in Run,
         \/ RecordPlanned(r) \/ RecordAmbiguous(r) \/ RecordBooked(r)
         \/ RecordAssigned(r) \/ RecordCompensated(r) \/ RecordUncompensated(r)
  PROVE  SchedulerInv'
<1> USE DEF Lifecycle, Busy, Ended
<1>0. RunInv(r)
  BY DEF SchedulerInv
<1>1. CASE RecordPlanned(r)
  <2>1. /\ SchedulerTypeOK' /\ OnlyRun(r)
        /\ plan' = plan /\ contacts' = contacts
        /\ \/ pc'[r] = "booking" /\ audit'[r] = "planned"
           \/ pc'[r] = "failed" /\ audit'[r] = audit[r]
    BY <1>1, RecordTyped DEF RecordPlanned
  <2>2. RunInv(r)'
    BY <1>0, <1>1, <2>1 DEF RecordPlanned, Record, RunInv, Placed, Truth, Flagged, Open
  <2> QED
    BY <2>1, <2>2, RunStep
<1>2. CASE RecordAmbiguous(r)
  <2>1. /\ SchedulerTypeOK' /\ OnlyRun(r)
        /\ plan' = plan /\ contacts' = contacts
        /\ \/ pc'[r] = "failed" /\ audit'[r] = "reconciliation_required"
           \/ pc'[r] = "unrecorded" /\ audit'[r] = audit[r]
    BY <1>2, RecordTyped DEF RecordAmbiguous
  <2>2. RunInv(r)'
    BY <1>0, <1>2, <2>1 DEF RecordAmbiguous, Record, RunInv, Placed, Truth, Flagged, Open
  <2> QED
    BY <2>1, <2>2, RunStep
<1>3. CASE RecordBooked(r)
  <2>1. /\ SchedulerTypeOK' /\ OnlyRun(r)
        /\ plan' = plan /\ contacts' = contacts
        /\ \/ pc'[r] = "assigning" /\ audit'[r] = "booked"
           \/ pc'[r] = "compensating" /\ audit'[r] = audit[r]
    BY <1>3, RecordTyped DEF RecordBooked
  <2>2. RunInv(r)'
    BY <1>0, <1>3, <2>1 DEF RecordBooked, Record, RunInv, Placed, Truth, Flagged, Open
  <2> QED
    BY <2>1, <2>2, RunStep
<1>4. CASE RecordAssigned(r)
  <2>1. /\ SchedulerTypeOK' /\ OnlyRun(r)
        /\ plan' = plan /\ contacts' = contacts
        /\ \/ pc'[r] = "completing" /\ audit'[r] = "ephemeris_assigned"
           \/ pc'[r] = "compensating" /\ audit'[r] = audit[r]
    BY <1>4, RecordTyped DEF RecordAssigned
  <2>2. RunInv(r)'
    BY <1>0, <1>4, <2>1 DEF RecordAssigned, Record, RunInv, Placed, Truth, Flagged, Open
  <2> QED
    BY <2>1, <2>2, RunStep
<1>5. CASE RecordCompensated(r)
  <2>1. /\ SchedulerTypeOK' /\ OnlyRun(r)
        /\ plan' = plan /\ contacts' = contacts
        /\ \/ pc'[r] = "failed" /\ audit'[r] = "compensated"
           \/ pc'[r] = "unrecorded" /\ audit'[r] = audit[r]
    BY <1>5, RecordTyped DEF RecordCompensated
  <2>2. RunInv(r)'
    BY <1>0, <1>5, <2>1 DEF RecordCompensated, Record, RunInv, Placed, Truth, Flagged, Open
  <2> QED
    BY <2>1, <2>2, RunStep
<1>6. CASE RecordUncompensated(r)
  <2>1. /\ SchedulerTypeOK' /\ OnlyRun(r)
        /\ plan' = plan /\ contacts' = contacts
        /\ \/ pc'[r] = "failed" /\ audit'[r] = "reconciliation_required"
           \/ pc'[r] = "unrecorded" /\ audit'[r] = audit[r]
    BY <1>6, RecordTyped DEF RecordUncompensated
  <2>2. RunInv(r)'
    BY <1>0, <1>6, <2>1 DEF RecordUncompensated, Record, RunInv, Placed, Truth, Flagged, Open
  <2> QED
    BY <2>1, <2>2, RunStep
<1> QED
  BY <1>1, <1>2, <1>3, <1>4, <1>5, <1>6

(* Booking, assignment and cancellation, with and without an exception.     *)
LEMMA EffectInv ==
  ASSUME SchedulerInv, NEW r \in Run, Book(r) \/ Assign(r) \/ Cancel(r)
  PROVE  SchedulerInv'
<1> USE DEF Busy, Ended
<1>0. RunInv(r) /\ SchedulerTypeOK
  BY DEF SchedulerInv
<1>1. SchedulerTypeOK' /\ OnlyRun(r)
  <2> DEFINE Contact == [state : {"none", "live", "canceled"},
                         source : Source \cup {Absent}, ephemeris : BOOLEAN]
  <2>1. plan[r].source \in Source \cup {Absent} /\ contacts[r] \in Contact
    BY <1>0 DEF SchedulerTypeOK
  <2>2. \E c \in Contact : contacts' = [contacts EXCEPT ![r] = c]
    <3>1. contacts = [contacts EXCEPT ![r] = contacts[r]]
      BY <1>0 DEF SchedulerTypeOK
    <3>2. CASE Book(r)
      BY <2>1, <3>1, <3>2 DEF Book
    <3>3. CASE Assign(r)
      BY <2>1, <3>1, <3>3 DEF Assign
    <3>4. CASE Cancel(r)
      BY <2>1, <3>1, <3>4 DEF Cancel
    <3> QED
      BY <3>2, <3>3, <3>4
  <2>3. \E next \in Busy : pc' = [pc EXCEPT ![r] = next]
    BY DEF Book, Assign, Cancel
  <2>4. UNCHANGED <<plan, audit, returned>>
    BY DEF Book, Assign, Cancel
  <2> QED
    BY <1>0, <2>2, <2>3, <2>4 DEF SchedulerTypeOK, OnlyRun
<1>2. CASE Book(r)
  <2>1. /\ pc[r] = "booking" /\ audit[r] \in Open
        /\ audit'[r] = audit[r] /\ plan'[r] = plan[r]
    BY <1>0, <1>2 DEF Book, RunInv, Placed
  <2>2. /\ pc'[r] \in {"booked", "ambiguous", "compensating"}
        /\ pc'[r] = "booked" =>
             contacts'[r].state = "live" /\ contacts'[r].source = plan[r].source
        /\ contacts'[r] # contacts[r] => contacts'[r].state = "live"
    BY <1>0, <1>2 DEF Book, SchedulerTypeOK
  <2>3. RunInv(r)'
    BY <1>0, <2>1, <2>2 DEF RunInv, Placed, Truth, Flagged, Open
  <2> QED
    BY <1>1, <2>3, RunStep
<1>3. CASE Assign(r)
  BY <1>0, <1>1, <1>3, RunStep
  DEF Assign, SchedulerTypeOK, RunInv, Placed, Truth, Flagged, Open
<1>4. CASE Cancel(r)
  BY <1>0, <1>1, <1>4, RunStep
  DEF Cancel, SchedulerTypeOK, RunInv, Placed, Truth, Flagged, Open
<1> QED
  BY <1>2, <1>3, <1>4

(* ... ending or dying,                                                     *)
LEMMA EndInv ==
  ASSUME SchedulerInv, NEW r \in Run, Complete(r) \/ Crash(r)
  PROVE  SchedulerInv'
<1> USE DEF Busy, Ended, Lifecycle
<1>0. RunInv(r) /\ SchedulerTypeOK
  BY DEF SchedulerInv
<1>1. SchedulerTypeOK' /\ OnlyRun(r)
  BY <1>0 DEF Complete, Crash, SchedulerTypeOK, OnlyRun
<1>2. CASE Complete(r)
  BY <1>0, <1>1, <1>2, RunStep
  DEF Complete, SchedulerTypeOK, RunInv, Placed, Truth, Flagged, Open
<1>3. CASE Crash(r)
  BY <1>0, <1>1, <1>3, RunStep
  DEF Crash, SchedulerTypeOK, RunInv, Placed, Truth, Flagged
<1> QED
  BY <1>2, <1>3

(* ... and every other one,                                                 *)
LEMMA SchedulerNextInv ==
  SchedulerInv /\ [SchedulerNext]_schedulerVars => SchedulerInv'
<1> SUFFICES ASSUME SchedulerInv, [SchedulerNext]_schedulerVars
             PROVE  SchedulerInv'
  OBVIOUS
<1>1. CASE SchedulerNext
  BY <1>1, PlanInv, FindInv, RecordInv, EffectInv, EndInv DEF SchedulerNext, Execute
<1>2. CASE UNCHANGED schedulerVars
  BY <1>2 DEF schedulerVars, SchedulerInv, SchedulerTypeOK, RunInv, Placed, Truth, Flagged
<1> QED
  BY <1>1, <1>2

(* ... so it always holds.                                                  *)
LEMMA SchedulerAlways == SchedulerSpec => []SchedulerInv
  BY SchedulerInitInv, SchedulerNextInv, PTL DEF SchedulerSpec

-----------------------------------------------------------------------------

(* Runs, contacts and log keep their types.                                 *)
THEOREM SchedulerTypeCorrect == SchedulerSpec => []SchedulerTypeOK
<1>1. SchedulerInv => SchedulerTypeOK
  BY DEF SchedulerInv
<1> QED
  BY <1>1, SchedulerAlways, PTL

(* The audit log is true of what is on the antenna, also in mid-execution,  *)
(* after a crash, and with other runs at work.                              *)
THEOREM AuditIsTrue == SchedulerSpec => []AuditTruth
<1>1. SchedulerInv => AuditTruth
  BY DEF SchedulerInv, RunInv, Truth, AuditTruth
<1> QED
  BY <1>1, SchedulerAlways, PTL

(* A run that failed and could write its log flags the contact it leaves.   *)
THEOREM LeftoversAreFlagged == SchedulerSpec => []LeftoverRecorded
<1>1. SchedulerInv => LeftoverRecorded
  BY DEF SchedulerInv, RunInv, Flagged, LeftoverRecorded
<1> QED
  BY <1>1, SchedulerAlways, PTL

-----------------------------------------------------------------------------
(* One shadow each.  The check for a free place is made when a run plans,   *)
(* long before it books, so that it is worth something only while no other  *)
(* run is at work; and it keeps the margins of the new contact only, so     *)
(* that equal margins are needed for those of the old one to be kept too.   *)

Sourced(q) == contacts[q].state = "live" /\ contacts[q].source # Absent

Apart(s, u) == s # u /\ ~Conflicts(s, u) /\ ~Conflicts(u, s)

OneAtWork == \A q, r \in Run : pc[q] \in Busy /\ pc[r] \in Busy => q = r

Separate ==
  \A q, r \in Run : q # r /\ Sourced(q) /\ Sourced(r) =>
    Apart(contacts[q].source, contacts[r].source)

PlaceIsFree ==
  \A r \in Run : pc[r] \in {"recording", "booking"} =>
    /\ plan[r].source \in Source
    /\ \A q \in Run : Sourced(q) => Apart(plan[r].source, contacts[q].source)

NothingBooked ==
  \A r \in Run : pc[r] \in {"ready", "recording", "booking"} =>
    contacts[r].state = "none" /\ contacts[r].source = Absent

AloneInv == SchedulerTypeOK /\ OneAtWork /\ Separate /\ PlaceIsFree /\ NothingBooked

(* Times and margins are integers.                                          *)
LEMMA TimesAreNumbers ==
  SetupMargin \in Int /\ \A s \in Source : Start[s] \in Int /\ End[s] \in Int
BY SchedulerAssumption

(* With equal margins a collision is one whichever contact is the new one.  *)
LEMMA EqualMargins ==
  ASSUME SetupMargin = TeardownMargin, NEW s \in Source, NEW u \in Source,
         ~Conflicts(s, u)
  PROVE  ~Conflicts(u, s)
BY TimesAreNumbers DEF Conflicts

(* A plan to book is a plan for a free place.                               *)
LEMMA PlanIsFree ==
  ASSUME SchedulerInv, AloneInv, ~Concurrent, SetupMargin = TeardownMargin,
         NEW r \in Run, Plan(r), SchedulerTypeOK'
  PROVE  AloneInv'
<1>1. /\ pc[r] = "ready" /\ \A q \in Run : pc[q] \notin Busy
      /\ UNCHANGED <<contacts, audit, returned>> /\ contacts[r].state = "none"
  BY DEF Plan, SchedulerInv, RunInv, Placed, Truth
<1>2. PICK s \in Source :
        /\ Candidate(s)
        /\ \E x \in IF Existing(s) # {} THEN Existing(s) ELSE {Absent} :
             /\ plan' = [plan EXCEPT ![r] = [source |-> s, existing |-> x]]
             /\ pc' = [pc EXCEPT ![r] = IF x = Absent THEN "recording" ELSE "finding"]
  BY DEF Plan
<1>3. plan'[r].source = s /\ pc'[r] \in {"recording", "finding"}
      /\ \A q \in Run \ {r} : pc'[q] = pc[q] /\ plan'[q] = plan[q]
  BY <1>2 DEF AloneInv, SchedulerTypeOK
<1>4. pc'[r] = "recording" => Existing(s) = {}
  <2>1. Existing(s) # {} => Absent \notin Existing(s)
    BY SchedulerAssumption DEF Existing
  <2> QED
    BY <1>2, <2>1 DEF AloneInv, SchedulerTypeOK
<1>5. ASSUME Existing(s) = {}, NEW q \in Run, Sourced(q)
      PROVE  Apart(s, contacts[q].source)
  <2>1. Listed(q) /\ contacts[q].source \in Source
    BY <1>5 DEF Sourced, Listed, AloneInv, SchedulerTypeOK
  <2>2. contacts[q].source # s
    BY <1>5, <2>1 DEF Existing
  <2>3. ~Conflicts(s, contacts[q].source)
    BY <1>2, <1>5, <2>1, <2>2, SchedulerAssumption DEF Candidate, Occupied
  <2>4. ~Conflicts(contacts[q].source, s)
    BY <2>1, <2>3, EqualMargins
  <2> QED
    BY <2>2, <2>3, <2>4 DEF Apart
<1>6. OneAtWork'
  BY <1>1, <1>3 DEF OneAtWork
<1>7. Separate'
  BY <1>1 DEF AloneInv, Separate, Sourced
<1>8. PlaceIsFree'
  BY <1>1, <1>3, <1>4, <1>5 DEF PlaceIsFree, Sourced, Busy
<1>9. NothingBooked'
  BY <1>1, <1>3 DEF AloneInv, NothingBooked
<1> QED
  BY <1>6, <1>7, <1>8, <1>9 DEF AloneInv

(* No other run has planned while this one is at work.                      *)
LEMMA WorkingInv ==
  ASSUME AloneInv, NEW r \in Run, Execute(r) \/ Crash(r) \/ PlanFails(r), SchedulerTypeOK'
  PROVE  AloneInv'
<1> USE DEF AloneInv, Busy
<1>1. /\ pc[r] \in Busy \/ (pc'[r] \notin Busy /\ UNCHANGED contacts)
      /\ pc'[r] # "ready"
      /\ pc'[r] \in {"recording", "booking"} =>
           pc[r] = "recording" /\ UNCHANGED <<plan, contacts>>
      /\ \A q \in Run \ {r} : pc'[q] = pc[q] /\ contacts'[q] = contacts[q]
      /\ UNCHANGED plan
  BY DEF Execute, FindExisting, RecordPlanned, Book, RecordAmbiguous, RecordBooked, Assign,
         RecordAssigned, Complete, Cancel, RecordCompensated, RecordUncompensated, Record,
         Crash, PlanFails, SchedulerTypeOK
<1>2. \/ ~Sourced(r)'
      \/ Sourced(r) /\ contacts'[r].source = contacts[r].source
      \/ contacts'[r].source = plan[r].source /\ pc[r] = "booking"
  BY DEF Execute, FindExisting, RecordPlanned, Book, RecordAmbiguous, RecordBooked, Assign,
         RecordAssigned, Complete, Cancel, RecordCompensated, RecordUncompensated, Record,
         Crash, PlanFails, SchedulerTypeOK, Sourced, NothingBooked
<1>3. OneAtWork'
  BY <1>1 DEF OneAtWork
<1>4. Separate'
  BY <1>1, <1>2 DEF Separate, PlaceIsFree, Sourced, Apart
<1>5. PlaceIsFree'
  <2> SUFFICES ASSUME NEW q \in Run, pc'[q] \in {"recording", "booking"}
               PROVE  /\ plan[q].source \in Source
                      /\ \A o \in Run : Sourced(o)' =>
                           Apart(plan[q].source, contacts'[o].source)
    BY <1>1 DEF PlaceIsFree, Apart, Conflicts
  <2>1. CASE q = r
    BY <1>1, <2>1 DEF PlaceIsFree, Sourced
  <2>2. CASE q # r
    <3>1. pc[q] \in {"recording", "booking"} /\ UNCHANGED contacts
      BY <1>1, <2>2 DEF OneAtWork
    <3> QED
      BY <3>1 DEF PlaceIsFree, Sourced
  <2> QED
    BY <2>1, <2>2
<1>6. NothingBooked'
  BY <1>1 DEF NothingBooked
<1> QED
  BY <1>3, <1>4, <1>5, <1>6

(* At most one element, in terms of cardinality.                            *)
LEMMA AtMostOne ==
  ASSUME NEW S, \A x, y \in S : x = y PROVE Cardinality(S) <= 1
<1>1. CASE S = {}
  BY <1>1, FS_EmptySet
<1>2. CASE S # {}
  <2>1. PICK x \in S : TRUE
    BY <1>2
  <2>2. S = {x}
    BY <2>1
  <2> QED
    BY <2>2, FS_Singleton
<1> QED
  BY <1>1, <1>2

(* The invariant of a single run at work implies that every source has one  *)
(* shadow.                                                                  *)
LEMMA AloneIsEnough == AloneInv => OneShadowEach
<1> SUFFICES ASSUME AloneInv PROVE OneShadowEach
  OBVIOUS
<1>1. ASSUME NEW s \in Source PROVE Cardinality(Shadows(s)) <= 1
  <2>1. \A q \in Shadows(s) : q \in Run /\ Sourced(q) /\ contacts[q].source = s
    BY SchedulerAssumption DEF Shadows, Sourced
  <2>2. \A q, r \in Shadows(s) : q = r
    BY <2>1 DEF AloneInv, Separate, Apart
  <2> QED
    BY <2>2, AtMostOne
<1>2. ASSUME NEW s \in Source, NEW u \in Source, s # u, Shadows(s) # {}, Shadows(u) # {}
      PROVE  ~Conflicts(s, u)
  <2>1. PICK q \in Run : Sourced(q) /\ contacts[q].source = s
    BY <1>2, SchedulerAssumption DEF Shadows, Sourced
  <2>2. PICK r \in Run : Sourced(r) /\ contacts[r].source = u
    BY <1>2, SchedulerAssumption DEF Shadows, Sourced
  <2>3. Apart(s, u)
    BY <1>2, <2>1, <2>2 DEF AloneInv, Separate
  <2> QED
    BY <2>3 DEF Apart
<1> QED
  BY <1>1, <1>2 DEF OneShadowEach, NoTwin, SetupClear

(* OneShadowEach: if no two runs overlap and the margins are equal, no      *)
(* failure, crash or lost reply of earlier runs makes a run book a second   *)
(* shadow of a source, or one in the way of another.                        *)
THEOREM ShadowsAreSeparate ==
  ASSUME ~Concurrent, SetupMargin = TeardownMargin
  PROVE  SchedulerSpec => []OneShadowEach
<1>1. SchedulerInit => AloneInv
  <2> SUFFICES ASSUME SchedulerInit PROVE AloneInv
    OBVIOUS
  <2>1. SchedulerTypeOK
    BY SchedulerInitInv DEF SchedulerInv
  <2>2. \A r \in Run : /\ pc[r] = "ready" /\ contacts[r].state = "none"
                        /\ contacts[r].source = Absent
    BY DEF SchedulerInit, NoContact
  <2> QED
    BY <2>1, <2>2 DEF AloneInv, OneAtWork, Separate, PlaceIsFree, NothingBooked, Sourced, Busy
<1>2. SchedulerInv /\ AloneInv /\ [SchedulerNext]_schedulerVars => AloneInv'
  <2> SUFFICES ASSUME SchedulerInv, AloneInv, [SchedulerNext]_schedulerVars PROVE AloneInv'
    OBVIOUS
  <2>1. SchedulerTypeOK'
    BY SchedulerNextInv DEF SchedulerInv
  <2>2. CASE SchedulerNext
    BY <2>1, <2>2, PlanIsFree, WorkingInv DEF SchedulerNext
  <2>3. CASE UNCHANGED schedulerVars
    BY <2>1, <2>3 DEF schedulerVars, AloneInv, OneAtWork, Separate, PlaceIsFree,
                      NothingBooked, Sourced
  <2> QED
    BY <2>2, <2>3
<1> QED
  BY <1>1, <1>2, AloneIsEnough, SchedulerAlways, PTL DEF SchedulerSpec

-----------------------------------------------------------------------------
(***************************************************************************)
(* The controller of the time offset.                                      *)
(***************************************************************************)

USE DEF ControllerConfig

Basic ==
  /\ live \in BOOLEAN /\ doubt \in BOOLEAN /\ received \in BOOLEAN
  /\ confirmed \in Int /\ antenna \in Int /\ integral \in Int
  /\ pending \in Int \cup {None} /\ strays \subseteq Int
  /\ last \in Nat \cup {None}
  /\ state = "tracking" => last \in Nat
  /\ state = "idle" => pending = None

(* Without a write of unknown outcome nothing but the pending write can     *)
(* come between the antenna and what the controller last confirmed.         *)
AntennaInView ==
  ~doubt =>
    /\ strays = {}
    /\ antenna = IF pending # None /\ received THEN pending ELSE confirmed

CompleteAtRest ==
  state = "complete" => pending = None /\ (live => confirmed = 0)

ControllerInv == Basic /\ AntennaInView /\ CompleteAtRest

-----------------------------------------------------------------------------
(* The arithmetic of a request.                                             *)

(* Products of natural numbers are natural,                                 *)
LEMMA ProductIsNat == ASSUME NEW a \in Nat, NEW b \in Nat PROVE a * b \in Nat
OBVIOUS

(* ... of integers integer.                                                 *)
LEMMA ProductIsInt == ASSUME NEW a \in Int, NEW b \in Int PROVE a * b \in Int
OBVIOUS

(* A gain keeps the order, and the sign.                                    *)
LEMMA GainKeepsOrder ==
  ASSUME NEW k \in Nat, NEW a \in Int, NEW b \in Int, a <= b
  PROVE  k * a \in Int /\ k * b \in Int /\ k * a <= k * b
OBVIOUS

(* The time the control law counts is the time elapsed, or less; after the  *)
(* minimal interval it is some.                                             *)
LEMMA ElapsedIs ==
  ASSUME last \in Nat
  PROVE  /\ Elapsed \in Nat /\ Elapsed <= last
         /\ last >= MinInterval => Elapsed >= 1
BY ControllerAssumption DEF Elapsed, Smaller

(* What the law asks for is an integer.                                     *)
LEMMA RawIsInt ==
  ASSUME Basic, state = "tracking", NEW target \in Target PROVE Raw(target) \in Int
<1>1. /\ Kp \in Int /\ Ki \in Int /\ confirmed \in Int /\ integral \in Int
      /\ Elapsed \in Int /\ target \in Int
  BY ControllerAssumption, ElapsedIs DEF Basic
<1>2. Error(target) \in Int
  BY <1>1 DEF Error
<1>3. Kp * Error(target) \in Int /\ Ki * Error(target) \in Int
  BY <1>1, <1>2, ProductIsInt
<1>4. Ki * Error(target) * Elapsed \in Int
  BY <1>1, <1>3, ProductIsInt
<1> QED
  BY <1>1, <1>3, <1>4 DEF Raw, Tentative

(* A request is an integer within the move that step and rate allow, and    *)
(* one beyond the limit is nearer to it than the offset it starts from.     *)
LEMMA RequestedIsNear ==
  ASSUME Basic, state = "tracking", NEW target \in Target
  PROVE  /\ Requested(target) \in Int
         /\ Magnitude(Requested(target) - confirmed) <= MaxStep
         /\ Magnitude(Requested(target) - confirmed) <= MaxRate * last
         /\ last >= MinInterval =>
              \/ Magnitude(Requested(target)) <= MaxOffset
              \/ Magnitude(Requested(target)) < Magnitude(confirmed)
<1>1. /\ MaxOffset \in Nat /\ MaxStep \in Nat \ {0} /\ MaxRate \in Nat \ {0}
      /\ confirmed \in Int /\ last \in Nat /\ Raw(target) \in Int
  BY ControllerAssumption, RawIsInt DEF Basic
<1>2. /\ MaxRate * last \in Nat /\ MaxRate * Elapsed \in Nat
      /\ MaxRate * Elapsed <= MaxRate * last
      /\ last >= MinInterval => MaxRate * Elapsed >= 1
  <2>1. Elapsed \in Nat /\ Elapsed <= last /\ (last >= MinInterval => Elapsed >= 1)
    BY <1>1, ElapsedIs
  <2>2. MaxRate * last \in Nat /\ MaxRate * Elapsed \in Nat /\ MaxRate * 1 = MaxRate
    BY <1>1, <2>1, ProductIsNat
  <2>3. MaxRate * Elapsed <= MaxRate * last
    BY <1>1, <2>1, GainKeepsOrder
  <2>4. Elapsed >= 1 => MaxRate * 1 <= MaxRate * Elapsed
    BY <1>1, <2>1, GainKeepsOrder
  <2> QED
    BY <1>1, <2>1, <2>2, <2>3, <2>4
<1> DEFINE move == MaximumMove
           inner == Clamp(Raw(target), -MaxOffset, MaxOffset)
           outer == Clamp(inner, confirmed - move, confirmed + move)
<1>4. /\ move \in Nat /\ move <= MaxStep /\ move <= MaxRate * last
      /\ last >= MinInterval => move >= 1
  BY <1>1, <1>2 DEF MaximumMove, Smaller
<1>5. inner \in -MaxOffset .. MaxOffset
  BY <1>1 DEF Clamp, Smaller, Larger
<1>6. Requested(target) = outer
  BY DEF Requested
<1> HIDE DEF move, inner
<1>7. outer \in confirmed - move .. confirmed + move
  BY <1>1, <1>4, <1>5 DEF Clamp, Smaller, Larger
<1>8. move >= 1 => \/ Magnitude(outer) <= MaxOffset
                   \/ Magnitude(outer) < Magnitude(confirmed)
  BY <1>1, <1>4, <1>5 DEF Clamp, Smaller, Larger, Magnitude
<1> HIDE DEF outer
<1>9. Magnitude(outer - confirmed) <= move
  BY <1>1, <1>4, <1>7 DEF Magnitude
<1>10. Magnitude(outer - confirmed) \in Int
  BY <1>1, <1>4, <1>7 DEF Magnitude
<1> QED
  BY <1>1, <1>2, <1>4, <1>6, <1>7, <1>8, <1>9, <1>10

(* The integral stays an integer, whatever is clamped.                      *)
LEMMA NextIntegralIsInt ==
  ASSUME Basic, state = "tracking", NEW target \in Target
  PROVE  NextIntegral(target) \in Int
<1>1. /\ Ki \in Int /\ confirmed \in Int /\ integral \in Int /\ last \in Int
      /\ target \in Int
  BY ControllerAssumption DEF Basic
<1>2. Error(target) \in Int
  BY <1>1 DEF Error
<1>3. Elapsed \in Int /\ Ki * Error(target) * Elapsed \in Int
  BY <1>1, <1>2, ProductIsInt, ElapsedIs DEF Basic
<1> QED
  BY <1>1, <1>3 DEF NextIntegral, Tentative

-----------------------------------------------------------------------------
(* A new controller satisfies the invariant.                                *)
LEMMA InitInv == ControllerInit => ControllerInv
<1> SUFFICES ASSUME ControllerInit PROVE ControllerInv
  OBVIOUS
<1>1. live \in BOOLEAN
  BY Zenon DEF ControllerInit
<1>2. Basic
  <2>1. doubt \in BOOLEAN /\ received \in BOOLEAN
    BY DEF ControllerInit
  <2>2. /\ confirmed = 0 /\ antenna = 0 /\ integral = 0 /\ pending = None /\ strays = {}
        /\ last = None /\ state = "idle"
    BY DEF ControllerInit
  <2> QED
    BY <1>1, <2>1, <2>2 DEF Basic
<1>3. AntennaInView /\ CompleteAtRest
  BY DEF ControllerInit, AntennaInView, CompleteAtRest
<1> QED
  BY <1>2, <1>3 DEF ControllerInv

(* A write, whatever its outcome, keeps types and the antenna in view.      *)
LEMMA WriteStep ==
  ASSUME ControllerInv, pending = None, NEW offset \in Int, NEW outcome \in Outcomes,
         Write(offset, outcome), UNCHANGED <<live, confirmed, antenna>>
  PROVE  /\ pending' \in Int \cup {None} /\ doubt' \in BOOLEAN /\ received' \in BOOLEAN
         /\ AntennaInView' /\ strays' \subseteq Int
         /\ outcome # "accepted" => pending' = None
BY DEF Write, ControllerInv, Basic, AntennaInView

(* An update keeps the invariant,                                           *)
LEMMA UpdateInv ==
  ASSUME ControllerInv, NEW target \in Target, NEW outcome \in Outcomes,
         Update(target, outcome)
  PROVE  ControllerInv'
<1>1. /\ state = "tracking" /\ pending = None /\ Basic
      /\ UNCHANGED <<live, confirmed, antenna>>
      /\ Write(Requested(target), outcome)
      /\ integral' = NextIntegral(target)
      /\ outcome = "accepted" => last' = 0 /\ UNCHANGED state
      /\ outcome # "accepted" => state' = "fault" /\ UNCHANGED last
  BY DEF Update, Accepts, ControllerInv
<1>2. Requested(target) \in Int /\ integral' \in Int
  BY <1>1, RequestedIsNear, NextIntegralIsInt
<1>3. /\ pending' \in Int \cup {None} /\ doubt' \in BOOLEAN /\ received' \in BOOLEAN
      /\ AntennaInView' /\ strays' \subseteq Int
  BY <1>1, <1>2, WriteStep
<1> QED
  BY <1>1, <1>2, <1>3 DEF ControllerInv, Basic, CompleteAtRest

(* ... also when nothing may be written,                                    *)
LEMMA DryRunInv ==
  ASSUME ControllerInv, NEW target \in Target, DryRunUpdate(target)
  PROVE  ControllerInv'
<1>1. NextIntegral(target) \in Int
  BY NextIntegralIsInt DEF DryRunUpdate, Accepts, ControllerInv
<1> QED
  BY <1>1 DEF DryRunUpdate, Accepts, clocks, plant, ControllerInv, Basic, AntennaInView,
              CompleteAtRest

(* ... as does taking over an acquired offset,                              *)
LEMMA EnableInv ==
  ASSUME ControllerInv, NEW target \in Target, NEW handover \in Acquired,
         EnableTracking(target, handover)
  PROVE  ControllerInv'
<1>1. target \in Int /\ handover \in Int /\ Kp \in Int
  BY ControllerAssumption
<1>2. /\ state' = "tracking" /\ last' = 0 /\ confirmed' = antenna'
      /\ antenna' = (IF state = "idle" THEN handover ELSE antenna)
      /\ integral' = confirmed' - target - Kp * (target - confirmed')
      /\ UNCHANGED <<live, pending, received, strays, doubt>>
  BY DEF EnableTracking
<1>3. antenna' \in Int
  BY <1>1, <1>2 DEF ControllerInv, Basic
<1>4. Kp * (target - confirmed') \in Int
  BY <1>1, <1>2, <1>3, ProductIsInt
<1>5. integral' \in Int
  BY <1>1, <1>2, <1>3, <1>4
<1>6. Basic'
  BY <1>2, <1>3, <1>5 DEF ControllerInv, Basic
<1>7. AntennaInView' /\ CompleteAtRest'
  BY <1>2 DEF ControllerInv, Basic, AntennaInView, CompleteAtRest
<1> QED
  BY <1>6, <1>7 DEF ControllerInv

(* ... a confirmation,                                                      *)
LEMMA ConfirmInv == ControllerInv /\ ConfirmApplied => ControllerInv'
BY DEF ConfirmApplied, clocks, plant, ControllerInv, Basic, AntennaInView, CompleteAtRest

(* ... the end of the pass,                                                 *)
LEMMA TerminateInv == ControllerInv /\ Terminate => ControllerInv'
<1> SUFFICES ASSUME ControllerInv, Terminate PROVE ControllerInv'
  OBVIOUS
<1>1. CASE ResetBlocked \/ ResetComplete
  <2>1. /\ state' \in {"fault", "complete"} /\ integral' = 0
        /\ state' = "complete" => pending = None /\ (live => confirmed = 0)
        /\ UNCHANGED <<live, confirmed, pending, last, antenna, received, strays, doubt>>
    BY <1>1 DEF ResetBlocked, ResetComplete, plant
  <2>2. Basic'
    BY <2>1 DEF ControllerInv, Basic
  <2>3. AntennaInView' /\ CompleteAtRest'
    BY <2>1 DEF ControllerInv, AntennaInView, CompleteAtRest
  <2> QED
    BY <2>2, <2>3 DEF ControllerInv
<1>2. ASSUME NEW outcome \in Outcomes, ResetWrite(outcome) PROVE ControllerInv'
  <2>1. /\ pending' \in Int \cup {None} /\ doubt' \in BOOLEAN /\ received' \in BOOLEAN
        /\ AntennaInView' /\ strays' \subseteq Int
    BY <1>2, WriteStep DEF ResetWrite
  <2> QED
    BY <1>2, <2>1 DEF ResetWrite, ControllerInv, Basic, CompleteAtRest
<1> QED
  BY <1>1, <1>2 DEF Terminate

(* The antenna takes up a write that was accepted, or one that was not      *)
(* known to be.                                                             *)
LEMMA AntennaInv ==
  ASSUME ControllerInv, Obey \/ \E offset \in strays : ObeyStray(offset)
  PROVE  ControllerInv'
<1>1. CASE Obey
  BY <1>1 DEF Obey, memory, clocks, ControllerInv, Basic, AntennaInView, CompleteAtRest
<1>2. ASSUME NEW offset \in strays, ObeyStray(offset) PROVE ControllerInv'
  BY <1>2 DEF ObeyStray, memory, clocks, ControllerInv, Basic, AntennaInView,
              CompleteAtRest
<1> QED
  BY <1>1, <1>2

(* Steps that touch neither a write nor the antenna keep it, too.           *)
LEMMA AsideInv ==
  ASSUME ControllerInv,
         \/ Arm \/ ForeignIdentity \/ Hold \/ Tick
         \/ Elapse \/ AuthorizationExpires \/ PendingExpires
         \/ UNCHANGED controllerVars
  PROVE  ControllerInv'
<1>1. /\ UNCHANGED <<live, confirmed, pending, antenna, received, strays, doubt>>
      /\ integral' \in {integral, 0}
      /\ state' \in {state, "fault", "hold"}
  BY DEF Arm, ForeignIdentity, Hold, Tick, Elapse, AuthorizationExpires, PendingExpires,
         controllerVars, memory, clocks, plant
<1>2. last' \in Nat \cup {None} /\ (state' = "tracking" => last' \in Nat)
  <2>1. CASE Elapse
    BY <2>1 DEF Elapse, ControllerInv, Basic
  <2>2. CASE ~Elapse
    BY <2>2
    DEF Arm, ForeignIdentity, Hold, Tick, AuthorizationExpires, PendingExpires,
        controllerVars, memory, clocks, plant, ControllerInv, Basic
  <2> QED
    BY <2>1, <2>2
<1>3. Basic'
  BY <1>1, <1>2 DEF ControllerInv, Basic
<1>4. AntennaInView' /\ CompleteAtRest'
  BY <1>1 DEF ControllerInv, AntennaInView, CompleteAtRest
<1> QED
  BY <1>3, <1>4 DEF ControllerInv

(* Every step keeps the invariant.                                          *)
LEMMA NextInv == ControllerInv /\ [ControllerNext]_controllerVars => ControllerInv'
<1> SUFFICES ASSUME ControllerInv, [ControllerNext]_controllerVars PROVE ControllerInv'
  OBVIOUS
<1>1. ASSUME NEW target \in Target, NEW handover \in Acquired,
             EnableTracking(target, handover)
      PROVE  ControllerInv'
  BY <1>1, EnableInv
<1>2. ASSUME NEW target \in Target, DryRunUpdate(target) PROVE ControllerInv'
  BY <1>2, DryRunInv
<1>3. ASSUME NEW target \in Target, NEW outcome \in Outcomes, Update(target, outcome)
      PROVE  ControllerInv'
  BY <1>3, UpdateInv
<1>4. CASE ConfirmApplied
  BY <1>4, ConfirmInv
<1>5. CASE Terminate
  BY <1>5, TerminateInv
<1>6. CASE Obey \/ \E offset \in strays : ObeyStray(offset)
  BY <1>6, AntennaInv
<1>7. CASE \/ Arm \/ ForeignIdentity \/ Hold \/ Tick
           \/ Elapse \/ AuthorizationExpires \/ PendingExpires
           \/ UNCHANGED controllerVars
  BY <1>7, AsideInv
<1> QED
  BY <1>1, <1>2, <1>3, <1>4, <1>5, <1>6, <1>7 DEF ControllerNext

(* The invariant always holds: what the controller remembers is typed,      *)
(* explains where the antenna is, and is at rest when the pass is complete. *)
THEOREM ControllerInvariant == ControllerSpec => []ControllerInv
<1> QED
  BY InitInv, NextInv, PTL DEF ControllerSpec

(* OffsetAccounted: as long as every write was accepted or refused, the     *)
(* antenna is where the controller believes it is whenever no write is      *)
(* pending, and a live pass completes with it at zero.                      *)
THEOREM AntennaIsKnown == ControllerSpec => []OffsetAccounted
<1>1. ControllerInv => OffsetAccounted
  BY DEF ControllerInv, AntennaInView, CompleteAtRest, OffsetAccounted, OffsetKnown,
         CompleteIsZero
<1> QED
  BY <1>1, ControllerInvariant, PTL

-----------------------------------------------------------------------------
(* What is written in a step.                                               *)
Guarded ==
  \A offset \in Written :
    offset # 0 => /\ live /\ authorized /\ state = "tracking"
                  /\ Magnitude(offset - confirmed) <= MaxStep
                  /\ Magnitude(offset - confirmed) <= MaxRate * last

OnTheWayBack ==
  \A offset \in Written : \/ Magnitude(offset) <= MaxOffset
                          \/ Magnitude(offset) < Magnitude(confirmed)

(* A step that writes is guarded, and within the limit or on the way back.  *)
LEMMA GuardedStep ==
  ControllerInv /\ [ControllerNext]_controllerVars => [Guarded /\ OnTheWayBack]_controllerVars
<1> SUFFICES ASSUME ControllerInv, ControllerNext PROVE Guarded /\ OnTheWayBack
  OBVIOUS
<1>1. ASSUME NEW target \in Target, NEW outcome \in Outcomes, Update(target, outcome)
      PROVE  Guarded /\ OnTheWayBack
  <2>1. /\ live /\ authorized /\ state = "tracking" /\ last >= MinInterval
        /\ Written \subseteq {Requested(target)}
    BY <1>1 DEF Update, Accepts, Write, Written
  <2>2. /\ Magnitude(Requested(target) - confirmed) <= MaxStep
        /\ Magnitude(Requested(target) - confirmed) <= MaxRate * last
        /\ \/ Magnitude(Requested(target)) <= MaxOffset
           \/ Magnitude(Requested(target)) < Magnitude(confirmed)
    BY <2>1, RequestedIsNear DEF ControllerInv
  <2> QED
    BY <2>1, <2>2 DEF Guarded, OnTheWayBack
<1>2. CASE Terminate
  <2>1. Written \subseteq {0}
    BY <1>2 DEF Terminate, ResetBlocked, ResetComplete, ResetWrite, Write, plant, Written
  <2>2. Magnitude(0) <= MaxOffset
    BY ControllerAssumption DEF Magnitude
  <2> QED
    BY <2>1, <2>2 DEF Guarded, OnTheWayBack
<1>3. ASSUME ~Terminate,
             \A target \in Target, outcome \in Outcomes : ~Update(target, outcome)
      PROVE  Guarded /\ OnTheWayBack
  <2>1. Written = {}
    BY <1>3
    DEF ControllerNext, Arm, EnableTracking, DryRunUpdate, ForeignIdentity,
        ConfirmApplied, Hold, Tick, Obey, ObeyStray, Elapse, AuthorizationExpires,
        PendingExpires, memory, clocks, plant, Written
  <2> QED
    BY <2>1 DEF Guarded, OnTheWayBack
<1> QED
  BY <1>1, <1>2, <1>3

(* GuardedMoves: a write other than the reset is made by an authorized,     *)
(* tracking controller, and moves no further than step and rate allow from  *)
(* the confirmed offset, whatever the gains and however far the estimate.   *)
THEOREM MovesAreGuarded == ControllerSpec => GuardedMoves
<1>1. ControllerInv /\ [ControllerNext]_controllerVars
      => [\A offset \in Written :
            offset # 0 => /\ live /\ authorized /\ state = "tracking"
                          /\ Magnitude(offset - confirmed) <= MaxStep
                          /\ Magnitude(offset - confirmed) <= MaxRate * last]_controllerVars
  BY GuardedStep DEF Guarded
<1> QED
  BY <1>1, ControllerInvariant, PTL DEF ControllerSpec, GuardedMoves

-----------------------------------------------------------------------------
(* WithinMagnitude: two clamps in a row, the second about an offset of its  *)
(* own: what they request beyond the limit is nearer to it than where the   *)
(* antenna was confirmed to be, whatever an acquisition handed over.        *)
THEOREM RequestsAreWithinMagnitude == ControllerSpec => WithinMagnitude
<1>1. ControllerInv /\ [ControllerNext]_controllerVars
      => [\A offset \in Written :
            \/ Magnitude(offset) <= MaxOffset
            \/ Magnitude(offset) < Magnitude(confirmed)]_controllerVars
  BY GuardedStep DEF OnTheWayBack
<1> QED
  BY <1>1, ControllerInvariant, PTL DEF ControllerSpec, WithinMagnitude

-----------------------------------------------------------------------------
(* How far out offsets and the integral may be.                             *)

(* What two offsets and the proportional gain between them add up to.       *)
Budget(far, target) == far + Magnitude(target) + Kp * (Magnitude(target) + far)

(* The magnitude of an integer is natural, and bounds it on either side.    *)
LEMMA MagnitudeIs ==
  ASSUME NEW x \in Int
  PROVE  /\ Magnitude(x) \in Nat /\ x <= Magnitude(x) /\ -x <= Magnitude(x)
         /\ \A m \in Int : x <= m /\ -x <= m => Magnitude(x) <= m
BY DEF Magnitude

(* The permitted magnitude is within reach, and so is every acquired offset. *)
LEMMA ReachIs ==
  /\ Reach \subseteq Nat /\ MaxOffset \in Reach
  /\ \A a \in Acquired : InReach(a)
  /\ InReach(0)
<1>1. MaxOffset \in Nat /\ Acquired \subseteq Int
  BY ControllerAssumption
<1>2. Reach \subseteq Nat /\ MaxOffset \in Reach
  BY <1>1, MagnitudeIs DEF Reach
<1>3. ASSUME NEW a \in Acquired PROVE InReach(a)
  <2>1. a \in Int /\ Magnitude(a) \in Reach /\ Magnitude(a) \in Nat
    BY <1>1, MagnitudeIs DEF Reach
  <2> QED
    BY <2>1 DEF InReach
<1>4. InReach(0)
  BY <1>1, <1>2 DEF InReach, Magnitude
<1> QED
  BY <1>2, <1>3, <1>4

(* A request goes no further out than the limit, or than the offset it      *)
(* starts from.                                                             *)
LEMMA RequestedInReach ==
  ASSUME Basic, state = "tracking", NEW target \in Target, InReach(confirmed)
  PROVE  /\ InReach(Requested(target))
         /\ Raw(target) \in Int
<1>1. /\ MaxOffset \in Nat /\ MaxStep \in Nat /\ MaxRate \in Nat
      /\ confirmed \in Int /\ Elapsed \in Nat
  BY ControllerAssumption, ElapsedIs DEF Basic
<1>2. MaxRate * Elapsed \in Nat
  BY <1>1, ProductIsNat
<1>3. Raw(target) \in Int
  BY RawIsInt
<1> DEFINE move == MaximumMove
           inner == Clamp(Raw(target), -MaxOffset, MaxOffset)
           outer == Clamp(inner, confirmed - move, confirmed + move)
<1>4. move \in Nat
  BY <1>1, <1>2 DEF MaximumMove, Smaller
<1>5. inner \in -MaxOffset .. MaxOffset
  BY <1>1, <1>3 DEF Clamp, Smaller, Larger
<1>6. Requested(target) = outer
  BY DEF Requested
<1> HIDE DEF move, inner
<1>7. PICK far \in Reach : Magnitude(confirmed) <= far
  BY DEF InReach
<1>8. far \in Nat /\ Magnitude(confirmed) \in Nat
      /\ confirmed <= Magnitude(confirmed) /\ -confirmed <= Magnitude(confirmed)
  BY <1>1, ReachIs, MagnitudeIs
<1>9. outer \in Int /\ (Magnitude(outer) <= MaxOffset \/ Magnitude(outer) <= far)
  <2>1. outer \in Int
    BY <1>1, <1>4, <1>5 DEF Clamp, Smaller, Larger
  <2>2. \/ outer \in -MaxOffset .. MaxOffset
        \/ outer \in -far .. far
    BY <1>1, <1>4, <1>5, <1>7, <1>8 DEF Clamp, Smaller, Larger
  <2> HIDE DEF outer
  <2> QED
    BY <1>1, <1>8, <2>1, <2>2 DEF Magnitude
<1> HIDE DEF outer
<1> QED
  BY <1>3, <1>6, <1>7, <1>9, ReachIs DEF InReach

(* What it takes to stand at an offset within reach is within the budget.   *)
LEMMA StandingIsWithinBudget ==
  ASSUME NEW offset \in Int, NEW from \in Int, NEW target \in Int, NEW far \in Nat,
         Magnitude(offset) <= far, Magnitude(from) <= far
  PROVE  /\ Magnitude(offset - target - Kp * (target - from)) <= Budget(far, target)
         /\ Budget(far, target) \in Nat
<1> DEFINE t == Magnitude(target)
           e == target - from
<1>1. Kp \in Nat /\ t \in Nat /\ e \in Int
  BY ControllerAssumption, MagnitudeIs
<1>2. /\ target <= t /\ -target <= t
      /\ offset <= far /\ -offset <= far /\ from <= far /\ -from <= far
  BY MagnitudeIs
<1>3. e <= t + far /\ -(t + far) <= e
  BY <1>1, <1>2
<1> HIDE DEF t, e
<1>4. /\ Kp * e \in Int /\ Kp * (t + far) \in Int /\ Kp * (-(t + far)) \in Int
      /\ Kp * e <= Kp * (t + far) /\ Kp * (-(t + far)) <= Kp * e
      /\ Kp * (-(t + far)) = -(Kp * (t + far))
  BY <1>1, <1>3, GainKeepsOrder
<1>5. Kp * (t + far) \in Nat
  BY <1>1, ProductIsNat
<1>6. Budget(far, target) = far + t + Kp * (t + far)
  BY DEF Budget, t
<1>7. PICK p \in Int : p = Kp * e
  BY <1>4
<1>8. PICK q \in Nat : q = Kp * (t + far)
  BY <1>5
<1>9. -q <= p /\ p <= q
  BY <1>4, <1>7, <1>8
<1>10. Magnitude(offset - target - p) <= far + t + q
  BY <1>1, <1>2, <1>9, MagnitudeIs
<1> QED
  BY <1>1, <1>6, <1>7, <1>8, <1>10 DEF e

(* Anti-windup: the next integral is what stands at the request, or lies    *)
(* between that and the present one, or is the present one.                 *)
LEMMA NextIntegralIsBetween ==
  ASSUME Basic, state = "tracking", NEW target \in Target, NEW stand \in Int,
         stand = Requested(target) - target - Kp * Error(target),
         Requested(target) \in Int, Raw(target) \in Int
  PROVE  LET next == NextIntegral(target) IN
         /\ next \in Int
         /\ \/ next = stand \/ next = integral
            \/ stand <= next /\ next <= integral
            \/ integral <= next /\ next <= stand
<1>1. /\ Kp \in Int /\ Ki \in Nat /\ confirmed \in Int /\ integral \in Int
      /\ Elapsed \in Nat /\ target \in Int
  BY ControllerAssumption, ElapsedIs DEF Basic
<1>2. PICK e \in Int : e = Error(target)
  BY <1>1 DEF Error
<1>3. PICK p \in Int : p = Kp * e
  BY <1>1, <1>2, ProductIsInt
<1>4. PICK d \in Int : d = Ki * e * Elapsed
  BY <1>1, <1>2, ProductIsInt
<1>5. Tentative(target) = integral + d /\ Raw(target) = target + p + (integral + d)
  BY <1>2, <1>3, <1>4 DEF Raw, Tentative
<1>6. (e < 0 => d <= 0) /\ (e > 0 => 0 <= d)
  <2>1. Ki * Elapsed \in Nat /\ Ki * e \in Int /\ d = (Ki * Elapsed) * e
    BY <1>1, <1>2, <1>4, ProductIsNat, ProductIsInt
  <2>2. PICK k \in Nat : k = Ki * Elapsed
    BY <2>1
  <2>3. d = k * e
    BY <2>1, <2>2
  <2>4. e <= 0 => k * e <= k * 0
    BY <1>2, <2>2, GainKeepsOrder
  <2>5. 0 <= e => k * 0 <= k * e
    BY <1>2, <2>2, GainKeepsOrder
  <2>6. k * 0 = 0
    BY <2>2
  <2> QED
    BY <1>2, <1>4, <2>3, <2>4, <2>5, <2>6
<1>7. PICK r \in Int : r = Requested(target)
  OBVIOUS
<1>8. stand = r - target - p
  BY <1>2, <1>3, <1>7
<1>9. NextIntegral(target) =
        IF \/ r = target + p + (integral + d)
           \/ target + p + (integral + d) > r /\ e < 0
           \/ target + p + (integral + d) < r /\ e > 0
        THEN integral + d ELSE integral
  BY <1>2, <1>5, <1>7 DEF NextIntegral
<1> QED
  BY <1>1, <1>2, <1>3, <1>4, <1>6, <1>7, <1>8, <1>9

(* The integral within the budget of some offset and estimate.              *)
Budgeted(i) ==
  i # 0 => \E far \in Reach, target \in Target : Magnitude(i) <= Budget(far, target)

(* Every update keeps the integral in bounds.                               *)
LEMMA NextIntegralBudgeted ==
  ASSUME Basic, state = "tracking", NEW target \in Target, InReach(confirmed),
         Budgeted(integral)
  PROVE  Budgeted(NextIntegral(target))
<1>1. /\ confirmed \in Int /\ integral \in Int /\ target \in Int /\ Kp \in Int
  BY ControllerAssumption DEF Basic
<1>2. Requested(target) \in Int /\ Raw(target) \in Int /\ InReach(Requested(target))
  BY RequestedInReach DEF InReach
<1>3. PICK a \in Reach : Magnitude(confirmed) <= a
  BY DEF InReach
<1>4. PICK b \in Reach : Magnitude(Requested(target)) <= b
  BY <1>2 DEF InReach
<1>5. PICK far \in Reach : a <= far /\ b <= far
  BY ReachIs
<1>6. Magnitude(confirmed) <= far /\ Magnitude(Requested(target)) <= far /\ far \in Nat
  BY <1>1, <1>2, <1>3, <1>4, <1>5, ReachIs, MagnitudeIs
<1>7. Error(target) \in Int /\ Kp * Error(target) \in Int
  BY <1>1, ProductIsInt DEF Error
<1>8. PICK stand \in Int : stand = Requested(target) - target - Kp * Error(target)
  BY <1>1, <1>2, <1>7
<1>9. Magnitude(stand) <= Budget(far, target) /\ Budget(far, target) \in Nat
  BY <1>1, <1>2, <1>6, <1>8, StandingIsWithinBudget DEF Error
<1>10. PICK next \in Int : next = NextIntegral(target)
  BY <1>2, <1>8, NextIntegralIsBetween
<1>11. \/ next = stand \/ next = integral
       \/ stand <= next /\ next <= integral
       \/ integral <= next /\ next <= stand
  BY <1>2, <1>8, <1>10, NextIntegralIsBetween
<1>12. Magnitude(next) <= Magnitude(stand) \/ Magnitude(next) <= Magnitude(integral)
  BY <1>1, <1>11 DEF Magnitude
<1>13. CASE Magnitude(next) <= Magnitude(stand)
  <2>1. Magnitude(next) <= Budget(far, target)
    BY <1>9, <1>13, MagnitudeIs
  <2> QED
    BY <1>10, <2>1 DEF Budgeted
<1>14. CASE Magnitude(next) <= Magnitude(integral)
  <2>1. CASE integral = 0
    BY <1>10, <1>14, <2>1 DEF Budgeted, Magnitude
  <2>2. CASE integral # 0
    <3>1. PICK f \in Reach, t \in Target : Magnitude(integral) <= Budget(f, t)
      BY <2>2 DEF Budgeted
    <3>2. Budget(f, t) \in Nat
      <4>1. f \in Nat /\ t \in Int /\ Magnitude(0) <= f /\ 0 \in Int
        BY ReachIs, ControllerAssumption DEF Magnitude
      <4> QED
        BY <4>1, StandingIsWithinBudget
    <3>3. Magnitude(next) <= Budget(f, t)
      BY <1>1, <1>14, <3>1, <3>2, MagnitudeIs
    <3> QED
      BY <1>10, <3>3 DEF Budgeted
  <2> QED
    BY <2>1, <2>2
<1> QED
  BY <1>12, <1>13, <1>14

(* Types, offsets within reach, the integral within its budget.             *)
LimitsInv == ControllerTypeOK /\ Budgeted(integral)

(* A new controller is within its limits,                                   *)
LEMMA LimitsInit == ControllerInit => LimitsInv
<1> SUFFICES ASSUME ControllerInit PROVE LimitsInv
  OBVIOUS
<1>1. Budgeted(integral)
  BY DEF ControllerInit, Budgeted
<1>2. /\ confirmed = 0 /\ antenna = 0 /\ integral = 0 /\ pending = None /\ strays = {}
      /\ last = None /\ state = "idle"
  BY DEF ControllerInit
<1>3. {live, authorized, overdue, received, doubt} \subseteq BOOLEAN
  BY Zenon DEF ControllerInit
<1> QED
  BY <1>1, <1>2, <1>3, ReachIs DEF LimitsInv, ControllerTypeOK

(* A write of an offset within reach keeps every offset within reach.       *)
LEMMA WriteInReach ==
  ASSUME ControllerTypeOK, NEW offset, NEW outcome, InReach(offset), Write(offset, outcome),
         UNCHANGED <<confirmed, antenna>>
  PROVE  /\ \A x \in {confirmed', antenna'} \cup strays' \cup ({pending'} \ {None}) : InReach(x)
         /\ {overdue', received', doubt'} \subseteq BOOLEAN
<1>1. \A x \in {confirmed', antenna'} \cup strays' \cup ({pending'} \ {None}) : InReach(x)
  BY DEF ControllerTypeOK, Write
<1>2. {overdue', received', doubt'} \subseteq BOOLEAN
  BY DEF ControllerTypeOK, Write
<1> QED
  BY <1>1, <1>2

(* ... also one that updates,                                               *)
LEMMA UpdateLimits ==
  ASSUME ControllerInv, LimitsInv, NEW target \in Target, NEW outcome \in Outcomes,
         Update(target, outcome)
  PROVE  LimitsInv'
<1> USE DEF LimitsInv
<1>1. /\ state = "tracking" /\ Basic /\ InReach(confirmed)
      /\ UNCHANGED <<live, confirmed, authorized, antenna>>
      /\ Write(Requested(target), outcome)
      /\ integral' = NextIntegral(target)
      /\ last' = 0 \/ last' = last
      /\ state' \in {"fault", "tracking"}
  BY DEF Update, Accepts, ControllerInv, ControllerTypeOK
<1>2. InReach(Requested(target)) /\ Requested(target) \in Int /\ Raw(target) \in Int
  BY <1>1, RequestedInReach DEF InReach
<1>3. Budgeted(integral')
  BY <1>1, NextIntegralBudgeted
<1>4. integral' \in Int
  BY <1>1, NextIntegralIsInt
<1>5. /\ \A x \in {confirmed', antenna'} \cup strays' \cup ({pending'} \ {None}) : InReach(x)
      /\ {overdue', received', doubt'} \subseteq BOOLEAN
  BY <1>1, <1>2, WriteInReach
<1>6. {live', authorized', overdue', received', doubt'} \subseteq BOOLEAN
  BY <1>1, <1>5 DEF ControllerTypeOK
<1>7. last' \in 0 .. Latest \cup {None}
  BY <1>1, ControllerAssumption DEF ControllerTypeOK, Latest, Larger
<1> QED
  BY <1>1, <1>3, <1>4, <1>5, <1>6, <1>7 DEF ControllerTypeOK

(* ... one that would update but may not write,                             *)
LEMMA DryRunLimits ==
  ASSUME ControllerInv, LimitsInv, NEW target \in Target, DryRunUpdate(target)
  PROVE  LimitsInv'
<1> USE DEF LimitsInv
<1>1. /\ state = "tracking" /\ Basic /\ InReach(confirmed)
      /\ integral' = NextIntegral(target) /\ last' = 0
      /\ UNCHANGED <<live, state, confirmed, pending, authorized, overdue,
                     antenna, received, strays, doubt>>
  BY DEF DryRunUpdate, Accepts, clocks, plant, ControllerInv, ControllerTypeOK
<1>2. Budgeted(integral') /\ integral' \in Int
  BY <1>1, NextIntegralBudgeted, NextIntegralIsInt
<1>3. last' \in 0 .. Latest \cup {None}
  BY <1>1, ControllerAssumption DEF Latest, Larger
<1> QED
  BY <1>1, <1>2, <1>3 DEF ControllerTypeOK

(* ... and taking over an acquired offset.                                  *)
LEMMA EnableLimits ==
  ASSUME ControllerInv, LimitsInv, NEW target \in Target, NEW handover \in Acquired,
         EnableTracking(target, handover)
  PROVE  LimitsInv'
<1> USE DEF LimitsInv
<1>1. /\ state' = "tracking" /\ last' = 0 /\ confirmed' = antenna'
      /\ antenna' = (IF state = "idle" THEN handover ELSE antenna)
      /\ integral' = confirmed' - target - Kp * (target - confirmed')
      /\ UNCHANGED <<live, pending, authorized, overdue, received, strays, doubt>>
  BY DEF EnableTracking, clocks
<1>2. InReach(antenna')
  BY <1>1, ReachIs DEF ControllerTypeOK
<1>3. PICK far \in Reach : Magnitude(antenna') <= far
  BY <1>2 DEF InReach
<1>4. antenna' \in Int /\ target \in Int /\ far \in Nat /\ Kp \in Int
  BY <1>2, ControllerAssumption, ReachIs DEF InReach
<1>5. Magnitude(antenna' - target - Kp * (target - antenna')) <= Budget(far, target)
  BY <1>3, <1>4, StandingIsWithinBudget
<1>6. Budgeted(integral')
  BY <1>1, <1>5 DEF Budgeted
<1>7. Kp * (target - antenna') \in Int
  BY <1>4, ProductIsInt
<1>8. integral' \in Int
  BY <1>1, <1>4, <1>7
<1>9. last' \in 0 .. Latest \cup {None}
  BY <1>1, ControllerAssumption DEF Latest, Larger
<1> QED
  BY <1>1, <1>2, <1>6, <1>8, <1>9 DEF ControllerTypeOK

(* The end of the pass clears the integral, and writes zero at most.        *)
LEMMA TerminateLimits == LimitsInv /\ Terminate => LimitsInv'
<1> SUFFICES ASSUME LimitsInv, Terminate PROVE LimitsInv'
  OBVIOUS
<1> USE DEF LimitsInv
<1>1. /\ UNCHANGED <<live, confirmed, last, authorized, antenna>>
      /\ state' \in {"fault", "complete", "resetting"} /\ integral' = 0
      /\ \/ UNCHANGED <<pending, overdue, received, strays, doubt>>
         \/ \E outcome \in Outcomes : Write(0, outcome)
  BY DEF Terminate, ResetBlocked, ResetComplete, ResetWrite, clocks, plant
<1>2. /\ \A x \in {confirmed', antenna'} \cup strays' \cup ({pending'} \ {None}) : InReach(x)
      /\ {overdue', received', doubt'} \subseteq BOOLEAN
  <2>1. CASE UNCHANGED <<pending, overdue, received, strays, doubt>>
    BY <1>1, <2>1 DEF ControllerTypeOK
  <2>2. CASE \E outcome \in Outcomes : Write(0, outcome)
    BY <1>1, <2>2, ReachIs, WriteInReach
  <2> QED
    BY <1>1, <2>1, <2>2
<1>3. Budgeted(integral')
  BY <1>1 DEF Budgeted
<1>4. {live', authorized', overdue', received', doubt'} \subseteq BOOLEAN
  BY <1>1, <1>2 DEF ControllerTypeOK
<1> QED
  BY <1>1, <1>2, <1>3, <1>4 DEF ControllerTypeOK

(* Confirmations and the antenna only pass offsets on.                      *)
LEMMA PassedOnLimits ==
  ASSUME LimitsInv, ConfirmApplied \/ Obey \/ \E offset \in strays : ObeyStray(offset)
  PROVE  LimitsInv'
<1> USE DEF LimitsInv
<1>1. /\ UNCHANGED <<live, integral, last, authorized, overdue, doubt>>
      /\ state' \in {state, "complete"} /\ received' \in BOOLEAN
  BY DEF ConfirmApplied, Obey, ObeyStray, clocks, plant, memory, ControllerTypeOK
<1>2. {confirmed', antenna'} \cup strays' \cup ({pending'} \ {None})
      \subseteq {confirmed, antenna} \cup strays \cup ({pending} \ {None})
  BY DEF ConfirmApplied, Obey, ObeyStray, plant, memory
<1>3. \A x \in {confirmed', antenna'} \cup strays' \cup ({pending'} \ {None}) : InReach(x)
  BY <1>2 DEF ControllerTypeOK
<1>4. {live', authorized', overdue', received', doubt'} \subseteq BOOLEAN
  BY <1>1 DEF ControllerTypeOK
<1> QED
  BY <1>1, <1>3, <1>4 DEF ControllerTypeOK

(* The steps beside them move nothing.                                      *)
LEMMA AsideLimits ==
  ASSUME LimitsInv,
         \/ Arm \/ ForeignIdentity \/ Hold \/ Tick
         \/ Elapse \/ AuthorizationExpires \/ PendingExpires
         \/ UNCHANGED controllerVars
  PROVE  LimitsInv'
<1> USE DEF LimitsInv
<1>1. /\ UNCHANGED <<live, confirmed, pending, antenna, received, strays, doubt>>
      /\ integral' \in {integral, 0}
      /\ state' \in {state, "fault", "hold"}
  BY DEF Arm, ForeignIdentity, Hold, Tick, Elapse, AuthorizationExpires, PendingExpires,
         controllerVars, memory, clocks, plant
<1>2. last' \in 0 .. Latest \cup {None}
  <2>1. CASE Elapse
    BY <2>1, ControllerAssumption DEF Elapse, ControllerTypeOK, Latest, Larger
  <2>2. CASE ~Elapse
    BY <2>2
    DEF Arm, ForeignIdentity, Hold, Tick, AuthorizationExpires, PendingExpires,
        controllerVars, memory, clocks, plant, ControllerTypeOK
  <2> QED
    BY <2>1, <2>2
<1>3. {live', authorized', overdue', received', doubt'} \subseteq BOOLEAN
  BY DEF Arm, ForeignIdentity, Hold, Tick, Elapse, AuthorizationExpires, PendingExpires,
         controllerVars, memory, clocks, plant, ControllerTypeOK
<1>4. Budgeted(integral')
  BY <1>1 DEF Budgeted
<1> QED
  BY <1>1, <1>2, <1>3, <1>4 DEF ControllerTypeOK

(* Every step keeps the limits.                                             *)
LEMMA LimitsNext ==
  ControllerInv /\ LimitsInv /\ [ControllerNext]_controllerVars => LimitsInv'
<1> SUFFICES ASSUME ControllerInv, LimitsInv, [ControllerNext]_controllerVars
             PROVE  LimitsInv'
  OBVIOUS
<1>1. ASSUME NEW target \in Target, NEW handover \in Acquired,
             EnableTracking(target, handover)
      PROVE  LimitsInv'
  BY <1>1, EnableLimits
<1>2. ASSUME NEW target \in Target, DryRunUpdate(target) PROVE LimitsInv'
  BY <1>2, DryRunLimits
<1>3. ASSUME NEW target \in Target, NEW outcome \in Outcomes, Update(target, outcome)
      PROVE  LimitsInv'
  BY <1>3, UpdateLimits
<1>4. CASE ConfirmApplied \/ Obey \/ \E offset \in strays : ObeyStray(offset)
  BY <1>4, PassedOnLimits
<1>5. CASE Terminate
  BY <1>5, TerminateLimits
<1>6. CASE \/ Arm \/ ForeignIdentity \/ Hold \/ Tick
           \/ Elapse \/ AuthorizationExpires \/ PendingExpires
           \/ UNCHANGED controllerVars
  BY <1>6, AsideLimits
<1> QED
  BY <1>1, <1>2, <1>3, <1>4, <1>5, <1>6 DEF ControllerNext

(* IntegralBounded: whatever is clamped and however the errors alternate,   *)
(* the integral never exceeds what it takes to command some reachable       *)
(* offset against some estimate; offsets acquired beyond the permitted      *)
(* magnitude included.                                                      *)
THEOREM AntiWindup == ControllerSpec => [](ControllerTypeOK /\ IntegralBounded)
<1>1. LimitsInv => ControllerTypeOK /\ IntegralBounded
  BY DEF LimitsInv, Budgeted, Budget, IntegralBounded
<1> QED
  BY <1>1, LimitsInit, LimitsNext, ControllerInvariant, PTL DEF ControllerSpec

(* LimitsHold: every limit at once, wherever an acquisition leaves off.     *)
THEOREM EveryLimitHolds == ControllerSpec => LimitsHold
<1> QED
  BY AntiWindup, RequestsAreWithinMagnitude, MovesAreGuarded, PTL DEF LimitsHold

=============================================================================
