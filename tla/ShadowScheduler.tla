---------------------------- MODULE ShadowScheduler ----------------------------
(***************************************************************************)
(* ShadowScheduler of dart/shadow_scheduler.py, as book_shadowpass.py runs  *)
(* it: plan a shadow of a customer contact on the target antenna, then book *)
(* it, assign the ephemeris and record every transition in an audit log.    *)
(*                                                                         *)
(* Each run is a process of its own that may crash between any two effects. *)
(* KOGS (external) may refuse a request, or carry it out and lose the reply;*)
(* an append to the audit log may fail.  A source contact is named by its   *)
(* place in the order of start times, the contact a run creates by the run. *)
(***************************************************************************)
EXTENDS Integers, FiniteSets

CONSTANTS
  Source,         \* the contacts that may be shadowed: 1 .. n
  Start, End,     \* their tracking windows
  SetupMargin,    \* setup_margin_s
  TeardownMargin, \* teardown_margin_s
  Run,            \* the executions of the script (bound)
  Concurrent,     \* may two of them overlap in time?
  ListsCanceled,  \* does KOGS list canceled contacts? (external)
  Absent

ASSUME SchedulerAssumption ==
  /\ Source \subseteq Nat /\ IsFiniteSet(Source)
  /\ Start \in [Source -> Int] /\ End \in [Source -> Int]
  /\ \A s \in Source : Start[s] < End[s]
  /\ \A s, u \in Source : s <= u => Start[s] <= Start[u]
  /\ SetupMargin \in Nat /\ TeardownMargin \in Nat
  /\ {Concurrent, ListsCanceled} \subseteq BOOLEAN
  /\ Absent \notin Source \cup Run

VARIABLES
  pc,        \* what each run does next, or how it ended
  plan,      \* its ShadowPlan: the source, and existing_shadow_id
  contacts,  \* contacts[r]: the contact on the target antenna that r created
  audit,     \* the last status in the audit log for the booking of each run
  returned   \* the contact each run returned

schedulerVars == <<pc, plan, contacts, audit, returned>>

Ended == {"failed", "unrecorded", "returned", "dead"}
Busy  == {"finding", "recording", "booking", "ambiguous", "booked", "assigning",
          "assigned", "completing", "compensating", "compensated", "uncompensated"}
Lifecycle == {"planned", "booked", "ephemeris_assigned", "complete",
              "compensated", "reconciliation_required"}

NoPlan    == [source |-> Absent, existing |-> Absent]
NoContact == [state |-> "none", source |-> Absent, ephemeris |-> FALSE]

SchedulerInit ==
  /\ pc = [r \in Run |-> "ready"]
  /\ plan = [r \in Run |-> NoPlan]
  /\ contacts = [r \in Run |-> NoContact]
  /\ audit = [r \in Run |-> "none"]
  /\ returned = [r \in Run |-> Absent]

-----------------------------------------------------------------------------
(* plan *)

Listed(r) == contacts[r].state \in {"live"} \cup (IF ListsCanceled THEN {"canceled"} ELSE {})

(* _has_conflict, for a contact of the given tracking window                *)
Conflicts(s, u) ==
  /\ Start[s] - SetupMargin < End[u]
  /\ Start[u] < End[s] + TeardownMargin

(* Mutant: a shadow that is not ready does not count.                       *)
ExistingReady(s) ==
  {r \in Run : Listed(r) /\ contacts[r].source = s /\ contacts[r].ephemeris}

(* Listed contacts with the identity of a shadow of s.                      *)
Existing(s) == {r \in Run : Listed(r) /\ contacts[r].source = s}

Occupied(s) ==
  \E r \in Run : /\ Listed(r) /\ contacts[r].source \notin {Absent, s}
                 /\ Conflicts(s, contacts[r].source)

(* _candidate, for an eligible source *)
Candidate(s) == Existing(s) # {} \/ ~Occupied(s)

(* Which sources are eligible (state, spacecraft, ephemeris, duration, lead *)
(* time) and which of them collide with contacts of others is left open.    *)
Plan(r) ==
  /\ pc[r] = "ready"
  /\ Concurrent \/ \A q \in Run : pc[q] \notin Busy
  /\ \E eligible \in SUBSET Source :
       \E s \in {s \in eligible : Candidate(s)} :
         /\ \A u \in eligible : Candidate(u) => s <= u
         /\ \E x \in IF Existing(s) # {} THEN Existing(s) ELSE {Absent} :
              /\ plan' = [plan EXCEPT ![r] = [source |-> s, existing |-> x]]
              /\ pc' = [pc EXCEPT ![r] = IF x = Absent THEN "recording" ELSE "finding"]
  /\ UNCHANGED <<contacts, audit, returned>>

(* No candidate, or a request of plan fails, or the snapshot is not right.  *)
PlanFails(r) ==
  /\ pc[r] = "ready"
  /\ pc' = [pc EXCEPT ![r] = "failed"]
  /\ UNCHANGED <<plan, contacts, audit, returned>>

-----------------------------------------------------------------------------
(* execute *)

(* _find_existing: the contact is still listed, or has disappeared.         *)
FindExisting(r) ==
  /\ pc[r] = "finding"
  /\ \/ /\ Listed(plan[r].existing)
        /\ returned' = [returned EXCEPT ![r] = plan[r].existing]
        /\ pc' = [pc EXCEPT ![r] = "returned"]
     \/ /\ pc' = [pc EXCEPT ![r] = "failed"]
        /\ UNCHANGED returned
  /\ UNCHANGED <<plan, contacts, audit>>

(* _record: one line is appended, or an exception is raised.                *)
Record(r, at, status, next, otherwise) ==
  /\ pc[r] = at
  /\ \/ /\ audit' = [audit EXCEPT ![r] = status]
        /\ pc' = [pc EXCEPT ![r] = next]
     \/ /\ pc' = [pc EXCEPT ![r] = otherwise]
        /\ UNCHANGED audit
  /\ UNCHANGED <<plan, contacts, returned>>

(* Mutant: the log is written after the booking only.                       *)
RecordPlannedLater(r) ==
  /\ pc[r] = "recording"
  /\ pc' = [pc EXCEPT ![r] = "booking"]
  /\ UNCHANGED <<plan, contacts, audit, returned>>

RecordPlanned(r) == Record(r, "recording", "planned", "booking", "failed")

(* book_shadow: the contact asked for; one that _validate_booked_contact    *)
(* rejects; an exception, with the contact booked or not.                   *)
Book(r) ==
  /\ pc[r] = "booking"
  /\ \/ \E next \in {"booked", "ambiguous"} :
          /\ contacts' = [contacts EXCEPT ![r].state = "live", ![r].source = plan[r].source]
          /\ pc' = [pc EXCEPT ![r] = next]
     \/ /\ contacts' = [contacts EXCEPT ![r].state = "live"]
        /\ pc' = [pc EXCEPT ![r] = "compensating"]
     \/ /\ pc' = [pc EXCEPT ![r] = "ambiguous"]
        /\ UNCHANGED contacts
  /\ UNCHANGED <<plan, audit, returned>>

(* Mutant: an exception is taken to mean that nothing was booked.           *)
AmbiguousIsRefused(r) ==
  /\ pc[r] = "ambiguous"
  /\ pc' = [pc EXCEPT ![r] = "failed"]
  /\ UNCHANGED <<plan, contacts, audit, returned>>

RecordAmbiguous(r) ==
  Record(r, "ambiguous", "reconciliation_required", "failed", "unrecorded")

RecordBooked(r) == Record(r, "booked", "booked", "assigning", "compensating")

(* assign_ephemeris, and an exception with or without effect                *)
Assign(r) ==
  /\ pc[r] = "assigning"
  /\ \/ \E next \in {"assigned", "compensating"} :
          /\ contacts' = [contacts EXCEPT ![r].ephemeris = TRUE]
          /\ pc' = [pc EXCEPT ![r] = next]
     \/ /\ pc' = [pc EXCEPT ![r] = "compensating"]
        /\ UNCHANGED contacts
  /\ UNCHANGED <<plan, audit, returned>>

RecordAssigned(r) ==
  Record(r, "assigned", "ephemeris_assigned", "completing", "compensating")

(* The last record, and the return.                                         *)
Complete(r) ==
  /\ pc[r] = "completing"
  /\ \/ /\ audit' = [audit EXCEPT ![r] = "complete"]
        /\ returned' = [returned EXCEPT ![r] = r]
        /\ pc' = [pc EXCEPT ![r] = "returned"]
     \/ /\ pc' = [pc EXCEPT ![r] = "compensating"]
        /\ UNCHANGED <<audit, returned>>
  /\ UNCHANGED <<plan, contacts>>

(* _compensate: cancel_contact, and an exception with or without effect     *)
Cancel(r) ==
  /\ pc[r] = "compensating"
  /\ \/ \E next \in {"compensated", "uncompensated"} :
          /\ contacts' = [contacts EXCEPT ![r].state = "canceled"]
          /\ pc' = [pc EXCEPT ![r] = next]
     \/ /\ pc' = [pc EXCEPT ![r] = "uncompensated"]
        /\ UNCHANGED contacts
  /\ UNCHANGED <<plan, audit, returned>>

RecordCompensated(r) ==
  Record(r, "compensated", "compensated", "failed", "unrecorded")

RecordUncompensated(r) ==
  Record(r, "uncompensated", "reconciliation_required", "failed", "unrecorded")

Crash(r) ==
  /\ pc[r] \in Busy
  /\ pc' = [pc EXCEPT ![r] = "dead"]
  /\ UNCHANGED <<plan, contacts, audit, returned>>

-----------------------------------------------------------------------------

Execute(r) ==
  \/ FindExisting(r)
  \/ RecordPlanned(r) \/ Book(r) \/ RecordAmbiguous(r) \/ RecordBooked(r)
  \/ Assign(r) \/ RecordAssigned(r) \/ Complete(r)
  \/ Cancel(r) \/ RecordCompensated(r) \/ RecordUncompensated(r)

SchedulerNext ==
  \E r \in Run : Plan(r) \/ PlanFails(r) \/ Execute(r) \/ Crash(r)

SchedulerSpec == SchedulerInit /\ [][SchedulerNext]_schedulerVars

-----------------------------------------------------------------------------
(* Type invariant.                                                          *)
SchedulerTypeOK ==
  /\ pc \in [Run -> {"ready"} \cup Busy \cup Ended]
  /\ plan \in [Run -> [source : Source \cup {Absent}, existing : Run \cup {Absent}]]
  /\ contacts \in [Run -> [state : {"none", "live", "canceled"},
                          source : Source \cup {Absent}, ephemeris : BOOLEAN]]
  /\ audit \in [Run -> Lifecycle \cup {"none"}]
  /\ returned \in [Run -> Run \cup {Absent}]

(* The last line of the log about a booking is true wherever its run may    *)
(* have crashed: without a line nothing was booked, complete means on the   *)
(* antenna with its ephemeris, compensated means canceled.                  *)
AuditTruth ==
  \A r \in Run :
    LET contact == contacts[r] IN
    /\ audit[r] = "none" => contact.state = "none"
    /\ audit[r] \in {"booked", "ephemeris_assigned"} => contact.state # "none"
    /\ audit[r] = "complete" =>
         /\ contact.state = "live" /\ contact.ephemeris
         /\ contact.source = plan[r].source
    /\ audit[r] = "compensated" => contact.state = "canceled"

(* "Cancel after downstream failure, or record reconciliation-required": a  *)
(* run that failed, and could still write its log, leaves no contact behind *)
(* that the log does not flag.                                              *)
LeftoverRecorded ==
  \A r \in Run :
    pc[r] = "failed" /\ contacts[r].state = "live" =>
      audit[r] = "reconciliation_required"

(* The identity makes booking idempotent: however runs fail, a source has   *)
(* at most one shadow on the antenna.                                       *)
Shadows(s) == {r \in Run : contacts[r].state = "live" /\ contacts[r].source = s}

NoTwin == \A s \in Source : Cardinality(Shadows(s)) <= 1

(* No shadow is booked into the setup or the teardown of another.           *)
SetupClear ==
  \A s, u \in Source :
    s # u /\ Shadows(s) # {} /\ Shadows(u) # {} => ~Conflicts(s, u)

(* Whatever runs before it left behind, a run adds no second shadow of a    *)
(* source and none in the way of another.                                   *)
OneShadowEach == NoTwin /\ SetupClear
=============================================================================
