--------------------------- MODULE InputResolution ---------------------------
(***************************************************************************)
(* How a worker turns a request into a fit's inputs: InputResolver.prepare *)
(* (dart/service/resolver.py) over load_passes (dart/io/load.py).  One     *)
(* thread per contact asks KOGS for four documents, then one thread per    *)
(* contact asks ADX for the samples; the main thread takes what they       *)
(* bring, or the first exception, and selects the prior.  Providers may be *)
(* late, refuse, answer nonsense or answer about something else.           *)
(***************************************************************************)
EXTENDS Ordering, SequencesExt, Functions

CONSTANTS
  Contact,    \* contact IDs: numbers, in the order that breaks ties
  Antenna,    \* system IDs
  Craft,      \* spacecraft IDs
  Ephemeris,  \* ephemeris IDs
  Worlds,     \* what KOGS and ADX may hold
  Requests,   \* what a configuration may ask for
  PoolSize,   \* threads of the event loop's executor
  MaxFaults,  \* bound: calls that fail or are answered wrongly
  None

Sample == [time : Int, contact : Contact, craft : Craft, system : Antenna, usable : BOOLEAN]

\* A spacecraft's contact, its ephemeris and what was measured in it.
WorldType ==
  [contact : [Contact -> [craft : Craft, system : Antenna, ephemeris : Ephemeris, start : Int]],
   ephemeris : [Ephemeris -> [craft : Craft, tle : BOOLEAN]],
   samples : [Contact -> SUBSET Sample]]

ResolutionConfig ==
  /\ Contact \subseteq Nat
  /\ None \notin Contact \union Ephemeris
  /\ PoolSize \in Nat \ {0} /\ MaxFaults \in Nat
  /\ Worlds \subseteq WorldType
  /\ \A w \in Worlds : \A c \in Contact :
       IsFiniteSet(w.samples[c]) /\ \A s \in w.samples[c] : s.contact = c
  /\ \A r \in Requests :
       /\ r.contacts \in Seq(Contact) /\ r.contacts # <<>>
       /\ \A i, j \in DOMAIN r.contacts : r.contacts[i] = r.contacts[j] => i = j
       /\ r.ephemeris \in Ephemeris \union {None} /\ r.minimum \in Nat \ {0}

ASSUME ResolutionAssumption == ResolutionConfig

VARIABLES
  world,    \* what the providers hold
  request,  \* of the configuration being prepared
  thread,   \* [Contact -> the provider call made for it and what it brought]
  main,     \* where prepare is
  raised,   \* the LoadError that reached gather first
  client,   \* the ADX client: "open" or "closed"
  prior,    \* the PriorStateData prepared
  verdict,  \* what _record_failure would store
  faults

resolutionVars ==
  <<world, request, thread, main, raised, client, prior, verdict, faults>>

Requested == ToSet(request.contacts)
Documents == {"contact", "antenna", "spacecraft", "ephemeris"}
AtWork == {c \in Contact : thread[c].at \in Documents \union {"compare", "query"}}

NoThread == [at |-> "queued", error |-> None, contact |-> None, antenna |-> None,
             spacecraft |-> None, ephemeris |-> None, frame |-> {}]

ResolutionInit ==
  /\ world \in Worlds
  /\ request \in Requests
  /\ thread = [c \in Contact |-> NoThread]
  /\ main = "metadata" /\ client = "open"
  /\ raised = None /\ prior = None /\ verdict = None
  /\ faults = 0

-----------------------------------------------------------------------------
(* A call to a provider.                                                   *)

(* What goes wrong, by what it is to the worker: "transport" is what        *)
(* _retryable accepts; "refused" a status 4xx and what else is not; "kogs"  *)
(* a KogsError, "value" and "input" a ValueError, "load" a LoadError that   *)
(* has no cause.                                                            *)
Fault(n) == faults + n <= MaxFaults /\ faults' = faults + n

(* The first exception of a gather is the one that load_passes raises. *)
Raise(c, provider, error) ==
  /\ thread' = [thread EXCEPT ![c].at = "failed", ![c].error = error]
  /\ raised' = IF raised # None THEN raised
               ELSE [provider |-> provider, contact |-> c, error |-> error]

(* asyncio.to_thread: an executor of PoolSize threads, which take the next  *)
(* call also after one failed, until the loop sees that.                    *)
BeginCall(c, phase, first) ==
  /\ main = phase
  /\ c \in Requested /\ thread[c].at = "queued"
  /\ Cardinality(AtWork) < PoolSize
  /\ thread' = [thread EXCEPT ![c].at = first]
  /\ UNCHANGED <<world, request, main, raised, client, prior, verdict, faults>>

-----------------------------------------------------------------------------
(* load_contact_metadata: four requests in a row, compared at the end.     *)

(* The document the thread asks for now, and what KOGS may take it for. *)
Asked(c) ==
  LET t == thread[c]
      about == world.contact[IF t.contact = None THEN c ELSE t.contact]
  IN  [contact |-> c, antenna |-> about.system, spacecraft |-> about.craft,
       ephemeris |-> about.ephemeris][t.at]

Kind == [contact |-> Contact, antenna |-> Antenna, spacecraft |-> Craft,
         ephemeris |-> Ephemeris]
Following == [contact |-> "antenna", antenna |-> "spacecraft",
              spacecraft |-> "ephemeris", ephemeris |-> "compare"]

RequestDocument(c) ==
  LET at == thread[c].at IN
  /\ at \in Documents
  /\ \E answer \in Kind[at] :
       /\ Fault(IF answer = Asked(c) THEN 0 ELSE 1)
       /\ thread' = [thread EXCEPT ![c][at] = answer, ![c].at = Following[at]]
  /\ UNCHANGED <<world, request, main, raised, client, prior, verdict>>

RequestFails(c) ==
  /\ thread[c].at \in Documents
  /\ Fault(1)
  /\ \E error \in {"transport", "refused", "kogs"} : Raise(c, "KOGS", error)
  /\ UNCHANGED <<world, request, main, client, prior, verdict>>

Identities(c) ==
  LET t == thread[c]
      about == world.contact[t.contact]
  IN  /\ t.contact = c
      /\ t.antenna = about.system
      /\ t.spacecraft = about.craft
      /\ world.ephemeris[t.ephemeris].craft = about.craft

Compare(c) ==
  /\ thread[c].at = "compare"
  /\ IF Identities(c)
     THEN thread' = [thread EXCEPT ![c].at = "loaded"] /\ UNCHANGED raised
     ELSE Raise(c, "KOGS", "kogs")
  /\ UNCHANGED <<world, request, main, client, prior, verdict, faults>>

(* gather returns when every contact's metadata is there. *)
GatherMetadata ==
  /\ main = "metadata"
  /\ \A c \in Requested : thread[c].at = "loaded"
  /\ main' = "telemetry"
  /\ thread' = [c \in Contact |->
                  IF c \in Requested THEN [thread[c] EXCEPT !.at = "queued"]
                  ELSE thread[c]]
  /\ UNCHANGED <<world, request, raised, client, prior, verdict, faults>>

-----------------------------------------------------------------------------
(* fetch_measurements and the checks of _measurements.                     *)

System(c) == world.contact[c].system
Identified(s, c) ==
  s.contact = c /\ s.craft = world.contact[c].craft /\ s.system = System(c)

Query(c) ==
  /\ thread[c].at = "query"
  /\ \E d \in Contact :
       /\ Fault(IF c = d THEN 0 ELSE 1)
       /\ LET frame == world.samples[d] IN
          IF frame # {} /\ \A s \in frame : Identified(s, c)
          THEN /\ thread' = [thread EXCEPT ![c].at = "framed", ![c].frame = frame]
               /\ UNCHANGED raised
          ELSE Raise(c, "ADX", "load")
  /\ UNCHANGED <<world, request, main, client, prior, verdict>>

QueryFails(c) ==
  /\ thread[c].at = "query"
  /\ Fault(1)
  /\ \E error \in {"transport", "refused", "value"} : Raise(c, "ADX", error)
  /\ UNCHANGED <<world, request, main, client, prior, verdict>>

(* The loop is closed, then the client, then prepare goes on. *)
GatherTelemetry ==
  /\ main = "telemetry"
  /\ \A c \in Requested : thread[c].at = "framed"
  /\ main' = "prior" /\ client' = "closed"
  /\ UNCHANGED <<world, request, thread, raised, prior, verdict, faults>>

-----------------------------------------------------------------------------
(* The exception leaves prepare.                                           *)

(* prepare makes an InputValidationError of a LoadError caused by a         *)
(* KogsError; _failure looks through any other LoadError at its cause.      *)
Verdict(error) ==
  [retryable |-> error = "transport",
   code |-> IF error \in {"kogs", "value", "input"} THEN "input_invalid"
            ELSE "worker_execution_failed"]

(* gather raises in the event loop, which cancels what has not begun.       *)
CancelCalls ==
  /\ main \in {"metadata", "telemetry"} /\ raised # None
  /\ main' = "unwinding"
  /\ UNCHANGED <<world, request, thread, raised, client, prior, verdict, faults>>

(* Mutant: what the provider raised is not told from the LoadError.         *)
UnwindAsIs ==
  /\ main = "unwinding"
  /\ AtWork = {}
  /\ main' = "failed" /\ client' = "closed"
  /\ verdict' = Verdict("load")
  /\ UNCHANGED <<world, request, thread, raised, prior, faults>>

(* Mutant: it waits for every contact, also for those cancelled unbegun.    *)
UnwindAwaitsAll ==
  /\ main = "unwinding"
  /\ AtWork = {} /\ \A c \in Requested : thread[c].at # "queued"
  /\ main' = "failed" /\ client' = "closed"
  /\ verdict' = Verdict(raised.error)
  /\ UNCHANGED <<world, request, thread, raised, prior, faults>>

(* asyncio.run shuts the executor down: it waits for the threads that are   *)
(* at work, which it cannot stop, before the client is closed.              *)
Unwind ==
  /\ main = "unwinding"
  /\ AtWork = {}
  /\ main' = "failed" /\ client' = "closed"
  /\ verdict' = Verdict(raised.error)
  /\ UNCHANGED <<world, request, thread, raised, prior, faults>>

-----------------------------------------------------------------------------
(* Selecting the prior.                                                    *)

(* Mutant: of the contacts as requested, the last.                          *)
LatestRequested(S) == Last(request.contacts)

(* _latest_contact: by start, then by contact ID *)
LatestContact(S) ==
  CHOOSE c \in S : \A d \in S :
    LET start(x) == world.contact[x].start
    IN  start(d) < start(c) \/ (start(d) = start(c) /\ d <= c)

ExpectedEphemeris ==
  IF request.ephemeris # None THEN request.ephemeris
  ELSE world.contact[LatestContact(Requested)].ephemeris

(* The samples that pass the request's gates and have carrier lock, in time *)
Earlier(s, t) == s.time < t.time \/ (s.time = t.time /\ s.contact <= t.contact)
Selected ==
  LET usable == {s \in UNION {thread[c].frame : c \in Requested} : s.usable}
  IN  Ordered(usable, {p \in usable \X usable : Earlier(p[1], p[2])})

(* prepare_doppler: every requested contact or none *)
EnoughSamples ==
  \A c \in Requested :
    Cardinality({i \in DOMAIN Selected : Selected[i].contact = c}) >= request.minimum

(* register_contact: a receiver for every system not seen before, a pass    *)
(* for every contact                                                        *)
Receivers(contacts) ==
  LET first == Ascending({i \in DOMAIN contacts :
                 \A j \in DOMAIN contacts : j < i => System(contacts[j]) # System(contacts[i])})
  IN  [n \in DOMAIN first |-> System(contacts[first[n]])]
IndexOf(s, x) == CHOOSE i \in DOMAIN s : s[i] = x

(* add_observation *)
Observation(contacts, s) ==
  [time |-> s.time, contact |-> s.contact,
   receiver |-> IndexOf(Receivers(contacts), s.system),
   pass |-> IndexOf(contacts, s.contact)]

Epoch == Selected[1].time - 1

Prior(ephemeris) ==
  [contacts |-> request.contacts, ephemeris |-> ephemeris,
   receivers |-> Receivers(request.contacts),
   observations |-> [i \in DOMAIN Selected |-> Observation(request.contacts, Selected[i])],
   epoch |-> Epoch]

Acceptable(ephemeris) ==
  /\ ephemeris = ExpectedEphemeris
  /\ \A c \in Requested : world.contact[c].craft = world.ephemeris[ephemeris].craft
  /\ world.ephemeris[ephemeris].tle
  /\ EnoughSamples

(* get_ephemeris of the requested one, or what the latest contact's thread  *)
(* brought; the frequency; prepare_prior.                                   *)
PreparePrior ==
  /\ main = "prior"
  /\ \E ephemeris \in Ephemeris :
       /\ IF request.ephemeris # None
          THEN Fault(IF ephemeris = request.ephemeris THEN 0 ELSE 1)
          ELSE ephemeris = thread[LatestContact(Requested)].ephemeris /\ Fault(0)
       /\ IF Acceptable(ephemeris)
          THEN main' = "prepared" /\ prior' = Prior(ephemeris) /\ UNCHANGED verdict
          ELSE main' = "failed" /\ verdict' = Verdict("input") /\ UNCHANGED prior
  /\ UNCHANGED <<world, request, thread, raised, client>>

(* KOGS fails for the requested ephemeris - here a KogsError is no input    *)
(* error - or the spacecraft's ctrl-config is missing or has no frequency.  *)
PriorFails ==
  /\ main = "prior"
  /\ Fault(1)
  /\ \E error \in {"transport", "refused", "value"} : verdict' = Verdict(error)
  /\ main' = "failed"
  /\ UNCHANGED <<world, request, thread, raised, client, prior>>

-----------------------------------------------------------------------------
ThreadStep(c) ==
  \/ BeginCall(c, "metadata", "contact") \/ BeginCall(c, "telemetry", "query")
  \/ RequestDocument(c) \/ RequestFails(c) \/ Compare(c)
  \/ Query(c) \/ QueryFails(c)

MainStep ==
  GatherMetadata \/ GatherTelemetry \/ CancelCalls \/ Unwind \/ PreparePrior \/ PriorFails

ResolutionNext == MainStep \/ \E c \in Contact : ThreadStep(c)

-----------------------------------------------------------------------------
(* Properties                                                              *)

(* A prior that was prepared is the one the request means, whatever order   *)
(* its contacts are named in and whatever the providers answered in between:*)
(* the requested ephemeris, or that of the contact that starts last; of the *)
(* spacecraft of every contact; with enough samples of each.                *)
PriorAsRequested ==
  prior # None =>
    /\ prior.contacts = request.contacts
    /\ LET e == world.ephemeris[prior.ephemeris] IN
       e.tle /\ \A c \in Requested : world.contact[c].craft = e.craft
    /\ IF request.ephemeris # None THEN prior.ephemeris = request.ephemeris
       ELSE \E c \in Requested :
              /\ prior.ephemeris = world.contact[c].ephemeris
              /\ \A d \in Requested : world.contact[d].start <= world.contact[c].start
              /\ \A d \in Requested :
                   world.contact[d].start = world.contact[c].start => d <= c
    /\ \A c \in Requested :
         request.minimum <=
           Cardinality({i \in DOMAIN prior.observations : prior.observations[i].contact = c})

(* Every observation is a usable sample of its own contact, seen from that  *)
(* contact's antenna and numbered as that contact's pass; no usable sample  *)
(* is left out, and the epoch is one second before the first.               *)
ObservationsAreTheirOwn ==
  prior # None =>
    LET obs == prior.observations IN
    /\ \A i \in DOMAIN obs :
         /\ prior.contacts[obs[i].pass] = obs[i].contact
         /\ prior.receivers[obs[i].receiver] = world.contact[obs[i].contact].system
         /\ prior.epoch < obs[i].time
    /\ {<<obs[i].contact, obs[i].time>> : i \in DOMAIN obs} =
         {<<s.contact, s.time>> :
            s \in {x \in UNION {world.samples[c] : c \in Requested} : x.usable}}
    /\ prior.epoch + 1 = obs[1].time

(* No provider call outlives the preparation, and no query its client: the  *)
(* main thread leaves only when every thread it started is done.            *)
NoCallOutlives ==
  /\ main \in {"prior", "prepared", "failed"} => AtWork = {}
  /\ client = "closed" => \A c \in Contact : thread[c].at # "query"

(* What the worker records is what happened: it retries only if a call of   *)
(* the transport failed, it gives up for good only if something else was    *)
(* wrong, and with sound providers only a request they cannot meet fails.   *)
Meetable ==
  LET e == ExpectedEphemeris IN
  /\ world.ephemeris[e].tle
  /\ \A c \in Requested :
       /\ world.contact[c].craft = world.ephemeris[e].craft
       /\ world.contact[c].craft = world.ephemeris[world.contact[c].ephemeris].craft
       /\ world.samples[c] # {} /\ \A s \in world.samples[c] : Identified(s, c)
       /\ Cardinality({s \in world.samples[c] : s.usable}) >= request.minimum

FailureExplained ==
  verdict # None =>
    LET failed == {c \in Requested : thread[c].at = "failed"} IN
    /\ faults = 0 => ~Meetable /\ ~verdict.retryable
    /\ failed # {} =>
         \E c \in failed : verdict.retryable <=> thread[c].error = "transport"

(* A prior has the inputs of the request, and all of them.                  *)
InputsAsRequested == PriorAsRequested /\ ObservationsAreTheirOwn

(* A preparation ends when all it started has ended, with the error of      *)
(* something that went wrong.                                               *)
FailuresAreTrue == NoCallOutlives /\ FailureExplained
=============================================================================
