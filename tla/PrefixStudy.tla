----------------------------- MODULE PrefixStudy -----------------------------
(***************************************************************************)
(* What a version 7 campaign computes for one spacecraft and method        *)
(* (experiments.forecast_v7, fit_quality, results_v7), and what version 5  *)
(* plans (experiments.forecast): the passes that                           *)
(* count, a fit for every chronological prefix of them and for every       *)
(* omission of one pass from it, the median error of a prefix over its     *)
(* omissions, the first prefix whose median is below a threshold, and the  *)
(* time at which half of a population of spacecraft is there.              *)
(***************************************************************************)
EXTENDS Integers, FiniteSets, Ordering, SequencesExt

CONSTANTS
  Contact,     \* contact identifiers: numbers, in the order that breaks ties
  Instant,     \* times of the study
  Collection,  \* POLICY["collection_hours"]
  Rolling,     \* passes of a rolling fit of version 5 (three)
  Threshold,   \* POLICY["thresholds_km"]
  Error,       \* position errors a scored fit may have, in km
  Infinity,    \* the error of a failed or rejected fit
  Others,      \* other spacecraft of the population
  Nothing

Policy ==
  /\ Rolling \in Nat \ {0}
  /\ Contact \subseteq Nat /\ Instant \subseteq Nat
  /\ IsFiniteSet(Contact) /\ IsFiniteSet(Instant) /\ IsFiniteSet(Others)
  /\ Error \subseteq Nat /\ Threshold \subseteq Nat /\ Infinity \in Nat
  /\ \A x \in Error \union Threshold : 2 * x < Infinity
  /\ Nothing \notin Nat \union Others

ASSUME PrefixStudyAssumption == Policy

VARIABLES
  stop,      \* [Contact -> end of the pass]
  observed,  \* contacts with a locked observation above 5 dB
  late,      \* contacts with such an observation after the end of the pass
  available, \* when the prior was published
  covered,   \* checkpoints whose following hour the reference orbit covers
  stage,     \* "fit", "summarize", "done" or "raised"
  results,   \* [FitSpec -> what its checkpoint says]
  prefixes,  \* the summaries of the prefixes
  events,    \* [Threshold -> first attainment]
  others     \* [Others -> their first attainment, for some threshold]

inputs == <<stop, observed, late, available, covered>>
studyVars == <<inputs, stage, results, prefixes, events, others>>

-----------------------------------------------------------------------------
(* The plan.                                                               *)
Before(c, d) == stop[c] < stop[d] \/ (stop[c] = stop[d] /\ c <= d)
Chronological(S) == Ordered(S, {p \in S \X S : Before(p[1], p[2])})
Earliest(S) == CHOOSE t \in S : \A u \in S : t <= u
Latest(S)   == CHOOSE t \in S : \A u \in S : u <= t

FirstPass == Earliest({stop[c] : c \in observed})
EligibleContacts == {c \in observed : stop[c] <= FirstPass + Collection}

Training(spec) == ToSet(spec.prefix) \ {spec.held}
CheckpointTime(spec) == stop[Last(spec.prefix)]

PlanFits ==
  LET ordered == Chronological(EligibleContacts)
      Prefix(n) == SubSeq(ordered, 1, n)
  IN UNION {{[prefix |-> Prefix(n), held |-> h] :
               h \in {Nothing} \union (IF n > 1 THEN ToSet(Prefix(n)) ELSE {})} :
            n \in 1 .. Len(ordered)}

\* What omitting a pass says about: the future, the past, or what is between.
ValidationKind(spec) ==
  CASE spec.held = Nothing -> "full-prefix forecast"
    [] spec.held = Last(spec.prefix) -> "forward prediction"
    [] spec.held \notin {Nothing, Last(spec.prefix)} ->
         IF spec.held = Head(spec.prefix) THEN "reconstruction" ELSE "interpolation"

\* Version 5 plans families of fits: after each pass one of it alone, of the
\* latest few or of all so far, from inventories of its own.
Family == {<<"timing", "single">>, <<"timing", "cumulative">>, <<"sgp4_L+n", "rolling">>,
           <<"sgp4_L+n", "cumulative">>, <<"full_state", "cumulative">>}

Shortest(strategy) == IF strategy = "rolling" THEN Rolling ELSE 1

PassesUpTo(n, ids, strategy) ==
  CASE strategy = "single" -> SubSeq(ids, n, n)
    [] strategy = "rolling" -> SubSeq(ids, n - Rolling + 1, n)
    [] strategy = "cumulative" -> SubSeq(ids, 1, n)

PlanForecasts(timing, orbit) ==
  UNION {LET ids == Chronological(IF f[1] = "timing" THEN timing ELSE orbit) IN
         {[family |-> f, passes |-> PassesUpTo(n, ids, f[2]), checkpoint |-> stop[ids[n]]] :
            n \in Shortest(f[2]) .. Len(ids)} : f \in Family}

-----------------------------------------------------------------------------
(* The fits.                                                               *)
Failed == [success |-> FALSE, accepted |-> FALSE, coverage |-> "unknown", error |-> Nothing]

\* quality_decision accepts a converged, well-conditioned fit off its bounds;
\* score_forecast has no error where the reference does not cover the hour,
\* and none for a propagation that fails.
Fitted(spec) ==
  {[success |-> s, accepted |-> a,
    coverage |-> IF CheckpointTime(spec) \in covered THEN "complete" ELSE "partial",
    error |-> e] :
      s \in BOOLEAN, a \in BOOLEAN,
      e \in IF CheckpointTime(spec) \in covered THEN Error \union {Nothing} ELSE {Nothing}}

LastObservation(c) == IF c \in late THEN stop[c] + 1 ELSE stop[c]

(* Mutant: the prior may be newer than the checkpoint.                      *)
CausalTraining(spec) ==
  \A c \in Training(spec) : LastObservation(c) <= CheckpointTime(spec)

Causal(spec) ==
  /\ available <= CheckpointTime(spec)
  /\ \A c \in Training(spec) : LastObservation(c) <= CheckpointTime(spec)

\* A failed fit counts as a rejected one does, and a rejected one whatever its
\* error; the full-prefix fits enter no median: one outcome stands for each.
Representative(spec) ==
  IF CheckpointTime(spec) \in covered THEN Latest(Error) ELSE Nothing

Outcomes(spec) ==
  IF ~Causal(spec) THEN {Failed}
  ELSE {r \in Fitted(spec) :
          /\ r.success
          /\ ~r.accepted => r.error = Representative(spec)
          /\ spec.held = Nothing => r.accepted /\ r.error = Representative(spec)}

\* One spec after the other: the order is open in the pool of processes.
FitOne ==
  LET todo == PlanFits \ DOMAIN results
      spec == CHOOSE s \in todo : TRUE
  IN
  /\ stage = "fit"
  /\ IF todo = {} THEN stage' = "summarize" /\ UNCHANGED results
     ELSE /\ \E r \in Outcomes(spec) :
               results' = [s \in DOMAIN results \union {spec} |->
                             IF s = spec THEN r ELSE results[s]]
          /\ UNCHANGED stage
  /\ UNCHANGED <<inputs, prefixes, events, others>>

-----------------------------------------------------------------------------
(* The summaries.                                                          *)

\* Twice the median, so that it is an integer; infinite if not finite.
TwiceMedian(values) ==
  LET n == Cardinality(DOMAIN values)
      twice == Ranked(values, (n + 1) \div 2) + Ranked(values, (n + 2) \div 2)
  IN IF twice < Infinity THEN twice ELSE Infinity

Median(value, status) == [twice |-> value, status |-> status]

(* Mutant: failed and rejected folds are left out of the median.            *)
QualificationOfAccepted(folds) ==
  LET scored == {s \in folds : results[s].accepted /\ results[s].error # Nothing}
  IN IF scored = {} THEN Median(Nothing, "non-attainment")
     ELSE Median(TwiceMedian([s \in scored |-> results[s].error]), "available")

QualificationMedian(folds) ==
  LET Rejected(s) == ~results[s].success \/ ~results[s].accepted
      values == [s \in folds |-> IF Rejected(s) THEN Infinity ELSE results[s].error]
  IN IF folds = {} THEN Median(Nothing, "single-pass CV unavailable")
     ELSE IF \E s \in folds : results[s].coverage \notin {"complete", "unknown"}
       THEN Median(Nothing, "reference coverage unavailable")
     ELSE IF \E s \in folds : ~Rejected(s) /\ results[s].error = Nothing
       THEN Median(Nothing, "reference accuracy unavailable")
     ELSE IF TwiceMedian(values) = Infinity
       THEN Median(Nothing, "non-attainment")
     ELSE Median(TwiceMedian(values), "available")

\* The rows are grouped by checkpoint; the first full fit names the prefix.
Group(t) == {s \in DOMAIN results : CheckpointTime(s) = t}
FullFit(t) ==
  CHOOSE s \in Group(t) : s.held = Nothing
    /\ \A x \in Group(t) : x.held = Nothing => Len(s.prefix) <= Len(x.prefix)
Folds(t) == {s \in Group(t) : s.held # Nothing}

FoldsComplete(t) ==
  LET n == Len(FullFit(t).prefix)
      expected == IF n > 1 THEN n ELSE 0
  IN Cardinality(Folds(t)) = expected
     /\ Cardinality({s.held : s \in Folds(t)}) = expected

PrefixSummary(t) ==
  [count |-> Len(FullFit(t).prefix), elapsed |-> t - FirstPass,
   folds |-> Folds(t), median |-> QualificationMedian(Folds(t))]

Checkpoints == {CheckpointTime(s) : s \in DOMAIN results}

FirstAttainment(summaries, threshold) ==
  LET crossing == {p \in summaries : p.median.twice # Nothing
                                     /\ p.median.twice < 2 * threshold}
  IN IF crossing = {} THEN Nothing ELSE Earliest({p.elapsed : p \in crossing})

\* summaries, then attainment, with the other spacecraft of the population in
\* whatever state their campaigns are; prefix_summary raises on a group of two prefixes.
Summarize ==
  /\ stage = "summarize"
  /\ IF \A t \in Checkpoints : FoldsComplete(t)
       THEN /\ prefixes' = {PrefixSummary(t) : t \in Checkpoints}
            /\ events' = [th \in Threshold |-> FirstAttainment(prefixes', th)]
            /\ stage' = "done"
       ELSE stage' = "raised" /\ UNCHANGED <<prefixes, events>>
  /\ others' \in [Others -> Instant \union {Nothing}]
  /\ UNCHANGED <<inputs, results>>

\* Places of a list count from 0.
Middle(n) == (n + 1) \div 2 - 1

\* population_summary: the time by which half of the spacecraft have crossed.
FiftyPercent(threshold) ==
  LET Time(s) == IF s = Nothing THEN events[threshold] ELSE others[s]
      attained == {s \in Others \union {Nothing} : Time(s) # Nothing}
      middle == Middle(Cardinality(Others) + 1)
  IN IF Cardinality(attained) > middle
       THEN Ranked([s \in attained |-> Time(s)], middle + 1) ELSE Nothing

StudyInit ==
  /\ stop \in [Contact -> Instant]
  /\ \A c, d \in Contact : c < d => stop[c] <= stop[d]
  /\ observed \in (SUBSET Contact) \ {{}}
  /\ late \in {{}} \union {{c} : c \in Contact}
  /\ available \in {0, 1}
  /\ covered \in {Instant} \union {Instant \ {t} : t \in Instant}
  /\ others = [s \in Others |-> Nothing]
  /\ stage = "fit" /\ results = <<>> /\ prefixes = {} /\ events = <<>>

StudyNext == FitOne \/ Summarize

StudySpec == StudyInit /\ [][StudyNext]_studyVars

-----------------------------------------------------------------------------
(* Properties.                                                             *)

\* A fit that succeeded was trained before its checkpoint, with a prior that
\* existed by then, and never on the pass it holds out for validation.
TrainedBefore ==
  \A s \in DOMAIN results : results[s].success =>
    /\ available <= CheckpointTime(s)
    /\ \A c \in Training(s) : LastObservation(c) <= CheckpointTime(s)
    /\ s.held \notin Training(s)

\* What is reported as a forward prediction was trained on earlier passes only,
\* a reconstruction on later ones, an interpolation on both.
KindsAreTrue ==
  \A s \in DOMAIN results : s.held # Nothing =>
    LET before == \E c \in Training(s) : Before(c, s.held)
        after == \E c \in Training(s) : Before(s.held, c)
    IN ValidationKind(s) = CASE before /\ ~after -> "forward prediction"
                             [] after /\ ~before -> "reconstruction"
                             [] before /\ after -> "interpolation"

\* The plan of version 5 follows the passes in time, also where two of them end
\* at once: after every pass, each family has one fit, of the passes up to it.
\* Any set of passes may be an inventory; observed is one.
ForecastsFollowTime ==
  LET plan == PlanForecasts(observed, observed)
      SoFar(c) == {d \in observed : Before(d, c)}
      Recent(d, c) == Cardinality({e \in SoFar(c) : Before(d, e)}) <= Rolling
  IN \A f \in Family, c \in observed :
       LET fits == {s \in plan : s.family = f /\ Last(s.passes) = c} IN
       /\ Cardinality(fits) = IF Cardinality(SoFar(c)) >= Shortest(f[2]) THEN 1 ELSE 0
       /\ \A s \in fits :
            /\ s.checkpoint = stop[c]
            /\ ToSet(s.passes) = CASE f[2] = "single" -> {c}
                                   [] f[2] = "rolling" -> {d \in SoFar(c) : Recent(d, c)}
                                   [] f[2] = "cumulative" -> SoFar(c)

\* No forecast knows its future, and every validation is what it is called.
CausalFits == TrainedBefore /\ KindsAreTrue /\ (results = <<>> => ForecastsFollowTime)

\* The median of a prefix is that of its own omissions, one for each of its
\* passes, also when two passes end at once and share a checkpoint.
SummaryOfOnePrefix ==
  stage = "done" => \A p \in prefixes :
    /\ \A s, r \in p.folds : s.prefix = r.prefix
    /\ p.folds # {} => {s.held : s \in p.folds} = ToSet((CHOOSE s \in p.folds : TRUE).prefix)

Below(n, threshold) ==
  {s \in DOMAIN results : Len(s.prefix) = n /\ s.held # Nothing
     /\ results[s].accepted /\ results[s].error \in Error
     /\ results[s].error < threshold}

\* A threshold is attained at a prefix of which at least half of all planned
\* omissions, failed and rejected ones counted, forecast better, and no
\* earlier scored prefix had more than half.
AttainmentEarned ==
  stage = "done" => \A th \in Threshold :
    /\ events[th] # Nothing => \E p \in prefixes :
         p.elapsed = events[th] /\ p.count > 1 /\ 2 * Cardinality(Below(p.count, th)) >= p.count
    /\ \A p \in prefixes :
         (/\ 2 * Cardinality(Below(p.count, th)) > p.count
          /\ p.median.status = "available") =>
           events[th] # Nothing /\ events[th] <= p.elapsed

\* The 50% time is the first by which half of all spacecraft have attained.
HalfAttained ==
  stage = "done" => \A th \in Threshold :
    LET By(t) == Cardinality({x \in Others : others[x] # Nothing /\ others[x] <= t})
                 + IF events[th] # Nothing /\ events[th] <= t THEN 1 ELSE 0
        half == {t \in 0 .. Latest(Instant) : 2 * By(t) >= Cardinality(Others) + 1}
    IN FiftyPercent(th) = IF half = {} THEN Nothing ELSE Earliest(half)

\* Every number of the report is earned by the fits it is about.
ReportEarned == SummaryOfOnePrefix /\ AttainmentEarned /\ HalfAttained
=============================================================================
