------------------------------ MODULE OrbitFit ------------------------------
(***************************************************************************)
(* What a worker does with the prior it prepared, or restored on a retry:  *)
(* run_estimate (dart/service/worker.py, dart/od) and result_rows          *)
(* (dart/service/serialization.py).  Numbers are abstract: a value names   *)
(* what made it and the parameter it was made for, an evaluation names the *)
(* point it was made at, so that a value in the wrong place is seen.       *)
(***************************************************************************)
EXTENDS InputResolution

CONSTANTS
  Leading, Closing, \* canonical names before and after those of the passes
  Profiles,        \* forward-model and optimizer profiles
  Candidates,      \* what a scan tries, in ascending order
  Costs,           \* what a candidate may cost
  MaxEvaluations   \* bound of the optimizer

Name(kind, contact) == [kind |-> kind, contact |-> contact]
NameType ==
  [kind : Range(Leading) \union Range(Closing) \union {"bias"}, contact : Contact \union {None}]
Role == {"estimate", "consider", "fixed"}

\* Profiles as forward_model_profiles seeds them: each canonical name at most
\* once; from version 2 on nothing fixed and everything with a prior sigma;
\* what is scanned is estimated.
FitConfig ==
  /\ ResolutionConfig
  /\ Leading \in Seq(STRING) /\ Closing \in Seq(STRING)
  /\ None \notin Seq(NameType)
  /\ Candidates \subseteq Int /\ IsFiniteSet(Candidates) /\ Candidates # {}
  /\ Costs \subseteq Nat /\ MaxEvaluations \in Nat \ {0}
  /\ \A p \in Profiles :
       /\ p.version \in Nat \ {0}
       /\ p.parameters \in
            Seq([name : {Name(kind, None) : kind \in Range(Leading) \union Range(Closing)},
                 role : Role, sigma : BOOLEAN])
       /\ \A i, j \in DOMAIN p.parameters :
            p.parameters[i].name = p.parameters[j].name => i = j
       /\ p.version >= 2 =>
            \A i \in DOMAIN p.parameters :
              p.parameters[i].role # "fixed" /\ p.parameters[i].sigma
       /\ p.scans # None =>
            \E i \in DOMAIN p.parameters :
              /\ p.parameters[i].name = Name(p.scans, None)
              /\ p.parameters[i].role = "estimate"

ASSUME FitAssumption == FitConfig

VARIABLES
  profile,   \* of the configuration
  stage,     \* where the fit is
  initial,   \* OptimizerContext.parameters, their initial values
  scan,      \* cost of each candidate of the scan
  point,     \* the optimizer's point, over the estimated parameters
  trials,    \* evaluations the optimizer asked for
  cache,     \* cached_x and cached_evaluation of _cached_functions
  answered,  \* the answer to its last question, and the point it asked about
  output,    \* OptimizerOutput
  rows       \* the parameter rows

fitVars == <<profile, stage, initial, scan, point, trials, cache, answered, output, rows>>

-----------------------------------------------------------------------------
(* Parameters: those of the profile, and a bias for every contact in the    *)
(* order of the request; the model has an order of its own.                 *)
Bias(c) == Name("bias", c)
Named(kinds) == [i \in DOMAIN kinds |-> Name(kinds[i], None)]

(* resolve_configuration *)
Parameters ==
  profile.parameters
    \o [i \in DOMAIN request.contacts |->
          [name |-> Bias(request.contacts[i]), role |-> "estimate",
           sigma |-> profile.version >= 2]]

(* Mutant: biases in the order of the contact IDs.                          *)
PassNamesById(passes) == [i \in DOMAIN passes |-> Bias(SetToSortSeq(ToSet(passes), <)[i])]

(* _pass_parameter_names *)
PassNames(passes) == [i \in DOMAIN passes |-> Bias(passes[i])]
CanonicalNames == Named(Leading) \o PassNames(prior.contacts) \o Named(Closing)

Names == [i \in DOMAIN Parameters |-> Parameters[i].name]
WithRole(role) == Ascending({i \in DOMAIN Parameters : Parameters[i].role = role})
Estimated  == WithRole("estimate")
Considered == WithRole("consider")
Place(name) == IndexOf(CanonicalNames, name)

Value(source, n, name) == [source |-> source, n |-> n, of |-> name]
Zero(name) == Value("initial", 0, name)

-----------------------------------------------------------------------------
FitInit ==
  /\ ResolutionInit
  /\ profile \in Profiles
  /\ stage = "waiting"
  /\ initial = <<>> /\ scan = <<>> /\ point = <<>> /\ trials = 0
  /\ cache = [x |-> None, at |-> None] /\ answered = None
  /\ output = None /\ rows = None

Enter(s) == stage' = s

(* restore_prior of prior_document: contacts are registered and             *)
(* observations added anew.                                                 *)
Restored ==
  LET contacts == prior.contacts
      stored == prior.observations
      again(s) == Observation(contacts, [time |-> s.time, contact |-> s.contact,
                                         system |-> System(s.contact)])
  IN  [contacts |-> contacts, ephemeris |-> prior.ephemeris, epoch |-> prior.epoch,
       receivers |-> Receivers(contacts),
       observations |-> [i \in DOMAIN stored |-> again(stored[i])]]

(* optimizer_context, of the prior just prepared or, on a retry, restored *)
StartFit ==
  /\ main = "prepared" /\ stage = "waiting"
  /\ prior' \in {prior, Restored}
  /\ initial' = [i \in DOMAIN Parameters |-> Zero(Names[i])]
  /\ Enter(IF profile.scans = None THEN "begin" ELSE "scan")
  /\ UNCHANGED <<world, request, thread, main, raised, client, verdict, faults>>
  /\ UNCHANGED <<profile, scan, point, trials, cache, answered, output, rows>>

(* initialize_sgp4_time, initialize_sgp4_phase: every candidate with the    *)
(* biases that fit it best, in the order of the passes; a bias fit that     *)
(* fails or a value that is not finite raises.                              *)
ScanNames == <<Name(profile.scans, None)>> \o PassNames(prior.contacts)
ScanRow(d) ==
  [i \in DOMAIN ScanNames |->
     Value("scan", d, IF i = 1 THEN ScanNames[1] ELSE Bias(prior.contacts[i - 1]))]

(* argmin: of equal costs the first *)
Best(cost) ==
  CHOOSE d \in Candidates : \A e \in Candidates :
    cost[d] < cost[e] \/ (cost[d] = cost[e] /\ d <= e)

Scan ==
  /\ stage = "scan"
  /\ \/ \E cost \in [Candidates -> Costs] :
          /\ scan' = cost
          /\ initial' = [i \in DOMAIN initial |->
               IF Contains(ScanNames, Names[i])
               THEN ScanRow(Best(cost))[IndexOf(ScanNames, Names[i])]
               ELSE initial[i]]
          /\ Enter("begin")
     \/ Enter("raised") /\ UNCHANGED <<scan, initial>>
  /\ UNCHANGED <<resolutionVars, profile, point, trials, cache, answered, output, rows>>

-----------------------------------------------------------------------------
(* _fit_estimated: the model's vector of an optimizer's point.             *)
Expand(x) ==
  [k \in DOMAIN CanonicalNames |->
     LET name == CanonicalNames[k]
         place == {i \in DOMAIN Estimated : Names[Estimated[i]] = name}
     IN  IF place # {} THEN x[CHOOSE i \in place : TRUE]
         ELSE IF Contains(Names, name) THEN initial[IndexOf(Names, name)]
         ELSE Zero(name)]

(* evaluate of _cached_functions: one entry, compared by value *)
Evaluate(x) ==
  IF cache.x # None /\ cache.x = x THEN cache ELSE [x |-> x, at |-> Expand(x)]

(* The optimizer asks for residuals or the Jacobian at x; the evaluator may *)
(* raise, and least_squares and fit with it.                                *)
Ask(x) ==
  /\ cache' = Evaluate(x)
  /\ answered' = [asked |-> x, at |-> Evaluate(x).at]

AskFirst ==
  /\ stage = "begin"
  /\ point' = [i \in DOMAIN Estimated |-> initial[Estimated[i]]]
  /\ Ask(point') /\ trials' = 1
  /\ Enter("iterate")
  /\ UNCHANGED <<resolutionVars, profile, initial, scan, output, rows>>

(* scipy tries another point and moves there if it is better. *)
Trial ==
  /\ stage = "iterate" /\ trials < MaxEvaluations
  /\ LET x == [i \in DOMAIN Estimated |-> Value("trial", trials, Names[Estimated[i]])]
     IN  Ask(x) /\ point' \in {point, x}
  /\ trials' = trials + 1
  /\ UNCHANGED <<resolutionVars, profile, stage, initial, scan, output, rows>>

AskJacobian ==
  /\ stage = "iterate"
  /\ Ask(point)
  /\ UNCHANGED <<resolutionVars, profile, stage, initial, scan, point, trials, output, rows>>

EvaluatorRaises ==
  /\ stage \in {"begin", "iterate", "evaluate", "covariance"}
  /\ Enter("raised")
  /\ UNCHANGED <<resolutionVars, profile, initial, scan, point, trials, cache, answered,
                 output, rows>>

(* fit, after least_squares: one more evaluation, reordered to the profile; *)
(* success unless the evaluations are used up.                              *)
FinishFit ==
  /\ stage = "iterate"
  /\ LET final == Expand(point) IN
     \E success \in {TRUE} \union {trials < MaxEvaluations} :
       output' = [names |-> Names, success |-> success, at |-> final,
                  roles |-> [i \in DOMAIN Parameters |-> Parameters[i].role],
                  parameters |-> [i \in DOMAIN Names |-> final[Place(Names[i])]],
                  columns |-> [i \in DOMAIN Names |-> CanonicalNames[Place(Names[i])]],
                  covariance |-> None]
  /\ Enter("covariance")
  /\ UNCHANGED <<resolutionVars, profile, initial, scan, point, trials, cache, answered, rows>>

(* full_consider_covariance: the kernel takes the estimated and then the    *)
(* considered columns; its joint matrix is put back in profile order.       *)
Joint ==
  LET active == Estimated \o Considered
      joint == [i \in DOMAIN active |-> output.columns[active[i]]]
  IN  [i \in DOMAIN Names |-> joint[IndexOf(active, i)]]

CovarianceEnabled ==
  /\ output.success
  /\ \A i \in DOMAIN Parameters : Parameters[i].role # "fixed" /\ Parameters[i].sigma

Covariance ==
  /\ stage = "covariance"
  /\ output' = [output EXCEPT !.covariance = IF CovarianceEnabled THEN Joint ELSE None]
  /\ Enter("rows")
  /\ UNCHANGED <<resolutionVars, profile, initial, scan, point, trials, cache, answered, rows>>

-----------------------------------------------------------------------------
(* result_rows *)
OutputValid ==
  /\ output.names = Names
  /\ output.roles = [i \in DOMAIN Parameters |-> Parameters[i].role]
  /\ (output.covariance # None) <=> (output.success /\ profile.version >= 2)

Row(i) ==
  [name |-> Names[i], role |-> Parameters[i].role, value |-> output.parameters[i],
   initial |-> initial[i], contact |-> Names[i].contact,
   uncertainty |-> IF output.covariance = None THEN None ELSE output.covariance[i]]

MakeRows ==
  /\ stage = "rows"
  /\ IF OutputValid
     THEN rows' = [i \in DOMAIN Names |-> Row(i)] /\ Enter("published")
     ELSE Enter("refused") /\ UNCHANGED rows
  /\ UNCHANGED <<resolutionVars, profile, initial, scan, point, trials, cache, answered, output>>

FitStep ==
  \/ Scan \/ AskFirst \/ Trial \/ AskJacobian \/ EvaluatorRaises
  \/ FinishFit \/ Covariance \/ MakeRows

EstimateNext == (ResolutionNext /\ UNCHANGED fitVars) \/ StartFit \/ FitStep

(* Provider calls time out, and a thread that runs goes on. *)
EstimateSpec ==
  /\ FitInit /\ [][EstimateNext]_<<resolutionVars, fitVars>>
  /\ WF_<<resolutionVars, fitVars>>(EstimateNext)

-----------------------------------------------------------------------------
(* Properties                                                              *)

(* The evaluator's answers are of the point that was asked about, whatever  *)
(* order the optimizer asks in and whichever trials it rejects: residuals   *)
(* and Jacobian of one point are of one evaluation of the model.            *)
AnswersAreOfThePoint ==
  answered # None => answered.at = Expand(answered.asked)

(* A published row holds the value and the uncertainty of its own           *)
(* parameter, whatever mixture of roles the profile has and in whatever     *)
(* order the model keeps them; what is not estimated has not moved; the     *)
(* bias of each requested contact is there, in the order of the request,    *)
(* and is the one the model took for that contact's pass.                   *)
RowsAreTheirOwn ==
  rows # None =>
    /\ [i \in DOMAIN rows |-> rows[i].name] =
         [i \in DOMAIN profile.parameters |-> profile.parameters[i].name]
           \o [i \in DOMAIN request.contacts |-> Bias(request.contacts[i])]
    /\ \A i \in DOMAIN rows :
         LET r == rows[i] IN
         /\ r.value.of = r.name
         /\ r.uncertainty \in {None, r.name}
         /\ r.role # "estimate" => r.value = Zero(r.name)
    /\ \A k \in DOMAIN prior.contacts :
         output.at[Len(Leading) + k].of = Bias(prior.contacts[k])

(* result_rows refuses no fit of the profiles the service ships: a version  *)
(* 2 profile has a covariance exactly when its fit converged, a version 1   *)
(* profile never has.                                                       *)
NothingRefused == stage # "refused"

(* A fit that ends is published, each number under the name it was computed *)
(* for and at the point it was computed at.                                 *)
RowsAreOfTheFit == AnswersAreOfThePoint /\ RowsAreTheirOwn /\ NothingRefused

(* An estimate ends: with rows, or with an exception to record. *)
EstimateEnds == <>(main = "failed" \/ stage \in {"published", "raised", "refused"})
=============================================================================
