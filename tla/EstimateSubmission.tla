-------------------------- MODULE EstimateSubmission --------------------------
(***************************************************************************)
(* How an estimate gets into the queue: the form of deploy/grafana/form.js  *)
(* in the tabs of one user's browser, the network and the gateway, and      *)
(* submit_estimate of dart/service/database.py behind the API.              *)
(*                                                                         *)
(* Requests may arrive long after the browser gave them up, more than once, *)
(* or never, and replies may be lost.  The form keeps the idempotency key   *)
(* of the request it is unsure about in sessionStorage, which survives a    *)
(* reload of the page; what the page itself remembers does not.             *)
(***************************************************************************)
EXTENDS Naturals, FiniteSets

CONSTANTS
  Tab,    \* tabs with the dashboard, each with a sessionStorage
  Body,   \* what a user may fill in: serialized requests
  Key,    \* the random UUIDs that will ever be drawn (bound)
  Null    \* JavaScript's null; no row

ASSUME SubmissionAssumption ==
  /\ IsFiniteSet(Key)
  /\ Null \notin Body \cup Key

VARIABLES
  phase,     \* of submit in each tab; all but "idle" is state.busy
  sending,   \* the request a tab validates or posts
  accepted,  \* state.accepted of each tab
  pending,   \* 'dart.pendingEstimate' of each tab's sessionStorage
  drawn,     \* the keys drawn by crypto.randomUUID()
  requests,  \* POST estimate-jobs on its way, or at the backend
  replies,   \* what the API has answered
  stored,    \* stored[k]: the request of the job with idempotency key k
  told       \* the keys whose jobs the user was shown

page    == <<phase, sending, accepted, pending>>
network == <<requests, replies>>
submissionVars == <<page, drawn, network, stored, told>>

Request == [body : Body, key : Key]
Reply   == [key : Key, conflict : BOOLEAN]
NoRequest == [body |-> Null, key |-> Null]

SubmissionInit ==
  /\ phase = [t \in Tab |-> "idle"]
  /\ sending = [t \in Tab |-> NoRequest]
  /\ accepted = [t \in Tab |-> Null]
  /\ pending = [t \in Tab |-> NoRequest]
  /\ drawn = {} /\ requests = {} /\ replies = {} /\ told = {}
  /\ stored = [k \in Key |-> Null]

-----------------------------------------------------------------------------
(* The form.                                                                *)

(* submit up to the validation request, with what the elements hold; what   *)
(* was accepted last is not submitted again.                                *)
Begin(t, body) ==
  /\ phase[t] = "idle"
  /\ body # accepted[t]
  /\ phase' = [phase EXCEPT ![t] = "validating"]
  /\ sending' = [sending EXCEPT ![t] = [body |-> body, key |-> Null]]
  /\ UNCHANGED <<accepted, pending, drawn, network, stored, told>>

(* Mutant: the pending key is used for whatever is submitted next.          *)
AnyPending(t) == pending[t] # NoRequest

(* The submission repeats the one whose outcome is unknown.                 *)
Repeats(t) == pending[t].body = sending[t].body

(* The request is valid: choose the key, keep it, post.                     *)
Post(t) ==
  \E key \in IF Repeats(t) THEN {pending[t].key} ELSE Key \ drawn :
    LET request == [body |-> sending[t].body, key |-> key] IN
    /\ phase[t] = "validating"
    /\ phase' = [phase EXCEPT ![t] = "posting"]
    /\ drawn' = drawn \cup {key}
    /\ pending' = [pending EXCEPT ![t] = request]
    /\ sending' = [sending EXCEPT ![t] = request]
    /\ requests' = requests \cup {request}
    /\ UNCHANGED <<accepted, replies, stored, told>>

(* Accepted: the key has done its work.                                     *)
Succeed(t) ==
  /\ phase[t] = "posting"
  /\ [key |-> sending[t].key, conflict |-> FALSE] \in replies
  /\ accepted' = [accepted EXCEPT ![t] = sending[t].body]
  /\ pending' = [pending EXCEPT ![t] = NoRequest]
  /\ told' = told \cup {sending[t].key}
  /\ phase' = [phase EXCEPT ![t] = "idle"]
  /\ sending' = [sending EXCEPT ![t] = NoRequest]
  /\ UNCHANGED <<drawn, network, stored>>

(* Mutant: whatever the outcome, the key is removed.                        *)
GiveUpForgetting(t) ==
  /\ phase[t] # "idle"
  /\ phase' = [phase EXCEPT ![t] = "idle"]
  /\ sending' = [sending EXCEPT ![t] = NoRequest]
  /\ pending' = [pending EXCEPT ![t] = NoRequest]
  /\ UNCHANGED <<accepted, drawn, network, stored, told>>

(* An error: invalid input, a problem document, an incomplete reply, a lost *)
(* connection, or none of these within 30 seconds.                          *)
GiveUp(t) ==
  /\ phase[t] # "idle"
  /\ phase' = [phase EXCEPT ![t] = "idle"]
  /\ sending' = [sending EXCEPT ![t] = NoRequest]
  /\ UNCHANGED <<accepted, pending, drawn, network, stored, told>>

(* The page is loaded anew, at any moment.                                  *)
Reload(t) ==
  /\ phase' = [phase EXCEPT ![t] = "idle"]
  /\ sending' = [sending EXCEPT ![t] = NoRequest]
  /\ accepted' = [accepted EXCEPT ![t] = Null]
  /\ UNCHANGED <<pending, drawn, network, stored, told>>

(* The browser copies sessionStorage when it duplicates a tab.              *)
Duplicate(from, to) ==
  /\ from # to /\ phase[to] = "idle"
  /\ accepted[to] = Null /\ pending[to] = NoRequest
  /\ pending' = [pending EXCEPT ![to] = pending[from]]
  /\ UNCHANGED <<phase, sending, accepted, drawn, network, stored, told>>

-----------------------------------------------------------------------------
(* The service.                                                             *)

(* What the job with the key of the request asks for: the first insert wins *)
(* (ON CONFLICT DO NOTHING on actor and key), a later one reads it.         *)
Kept(request) ==
  IF stored[request.key] = Null THEN request.body ELSE stored[request.key]

(* submit, submit_estimate: a new job, a replay of it, or 409.              *)
Serve(request) ==
  /\ request \in requests
  /\ stored' = [stored EXCEPT ![request.key] = Kept(request)]
  /\ replies' = replies \cup
       {[key |-> request.key, conflict |-> stored'[request.key] # request.body]}
  /\ UNCHANGED <<page, drawn, requests, told>>

(* The request got lost, or will not come a second time.                    *)
Drop(request) ==
  /\ request \in requests
  /\ requests' = requests \ {request}
  /\ UNCHANGED <<page, drawn, replies, stored, told>>

-----------------------------------------------------------------------------

SubmissionNext ==
  \/ \E t \in Tab :
       \/ \E body \in Body : Begin(t, body)
       \/ Post(t) \/ Succeed(t) \/ GiveUp(t) \/ Reload(t)
       \/ \E to \in Tab : Duplicate(t, to)
  \/ \E request \in requests : Serve(request) \/ Drop(request)

SubmissionSpec == SubmissionInit /\ [][SubmissionNext]_submissionVars

-----------------------------------------------------------------------------
(* Type invariant.                                                          *)
SubmissionTypeOK ==
  /\ phase \in [Tab -> {"idle", "validating", "posting"}]
  /\ sending \in [Tab -> [body : Body \cup {Null}, key : Key \cup {Null}]]
  /\ \A t \in Tab :
       /\ phase[t] = "idle" => sending[t] = NoRequest
       /\ phase[t] = "validating" => sending[t] \in [body : Body, key : {Null}]
       /\ phase[t] = "posting" => sending[t] \in Request
  /\ accepted \in [Tab -> Body \cup {Null}]
  /\ pending \in [Tab -> Request \cup {NoRequest}]
  /\ drawn \subseteq Key /\ told \subseteq Key
  /\ requests \subseteq Request /\ replies \subseteq Reply
  /\ stored \in [Key -> Body \cup {Null}]

(* The form is never told that its key "was already used for a different    *)
(* request", whatever is edited, reloaded, duplicated and delivered late.   *)
NeverConflicts == \A reply \in replies : ~reply.conflict

(* What a tab shows as accepted is in the queue, exactly as it was filled   *)
(* in, under a key whose job the user was shown.                            *)
AcceptedIsStored ==
  \A t \in Tab : accepted[t] # Null => \E k \in told : stored[k] = accepted[t]

(* A job is in doubt while it may exist and the user was not shown it.      *)
InDoubt(request) ==
  /\ request.key \notin told
  /\ request \in requests \/ stored[request.key] = request.body

Retriable(request) == \E t \in Tab : pending[t] = request

(* "Keeps a pending idempotency key across uncertain responses": a request  *)
(* in doubt stays retriable under its own key, so that submitting the same  *)
(* again cannot make a second job, until the user submits something else.   *)
KeyOutlivesDoubt ==
  [][\A req \in Request :
       InDoubt(req)' /\ Retriable(req) /\ ~Retriable(req)' =>
         \E t \in Tab : pending[t] = req /\ pending'[t].body \notin {Null, req.body}
    ]_submissionVars

(* Every answer the user is shown is true of the queue: no conflict that is *)
(* none, no acceptance of something else.                                   *)
AnswersAreTrue == NeverConflicts /\ AcceptedIsStored
=============================================================================
