------------------------------- MODULE Intake -------------------------------
(***************************************************************************)
(* The intake of a router: Router::accept (router/src/intake.rs) over the  *)
(* free tier of module Quota, the candidate registry that offers of        *)
(* compute nodes fill (router/src/candidate.rs, selection.rs,              *)
(* node/src/router_role.rs, announce_models of node/src/compute_role.rs)   *)
(* and the circuit breaker (chain/src/circuit_breaker.rs).                 *)
(*                                                                         *)
(* A request passes three locks one after the other, the breaker's, the    *)
(* quota's and the registry's, so accept is three steps between which the  *)
(* others run; the time it compares with is the one it came with.  What    *)
(* happens to a dispatched request is module Dispatch.                     *)
(***************************************************************************)
EXTENDS Quota

CONSTANTS Request,       \* signed requests
          RequestOf,     \* request -> what the router is given of it, a Submission
          Key,           \* public keys
          AddressOf,     \* key -> its address (derive_user_address)
          Peer,          \* compute nodes, numbered in the order of their ids
          Model,
          StakeOf,       \* peer -> the stake its offers claim
          Candidate_Ttl, \* CANDIDATE_TTL_MS
          MaxSkew,       \* REQUEST_MAX_SKEW_MS
          Bonded,        \* what advance_epoch may be told of the bonded supply
          Missing,       \* what evaluate may be told of missing validators
          MissingThreshold, \* MISSING_VALIDATORS_THRESHOLD
          Claims,        \* what others may offer in a peer's name
          MaxOffers,     \* bound: offers published
          MaxEpoch       \* bound: epochs of a breaker

\* A signature verifies for the key that made it and what it was made over.
Signature(signed) == [key : Key, over : signed]

\* What the main wallet signs of a delegation; the spending limit is not read.
DelegationSigningBody == [session : Key, expiry : Nat, wallet : Wallet]

DelegationCert == [body : DelegationSigningBody, main_key : Key, signature : Signature(DelegationSigningBody)]

\* The fields of a request that its signature covers: all others, the
\* certificate among them.
SigningBody ==
  [user : Key, model : Model, stamp : Nat, empty : BOOLEAN, encrypted : BOOLEAN,
   prefer_tee : BOOLEAN, max_tokens : Nat, delegation : DelegationCert \cup {None}]

\* A request, and the policy the caller of accept passes with it.
Submission == [body : SigningBody, signature : Signature(SigningBody), policy : {"Enforce", "Skip"}]

\* billing_address: the main wallet pays for its session keys.
BillingAddress(body) ==
  IF body.delegation # None THEN body.delegation.body.wallet ELSE AddressOf[body.user]

ASSUME IntakeAssumption ==
  /\ AddressOf \in [Key -> Wallet]
  /\ RequestOf \in [Request -> Submission]
  /\ Peer \subseteq Nat /\ IsFiniteSet(Peer) /\ IsFiniteSet(Model) /\ IsFiniteSet(Request)
  /\ StakeOf \in [Peer -> Nat]
  /\ Claims \subseteq [models : SUBSET Model, tee : BOOLEAN, stake : Nat, seen : 0..MaxNow]
  /\ Bonded \subseteq Nat /\ Missing \subseteq Nat
  /\ {Candidate_Ttl, MaxSkew, MissingThreshold, MaxOffers, MaxEpoch} \subseteq Nat

VARIABLES
  stage,    \* where the accept of a request is
  router,   \* the router that handles it
  came,     \* the time it came with
  salt,     \* router -> next_job_salt
  job,      \* request -> its job id, or None
  sent,     \* request -> the ranked candidates it was dispatched to
  registry, \* router -> peer -> its candidate, or None
  offers,   \* offers on the mesh
  breaker   \* router -> its circuit breaker

intake == <<stage, router, came, salt, job, sent>>
vars == <<now, restarts, quota, intake, registry, offers, breaker>>

-----------------------------------------------------------------------------
(* The circuit breaker *)

\* epoch counts the calls of advance_epoch (an epoch ends with one).  History:
\* ended, whether the epoch it ended had too many failures or too much slashed
\* and evaluate has not been called since; fired, whether a trigger fired when
\* it last was; forced, the epoch of the last override.
GenesisBreaker ==
  [tripped |-> FALSE, override |-> FALSE, verified |-> 0, failed |-> 0, bonded |-> 0,
   slashed |-> 0, in_bootstrap |-> TRUE, halted |-> FALSE, epoch |-> 0, ended |-> FALSE,
   fired |-> FALSE, forced |-> None]

IsPaused(b) == b.halted \/ (b.tripped /\ ~b.override)

\* The trigger on failed verifications, 20 % in bootstrap and 50 % after it.
TooManyFailed(b) ==
  LET total == b.verified + b.failed
  IN total > 0 /\ (b.failed * 10000) \div total > IF b.in_bootstrap THEN 2000 ELSE 5000

TooMuchSlashed(b) == b.bonded > 0 /\ (b.slashed * 10000) \div b.bonded > 2000

Anomalous(b) == TooManyFailed(b) \/ TooMuchSlashed(b)

\* evaluate.  A breaker that is forced open does not reset.
Evaluated(b, missing) ==
  LET trigger == Anomalous(b) \/ missing > MissingThreshold
  IN [b EXCEPT !.tripped = trigger \/ (@ /\ b.override), !.ended = FALSE, !.fired = trigger]

\* Faulty variant: the override stays.
AdvancedStillForced(b, bonded) ==
  [b EXCEPT !.verified = 0, !.failed = 0, !.slashed = 0, !.bonded = bonded,
            !.epoch = @ + 1, !.ended = Anomalous(b)]

\* advance_epoch drops the epoch's counts and the override.
Advanced(b, bonded) ==
  [b EXCEPT !.verified = 0, !.failed = 0, !.slashed = 0, !.bonded = bonded, !.override = FALSE,
            !.epoch = @ + 1, !.ended = Anomalous(b)]

Forced(b) == [b EXCEPT !.override = TRUE, !.forced = b.epoch]

Halted(b) == IF b.in_bootstrap THEN [b EXCEPT !.halted = TRUE] ELSE b

-----------------------------------------------------------------------------
(* The candidate registry *)

\* Time since, zero if it lies ahead.
Age(t, since) == IF t < since THEN 0 ELSE t - since

\* Faulty variant: candidates do not grow stale.
EligibleAtAnyAge(r, model, t) ==
  {p \in Peer : /\ registry[r][p] # None
                /\ model \in registry[r][p].models}

\* eligible_for: candidates that serve the model and are fresh.
Eligible(r, model, t) ==
  {p \in Peer : /\ registry[r][p] # None
                /\ model \in registry[r][p].models
                /\ Age(t, registry[r][p].seen) <= Candidate_Ttl}

\* rank_for: by stake, largest first, then by id.
Precedes(r, p, q) ==
  LET stake(x) == registry[r][x].stake
  IN stake(p) > stake(q) \/ (stake(p) = stake(q) /\ p < q)

Rankings(r, ps) == {s \in SetToSeqs(ps) : \A i, j \in DOMAIN s : i < j => Precedes(r, s[i], s[j])}

\* Faulty variant: without a TEE candidate any will do.
SelectedWithDowngrade(r, body, t) ==
  LET ps == Eligible(r, body.model, t)
      tee == {p \in ps : registry[r][p].tee}
  IN IF body.prefer_tee /\ tee # {} THEN tee ELSE ps

\* The candidates of a request: TEE nodes only if it asks for them.
Selected(r, body, t) ==
  {p \in Eligible(r, body.model, t) : body.prefer_tee => registry[r][p].tee}

-----------------------------------------------------------------------------
(* Router::accept *)

VerifyDelegation(cert, t) ==
  /\ t <= cert.body.expiry
  /\ cert.body.wallet = AddressOf[cert.main_key]
  /\ cert.signature = [key |-> cert.main_key, over |-> cert.body]

\* verify_request; a timestamp ahead of the router's clock is fresh.
Verified(request, t) ==
  LET body == request.body
  IN /\ ~body.empty \/ body.encrypted
     /\ body.prefer_tee => body.encrypted
     /\ body.max_tokens > 0
     /\ Age(t, body.stamp) <= MaxSkew
     /\ request.signature = [key |-> body.user, over |-> body]
     /\ body.delegation # None =>
          body.delegation.body.session = body.user /\ VerifyDelegation(body.delegation, t)

\* The breaker and the request itself.
Arrive(q, r) ==
  /\ stage[q] = "new"
  /\ router' = [router EXCEPT ![q] = r]
  /\ came' = [came EXCEPT ![q] = now]
  /\ stage' = [stage EXCEPT ![q] =
       IF IsPaused(breaker[r]) THEN "paused"
       ELSE IF Verified(RequestOf[q], now) THEN "verified" ELSE "bad"]
  /\ UNCHANGED <<now, restarts, quota, salt, job, sent, registry, offers, breaker>>

\* Faulty variant: the policy is not looked at.
GatedAlways(q) == TRUE

\* QuotaPolicy: whether the request is gated on the free tier.
Gated(q) == RequestOf[q].policy = "Enforce"

\* The quota.  It is consumed before a candidate is looked for.
Consume(q) ==
  LET r == router[q]
      w == BillingAddress(RequestOf[q].body)
      allowed == Gated(q) => Check(r, w, came[q]) = "Allowed"
  IN /\ stage[q] = "verified"
     /\ stage' = [stage EXCEPT ![q] = IF allowed THEN "charged" ELSE "exhausted"]
     /\ IF allowed /\ Gated(q) THEN Charge(r, w, came[q]) ELSE UNCHANGED quota
     /\ UNCHANGED <<now, restarts, router, came, salt, job, sent, registry, offers, breaker>>

\* Faulty variant: the salt is not counted up.
NextSaltSame(r) == salt[r]

NextSalt(r) == salt[r] + 1

\* mint_job_id: a digest of wallet, time and salt, and then the candidates in
\* their one ranking.
Select(q) ==
  LET r == router[q]
      body == RequestOf[q].body
  IN /\ stage[q] = "charged"
     /\ salt' = [salt EXCEPT ![r] = NextSalt(r)]
     /\ job' = [job EXCEPT ![q] = <<BillingAddress(body), came[q], NextSalt(r)>>]
     /\ \E ranked \in Rankings(r, Selected(r, body, came[q])) :
          /\ sent' = [sent EXCEPT ![q] = ranked]
          /\ stage' = [stage EXCEPT ![q] = IF ranked = <<>> THEN "no_candidate" ELSE "dispatched"]
     /\ UNCHANGED <<now, restarts, quota, router, came, registry, offers, breaker>>

-----------------------------------------------------------------------------
(* Offers *)

Publish(p, claim) ==
  /\ Cardinality(offers) < MaxOffers
  /\ offers' = offers \cup {[peer |-> p, models |-> claim.models, tee |-> claim.tee,
                             stake |-> claim.stake, seen |-> claim.seen]}
  /\ UNCHANGED <<now, restarts, quota, intake, registry, breaker>>

\* announce_models: a node's models as they are now, at the time of now.
Announce(p, models, tee) ==
  /\ models # {}
  /\ Publish(p, [models |-> models, tee |-> tee, stake |-> StakeOf[p], seen |-> now])

\* Anyone may offer anything in the name of a peer: an offer is not signed, and
\* the listener compares it with nothing.
Impersonate(p, claim) == Publish(p, claim)

\* The gossip listener's upsert: the last offer to arrive replaces what the
\* registry has, be it older or not.
Hear(r, o) ==
  /\ registry' = [registry EXCEPT ![r][o.peer] =
       [models |-> o.models, tee |-> o.tee, stake |-> o.stake, seen |-> o.seen]]
  /\ registry' # registry
  /\ UNCHANGED <<now, restarts, quota, intake, offers, breaker>>

-----------------------------------------------------------------------------
(* What moves the breaker *)

SetBreaker(r, b) ==
  /\ breaker' = [breaker EXCEPT ![r] = b]
  /\ breaker' # breaker
  /\ UNCHANGED <<now, restarts, quota, intake, registry, offers>>

\* No code of the node calls what follows: when, and in which order, is open.
AdvanceEpoch(r, bonded) == breaker[r].epoch < MaxEpoch /\ SetBreaker(r, Advanced(breaker[r], bonded))

Evaluate(r, missing) == SetBreaker(r, Evaluated(breaker[r], missing))

\* record_verified, record_failed and record_slash, one receipt or slash per
\* epoch each.
RecordVerified(r) == breaker[r].verified = 0 /\ SetBreaker(r, [breaker[r] EXCEPT !.verified = 1])

RecordFailed(r) == breaker[r].failed = 0 /\ SetBreaker(r, [breaker[r] EXCEPT !.failed = 1])

RecordSlash(r) == breaker[r].slashed = 0 /\ SetBreaker(r, [breaker[r] EXCEPT !.slashed = 1])

GuardianHalt(r) == SetBreaker(r, Halted(breaker[r]))

GuardianResume(r) == SetBreaker(r, [breaker[r] EXCEPT !.halted = FALSE])

Ended(b) == [b EXCEPT !.in_bootstrap = FALSE, !.halted = FALSE]

EndBootstrap(r) == SetBreaker(r, Ended(breaker[r]))

ForceResume(r) == SetBreaker(r, Forced(breaker[r]))

BreakerStep(r) ==
  \/ \E bonded \in Bonded : AdvanceEpoch(r, bonded)
  \/ \E missing \in Missing : Evaluate(r, missing)
  \/ RecordVerified(r)
  \/ RecordFailed(r)
  \/ RecordSlash(r)
  \/ GuardianHalt(r)
  \/ GuardianResume(r)
  \/ EndBootstrap(r)
  \/ ForceResume(r)

-----------------------------------------------------------------------------
NoCandidates == [p \in Peer |-> None]

InFlight(q) == stage[q] \in {"verified", "charged"}

\* accept awaits nothing before the dispatch: it outlasts one tick at most.
Prompt(qs) == \A q \in qs : InFlight(q) => came[q] = now

Advance ==
  /\ now < MaxNow /\ Prompt(Request)
  /\ now' = now + 1
  /\ UNCHANGED <<restarts, quota, intake, registry, offers, breaker>>

\* A restarted router has lost its counters, its registry, its breaker and the
\* requests it was working on; a restart takes time.
Restart(r) ==
  /\ restarts < MaxRestarts /\ now < MaxNow
  /\ Prompt({q \in Request : router[q] # r})
  /\ restarts' = restarts + 1
  /\ now' = now + 1
  /\ QuotaRestart(r)
  /\ salt' = [salt EXCEPT ![r] = 0]
  /\ registry' = [registry EXCEPT ![r] = NoCandidates]
  /\ breaker' = [breaker EXCEPT ![r] = GenesisBreaker]
  /\ stage' = [q \in Request |->
       IF router[q] = r /\ InFlight(q) THEN "lost" ELSE stage[q]]
  /\ UNCHANGED <<router, came, job, sent, offers>>

Init ==
  /\ now = 0
  /\ restarts = 0
  /\ QuotaInit
  /\ stage = [q \in Request |-> "new"]
  /\ router = [q \in Request |-> None]
  /\ came = [q \in Request |-> 0]
  /\ salt = [r \in Router |-> 0]
  /\ job = [q \in Request |-> None]
  /\ sent = [q \in Request |-> <<>>]
  /\ registry = [r \in Router |-> NoCandidates]
  /\ offers = {}
  /\ breaker = [r \in Router |-> GenesisBreaker]

Accept == \E q \in Request : (\E r \in Router : Arrive(q, r)) \/ Consume(q) \/ Select(q)

Gossip ==
  \E r \in Router :
    /\ QuotaStep(r)
    /\ UNCHANGED <<intake, registry, offers, breaker>>

Discovery ==
  \/ \E p \in Peer, models \in SUBSET Model, tee \in BOOLEAN : Announce(p, models, tee)
  \/ \E p \in Peer, claim \in Claims : Impersonate(p, claim)
  \/ \E r \in Router, o \in offers : Hear(r, o)

Next ==
  \/ Accept
  \/ Gossip
  \/ Discovery
  \/ \E r \in Router : BreakerStep(r) \/ Restart(r)
  \/ Advance

Spec == Init /\ [][Next]_vars

-----------------------------------------------------------------------------
(* Properties *)

Stages == {"new", "paused", "bad", "verified", "exhausted", "charged", "no_candidate", "dispatched", "lost"}

CandidateRecord == [models : SUBSET Model, tee : BOOLEAN, stake : Nat, seen : 0..MaxNow]

TypeOK ==
  /\ QuotaTypeOK
  /\ now \in 0..MaxNow /\ restarts \in 0..MaxRestarts
  /\ stage \in [Request -> Stages]
  /\ router \in [Request -> Router \cup {None}]
  /\ came \in [Request -> 0..MaxNow]
  /\ salt \in [Router -> Nat]
  /\ \A q \in Request : sent[q] \in Seq(Peer) /\ IsInjective(sent[q])
  /\ \A r \in Router, p \in Peer : registry[r][p] \in CandidateRecord \cup {None}

\* A router never gives one job id to two of the requests it handles, also if
\* it mints one for the wallet again after a restart: its salt starts over, but
\* the clock has moved.  Two routers may: their salts start alike, and nothing
\* in the digest tells them apart.
IdsOfRouterUnique ==
  \A p, q \in Request : p # q /\ job[p] # None /\ router[p] = router[q] => job[p] # job[q]

\* A wallet is charged exactly once for every request that got past the
\* enforced quota, whether or not a candidate was found for it, and for no other.
ChargedOnce ==
  \A w \in Wallet :
    LET free == {q \in Request : BillingAddress(RequestOf[q].body) = w /\ RequestOf[q].policy = "Enforce"}
        past == {q \in free : stage[q] \in {"charged", "no_candidate", "dispatched"}}
        lost == {q \in free : stage[q] = "lost"}
    IN charged[w] \in Cardinality(past)..(Cardinality(past) + Cardinality(lost))

\* The free tier's books: no wallet gets more than its limits at a router, none
\* is charged for more than was admitted, and a request costs one job under an
\* id its router gives to no other.
ChargesSound == LimitsHeld /\ NotOvercharged /\ ChargedOnce /\ IdsOfRouterUnique

\* Every node a request is sent to was offered, by itself or by another in its
\* name, with the model, and with a TEE if the request wants one, in an offer
\* that was fresh when the request came: no downgrade and no stale or invented
\* candidate, whatever order the offers arrived in and whatever the registry
\* held before a restart.
SentWhereOffered ==
  \A q \in Request : \A i \in DOMAIN sent[q] :
    \E o \in offers :
      /\ o.peer = sent[q][i]
      /\ RequestOf[q].body.model \in o.models
      /\ RequestOf[q].body.prefer_tee => o.tee
      /\ Age(came[q], o.seen) <= Candidate_Ttl

\* No request gets past a breaker while a guardian halts it, nor after an
\* evaluation at which a trigger fired, unless governance has forced the breaker
\* open in the same epoch: an override does not outlast its epoch and does not
\* lift a guardian's halt (is_paused, advance_epoch).
StoppedByBreaker ==
  [][\A q \in Request :
       stage[q] = "new" /\ stage'[q] \in {"verified", "bad"} =>
         LET b == breaker[router'[q]]
         IN ~b.halted /\ (b.fired => b.forced = b.epoch)]_vars

\* chain/src/circuit_breaker.rs: the breaker trips on an epoch's failed
\* verifications or slashed stake (:9-11), and at a boundary advance_epoch is
\* called before evaluate (:158-159).  That evaluation trips the breaker if the
\* epoch that has just ended calls for it.
BoundaryTrips ==
  [][\A r \in Router :
       breaker[r].ended /\ breaker'[r].epoch = breaker[r].epoch /\ ~breaker'[r].ended =>
         breaker'[r].tripped]_vars

=============================================================================
