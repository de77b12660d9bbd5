----------------------------- MODULE Economics -----------------------------
(***************************************************************************)
(* The price oracle (crates/payments/src/pricing.rs) and the emission      *)
(* schedule (crates/payments/src/emission.rs), whose states the protocol   *)
(* carries from epoch to epoch.  The commit path takes the schedule's      *)
(* budgets and rates with a state of its own for every epoch (see          *)
(* BlockEnd); the library's own states are what is modelled here.          *)
(*                                                                         *)
(* Prices and amounts are integers with the code's divisions; the table of *)
(* a year's emission, the epochs of a year and the cap are parameters.     *)
(***************************************************************************)
EXTENDS Rewards

CONSTANTS PRICE_SCALE,
          GENESIS_BASE_PRICE,
          PRICE_CEILING,
          ANNUAL_EMISSION,    \* of the first years, in order
          EPOCHS_PER_YEAR,
          EPOCH_LENGTH,
          TOTAL_SUPPLY_CAP,
          Capacities, Heights, Jobs, \* arguments of the calls
          MaxJobs, MaxEpoch          \* bounds

VARIABLES oracle,    \* PricingState
          emission,  \* EpochEmissionState
          granted    \* history: the fresh budgets so far

econVars == <<oracle, emission, granted>>

ASSUME EconomicsAssumption ==
  /\ {PRICE_SCALE, GENESIS_BASE_PRICE, EPOCHS_PER_YEAR, EPOCH_LENGTH} \subseteq Nat \ {0}
  /\ ANNUAL_EMISSION \in Seq(Nat) /\ ANNUAL_EMISSION # <<>>

-----------------------------------------------------------------------------
(* The price *)

GenesisPricing == [price |-> GENESIS_BASE_PRICE, epoch_jobs |-> 0, epoch_capacity |-> 1, epoch |-> 0]

\* The floor of the root, by binary search.
Isqrt(n) ==
  LET search[lo \in 1..n, hi \in 1..n] ==
        LET mid == lo + (hi - lo + 1) \div 2 IN
          IF lo >= hi THEN lo
          ELSE IF mid <= n \div mid THEN search[mid, hi] ELSE search[lo, mid - 1]
  IN IF n <= 1 THEN n ELSE search[1, n]

\* Jobs per capacity in units of PRICE_SCALE, at most one.
Utilization(p) == AtMost((p.epoch_jobs * PRICE_SCALE) \div p.epoch_capacity, PRICE_SCALE)

\* The base price times utilization to the power of 1.5.
RawPrice(util) ==
  (GENESIS_BASE_PRICE * util * Isqrt(util)) \div (PRICE_SCALE * Isqrt(PRICE_SCALE))

Distance(a, b) == IF a < b THEN b - a ELSE a - b

\* The new price's weight, of 10: the larger the change, the heavier.
NewWeight(current, new) ==
  LET change == (Distance(current, new) * 10000) \div current IN
    CASE current = 0 \/ change > 5000 -> 5
      [] current # 0 /\ change \in 2001..5000 -> 4
      [] OTHER -> 3

\* Faulty variant: smoothed with the weights the wrong way round.
SmoothedSwapped(current, new) ==
  LET w == NewWeight(current, new) IN (w * current + (10 - w) * new) \div 10

Smoothed(current, new) ==
  LET w == NewWeight(current, new) IN ((10 - w) * current + w * new) \div 10

RecordJob ==
  /\ oracle.epoch_jobs < MaxJobs
  /\ oracle' = [oracle EXCEPT !.epoch_jobs = @ + 1]
  /\ UNCHANGED <<emission, granted>>

\* Only a later epoch is entered.
AdvancePricing(epoch, capacity) ==
  /\ epoch > oracle.epoch
  /\ oracle' =
       [price |-> AtMost(Smoothed(oracle.price, RawPrice(Utilization(oracle))), PRICE_CEILING),
        epoch_jobs |-> 0,
        epoch_capacity |-> IF capacity > 1 THEN capacity ELSE 1,
        epoch |-> epoch]
  /\ UNCHANGED <<emission, granted>>

-----------------------------------------------------------------------------
(* The emission *)

\* From the table; past it, half of the last for four years, then half of that.
AnnualEmission(year) ==
  LET listed == Len(ANNUAL_EMISSION) IN
    IF year < listed THEN ANNUAL_EMISSION[year + 1]
    ELSE ANNUAL_EMISSION[listed] \div 2 ^ ((year - listed + 4) \div 4)

FreshBudget(year) == AnnualEmission(year) \div EPOCHS_PER_YEAR

YearFor(height) == height \div (EPOCHS_PER_YEAR * EPOCH_LENGTH)
EpochFor(height) == height \div EPOCH_LENGTH

GenesisEmission == [epoch |-> 0, budget |-> FreshBudget(0), minted |-> 0, total_minted |-> 0]

Remaining(e) == IF e.budget > e.minted THEN e.budget - e.minted ELSE 0

\* Faulty variant: all of the old budget is carried over.
RolloverOfBudget(e) == e.budget

Rollover(e) == Remaining(e)

PerTokenRate(e, tokens) == IF tokens = 0 THEN 0 ELSE Remaining(e) \div tokens

\* What try_mint mints of an amount.
Mintable(e, amount) == AtMost(AtMost(amount, Remaining(e)), TOTAL_SUPPLY_CAP - e.total_minted)

\* A job, one of an epoch of `all` tokens, is rewarded.
RewardJob(job, all) ==
  /\ LET reward == BlockReward(job.tokens, PerTokenRate(emission, all), job.category,
                               job.billions, job.latency, job.expected, job.uptime)
         minted == Mintable(emission, reward) IN
       emission' = [emission EXCEPT !.minted = @ + minted, !.total_minted = @ + minted]
  /\ UNCHANGED <<oracle, granted>>

\* Only a later epoch is entered; the budgets of those that are skipped are not
\* made up for.
AdvanceEmission(height) ==
  /\ EpochFor(height) > emission.epoch
  /\ LET fresh == FreshBudget(YearFor(height)) IN
       /\ emission' = [epoch |-> EpochFor(height), budget |-> fresh + Rollover(emission),
                       minted |-> 0, total_minted |-> emission.total_minted]
       /\ granted' = granted + fresh
  /\ UNCHANGED oracle

-----------------------------------------------------------------------------

EconInit == oracle = GenesisPricing /\ emission = GenesisEmission /\ granted = FreshBudget(0)

PricingNext == RecordJob \/ \E epoch \in 1..MaxEpoch, capacity \in Capacities : AdvancePricing(epoch, capacity)
EmissionNext ==
  \/ \E job \in Jobs, all \in {j.tokens + k.tokens : j, k \in Jobs} : job.tokens <= all /\ RewardJob(job, all)
  \/ \E height \in Heights : AdvanceEmission(height)

-----------------------------------------------------------------------------
(* Properties *)

\* A closing epoch moves the price toward what its demand asks for, at most half of
\* the way; up whenever that is 4 or more above, down whenever it is below at all.
\* More demand never asks for less, and full demand for the base price.
PriceFollows ==
  oracle'.epoch # oracle.epoch =>
    LET asked == RawPrice(Utilization(oracle))
        with(jobs) == RawPrice(Utilization([oracle EXCEPT !.epoch_jobs = jobs])) IN
      /\ oracle'.price \in oracle.price..asked \cup asked..oracle.price
      /\ asked > oracle.price + 3 => oracle'.price > oracle.price
      /\ asked < oracle.price => oracle'.price < oracle.price
      /\ Distance(oracle.price, oracle'.price) <= Distance(oracle'.price, asked) + 1
      /\ \A jobs \in 0..oracle.epoch_jobs : with(jobs) <= asked
      /\ oracle.epoch_jobs >= oracle.epoch_capacity => asked = GENESIS_BASE_PRICE

\* What was minted and what may be minted now are the budgets granted so far,
\* over every rollover and halving, and the cap holds.
SupplyScheduled ==
  /\ emission'.total_minted + Remaining(emission') = granted'
  /\ emission'.total_minted <= TOTAL_SUPPLY_CAP
  /\ emission'.total_minted >= emission.total_minted

EpochCloses == [][PriceFollows /\ SupplyScheduled]_econVars

=============================================================================
