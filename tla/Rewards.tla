------------------------------ MODULE Rewards ------------------------------
(***************************************************************************)
(* The pure arithmetic of rewards: the split of a payment                  *)
(* (credit_reward_split in crates/chain/src/apply.rs and distribute_reward *)
(* in crates/payments/src/rewards.rs compute the same shares), the clamp   *)
(* of an epoch's minting to its budget (crates/payments/src/emission.rs),  *)
(* the shares of a node's delegators, and the fee curve of                 *)
(* crates/chain/src/fee_market.rs.                                         *)
(***************************************************************************)
EXTENDS Integers, Sequences, Functions

\* The five shares of a payment; the treasury takes the rounding.
Split(total) ==
  LET part(percent) == (total * percent) \div 100
  IN [compute |-> part(80), verifier |-> part(7), burned |-> part(3), delegators |-> part(5),
      treasury |-> total - part(80) - part(7) - part(3) - part(5)]

AtMost(a, b) == IF a < b THEN a ELSE b

\* The multipliers of a job's reward, in units of 1/10000.
SizeMult(billions) ==
  CASE billions <= 7 -> 10000
    [] billions \in 8..13 -> 15000
    [] billions \in 14..30 -> 25000
    [] billions \in 31..70 -> 40000
    [] OTHER -> 100000
CategoryMult ==
  [Text |-> 10000, Embedding |-> 3000, Image |-> 20000, Audio |-> 15000, Structured |-> 12000,
   Multimodal |-> 30000]
\* Up to a fifth more for answering sooner than expected.
LatencyMult(actual, expected) ==
  IF expected = 0 \/ actual >= expected THEN 10000
  ELSE 10000 + ((10000 - (actual * 10000) \div expected) * 2000) \div 10000
UptimeMult(bps) == IF bps > 9500 THEN 11000 ELSE 10000

\* compute_block_reward: rounded down after each multiplier.
BlockReward(tokens, rate, category, billions, latency, expected, uptime) ==
  LET times(amount, mult) == (amount * mult) \div 10000
  IN times(times(times(times(tokens * rate, SizeMult(billions)), CategoryMult[category]),
                 LatencyMult(latency, expected)), UptimeMult(uptime))

\* Faulty variant: every job is checked against the full budget.
MintedUnclamped(rewards, budget, i) == AtMost(rewards[i], budget)

\* try_mint over the rewards in order: what the i-th call returns.  The
\* calls before it used up the budget or minted what they asked for.
Minted(rewards, budget, i) ==
  LET used == AtMost(budget, SumFunctionOnSet(rewards, 1..(i - 1)))
  IN AtMost(rewards[i], budget - used)

\* Delegators' shares of `total`, pro rata, the remainder to the last one.
DelegatorShare(total, amounts, i) ==
  LET all == SumFunction(amounts)
      prorata == [k \in DOMAIN amounts |-> (total * amounts[k]) \div all]
  IN IF i = Len(amounts)
     THEN total - SumFunctionOnSet(prorata, 1..(i - 1))
     ELSE prorata[i]

\* next_base_fee: one eighth per unit of relative distance to the target,
\* at least one up and possibly none down, never below one.
NextBaseFee(fee, used, target) ==
  LET moved ==
        IF used > target
        THEN LET delta == ((fee * (used - target)) \div target) \div 8
             IN fee + IF delta > 1 THEN delta ELSE 1
        ELSE fee - ((fee * (target - used)) \div target) \div 8
  IN IF moved > 1 THEN moved ELSE 1

=============================================================================
