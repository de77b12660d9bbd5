------------------------------ MODULE Messages ------------------------------
(***************************************************************************)
(* What validators say to each other and how it travels: the set of        *)
(* validators (crates/consensus/src/validators.rs), what is signed         *)
(* (signing.rs) and what is gossiped (network_bridge.rs).                  *)
(*                                                                         *)
(* A key is a number, and so is an address: that of key k is k.  A header  *)
(* stands for its hash, a positive number; 0 is the hash of zeroes.  A     *)
(* digest is its domain with what is hashed, a signature its key with the  *)
(* digest.  The encodings of borsh are the records themselves.             *)
(***************************************************************************)
EXTENDS Integers, Sequences, SequencesExt, FiniteSets

RoundNil == -1
NoValue == -1 \* NilOrVal::Nil

TOPIC_CONSENSUS_VOTE == "arknet/consensus/vote/1"
TOPIC_BLOCK_PROP == "arknet/block/prop/1"

-----------------------------------------------------------------------------
(* The validator set *)

ChainValidator == [key : Nat, operator : Nat, voting_power : Nat \ {0}]

\* from_info: what consensus needs of a validator's record.
FromInfo(info) == [key |-> info.key, operator |-> info.operator, voting_power |-> info.voting_power]

Before(v, w) ==
  \/ v.voting_power > w.voting_power
  \/ v.voting_power = w.voting_power /\ v.operator <= w.operator

\* from_infos: the active validators by voting power, then by address.
FromInfos(infos) ==
  LET active == SelectSeq(infos, LAMBDA v : ~v.jailed /\ v.voting_power > 0)
  IN SortSeq([i \in DOMAIN active |-> FromInfo(active[i])], LAMBDA v, w : Before(v, w))

\* pubkey_for_address: the key of the first validator of that address, if any.
PubkeyForAddress(validators, address) ==
  LET held == {i \in DOMAIN validators : validators[i].operator = address}
  IN {validators[i].key : i \in {j \in held : \A k \in held : j <= k}}

\* select_proposer: round robin over the rounds of a height.
SelectProposer(validators, round) ==
  validators[((IF round < 0 THEN 0 ELSE round) % Len(validators)) + 1]

-----------------------------------------------------------------------------
(* Messages *)

Vote(height, round, vote_type, value, address) ==
  [kind |-> "vote", height |-> height, round |-> round, vote_type |-> vote_type,
   value |-> value, validator_address |-> address]

Proposal(height, round, pol_round, block, address) ==
  [kind |-> "proposal", height |-> height, round |-> round, pol_round |-> pol_round,
   block |-> block, validator_address |-> address]

TypeByte(vote_type) == IF vote_type = "Prevote" THEN 1 ELSE 2

IsVote(m) ==
  /\ m.kind = "vote" /\ m.vote_type \in {"Prevote", "Precommit"} /\ m.value \in Nat \cup {NoValue}
  /\ m = Vote(m.height, m.round, m.vote_type, m.value, m.validator_address)
IsProposal(m) ==
  /\ m.kind = "proposal"
  /\ m = Proposal(m.height, m.round, m.pol_round, m.block, m.validator_address)

\* encode_vote, of what a vote's signature covers.
EncodeVote(v) ==
  <<v.height, v.round, TypeByte(v.vote_type)>>
  \o (IF v.value = NoValue THEN <<0>> ELSE <<1, v.value>>)
  \o <<v.validator_address>>

\* encode_proposal: of the value its id, which is the hash of the header alone.
EncodeProposal(p) == <<p.height, p.round, p.pol_round, p.block.header, p.validator_address>>

Digest(m) ==
  IF m.kind = "vote" THEN <<"arknet-consensus-vote-v1", EncodeVote(m)>>
                     ELSE <<"arknet-consensus-proposal-v1", EncodeProposal(m)>>

\* sign_vote, sign_proposal.
Signed(m, key) == [message |-> m, signature |-> [key |-> key, digest |-> Digest(m)]]

\* verify_signed_vote, verify_signed_proposal.
Verified(signed, key) == signed.signature = [key |-> key, digest |-> Digest(signed.message)]

-----------------------------------------------------------------------------
(* The wire *)

\* Faulty variant: every vote is tagged as one for a value.
EncodeTagged(signed) ==
  [height |-> signed.message.height, round |-> signed.message.round,
   vote_type |-> TypeByte(signed.message.vote_type),
   value_tag |-> 1, value |-> IF signed.message.value = NoValue THEN 0 ELSE signed.message.value,
   validator_address |-> signed.message.validator_address, signature |-> signed.signature]

\* encode_signed_vote: WireVote, whose value is zeroed for nil.
EncodeSignedVote(signed) ==
  [height |-> signed.message.height, round |-> signed.message.round,
   vote_type |-> TypeByte(signed.message.vote_type),
   value_tag |-> IF signed.message.value = NoValue THEN 0 ELSE 1,
   value |-> IF signed.message.value = NoValue THEN 0 ELSE signed.message.value,
   validator_address |-> signed.message.validator_address, signature |-> signed.signature]

\* encode_signed_proposal: WireProposal, with the whole block.
EncodeSignedProposal(signed) ==
  [height |-> signed.message.height, round |-> signed.message.round,
   pol_round |-> signed.message.pol_round, block |-> signed.message.block,
   validator_address |-> signed.message.validator_address, signature |-> signed.signature]

\* outbound_message.
OutboundMessage(signed) ==
  IF signed.message.kind = "vote"
  THEN [topic |-> TOPIC_CONSENSUS_VOTE, data |-> EncodeSignedVote(signed)]
  ELSE [topic |-> TOPIC_BLOCK_PROP, data |-> EncodeSignedProposal(signed)]

\* decode_signed_vote, of a wire vote that is well formed; the tag decides
\* whether it has a value.
WellFormed(wire) ==
  /\ wire.vote_type \in {1, 2}
  /\ wire.value_tag \in {0, 1}
  /\ wire.value_tag = 0 => wire.value = 0
DecodeSignedVote(wire) ==
  [message |-> Vote(wire.height, wire.round, IF wire.vote_type = 1 THEN "Prevote" ELSE "Precommit",
                    IF wire.value_tag = 0 THEN NoValue ELSE wire.value, wire.validator_address),
   signature |-> wire.signature]

\* decode_signed_proposal.
DecodeSignedProposal(wire) ==
  [message |-> Proposal(wire.height, wire.round, wire.pol_round, wire.block, wire.validator_address),
   signature |-> wire.signature]

\* classify_inbound: the messages a gossip event gives, none for another topic
\* or for one that does not decode.
ClassifyInbound(event) ==
  IF event.topic = TOPIC_CONSENSUS_VOTE
  THEN IF WellFormed(event.data) THEN {DecodeSignedVote(event.data)} ELSE {}
  ELSE IF event.topic = TOPIC_BLOCK_PROP THEN {DecodeSignedProposal(event.data)} ELSE {}

=============================================================================
