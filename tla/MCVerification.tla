--------------------------- MODULE MCVerification ---------------------------
(***************************************************************************)
(* Instance of Verification for TLC: an honest receipt, one that claims    *)
(* the output of another text, and one of that kind with a quote for a     *)
(* proof, each of its own job.                                             *)
(***************************************************************************)
EXTENDS Verification

Honest == [job |-> 1, output |-> Absorb(Seed(1), "text"), proof |-> "HashChain"]
Lying == [job |-> 2, output |-> Absorb(Seed(2), "other"), proof |-> "HashChain"]
Quoted == [job |-> 3, output |-> Absorb(Seed(3), "other"), proof |-> "TeeQuote"]

MCReceipt == {Honest, Lying, Quoted}
MCReexecution == [r \in MCReceipt |-> "text"]
MCUnder == {VrfProve("key", VrfInput(job, h)) : job \in {1, 2, 3}, h \in 1..3} \ {VrfProve("key", VrfInput(1, 2))}

=============================================================================
