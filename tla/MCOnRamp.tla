------------------------------ MODULE MCOnRamp ------------------------------
(***************************************************************************)
(* Instances of OnRamp for TLC.                                            *)
(***************************************************************************)
EXTENDS OnRamp, TLC

CONSTANTS r1, r2

\* One burn drains sepolia; base starts short of one payout of two dollars.
TightBalance == [c \in Chains |-> IF c = "sepolia" THEN 2 * Micro ELSE Micro]
AmpleBalance == [c \in Chains |-> 4 * Micro]

RequestSymmetry == Permutations(Requests)

=============================================================================
