------------------------------- MODULE MCLinks -------------------------------
(* Links for TLC: keys are alike, and so are nonces.                         *)
EXTENDS Links, TLC

KeyAndNonceSymmetry == Permutations(Keys) \cup Permutations(Nonces)
=============================================================================
