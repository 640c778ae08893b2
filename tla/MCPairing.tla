------------------------------ MODULE MCPairing ------------------------------
(* Pairing with two transports, two slots and two interchangeable passphrases. *)
EXTENDS Pairing, TLC

PhraseSymmetry == Permutations(Phrases)
=============================================================================
