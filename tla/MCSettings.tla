----------------------------- MODULE MCSettings -----------------------------
(* Finite instances of Settings for TLC. *)
EXTENDS Settings, TLC

CONSTANTS d1, d2

SeedsMC == <<d1, d2>>

ClientSymmetry == Permutations(Clients)
=============================================================================
