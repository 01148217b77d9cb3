------------------------------ MODULE MCVault ------------------------------
(* A small vault.  BPS = 4 stands for 10_000, so a fee can reach half of a *)
(* note and its rounding shows on amounts of 1 and 2.                      *)
EXTENDS Vault, TLC

SecretSymmetry == Permutations(Secrets)
=============================================================================
