-------------------------- MODULE MCSecretRegistry --------------------------
(* Small instances of SecretRegistry for TLC.                              *)
EXTENDS SecretRegistry, TLC

(* No definition orders or names a transaction, a reference or a scope.    *)
MCSymmetry == Permutations(Txs) \cup Permutations(Refs) \cup Permutations(Scopes)
=============================================================================
