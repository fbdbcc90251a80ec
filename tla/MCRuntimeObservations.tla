----------------------- MODULE MCRuntimeObservations -----------------------
(* Small instances of RuntimeObservations for TLC.                         *)
EXTENDS RuntimeObservations, TLC

MCPayloads == [rev : Revs, observation : Observations]
MCSymmetry == Permutations(TxIds)
=============================================================================
