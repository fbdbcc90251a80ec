------------------------- MODULE MCTerminalSessions -------------------------
(* Small instances of TerminalSessions for TLC.                            *)
EXTENDS TerminalSessions, TLC

PlainOnly == {"read_only"}
PlainAndStream == {"read_only", "streaming_observation"}
MCSymmetry == Permutations(Sessions) \cup Permutations(TxIds)
                \cup Permutations(DetourIds)
=============================================================================
