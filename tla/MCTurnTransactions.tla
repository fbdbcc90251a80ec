------------------------- MODULE MCTurnTransactions -------------------------
(* A small instance of TurnTransactions for TLC.                           *)
EXTENDS TurnTransactions, TLC

(* Transactions are interchangeable, and so are detours, payloads and      *)
(* messages: no definition orders or names one.                            *)
MCSymmetry == Permutations(TxIds) \cup Permutations(DetourIds)
                 \cup Permutations(Payloads) \cup Permutations(Messages)

EveryEffect == {"read_only", "local_external_effect", "streaming_observation"}

Present == {d \in DetourIds : detours[d].status # "absent"}
Streams == {d \in Present : detours[d].class = "streaming_observation"}

Payloaded == {outbox[t].payload : t \in PublishedEvents}
                \cup {detours[d].fence.payload : d \in Present}
Replies == {detours[d].response : d \in Present}

(* Bounds of the run: beside the turns there is one stream, or two         *)
(* commands with one reply and one payload between them.  A state outside  *)
(* is still checked, but not continued; every property of the run is a     *)
(* safety property.                                                        *)
OneStream == Cardinality(Present) =< 1 /\ Streams = Present
TwoCommands == /\ Streams = {}
               /\ \A reply \in Replies : Len(reply) =< 1
               /\ Cardinality(Replies \ {<<>>}) =< 1
               /\ Cardinality(Payloaded \ {NoPayload}) =< 1
SmallStore == OneStream \/ TwoCommands
=============================================================================
