---------------------------- MODULE ProductHead ----------------------------
(***************************************************************************)
(* What the Product Head promises, without tables, receipts or terminal    *)
(* work: the accepted turns of one conversation form a single line of      *)
(* revisions, at most one turn is being worked on, and a turn whose        *)
(* external effect is uncertain stops the line until an operator settles   *)
(* it.  TurnTransactions.tla implements this specification.                *)
(***************************************************************************)
EXTENDS Naturals

CONSTANTS TxIds,   \* identities of turn attempts, each used at most once
          Ckpts,   \* checkpoints an attempt may end in
          Root,    \* the thread of the bootstrap checkpoint
          NoHead   \* the head before bootstrap

VARIABLES tip,        \* the accepted head, or NoHead
          lineage,    \* every head a committed turn produced
          open,       \* the turn being worked on, as a set of at most one
          uncertain,  \* the turn with an unsettled external effect, likewise
          spent       \* identities already used

vars == <<tip, lineage, open, uncertain, spent>>

Init == /\ tip = NoHead
        /\ lineage = {}
        /\ open = {}
        /\ uncertain = {}
        /\ spent = {}

Create(c) == /\ tip = NoHead
             /\ tip' = [rev |-> 0, thread |-> Root, ckpt |-> c]
             /\ UNCHANGED <<lineage, open, uncertain, spent>>

Open(t) == /\ tip # NoHead
           /\ t \notin spent
           /\ open = {} /\ uncertain = {}
           /\ open' = {t}
           /\ spent' = spent \cup {t}
           /\ UNCHANGED <<tip, lineage, uncertain>>

Accept(t, c) == /\ open = {t}
                /\ tip' = [rev |-> tip.rev + 1, thread |-> t, ckpt |-> c]
                /\ lineage' = lineage \cup {tip'}
                /\ open' = {}
                /\ UNCHANGED <<uncertain, spent>>

Drop(t) == /\ open = {t}
           /\ open' = {}
           /\ UNCHANGED <<tip, lineage, uncertain, spent>>

Suspect(t) == /\ open = {t}
              /\ open' = {}
              /\ uncertain' = {t}
              /\ UNCHANGED <<tip, lineage, spent>>

Settle(t) == /\ uncertain = {t}
             /\ uncertain' = {}
             /\ UNCHANGED <<tip, lineage, open, spent>>

Next == \/ \E c \in Ckpts : Create(c)
        \/ \E t \in TxIds : \/ Open(t) \/ Drop(t) \/ Suspect(t) \/ Settle(t)
                            \/ \E c \in Ckpts : Accept(t, c)

Spec == Init /\ [][Next]_vars
=============================================================================
