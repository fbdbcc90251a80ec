---------------------------- MODULE AtomicSecrets ---------------------------
(***************************************************************************)
(* What the secret registry promises the turns of one process: secrets     *)
(* change at one instant, the one at which the turn's Product Head becomes *)
(* durable, and only if everything the turn read is then still so.         *)
(* SecretRegistry.tla, where the new secrets are visible before that       *)
(* instant and may have to be taken back, implements this specification.   *)
(***************************************************************************)
CONSTANTS Txs,       \* the transactions of turns
          Refs,      \* secret references
          Contents,  \* what a reference can stand for
          Absent,    \* the content of a discarded reference
          Unseen     \* marks a reference not read, or not written

VARIABLES store,   \* the secret every reference stands for
          status,  \* each turn: "open", "committed" or "dropped"
          view,    \* what each open turn has read
          plan,    \* what each open turn wants to write
          wipe     \* the open turns that clear everything first

vars == <<store, status, view, plan, wipe>>

Nothing == [r \in Refs |-> Unseen]

Init == /\ store = [r \in Refs |-> Absent]
        /\ status = [t \in Txs |-> "open"]
        /\ view = [t \in Txs |-> Nothing]
        /\ plan = [t \in Txs |-> Nothing]
        /\ wipe = {}

(* A turn reads what the store holds and makes up its mind.                *)
Work(t) == /\ status[t] = "open"
           /\ UNCHANGED <<store, status>>
           /\ view' = [view EXCEPT ![t] = view'[t]]
           /\ \A r \in Refs : view'[t][r] \in {Unseen, view[t][r], store[r]}
           /\ plan' = [plan EXCEPT ![t] = plan'[t]]
           /\ plan'[t] \in [Refs -> Contents \cup {Unseen}]
           /\ wipe' \in {wipe, wipe \cup {t}}

Close(t, how) == /\ status' = [status EXCEPT ![t] = how]
                 /\ view' = [view EXCEPT ![t] = Nothing]
                 /\ plan' = [plan EXCEPT ![t] = Nothing]
                 /\ wipe' = wipe \ {t}

Commit(t) == /\ status[t] = "open"
             /\ \A r \in Refs : view[t][r] \in {Unseen, store[r]}
             /\ store' = [r \in Refs |->
                    CASE plan[t][r] # Unseen -> plan[t][r]
                      [] plan[t][r] = Unseen /\ t \in wipe -> Absent
                      [] OTHER -> store[r]]
             /\ Close(t, "committed")

Drop(t) == /\ status[t] = "open"
           /\ UNCHANGED store
           /\ Close(t, "dropped")

(* Callers outside any turn change one secret, or clear them all.          *)
Direct(r, c) == /\ UNCHANGED <<status, view, plan, wipe>>
                /\ store' = [store EXCEPT ![r] = c]

DirectWipe == /\ UNCHANGED <<status, view, plan, wipe>>
              /\ store' = [r \in Refs |-> Absent]

Next == \/ \E t \in Txs : Work(t) \/ Commit(t) \/ Drop(t)
        \/ \E r \in Refs, c \in Contents : Direct(r, c)
        \/ DirectWipe

Spec == Init /\ [][Next]_vars
=============================================================================
