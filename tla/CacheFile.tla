----------------------------- MODULE CacheFile -----------------------------
(***************************************************************************)
(* What cache.Save (src/internal/cache/cache.go) promises: the cache file  *)
(* is a register. A Save replaces its whole content in one step or leaves  *)
(* it alone, and it returns nil exactly when it has replaced it. A crash   *)
(* leaves one whole content or the one before: a replacement is only sure  *)
(* to outlive a loss of power once it has settled.                         *)
(***************************************************************************)
CONSTANTS
    Saver,                  \* the launchers that may save
    Document,               \* what a Save may write
    Content                 \* what the file may hold, also by other hands

VARIABLES
    body,                   \* the content of the file
    settled,                \* what a loss of power would leave of it
    stage,                  \* how far the Save of each launcher has come
    document                \* what it writes

registerVars == <<body, settled, stage, document>>

Ended == {"idle", "saved", "failed"}

RegisterInit ==
    /\ body \in Content
    /\ settled = body
    /\ stage = [s \in Saver |-> "idle"]
    /\ document \in [Saver -> Document \union Content]

Begin(s) ==
    /\ stage[s] \in Ended
    /\ stage' = [stage EXCEPT ![s] = "saving"]
    /\ \E d \in Document : document' = [document EXCEPT ![s] = d]
    /\ UNCHANGED <<body, settled>>

(* Entries that cannot be stored are refused before anything is written. *)
Refuse(s) ==
    /\ stage[s] \in Ended
    /\ stage' = [stage EXCEPT ![s] = "failed"]
    /\ UNCHANGED <<body, settled, document>>

Replace(s) ==
    /\ stage[s] = "saving"
    /\ body' = document[s]
    /\ stage' = [stage EXCEPT ![s] = "replaced"]
    /\ UNCHANGED <<settled, document>>

ReturnNil(s) ==
    /\ stage[s] = "replaced"
    /\ stage' = [stage EXCEPT ![s] = "saved"]
    /\ UNCHANGED <<body, settled, document>>

ReturnError(s) ==
    /\ stage[s] = "saving"
    /\ stage' = [stage EXCEPT ![s] = "failed"]
    /\ UNCHANGED <<body, settled, document>>

Settle ==
    /\ settled' = body
    /\ UNCHANGED <<body, stage, document>>

(* One launcher dies, or all of them with the power. *)
Die(s) ==
    /\ stage' = [stage EXCEPT ![s] = "idle"]
    /\ UNCHANGED <<body, settled, document>>

PowerLoss ==
    /\ body' \in {body, settled}
    /\ settled' = body'
    /\ stage' = [s \in Saver |-> "idle"]
    /\ UNCHANGED document

RegisterNext ==
    \/ \E s \in Saver : \/ Begin(s) \/ Refuse(s)
                        \/ Replace(s) \/ ReturnNil(s) \/ ReturnError(s)
                        \/ Die(s)
    \/ Settle \/ PowerLoss

RegisterSpec == RegisterInit /\ [][RegisterNext]_registerVars
=============================================================================
