----------------------------- MODULE StakeBook -----------------------------
(***************************************************************************)
(* What the pool promises of the stake accounts it buys, without lamports: *)
(* from the sale to its collection a stake account is under the pool's     *)
(* control, only the pool and the passing of epochs change its delegation, *)
(* and only ever towards the state in which it can be collected.           *)
(***************************************************************************)
EXTENDS Naturals

CONSTANT Stakes   \* addresses of stake accounts

VARIABLES
    phase,     \* delegation of each stake account, "none" if absent
    held,      \* stake accounts whose withdrawer is the pool
    steered,   \* stake accounts whose staker is the pool
    records    \* stake accounts with a record

bookVars == <<phase, held, steered, records>>

Delegation == {"none", "undelegated", "activating", "active", "deactivating", "inactive"}

(* Nothing is staked, so everything can be withdrawn.                      *)
Settled == {"undelegated", "inactive"}

Init ==
    /\ phase = [s \in Stakes |-> "none"]
    /\ held = {} /\ steered = {} /\ records = {}

Sell(s) ==
    /\ phase[s] # "none"
    /\ s \notin held
    /\ held' = held \cup {s}
    /\ steered' = steered \cup {s}
    /\ records' = records \cup {s}
    /\ UNCHANGED phase

CanDeactivate(s) == s \in steered /\ phase[s] \in {"activating", "active"}

AfterDeactivation(ph) == IF ph = "activating" THEN "inactive" ELSE "deactivating"

Deactivate(s) ==
    /\ CanDeactivate(s)
    /\ phase' = [phase EXCEPT ![s] = AfterDeactivation(@)]
    /\ UNCHANGED <<held, steered, records>>

CanCollect(s) == s \in records /\ phase[s] \in Settled

Collect(s) ==
    /\ CanCollect(s)
    /\ phase' = [phase EXCEPT ![s] = "none"]
    /\ held' = held \ {s}
    /\ steered' = steered \ {s}
    /\ records' = records \ {s}

(* Owners do as they like with what they have not sold, but what they make *)
(* over to the pool by hand stays there.                                   *)
OwnerActs(s) ==
    /\ s \notin records
    /\ \E ph \in Delegation : phase' = [phase EXCEPT ![s] = ph]
    /\ held' \in {held \cup {s}, held \ {s}}
    /\ steered' \in {steered \cup {s}, steered \ {s}}
    /\ s \in held /\ phase[s] # "none" => s \in held' /\ phase'[s] # "none"
    /\ UNCHANGED records

EpochPasses(s) ==
    /\ \/ phase[s] = "activating" /\ phase' = [phase EXCEPT ![s] = "active"]
       \/ phase[s] = "deactivating" /\ phase' = [phase EXCEPT ![s] = "inactive"]
    /\ UNCHANGED <<held, steered, records>>

Next == \E s \in Stakes :
    Sell(s) \/ Deactivate(s) \/ Collect(s) \/ OwnerActs(s) \/ EpochPasses(s)

Spec == Init /\ [][Next]_bookVars

=============================================================================
