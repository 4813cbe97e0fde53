------------------------------ MODULE Custody ------------------------------
(***************************************************************************)
(* What the program promises those who administer its accounts: each thing *)
(* (a pool, or the global protocol fee) has a charter, its settings and    *)
(* its holder among them.  A charter changes only as its present holder    *)
(* has consented to, in a signed request for that very thing; a request    *)
(* may be carried out at any later time, or never.  Whoever founds a thing *)
(* holds it, unless somebody is entitled to it from the start.             *)
(***************************************************************************)
CONSTANTS
    Things,     \* what is administered
    Items,      \* the items of a charter besides "holder"
    Addresses,  \* who can hold a thing
    Entitled,   \* the first holder of each thing, Nobody for its founder
    Nobody      \* no holder: the thing is not founded

VARIABLES
    charter,    \* for each thing, its holder and its other items
    consents    \* the requests signed and not yet carried out

vars == <<charter, consents>>

FirstHolder(c) == IF Entitled[c.thing] = Nobody THEN c.by ELSE Entitled[c.thing]

Init ==
    /\ charter \in [Things -> [Items \cup {"holder"} -> {Nobody}]]
    /\ consents = {}

Consent == charter' = charter /\ consents \subseteq consents'

Lapse == charter' = charter /\ consents' \subseteq consents

(* The items a request names take the values it gives; nothing else moves. *)
Amended(c) ==
    [i \in Items \cup {"holder"} |->
        IF i \in DOMAIN c.change THEN c.change[i] ELSE charter[c.thing][i]]

CarryOut(c) ==
    /\ charter' = [charter EXCEPT ![c.thing] = Amended(c)]
    /\ Amended(c)["holder"] \in Addresses
    /\ consents' \subseteq consents

Found(c) ==
    /\ charter[c.thing]["holder"] = Nobody
    /\ Amended(c)["holder"] = FirstHolder(c)
    /\ CarryOut(c)

Amend(c) ==
    /\ charter[c.thing]["holder"] = c.by
    /\ CarryOut(c)

Next == Consent \/ Lapse \/ \E c \in consents : Found(c) \/ Amend(c)

Spec == Init /\ [][Next]_vars

=============================================================================
