------------------------------- MODULE Cranks -------------------------------
(***************************************************************************)
(* The command line's cranks, deactivate_all and reclaim_all, run over and *)
(* over by operators.  A run lists the pool's stake accounts once, cuts    *)
(* the list into batches and sends each batch as one transaction without   *)
(* waiting for it.  The node simulates a transaction before it takes it;   *)
(* one that fails there ends the run.  One that was taken may be executed  *)
(* later, on stake accounts that have changed since, or expire.            *)
(*                                                                         *)
(* The pool is abstracted to StakeBook, which UnstakePool implements.      *)
(***************************************************************************)
EXTENDS StakeBook, SequencesExt

CONSTANTS
    Deactivators,          \* operators of deactivate_all
    Reclaimers,            \* operators of reclaim_all
    DeactivateBatchSize,   \* 7 in the code
    ReclaimBatchSize,      \* 5 in the code
    Strays                 \* stake accounts that owners may make over by hand

Operators == Deactivators \cup Reclaimers

ASSUME OperatorsAssumption == Deactivators \cap Reclaimers = {}
ASSUME BatchAssumption ==
    DeactivateBatchSize \in Nat \ {0} /\ ReclaimBatchSize \in Nat \ {0}
ASSUME StraysAssumption == IsFiniteSet(Stakes) /\ Strays \subseteq Stakes

VARIABLES
    todo,      \* what is left of each operator's list, <<>> between runs
    inFlight   \* batches of which a copy was sent and has not expired

crankVars == <<todo, inFlight>>
vars == <<bookVars, crankVars>>

Batches ==
    [task : {"deactivate"}, stakes : {b \in SUBSET Stakes :
                                        Cardinality(b) \in 1 .. DeactivateBatchSize}]
    \cup
    [task : {"reclaim"}, stakes : {b \in SUBSET Stakes :
                                     Cardinality(b) \in 1 .. ReclaimBatchSize}]

-----------------------------------------------------------------------------
(* The list: every stake account whose withdrawer is the pool.  The filter *)
(* for accounts with a record (utils/state.rs:104-114) compares addresses  *)
(* instead of looking the record up, and never leaves one out.             *)
ToDeactivate == {s \in held : phase[s] = "active"}

ListedOnceInactive == {s \in held : phase[s] = "inactive"}   \* Fault

ToReclaim == {s \in held : phase[s] \in Settled}

StartRun(o) ==
    /\ todo[o] = <<>>
    /\ \E list \in SetToSeqs(IF o \in Reclaimers THEN ToReclaim ELSE ToDeactivate) :
           /\ list # <<>>
           /\ todo' = [todo EXCEPT ![o] = list]
    /\ UNCHANGED <<bookVars, inFlight>>

(* Batches are as large as they can be.                                    *)
BatchLengthPlusOne(o) ==   \* Fault
    LET size == IF o \in Reclaimers THEN ReclaimBatchSize ELSE DeactivateBatchSize
    IN  IF Len(todo[o]) <= size THEN Len(todo[o]) ELSE size + 1

BatchLength(o) ==
    LET size == IF o \in Reclaimers THEN ReclaimBatchSize ELSE DeactivateBatchSize
    IN  IF Len(todo[o]) < size THEN Len(todo[o]) ELSE size

FirstBatch(o) ==
    [task   |-> IF o \in Reclaimers THEN "reclaim" ELSE "deactivate",
     stakes |-> ToSet(SubSeq(todo[o], 1, BatchLength(o)))]

(* All instructions of a transaction succeed, or none is executed.         *)
CanExecute(tx) ==
    IF tx.task = "reclaim"
    THEN \A s \in tx.stakes : CanCollect(s)
    ELSE \A s \in tx.stakes : CanDeactivate(s)

(* Sending a batch that would fail panics: the rest of the list is lost.   *)
SendBatch(o) ==
    /\ todo[o] # <<>>
    /\ IF CanExecute(FirstBatch(o))
       THEN /\ inFlight' = inFlight \cup {FirstBatch(o)}
            /\ todo' = [todo EXCEPT ![o] = SubSeq(@, BatchLength(o) + 1, Len(@))]
       ELSE /\ todo' = [todo EXCEPT ![o] = <<>>]
            /\ UNCHANGED inFlight
    /\ UNCHANGED bookVars

-----------------------------------------------------------------------------
(* The cluster.  A batch that can no longer execute is a stutter.          *)
Land(tx) ==
    /\ tx \in inFlight
    /\ CanExecute(tx)
    /\ IF tx.task = "reclaim"
       THEN /\ phase' = [s \in Stakes |-> IF s \in tx.stakes THEN "none" ELSE phase[s]]
            /\ held' = held \ tx.stakes
            /\ steered' = steered \ tx.stakes
            /\ records' = records \ tx.stakes
       ELSE /\ phase' = [s \in Stakes |-> IF s \in tx.stakes
                                          THEN AfterDeactivation(phase[s])
                                          ELSE phase[s]]
            /\ UNCHANGED <<held, steered, records>>
    /\ UNCHANGED crankVars

Expire(tx) ==
    /\ tx \in inFlight
    /\ inFlight' = inFlight \ {tx}
    /\ UNCHANGED <<bookVars, todo>>

(* Sellers, owners, epochs, and single instructions sent by anybody else.  *)
OthersAct ==
    /\ Next
    /\ (held' \ held) \cup (steered' \ steered) \subseteq records' \cup Strays
    /\ UNCHANGED crankVars

CranksInit ==
    /\ Init
    /\ todo = [o \in Operators |-> <<>>]
    /\ inFlight = {}

CranksNext ==
    \/ \E o \in Operators : StartRun(o) \/ SendBatch(o)
    \/ \E tx \in inFlight : Land(tx) \/ Expire(tx)
    \/ OthersAct

CranksSpec == CranksInit /\ [][CranksNext]_vars

(* Operators start run after run and epochs pass.  A batch that is sent    *)
(* again and again gets executed in the end, if it can be.                 *)
Fairness ==
    /\ \A o \in Operators : WF_vars(StartRun(o) \/ SendBatch(o))
    /\ \A tx \in Batches : SF_vars(Land(tx))
    /\ \A s \in Stakes : WF_vars(EpochPasses(s) /\ UNCHANGED crankVars)

FairCranksSpec == CranksSpec /\ Fairness

-----------------------------------------------------------------------------
(* Properties.                                                             *)

(* The ranges of the variables.  Batches keep to their sizes, and a record *)
(* always names a stake account under the pool's control.                  *)
CranksTypeOK ==
    /\ phase \in [Stakes -> Delegation]
    /\ records \subseteq held \cap steered /\ held \cup steered \subseteq Stakes
    /\ todo \in [Operators -> Seq(Stakes)]
    /\ \A o \in Operators : IsInjective(todo[o])
    /\ inFlight \subseteq Batches

(* Once sales stop the two cranks get every stake account back, although   *)
(* batches fail, runs are cut short, transactions expire and others        *)
(* reclaim in between (the commands' help: "Reclaims SOL from all          *)
(* deactivated stake accounts back into the liquidity pool",               *)
(* reclaim_all.rs:22).                                                     *)
DrainsWhenSalesStop ==
    <>[][records' \subseteq records]_vars => <>[](records = {})

=============================================================================
