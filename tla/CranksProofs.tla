---------------------------- MODULE CranksProofs ----------------------------
(***************************************************************************)
(* Proofs about the cranks, for any number of operators and stake accounts *)
(* and any batch sizes.                                                    *)
(***************************************************************************)
EXTENDS Cranks, FiniteSetTheorems, TLAPS

BatchSize(o) == IF o \in Reclaimers THEN ReclaimBatchSize ELSE DeactivateBatchSize

(* A list of a set of stake accounts names each of them once.              *)
LEMMA ListedOnce ==
    ASSUME NEW S \in SUBSET Stakes, NEW list \in SetToSeqs(S)
    PROVE  list \in Seq(Stakes) /\ IsInjective(list)
<1>1. Cardinality(S) \in Nat
  BY StraysAssumption, FS_Subset, FS_CardinalityType
<1>2. list \in [1 .. Cardinality(S) -> S] /\ IsInjective(list)
  BY DEF SetToSeqs, IsInjective
<1>3. list \in Seq(S)
  BY <1>1, <1>2
<1> QED BY <1>2, <1>3

(* The first accounts of a list are a batch, and the rest is a list again. *)
LEMMA FirstOfList ==
    ASSUME NEW list \in Seq(Stakes), IsInjective(list), NEW n \in 1 .. Len(list)
    PROVE  /\ ToSet(SubSeq(list, 1, n)) \in SUBSET Stakes
           /\ Cardinality(ToSet(SubSeq(list, 1, n))) \in 1 .. n
           /\ SubSeq(list, n + 1, Len(list)) \in Seq(Stakes)
           /\ IsInjective(SubSeq(list, n + 1, Len(list)))
<1> DEFINE first == SubSeq(list, 1, n)
           rest  == SubSeq(list, n + 1, Len(list))
           batch == ToSet(first)
<1>1. Len(list) \in Nat /\ n \in Nat \ {0} /\ DOMAIN list = 1 .. Len(list)
  OBVIOUS
<1>2. first \in [1 .. n -> Stakes] /\ \A i \in 1 .. n : first[i] = list[i]
  <2>1. first \in Seq(Stakes) /\ Len(first) = n
    BY <1>1
  <2>2. \A i \in 1 .. n : first[i] = list[i]
    BY <1>1
  <2> HIDE DEF first
  <2> QED BY <1>1, <2>1, <2>2
<1>3. /\ rest \in Seq(Stakes) /\ DOMAIN rest = 1 .. Len(list) - n
      /\ \A i \in 1 .. Len(list) - n : rest[i] = list[i + n]
  BY <1>1
<1>4. IsInjective(rest)
  <2> HIDE DEF rest
  <2>1. \A i \in 1 .. Len(list) - n : i + n \in DOMAIN list
    BY <1>1
  <2>2. ASSUME NEW i \in DOMAIN rest, NEW j \in DOMAIN rest, rest[i] = rest[j] PROVE i = j
    <3>1. list[i + n] = list[j + n] /\ i + n \in DOMAIN list /\ j + n \in DOMAIN list
      BY <1>3, <2>1, <2>2
    <3>2. i + n = j + n
      BY <3>1 DEF IsInjective
    <3> QED BY <1>1, <1>3, <3>2
  <2> QED BY <2>2 DEF IsInjective
<1> HIDE DEF first, rest
<1>5. batch \in SUBSET Stakes /\ batch = {first[i] : i \in 1 .. n}
  BY <1>2 DEF ToSet
<1>6. IsFiniteSet(1 .. n) /\ Cardinality(1 .. n) = n
  BY <1>1, FS_Interval
<1>7. IsFiniteSet(batch) /\ Cardinality(batch) <= n
  <2>1. first \in Surjection(1 .. n, batch)
    BY <1>2, <1>5 DEF Surjection
  <2> HIDE DEF batch
  <2> QED BY <1>6, <2>1, FS_Surjection
<1>8. batch # {}
  <2>1. 1 \in 1 .. n
    BY <1>1
  <2> QED BY <1>5, <2>1
<1> HIDE DEF batch
<1>9. Cardinality(batch) \in Nat /\ Cardinality(batch) # 0
  BY <1>7, <1>8, FS_CardinalityType, FS_EmptySet
<1> QED BY <1>1, <1>3, <1>4, <1>5, <1>7, <1>9 DEF batch, first, rest

(* A run's next batch keeps to its size.                                   *)
LEMMA NextBatch ==
    ASSUME CranksTypeOK, NEW o \in Operators, todo[o] # <<>>
    PROVE  /\ FirstBatch(o) \in Batches
           /\ SubSeq(todo[o], BatchLength(o) + 1, Len(todo[o])) \in Seq(Stakes)
           /\ IsInjective(SubSeq(todo[o], BatchLength(o) + 1, Len(todo[o])))
<1> DEFINE list == todo[o]
           n == BatchLength(o)
           size == BatchSize(o)
           batch == ToSet(SubSeq(list, 1, n))
<1>1. list \in Seq(Stakes) /\ IsInjective(list) /\ Len(list) \in Nat \ {0}
  BY DEF CranksTypeOK
<1>2. size \in Nat \ {0}
  BY BatchAssumption DEF BatchSize
<1>3. n = IF Len(list) < size THEN Len(list) ELSE size
  BY DEF BatchLength, BatchSize
<1> HIDE DEF list, n, size
<1>4. n \in 1 .. Len(list) /\ n <= size
  BY <1>1, <1>2, <1>3
<1>5. /\ batch \in SUBSET Stakes /\ Cardinality(batch) \in 1 .. n
      /\ SubSeq(list, n + 1, Len(list)) \in Seq(Stakes)
      /\ IsInjective(SubSeq(list, n + 1, Len(list)))
  BY <1>1, <1>4, FirstOfList
<1> HIDE DEF batch
<1>6. batch \in {b \in SUBSET Stakes : Cardinality(b) \in 1 .. size}
  BY <1>1, <1>2, <1>4, <1>5
<1>7. FirstBatch(o) = [task   |-> IF o \in Reclaimers THEN "reclaim" ELSE "deactivate",
                       stakes |-> batch]
  BY DEF FirstBatch, batch, list, n
<1>8. FirstBatch(o) \in Batches
  <2>1. CASE o \in Reclaimers
    BY <1>6, <1>7, <2>1 DEF Batches, BatchSize, size
  <2>2. CASE o \notin Reclaimers
    BY <1>6, <1>7, <2>2 DEF Batches, BatchSize, size
  <2> QED BY <2>1, <2>2
<1> QED BY <1>5, <1>8 DEF list, n

LEMMA CranksInitType == CranksInit => CranksTypeOK
<1> SUFFICES ASSUME CranksInit PROVE CranksTypeOK
  OBVIOUS
<1>1. /\ phase \in [Stakes -> Delegation]
      /\ records \subseteq held \cap steered /\ held \cup steered \subseteq Stakes
  BY DEF CranksInit, Init, Delegation
<1>2. /\ todo \in [Operators -> Seq(Stakes)]
      /\ \A o \in Operators : IsInjective(todo[o])
  BY DEF CranksInit, IsInjective
<1> QED BY <1>1, <1>2 DEF CranksInit, CranksTypeOK

(* What others do to the book, single instructions included.               *)
LEMMA OthersType ==
    ASSUME CranksTypeOK, OthersAct
    PROVE  CranksTypeOK'
<1>1. PICK s \in Stakes :
          Sell(s) \/ Deactivate(s) \/ Collect(s) \/ OwnerActs(s) \/ EpochPasses(s)
  BY DEF OthersAct, Next
<1>2. /\ phase' \in [Stakes -> Delegation]
      /\ records' \subseteq held' \cap steered' /\ held' \cup steered' \subseteq Stakes
  <2> USE DEF CranksTypeOK
  <2>1. CASE Sell(s)
    BY <2>1 DEF Sell
  <2>2. CASE Deactivate(s)
    BY <2>2 DEF Deactivate, AfterDeactivation, Delegation
  <2>3. CASE Collect(s)
    BY <2>3 DEF Collect, Delegation
  <2>4. CASE OwnerActs(s)
    BY <2>4 DEF OwnerActs
  <2>5. CASE EpochPasses(s)
    BY <2>5 DEF EpochPasses, Delegation
  <2> QED BY <1>1, <2>1, <2>2, <2>3, <2>4, <2>5
<1> QED BY <1>2 DEF OthersAct, crankVars, CranksTypeOK

LEMMA CranksTypeStep == CranksTypeOK /\ [CranksNext]_vars => CranksTypeOK'
<1> SUFFICES ASSUME CranksTypeOK, [CranksNext]_vars PROVE CranksTypeOK'
  OBVIOUS
<1>1. ASSUME NEW o \in Operators, StartRun(o) PROVE CranksTypeOK'
  <2>1. PICK list \in SetToSeqs(IF o \in Reclaimers THEN ToReclaim ELSE ToDeactivate) :
          todo' = [todo EXCEPT ![o] = list]
    BY <1>1 DEF StartRun
  <2>2. ToReclaim \in SUBSET Stakes /\ ToDeactivate \in SUBSET Stakes
    BY DEF CranksTypeOK, ToReclaim, ToDeactivate
  <2>3. list \in Seq(Stakes) /\ IsInjective(list)
    BY <2>1, <2>2, ListedOnce
  <2> QED BY <1>1, <2>1, <2>3 DEF StartRun, bookVars, CranksTypeOK
<1>2. ASSUME NEW o \in Operators, SendBatch(o) PROVE CranksTypeOK'
  <2>1. CASE CanExecute(FirstBatch(o))
    <3>1. /\ FirstBatch(o) \in Batches
          /\ SubSeq(todo[o], BatchLength(o) + 1, Len(todo[o])) \in Seq(Stakes)
          /\ IsInjective(SubSeq(todo[o], BatchLength(o) + 1, Len(todo[o])))
      BY <1>2, NextBatch DEF SendBatch
    <3>2. /\ inFlight' = inFlight \cup {FirstBatch(o)}
          /\ todo' = [todo EXCEPT ![o] =
                         SubSeq(todo[o], BatchLength(o) + 1, Len(todo[o]))]
          /\ UNCHANGED bookVars
      BY <1>2, <2>1 DEF SendBatch
    <3> QED BY <3>1, <3>2 DEF bookVars, CranksTypeOK
  <2>2. CASE ~CanExecute(FirstBatch(o))
    <3>1. todo' = [todo EXCEPT ![o] = <<>>] /\ UNCHANGED <<inFlight, bookVars>>
      BY <1>2, <2>2 DEF SendBatch
    <3>2. <<>> \in Seq(Stakes) /\ IsInjective(<<>>)
      BY DEF IsInjective
    <3> QED BY <3>1, <3>2 DEF bookVars, CranksTypeOK
  <2> QED BY <2>1, <2>2
<1>3. ASSUME NEW tx \in inFlight, Land(tx) PROVE CranksTypeOK'
  <2>1. UNCHANGED <<todo, inFlight>>
    BY <1>3 DEF Land, crankVars
  <2>2. CASE tx.task = "reclaim"
    BY <1>3, <2>1, <2>2 DEF Land, CranksTypeOK, Delegation
  <2>3. CASE tx.task # "reclaim"
    BY <1>3, <2>1, <2>3 DEF Land, CranksTypeOK, Delegation, AfterDeactivation
  <2> QED BY <2>2, <2>3
<1>4. ASSUME NEW tx \in inFlight, Expire(tx) PROVE CranksTypeOK'
  BY <1>4 DEF Expire, bookVars, CranksTypeOK
<1>5. CASE UNCHANGED vars
  BY <1>5 DEF vars, bookVars, crankVars, CranksTypeOK
<1> QED BY <1>1, <1>2, <1>3, <1>4, <1>5, OthersType DEF CranksNext

(* However runs overlap and transactions are delayed, a list names no      *)
(* account twice, no batch is larger than a transaction allows, and every  *)
(* record's stake account stays under the pool's control.                  *)
THEOREM CranksTypeCorrect == CranksSpec => []CranksTypeOK
BY CranksInitType, CranksTypeStep, PTL DEF CranksSpec

=============================================================================
