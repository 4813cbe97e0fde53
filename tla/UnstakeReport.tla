---------------------------- MODULE UnstakeReport ----------------------------
(***************************************************************************)
(* The "unstakes" command of the TypeScript CLI: a report of a pool's      *)
(* swaps made from the history of the program's transactions.  A node      *)
(* lists the history in pages, from the newest to the oldest, each page    *)
(* starting before the last transaction of the page before; the pool goes  *)
(* on working, so that the history grows while it is read.  A transaction  *)
(* is one instruction of the program here.                                 *)
(***************************************************************************)
EXTENDS UnstakePool, SequencesExt

CONSTANTS
    BatchSizes,   \* values of --batch_size
    MaxHistory    \* bound: transactions of the program

ASSUME BatchSizesAssumption == BatchSizes \subseteq Nat \ {0}

VARIABLES
    history,   \* the program's transactions, oldest first
    report     \* the run of the command, Idle if there is none

Idle == [stage |-> "idle"]

Undefined == 0   \* no --before or no --until; otherwise a place in history

(* An instruction of some kind, which may have failed.                     *)
Happened(kind, err) ==
    /\ Len(history) < MaxHistory
    /\ history' = Append(history, [kind |-> kind, err |-> err])
    /\ UNCHANGED report

(* Two stand for all others: to the command they are alike.                *)
OtherInstruction ==
    \/ \E amount \in Deposits : AddLiquidity(amount)
    \/ \E s \in Stakes : ReclaimStakeAccount(s)

PoolWorks ==
    /\ \/ \E u \in Users, s \in Stakes, destination \in Users, referrer \in Authorities :
             \/ Unstake(u, s, destination, referrer) /\ Happened("unstake", FALSE)
             \/ UnstakeWsol(u, s, destination, referrer) /\ Happened("unstake_wsol", FALSE)
       \/ OtherInstruction /\ Happened("other", FALSE)
    /\ RentState(reserves')

(* A swap that fails is part of the history, too.                          *)
SwapFails ==
    /\ \E kind \in {"unstake", "unstake_wsol"} : Happened(kind, TRUE)
    /\ UNCHANGED vars

OwnersWork ==
    /\ \E u \in Users, s \in Stakes, amount \in StakeAmounts : CreateStake(u, s, amount)
    /\ UNCHANGED <<history, report>>

-----------------------------------------------------------------------------
StartReport(before, until, size) ==
    /\ report.stage # "paging"
    /\ before \in {Undefined} \cup DOMAIN history
    /\ until \in {Undefined} \cup DOMAIN history
    /\ before = Undefined \/ until < before
    /\ report' = [stage |-> "paging", before |-> before, until |-> until,
                  batchSize |-> size, rows |-> <<>>, unserved |-> {},
                  top |-> IF before = Undefined THEN Len(history) + 1 ELSE before]
    /\ UNCHANGED <<vars, history>>

(* getSignaturesForAddress: the newest after until and before the cursor.  *)
Page ==
    LET last == IF report.before = Undefined THEN Len(history) ELSE report.before - 1
    IN  {i \in report.until + 1 .. last : i > last - report.batchSize}

Succeeded(page) == {i \in page : ~history[i].err}

(* Faults: only the transactions that succeeded are looked at.             *)
NextBeforeSucceeded(page) ==
    IF Succeeded(page) = {} THEN Undefined ELSE Min(Succeeded(page))

HasMoreSucceeded(page) == Cardinality(Succeeded(page)) = report.batchSize

(* The last signature of a page, undefined if the page is empty.           *)
NextBefore(page) == IF page = {} THEN Undefined ELSE Min(page)

HasMore(page) == Cardinality(page) = report.batchSize

(* The report has a row for an unstake instruction of the pool; the data   *)
(* of unstake_wsol is not looked for.  What was unstaken is never zero, so *)
(* that the row is printed: a transaction is one instruction here, and a   *)
(* stake account holds at least its minimum when it is sold.               *)
IsRow(i) == history[i].kind = "unstake"

NewestFirst(rows) == \A j, k \in DOMAIN rows : j < k => rows[j] > rows[k]

(* One turn of the loop.  The rows are added in the order of the page.     *)
(* The node may have no copy of a transaction whose signature it lists;    *)
(* the command leaves it out.                                              *)
ReadPage ==
    /\ report.stage = "paging"
    /\ \E unserved \in SUBSET Succeeded(Page) :
           LET shown == {i \in Succeeded(Page) \ unserved : IsRow(i)}
           IN  \E rows \in SetToSeqs(shown) :
                   /\ NewestFirst(rows)
                   /\ report' = [report EXCEPT
                          !.stage = IF HasMore(Page) THEN "paging" ELSE "done",
                          !.before = NextBefore(Page),
                          !.unserved = @ \cup unserved,
                          !.rows = @ \o rows]
    /\ UNCHANGED <<vars, history>>

ReportInit == Init /\ history = <<>> /\ report = Idle

ReportNext ==
    \/ PoolWorks \/ SwapFails \/ OwnersWork
    \/ \E before, until \in {Undefined} \cup DOMAIN history, size \in BatchSizes :
           StartReport(before, until, size)
    \/ ReadPage

reportVars == <<vars, history, report>>

ReportSpec == ReportInit /\ [][ReportNext]_reportVars /\ WF_reportVars(ReadPage)

-----------------------------------------------------------------------------
(* Properties.                                                             *)

Places == {report.rows[k] : k \in DOMAIN report.rows}

InWindow == report.until + 1 .. report.top - 1

(* The swaps of the history: both instructions unstake a stake account     *)
(* (SPEC.md:280).                                                          *)
Unstakes ==
    {i \in DOMAIN history :
        history[i].kind \in {"unstake", "unstake_wsol"} /\ ~history[i].err}

(* "gets all successful unstakes for a pool" (cli.ts:466): the finished    *)
(* report shows each one between --until and --before, save those the node *)
(* could not serve.                                                        *)
ReportIsComplete ==
    report.stage = "done" =>
        (Unstakes \cap InWindow) \ report.unserved \subseteq Places

(* What the paging promises of it.  The unstakes paid in SOL are complete, *)
(* although the history grew while it was read, pages held nothing but     *)
(* failed transactions and those of other kinds, and the last page may     *)
(* have been full; and whatever the report shows is a swap that succeeded  *)
(* after --until, once and newest first.  Without --before it may show     *)
(* what came after its start.                                              *)
PagesSkipNothing ==
    report.stage = "done" =>
        /\ {i \in InWindow : history[i] = [kind |-> "unstake", err |-> FALSE]}
               \ report.unserved \subseteq Places
        /\ Places \subseteq Unstakes
        /\ \A i \in Places : i > report.until
        /\ NewestFirst(report.rows)

(* The command ends however busy the pool is: each page is older than the  *)
(* one before.                                                             *)
ReportEnds == report.stage = "paging" ~> report.stage = "done"

=============================================================================
