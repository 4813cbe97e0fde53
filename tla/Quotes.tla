------------------------------- MODULE Quotes -------------------------------
(***************************************************************************)
(* The fee estimate of the TypeScript SDK, and what becomes of it.  A user *)
(* reads the reserves' balance and the pool account one after the other,   *)
(* computes the fee (applyFee), and swaps some time later.  The pool moves *)
(* in between, also between the two reads.                                 *)
(***************************************************************************)
EXTENDS FeeSchedule

VARIABLE quote   \* the estimate in hand or in the making, NoQuote if there is none

NoQuote == [stage |-> "none"]

CeilingOf(r, v) == (v * r.num + r.denom - 1) \div r.denom

(* The linear schedule on what was read, the record's full rent taken off  *)
(* the liquidity, as an exact ratio.  Fault: the stake itself not counted  *)
(* as incoming.                                                            *)
SdkRatioBeforeStake(read, stake) ==
    LET liquidity == read.incoming + read.reserves - RecordRent
        slope     == ZeroNum - MaxNum
    IN  [num   |-> slope * read.incoming + MaxNum * liquidity,
         denom |-> SlopeDenom * liquidity + slope * stake]

ApplyLiquidityLinearFee(read, stake) ==
    LET liquidity == read.incoming + read.reserves - RecordRent
        slope     == ZeroNum - MaxNum
    IN  [num   |-> slope * (read.incoming + stake) + MaxNum * liquidity,
         denom |-> SlopeDenom * liquidity + slope * stake]

(* The code computes the ratio in double precision: the exact one but for  *)
(* the sixteenth digit, which can cost a lamport when it rounds up.        *)
ApplyFeeSdk(read, stake) ==
    CeilingOf(IF fee.kind = "Flat" THEN fee.ratio
              ELSE ApplyLiquidityLinearFee(read, stake), stake)

(* connection.getBalance of the reserves; the fee account and the planned  *)
(* stake are known by then.  The schedule is meant for pools that can pay. *)
ReadReserves(s) ==
    /\ quote.stage = "none"
    /\ phase[s] # "none" /\ s \notin records
    /\ reserves >= RecordRent
    /\ quote' = [stage |-> "reserves", stake |-> s, reserves |-> reserves,
                 since |-> {}]
    /\ UNCHANGED vars

(* program.account.pool.fetch, and the computation.                        *)
ReadPool ==
    /\ quote.stage = "reserves"
    /\ incoming + quote.reserves > RecordRent
    /\ quote' = [stage |-> "quoted", stake |-> quote.stake, since |-> quote.since,
                 estimate |-> ApplyFeeSdk([incoming |-> incoming,
                                           reserves |-> quote.reserves],
                                          lamports[quote.stake])]
    /\ UNCHANGED vars

(* What a step of the pool does to a quote for stake account s.            *)
Effects(s) ==
    (IF reserves' > reserves \/ recordLamports'[s] > recordLamports[s]
        THEN {"relief"} ELSE {})
    \cup (IF reserves' < reserves \/ incoming' > incoming THEN {"drain"} ELSE {})
    \cup (IF fee' # fee \/ lamports'[s] # lamports[s] THEN {"other"} ELSE {})

(* The owners' other steps leave alone what the fee depends on.            *)
Movement ==
    /\ \/ PoolInstruction
       \/ Cluster
       \/ \E u \in Users, s \in Stakes, amount \in StakeAmounts :
              CreateStake(u, s, amount)
    /\ RentState(reserves')

(* A step of the pool.  The quote is used up when its stake is sold, or of *)
(* no more use when something else than the pool's liquidity has changed.  *)
PoolMoves ==
    /\ Movement
    /\ IF quote = NoQuote THEN UNCHANGED quote
       ELSE LET s == quote.stake
            IN  quote' = IF Sold(s) \/ "other" \in Effects(s) THEN NoQuote
                         ELSE [quote EXCEPT !.since = @ \cup Effects(s)]

QuotesInit == Init /\ quote = NoQuote

-----------------------------------------------------------------------------
(* An estimate errs on a known side.  While the pool only gains liquidity  *)
(* (deposits, reclaims, donations) after the first read, the swap costs no *)
(* more than estimated; while it only loses some (sales, redemptions), no  *)
(* less, if the record's address was empty, as the SDK's note requires     *)
(* (liquidityLinear.ts:9).  Both up to the lamport of rounding and what    *)
(* the program's fixed point, of 1 / ONE, may cost a stake of this size:   *)
(* two units of it above and three below.  This holds although the two     *)
(* reads may see two different pools.                                      *)
EstimateErrsKnowingly ==
    [][\A s \in Stakes :
          /\ PaidFor(s) /\ NoProtocolFee
          /\ quote.stage = "quoted" /\ quote.stake = s
          => /\ quote.since \subseteq {"relief"}
                    => (Kept(s) - quote.estimate - 1) * ONE < 2 * lamports[s]
             /\ quote.since \subseteq {"drain"} /\ recordLamports[s] = 0
                    => (quote.estimate - 1 - Kept(s)) * ONE < 3 * lamports[s]]_<<vars, quote>>

=============================================================================
