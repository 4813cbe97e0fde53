---------------------------- MODULE FeeSchedule ----------------------------
(***************************************************************************)
(* What the swap fee promises, as properties of the pool.  The reference   *)
(* definition of a fee is a ratio of integers without rounding; the code   *)
(* computes it in the fixed-point arithmetic of PreciseNumber and rounds   *)
(* the result up.  The properties read what a swap took out of the         *)
(* reserves, not what ApplyFee returned, so those on the fee charged are   *)
(* about swaps without a protocol fee that do not name the reserves as     *)
(* their destination: then the rest of the stake is what the pool earned.  *)
(***************************************************************************)
EXTENDS UnstakePool

Liquidity == incoming + reserves

(* A ratio as an exact fraction: the linear schedule's two ends brought to *)
(* one denominator.                                                        *)
SlopeDenom == fee.max_liq_remaining.denom * fee.zero_liq_remaining.denom
MaxNum     == fee.max_liq_remaining.num * fee.zero_liq_remaining.denom
ZeroNum    == fee.zero_liq_remaining.num * fee.max_liq_remaining.denom

(* The solution y of  y = m (I + (1-y) S) + c  in the diagram of apply(),  *)
(* with m = (z - c) / L, I incoming stake, S the stake sold, L liquidity.  *)
ExactLinear(liquidity, stake) ==
    [num   |-> (ZeroNum - MaxNum) * (incoming + stake) + MaxNum * liquidity,
     denom |-> SlopeDenom * liquidity + (ZeroNum - MaxNum) * stake]

ExactRatio(liquidity, stake) ==
    IF fee.kind = "Flat" THEN fee.ratio ELSE ExactLinear(liquidity, stake)

(* Stake account s is sold in this step; and lamports left the reserves.   *)
Sold(s) == s \notin records /\ s \in records'
PaidFor(s) == Sold(s) /\ reserves' < reserves - RecordTopUp(s)

(* What the pool keeps of the stake, once the record's rent is paid: the   *)
(* fee, where none of it goes to the protocol.                             *)
Kept(s) == lamports[s] - (reserves - RecordTopUp(s) - reserves')

NoProtocolFee == protocolFee.fee_ratio.num = 0

(* What the next swap of s would cost.                                     *)
Quote(s) == ApplyFee(fee, incoming, reserves - RecordTopUp(s), lamports[s])

(* Its ratio is not beyond the one for zero liquidity.                     *)
OnSchedule(s) ==
    fee.kind = "LiquidityLinear" =>
        FeeRatio(fee, incoming, reserves - RecordTopUp(s), lamports[s])
            <= IntoPrecise(fee.zero_liq_remaining)

OnSale == {s \in Stakes : /\ phase[s] # "none" /\ s \notin records
                          /\ RecordTopUp(s) <= reserves}

-----------------------------------------------------------------------------
(* A swap charges the exact fee: the ratio is at most three units of the   *)
(* fixed-point scale below and two above the exact one, and the fee is     *)
(* rounded up to a whole lamport.  Two units are lost where the ends of    *)
(* the schedule are rounded down, one where the two are divided.           *)
ChargedBySchedule ==
    [][\A s \in Stakes : PaidFor(s) /\ NoProtocolFee =>
           LET stake == lamports[s]
               exact == ExactRatio(Liquidity - RecordTopUp(s), stake)
           IN  /\ (Kept(s) * ONE + 3 * stake) * exact.denom >= stake * ONE * exact.num
               /\ ((Kept(s) - 1) * ONE - 2 * stake) * exact.denom
                      < stake * ONE * exact.num]_vars

(* A swap the reserves can pay is never charged more than the ratio for    *)
(* zero liquidity nor less than the ratio for all liquidity, whatever the  *)
(* stake's size: the liquidity check bounds the fee (fee.rs:67-74, and the *)
(* note on larger ratios at fee.rs:156-157).  The fee is rounded up before *)
(* that check, so a swap passes that is short of a lamport, and for that   *)
(* one the schedule goes on as steeply beyond its end: a pool nearly       *)
(* drained charges a large stake more than the end by a lamport's share.   *)
ChargedInRange ==
    [][\A s \in Stakes : PaidFor(s) /\ NoProtocolFee /\ fee.kind = "LiquidityLinear" =>
           LET stake     == lamports[s]
               liquidity == Liquidity - RecordTopUp(s)
           IN  /\ (Kept(s) * ONE + stake) * SlopeDenom >= stake * ONE * MaxNum
               /\ ((Kept(s) - 1) * ONE - stake) * SlopeDenom * liquidity
                      < stake * ONE * (ZeroNum * liquidity + (ZeroNum - MaxNum))]_vars

(* Paying for one stake account never makes the next one cheaper, and      *)
(* neither a deposit nor a reclaim makes it dearer, not even by a lamport  *)
(* of rounding: the fee follows the share of the liquidity that is locked  *)
(* in stake.  The first half is about stake the pool can pay for.  Beyond  *)
(* the schedule's end the line is too steep: there a larger pool would     *)
(* charge less although it holds more stake.                               *)
QuotesFollowLiquidity ==
    [][\A s \in OnSale :
           s \in OnSale' /\ fee' = fee
           /\ UNCHANGED <<lamports[s], recordLamports[s]>> =>
             /\ (\E t \in Stakes : Sold(t)) /\ reserves' < reserves /\ OnSchedule(s)
                    => Quote(s)' >= Quote(s)
             /\ supply' > supply \/ (\E t \in records : t \notin records')
                    => Quote(s)' <= Quote(s)]_vars

(* A fee that set_fee accepts can be charged: the documented invariants of *)
(* a LiquidityLinear fee are "max_liq_remaining <= zero_liq_remaining"     *)
(* (fee.rs:62), so equal ends are a valid, constant fee.                   *)
ValidFeeQuotes == \A s \in OnSale : Quote(s) \in U64

=============================================================================
