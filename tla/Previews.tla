------------------------------ MODULE Previews ------------------------------
(***************************************************************************)
(* The preview of the TypeScript SDK (previewUnstake, previewUnstakeWsol): *)
(* what a swap would change at its destination.  Two requests are sent at  *)
(* once, for the balance of an account and for a simulation of the swap    *)
(* that reports the same account afterwards.  The node answers them in     *)
(* either order, and the pool and the account move in between and until    *)
(* the swap.                                                               *)
(***************************************************************************)
EXTENDS Quotes

CONSTANTS
    Requests,     \* previews asked for: an instruction and a destination
    NetworkFee,   \* what a transaction costs its fee payer, the unstaker
    Balances      \* bound: balances of the account a preview looks at

Unnamed == "unnamed"   \* no destination given

ASSUME RequestsAssumption ==
    /\ Requests \subseteq [instruction : {"unstake", "unstake_wsol"},
                           destination : {Unnamed, "wsol_ata", "other"}]
    /\ NetworkFee \in Nat /\ Balances \subseteq Nat

Unanswered == -1

(* Where the swap pays to: the default of unstakeTx and of unstakeWsolTx.  *)
Destination(request) ==
    IF request.destination # Unnamed THEN request.destination
    ELSE IF request.instruction = "unstake" THEN "unstaker" ELSE "wsol_ata"

(* The account the preview looks at.  Fault: the unstaker's in any case.   *)
ObservedUnstaker(request) == "unstaker"

Observed(request) ==
    IF request.destination = Unnamed THEN "unstaker" ELSE request.destination

Payout(s) == lamports[s] - Quote(s)

(* What the simulated swap changes at the observed account: its payout, if *)
(* it is the destination, and the network fee, if it is the fee payer.     *)
SimulatedChange(s, request) ==
    (IF Observed(request) = Destination(request) THEN Payout(s) ELSE 0)
    - (IF Observed(request) = "unstaker" THEN NetworkFee ELSE 0)

Change(q) == q.post - q.pre

(* The stake account is not sold yet, and its owner asks for a preview.    *)
Request(s, request, balance) ==
    /\ quote.stage = "none"
    /\ phase[s] # "none" /\ s \notin records
    /\ quote' = [stage |-> "requested", stake |-> s, request |-> request, since |-> {},
                 pre |-> Unanswered, post |-> Unanswered,
                 balance |-> balance, steady |-> TRUE]
    /\ UNCHANGED vars

(* Both answers make the preview.                                          *)
Answered(q) ==
    IF Unanswered \in {q.pre, q.post} THEN q
    ELSE [stage |-> "previewed", stake |-> q.stake, request |-> q.request,
          since |-> q.since, steady |-> q.steady, change |-> Change(q)]

AnswerBalance ==
    /\ quote.stage = "requested" /\ quote.pre = Unanswered
    /\ quote' = Answered([quote EXCEPT !.pre = quote.balance])
    /\ UNCHANGED vars

(* A swap of s by u that pays u and names no referrer would pass its       *)
(* checks, and leave the reserves in a rent state.                         *)
CanUnstake(u, s) ==
    LET left == reserves - RecordTopUp(s) - Payout(s)
        levy == FloorMul(protocolFee.fee_ratio, Quote(s))
    IN  /\ s \in OnSale /\ withdrawer[s] = u /\ ~locked[s]
        /\ Quote(s) \in U64 /\ Payout(s) \in U64 /\ levy \in U64
        /\ levy <= left
        /\ incoming + lamports[s] \in U64
        /\ RentState(left - PaidOut(protocolFee.destination, levy))

(* Only a swap that succeeds has a result; previewUnstake throws otherwise.*)
AnswerSimulation ==
    /\ quote.stage = "requested" /\ quote.post = Unanswered
    /\ LET s == quote.stake
       IN  IF \E u \in Users : CanUnstake(u, s)
           THEN quote' = Answered([quote EXCEPT
                    !.post = quote.balance + SimulatedChange(s, quote.request),
                    !.since = {}])
           ELSE quote' = NoQuote
    /\ UNCHANGED vars

(* Others pay into the account, or its owner out of it, between the two    *)
(* answers.                                                                *)
AccountMoves(balance) ==
    /\ quote.stage = "requested" /\ balance # quote.balance
    /\ (quote.pre = Unanswered) # (quote.post = Unanswered)
    /\ quote' = [quote EXCEPT !.balance = balance, !.steady = FALSE]
    /\ UNCHANGED vars

(* The SDK's user asks for an estimate or for a preview.                   *)
PreviewsNext ==
    \/ PoolMoves
    \/ ReadPool \/ \E s \in Stakes : ReadReserves(s)
    \/ \E s \in Stakes, request \in Requests, balance \in Balances :
           Request(s, request, balance)
    \/ AnswerBalance \/ AnswerSimulation
    \/ \E balance \in Balances : AccountMoves(balance)

PreviewsSpec == QuotesInit /\ [][PreviewsNext]_<<vars, quote>>

-----------------------------------------------------------------------------
(* The swap of s pays a user's account this much (pools without protocol   *)
(* fee, as in FeeSchedule).                                                *)
Paid(s) == lamports[s] - Kept(s)

(* What the preview says the destination gets: the network fee is no part  *)
(* of it (preview.ts:15-16).                                               *)
Previewed(q) ==
    q.change + (IF Observed(q.request) = "unstaker" THEN NetworkFee ELSE 0)

(* A swap that was previewed, the account at rest between the answers.     *)
Swapped(s) ==
    /\ PaidFor(s) /\ NoProtocolFee
    /\ quote.stage = "previewed" /\ quote.stake = s /\ quote.steady

(* The requests that pay where the documentation of both instructions says *)
(* the preview looks: all but unstake_wsol without a destination.          *)
DestinationGiven(request) ==
    request.instruction = "unstake_wsol" => request.destination # Unnamed

(* previewUnstake, "@returns the change in lamports to the `destination`   *)
(* account, caused by the unstake" (preview.ts:15): a swap of the pool as  *)
(* it was previewed pays exactly that.                                     *)
PreviewIsThePayout ==
    [][\A s \in Stakes : Swapped(s) /\ quote.since = {} =>
           Paid(s) = Previewed(quote)]_<<vars, quote>>

(* And of a pool that moved since, it errs on a known side: gains of       *)
(* liquidity do not lower the payout, and losses raise it by no more than  *)
(* a lamport of rounding and a unit of the program's fixed point, which    *)
(* costs a stake of 1000 SOL another lamport.  The swap names no minimum,  *)
(* so this is all that the unstaker can rely on.                           *)
PreviewErrsKnowingly ==
    [][\A s \in Stakes : Swapped(s) /\ DestinationGiven(quote.request) =>
           /\ quote.since = {} => Paid(s) = Previewed(quote)
           /\ quote.since \subseteq {"relief"} => Paid(s) >= Previewed(quote)
           /\ quote.since \subseteq {"drain"}
                  => (Paid(s) - Previewed(quote) - 1) * ONE < lamports[s]]_<<vars, quote>>

=============================================================================
