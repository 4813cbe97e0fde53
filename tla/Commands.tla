------------------------------ MODULE Commands ------------------------------
(***************************************************************************)
(* The administrative subcommands of the Rust CLI over the accounts of     *)
(* PoolAdmin, run by several operators at once.  A command derives every   *)
(* account from the pool it is given, so its accounts fit together.  It    *)
(* sends one transaction, which the node simulates first; if that fails    *)
(* the command panics.  A command does not wait for its transaction, which *)
(* lands later or never (send_or_sim_tx; with --dry-run it is simulated    *)
(* only).  Operators use no other client; the other wallets sign whatever  *)
(* they like.                                                              *)
(***************************************************************************)
EXTENDS PoolAdmin, FeeFile

CONSTANTS
    Operators,   \* the wallets of those who use the CLI
    Files        \* the contents of fee files: a FeeEnum of Decimals

ASSUME OperatorsAssumption == Operators \subseteq Wallets

ASSUME FilesAssumption ==
    \A file \in Files :
        /\ file.kind \in {"Flat", "LiquidityLinear"}
        /\ FileNumbers(file) \subseteq Decimal
        /\ ConvertFee(file) \subseteq Fees

(* The simulation of a transaction on the accounts as they are: execution  *)
(* fails in the checks of its instruction or not at all.                   *)
Accepted(t) ==
    \/ t.type = "create_pool" /\ CanCreatePool(t)
    \/ t.type = "set_fee" /\ CanSetFee(t)
    \/ t.type = "set_fee_authority" /\ FeeAuthoritySigned(t)
    \/ t.type = "set_flash_loan_fee" /\ CanSetFlashLoanFee(t)
    \/ t.type = "set_lp_token_metadata" /\ CanSetLpTokenMetadata(t)
    \/ t.type = "init_protocol_fee" /\ protocolFee = Nobody
    \/ t.type = "set_protocol_fee" /\ CanSetProtocolFee(t)

(* Fault: sent without simulation.                                         *)
SendUnchecked(t) == t \in Proposed /\ Sign(t)

SendTx(t) == t \in Proposed /\ Accepted(t) /\ Sign(t)

(* --dry-run: the simulation's result is shown, whatever it is.            *)
DryRun == UNCHANGED vars

(* The fee authority signs, by default the configured wallet, which pays.  *)
CreatePoolCommand(w, p, m, file) ==
    \E fee \in ConvertFee(file) :
        SendTx([type |-> "create_pool", signer |-> w, authority |-> w, pool |-> p,
                fee_account |-> p, pool_sol_reserves |-> p, lp_mint |-> m,
                fee |-> fee])

SetFeeCommand(w, p, file) ==
    \E fee \in ConvertFee(file) :
        SendTx([type |-> "set_fee", signer |-> w, authority |-> w, pool |-> p,
                fee_account |-> p, fee |-> fee])

SetFeeAuthorityCommand(w, p, new) ==
    SendTx([type |-> "set_fee_authority", signer |-> w, authority |-> w, pool |-> p,
            new_fee_authority |-> new])

(* The fee is a constant of the command, a tenth of a percent.             *)
SetFlashLoanFeeCommand(w, p) ==
    SendTx([type |-> "set_flash_loan_fee", signer |-> w, authority |-> w, pool |-> p,
            flash_loan_fee_account |-> p, fee_ratio |-> [num |-> 1, denom |-> 1000]])

(* The mint is read from the pool account, whose absence is a panic.       *)
SetLpTokenMetadataCommand(w, p, d) ==
    /\ pools[p] # Nobody
    /\ SendTx([type |-> "set_lp_token_metadata", signer |-> w, authority |-> w,
               pool |-> p, pool_sol_reserves |-> p, lp_mint |-> pools[p].lp_mint,
               metadata |-> pools[p].lp_mint, data |-> d])

InitProtocolFeeCommand(w) ==
    SendTx([type |-> "init_protocol_fee", signer |-> w])

Command(w) ==
    \/ \E p \in Pools :
          \/ \E m \in Mints, file \in Files : CreatePoolCommand(w, p, m, file)
          \/ \E file \in Files : SetFeeCommand(w, p, file)
          \/ \E new \in Addresses : SetFeeAuthorityCommand(w, p, new)
          \/ SetFlashLoanFeeCommand(w, p)
          \/ \E d \in Data : SetLpTokenMetadataCommand(w, p, d)
    \/ InitProtocolFeeCommand(w)

CommandNext ==
    \/ \E w \in Operators : Command(w)
    \/ DryRun
    \/ \E t \in Proposed : t.signer \notin Operators /\ Sign(t)
    \/ \E t \in sent : Land(t) \/ Expire(t)
    \/ \E m \in Mints : OthersMint(m) /\ mintAuthority'[m] \notin Operators

CommandSpec == Init /\ [][CommandNext]_vars

-----------------------------------------------------------------------------
(* While an operator is a pool's fee authority, its fee only becomes what  *)
(* a file says: neither the conversion changes a fee on the way, nor do    *)
(* transactions of others that are executed late.                          *)
FeesAreFiled ==
    [][\A p \in Pools :
          fees'[p] # fees[p] /\ pools'[p].fee_authority \in Operators =>
              \E file \in Files : IsFiled(fees'[p], file)]_vars

(* A transaction that a node accepted fails for one reason only: another   *)
(* one overtook it that founded the same accounts or handed the pool over. *)
(* No fee, description or foreign mint set in between gets in its way,     *)
(* whoever sets it.                                                        *)
Overtaken(t) ==
    CASE t.type = "create_pool" ->
            pools[t.pool] # Nobody \/ mintAuthority[t.lp_mint] # Nobody
      [] t.type = "init_protocol_fee" -> protocolFee # Nobody
      [] OTHER -> pools[t.pool] # Nobody /\ pools[t.pool].fee_authority # t.signer

OnlyOvertakenFail ==
    \A t \in sent : t.signer \in Operators => Accepted(t) \/ Overtaken(t)

=============================================================================
