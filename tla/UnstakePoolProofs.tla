------------------------- MODULE UnstakePoolProofs -------------------------
(***************************************************************************)
(* Proofs about UnstakePool, for any users, stake accounts, amounts and    *)
(* fees.  The inductive invariant IInv joins the invariants the runs check *)
(* with StakeFunded, a fact about the stake program they rest on.          *)
(***************************************************************************)
EXTENDS UnstakePool, SumLemmas

(* An initialised stake account holds at least its minimum balance.        *)
StakeFunded == \A s \in Stakes : phase[s] # "none" => lamports[s] >= StakeMin

(* What holds also while lamports are on loan.                             *)
AccountsInv ==
    /\ AccountsTypeOK
    /\ StakeFunded
    /\ RecordsControlled
    /\ RecordsCovered
    /\ IncomingIsRecorded

IInv ==
    /\ AccountsInv
    /\ borrowed = 0
    /\ SupplyBacked

(* A step of the pool or around it, whatever it leaves in the reserves.    *)
AnyStep == PoolInstruction \/ Environment

-----------------------------------------------------------------------------
(* Integer division, the one nonlinear operation of the pool's arithmetic. *)
LEMMA DivBounds ==
    ASSUME NEW n \in Nat, NEW c \in Nat \ {0}
    PROVE  /\ n \div c \in Nat
           /\ c * (n \div c) <= n
           /\ n < c * (n \div c) + c
OBVIOUS

(* A ratio of at most one never takes more than it is applied to.          *)
LEMMA FloorMulBounds ==
    ASSUME NEW r \in Rational, ValidRatio(r), NEW v \in Nat
    PROVE  FloorMul(r, v) \in Nat /\ FloorMul(r, v) <= v
<1> DEFINE n == r.num
           d == r.denom
           q == (v * n) \div d
<1>1. n \in Nat /\ d \in Nat \ {0} /\ n <= d
  BY U64MaxAssumption DEF Rational, U64, ValidRatio, Validate, IsLteOne
<1>2. v * n \in Nat /\ v * n <= d * v
  BY <1>1
<1>3. q \in Nat /\ d * q <= v * n
  BY <1>1, <1>2, DivBounds
<1>4. q <= v
  <2> SUFFICES ASSUME q > v PROVE FALSE
    BY <1>3
  <2>1. q >= v + 1
    BY <1>3
  <2>2. d * q >= d * (v + 1)
    BY <1>1, <1>3, <2>1
  <2>3. d * (v + 1) = d * v + d
    BY <1>1
  <2> QED BY <1>1, <1>2, <1>3, <2>2, <2>3
<1> QED BY <1>3, <1>4 DEF FloorMul

-----------------------------------------------------------------------------
(* The type invariant.                                                     *)

(* The protocol's share of a fee, and the referrer's share of that.        *)
LEMMA LevyBounds ==
    ASSUME AccountsTypeOK, NEW amount \in Nat
    PROVE  /\ FloorMul(protocolFee.fee_ratio, amount) \in 0 .. amount
           /\ FloorMul(protocolFee.referrer_fee_ratio, amount) \in 0 .. amount
<1>1. /\ protocolFee.fee_ratio \in Rational
      /\ protocolFee.referrer_fee_ratio \in Rational
      /\ ValidRatio(protocolFee.fee_ratio)
      /\ ValidRatio(protocolFee.referrer_fee_ratio)
  BY FeesAssumption DEF AccountsTypeOK, ValidProtocolFee
<1> QED BY <1>1, FloorMulBounds

(* Unstaking pays out of the reserves no more than the guard checked, and  *)
(* no more than the stake account is worth.                                *)
LEMMA PayoutBounds ==
    ASSUME AccountsTypeOK, NEW s \in Stakes, NEW destination, NEW referrer,
           NEW available \in Nat, NEW feeAmount \in Nat,
           NEW toUnstaker \in Nat, toUnstaker = lamports[s] - feeAmount,
           NEW levy, levy = FloorMul(protocolFee.fee_ratio, feeAmount),
           toUnstaker + levy <= available,
           NEW toReferrer,
           toReferrer = IF referrer = Nobody
                        THEN 0 ELSE FloorMul(protocolFee.referrer_fee_ratio, levy),
           NEW left,
           left = available - PaidOut(destination, toUnstaker)
                            - PaidOut(referrer, toReferrer)
                            - PaidOut(protocolFee.destination, levy - toReferrer)
    PROVE  left \in Nat /\ left >= available - lamports[s] /\ left <= available
<1>1. levy \in Nat /\ levy <= feeAmount
  BY LevyBounds
<1>2. toReferrer \in Nat /\ toReferrer <= levy
  BY <1>1, LevyBounds
<1>3. lamports[s] \in Nat
  BY DEF AccountsTypeOK
<1> QED BY <1>1, <1>2, <1>3 DEF PaidOut

LEMMA RunUnstakePays ==
    ASSUME AccountsTypeOK, NEW s \in Stakes, NEW u, NEW destination, NEW referrer,
           RunUnstake(u, s, destination, referrer)
    PROVE  /\ RecordTopUp(s) \in Nat /\ RecordTopUp(s) <= RecordRent
           /\ recordLamports[s] + RecordTopUp(s) >= RecordRent
           /\ reserves' \in Nat
           /\ reserves' >= reserves - RecordTopUp(s) - lamports[s]
           /\ reserves' <= reserves - RecordTopUp(s)
<1> DEFINE available  == reserves - RecordTopUp(s)
           feeAmount  == ApplyFee(fee, incoming, available, lamports[s])
           toUnstaker == lamports[s] - feeAmount
           levy       == FloorMul(protocolFee.fee_ratio, feeAmount)
           toReferrer == IF referrer = Nobody
                         THEN 0
                         ELSE FloorMul(protocolFee.referrer_fee_ratio, levy)
<1>1. /\ RecordTopUp(s) \in Nat /\ RecordTopUp(s) <= RecordRent
      /\ recordLamports[s] + RecordTopUp(s) >= RecordRent
  BY RentAssumption DEF AccountsTypeOK, RecordTopUp
<1>2. available \in Nat
  BY <1>1 DEF AccountsTypeOK, RunUnstake
<1>3. feeAmount \in Nat /\ toUnstaker \in Nat /\ toUnstaker + levy <= available
  BY U64MaxAssumption DEF RunUnstake, U64
<1>4. reserves' = available - PaidOut(destination, toUnstaker)
                            - PaidOut(referrer, toReferrer)
                            - PaidOut(protocolFee.destination, levy - toReferrer)
  BY DEF RunUnstake
<1>5. reserves' \in Nat /\ reserves' >= available - lamports[s] /\ reserves' <= available
  <2> HIDE DEF available, feeAmount
  <2> QED BY <1>2, <1>3, <1>4, PayoutBounds
<1> QED BY <1>1, <1>5

LEMMA InitType == Init => TypeOK
BY U64MaxAssumption DEF Init, TypeOK, AccountsTypeOK, Phases, Authorities, U64

LEMMA TypeStep ==
    ASSUME AccountsTypeOK, AnyStep
    PROVE  AccountsTypeOK'
<1> USE UsersAssumption, RentAssumption, AmountsAssumption, FeesAssumption, U64MaxAssumption
<1> USE DEF AccountsTypeOK, ledgerVars, configVars, recordVars, stakeVars
<1>1. ASSUME NEW amount \in Deposits, AddLiquidity(amount)
      PROVE  AccountsTypeOK'
  BY <1>1 DEF AddLiquidity, U64
<1>2. ASSUME NEW amountLp \in Burns \cup {supply}, NEW to, RemoveLiquidity(amountLp, to)
      PROVE  AccountsTypeOK'
  BY <1>2 DEF RemoveLiquidity, PaidOut, U64
<1>3. ASSUME NEW u \in Users, NEW s \in Stakes, NEW destination, NEW referrer,
             RunUnstake(u, s, destination, referrer)
      PROVE  AccountsTypeOK'
  <2>1. /\ RecordTopUp(s) \in Nat
        /\ reserves' \in Nat
    BY <1>3, RunUnstakePays
  <2> QED BY <1>3, <2>1 DEF RunUnstake, TakeAuthorities, Authorities, U64
<1>4. ASSUME NEW s \in Stakes, DeactivateStakeAccount(s)
      PROVE  AccountsTypeOK'
  BY <1>4 DEF DeactivateStakeAccount, Deactivated, Phases
<1>5. ASSUME NEW s \in Stakes, ReclaimStakeAccount(s)
      PROVE  AccountsTypeOK'
  BY <1>5 DEF ReclaimStakeAccount, Unbook, CloseStake, Phases, Authorities, U64
<1>6. ASSUME NEW f \in Fees, SetFee(f)
      PROVE  AccountsTypeOK'
  BY <1>6 DEF SetFee
<1>7. ASSUME NEW p \in ProtocolFees, SetProtocolFee(p)
      PROVE  AccountsTypeOK'
  BY <1>7 DEF SetProtocolFee
<1>8. ASSUME NEW u \in Users, NEW s \in Stakes, NEW amount \in StakeAmounts,
             CreateStake(u, s, amount)
      PROVE  AccountsTypeOK'
  BY <1>8 DEF CreateStake, Phases, Authorities
<1>9. ASSUME NEW u \in Users, NEW s \in Stakes,
             \/ DelegateStake(u, s)
             \/ OwnerDeactivate(u, s)
             \/ OwnerWithdraw(u, s)
             \/ SetLockup(u, s)
      PROVE  AccountsTypeOK'
  <2>1. CASE DelegateStake(u, s)
    BY <2>1 DEF DelegateStake, Phases
  <2>2. CASE OwnerDeactivate(u, s)
    BY <2>2 DEF OwnerDeactivate, Deactivated, Phases
  <2>3. CASE OwnerWithdraw(u, s)
    BY <2>3 DEF OwnerWithdraw, CloseStake, Phases, Authorities
  <2>4. CASE SetLockup(u, s)
    BY <2>4 DEF SetLockup
  <2> QED BY <1>9, <2>1, <2>2, <2>3, <2>4
<1>10. ASSUME NEW u \in Users, NEW s \in Stakes, NEW new \in Users \cup {Pool},
              AuthorizeStaker(u, s, new) \/ AuthorizeWithdrawer(u, s, new)
       PROVE  AccountsTypeOK'
  BY <1>10 DEF AuthorizeStaker, AuthorizeWithdrawer, Authorities
<1>11. ASSUME NEW s \in Stakes, LockupExpires(s) \/ EpochPasses(s)
       PROVE  AccountsTypeOK'
  BY <1>11 DEF LockupExpires, EpochPasses, Phases
<1>12. ASSUME NEW amount \in Donations, ReservesReceive(amount)
       PROVE  AccountsTypeOK'
  BY <1>12 DEF ReservesReceive
<1>13. ASSUME NEW amount \in Donations, NEW s \in Stakes,
              StakeReceives(s, amount) \/ RecordReceives(s, amount)
       PROVE  AccountsTypeOK'
  BY <1>13 DEF StakeReceives, RecordReceives
<1>14. ASSUME NEW amountLp \in Burns, HolderBurns(amountLp)
       PROVE  AccountsTypeOK'
  BY <1>14 DEF HolderBurns, U64
<1> QED
  BY <1>1, <1>2, <1>3, <1>4, <1>5, <1>6, <1>7, <1>8, <1>9, <1>10, <1>11, <1>12,
     <1>13, <1>14
  DEF AnyStep, PoolInstruction, Environment, StakeOwner, Cluster, Unstake, UnstakeWsol


-----------------------------------------------------------------------------
(* Stake accounts and records.  Instructions on liquidity and fees leave   *)
(* both alone.                                                             *)

LEMMA StakeFundedStep ==
    ASSUME AccountsTypeOK, StakeFunded, AnyStep
    PROVE  StakeFunded'
<1> USE AmountsAssumption, RentAssumption
<1> USE DEF StakeFunded, AccountsTypeOK, ledgerVars, configVars, recordVars, stakeVars
<1>1. ASSUME UNCHANGED <<phase, lamports>>
      PROVE  StakeFunded'
  BY <1>1
<1>2. ASSUME NEW s \in Stakes, DeactivateStakeAccount(s)
      PROVE  StakeFunded'
  BY <1>2 DEF DeactivateStakeAccount
<1>3. ASSUME NEW s \in Stakes, ReclaimStakeAccount(s)
      PROVE  StakeFunded'
  BY <1>3 DEF ReclaimStakeAccount, Unbook, CloseStake
<1>4. ASSUME NEW u \in Users, NEW s \in Stakes, NEW amount \in StakeAmounts,
             CreateStake(u, s, amount)
      PROVE  StakeFunded'
  BY <1>4 DEF CreateStake
<1>5. ASSUME NEW u \in Users, NEW s \in Stakes, DelegateStake(u, s)
      PROVE  StakeFunded'
  BY <1>5 DEF DelegateStake
<1>6. ASSUME NEW u \in Users, NEW s \in Stakes, OwnerDeactivate(u, s)
      PROVE  StakeFunded'
  BY <1>6 DEF OwnerDeactivate
<1>7. ASSUME NEW u \in Users, NEW s \in Stakes, OwnerWithdraw(u, s)
      PROVE  StakeFunded'
  BY <1>7 DEF OwnerWithdraw, CloseStake
<1>8. ASSUME NEW s \in Stakes, EpochPasses(s)
      PROVE  StakeFunded'
  BY <1>8 DEF EpochPasses
<1>9. ASSUME NEW amount \in Donations, NEW s \in Stakes, StakeReceives(s, amount)
      PROVE  StakeFunded'
  BY <1>9 DEF StakeReceives
<1> QED
  BY <1>1, <1>2, <1>3, <1>4, <1>5, <1>6, <1>7, <1>8, <1>9
  DEF AnyStep, PoolInstruction, Environment, StakeOwner, Cluster, Unstake, UnstakeWsol,
      AddLiquidity, RemoveLiquidity, RunUnstake, SetFee, SetProtocolFee,
      AuthorizeStaker, AuthorizeWithdrawer, SetLockup, LockupExpires,
      ReservesReceive, RecordReceives, HolderBurns

(* Users cannot act on a stake account whose authorities are the pool, and *)
(* the pool acts on one with a record only to deactivate or close it.      *)
LEMMA ControlledStep ==
    ASSUME AccountsTypeOK, RecordsControlled, AnyStep
    PROVE  RecordsControlled'
<1> USE UsersAssumption, AmountsAssumption
<1> USE DEF RecordsControlled, AccountsTypeOK, ledgerVars, configVars, recordVars, stakeVars
<1>1. ASSUME UNCHANGED <<recordVars, stakeVars>>
      PROVE  RecordsControlled'
  BY <1>1
<1>2. ASSUME NEW u \in Users, NEW s \in Stakes, NEW destination, NEW referrer,
             RunUnstake(u, s, destination, referrer)
      PROVE  RecordsControlled'
  <2>1. RecordTopUp(s) \in Nat /\ recordLamports[s] + RecordTopUp(s) >= RecordRent
    BY <1>2, RunUnstakePays
  <2> QED BY <1>2, <2>1 DEF RunUnstake, TakeAuthorities
<1>3. ASSUME NEW s \in Stakes, DeactivateStakeAccount(s)
      PROVE  RecordsControlled'
  BY <1>3 DEF DeactivateStakeAccount, Deactivated
<1>4. ASSUME NEW s \in Stakes, ReclaimStakeAccount(s)
      PROVE  RecordsControlled'
  BY <1>4 DEF ReclaimStakeAccount, Unbook, CloseStake
<1>5. ASSUME NEW u \in Users, NEW s \in Stakes, NEW amount \in StakeAmounts,
             CreateStake(u, s, amount)
      PROVE  RecordsControlled'
  BY <1>5 DEF CreateStake
<1>6. ASSUME NEW u \in Users, NEW s \in Stakes, DelegateStake(u, s)
      PROVE  RecordsControlled'
  BY <1>6 DEF DelegateStake
<1>7. ASSUME NEW u \in Users, NEW s \in Stakes, OwnerDeactivate(u, s)
      PROVE  RecordsControlled'
  BY <1>7 DEF OwnerDeactivate, Deactivated
<1>8. ASSUME NEW u \in Users, NEW s \in Stakes, OwnerWithdraw(u, s)
      PROVE  RecordsControlled'
  BY <1>8 DEF OwnerWithdraw, CloseStake
<1>9. ASSUME NEW u \in Users, NEW s \in Stakes, NEW new \in Users \cup {Pool},
             AuthorizeStaker(u, s, new)
      PROVE  RecordsControlled'
  BY <1>9 DEF AuthorizeStaker
<1>10. ASSUME NEW u \in Users, NEW s \in Stakes, NEW new \in Users \cup {Pool},
              AuthorizeWithdrawer(u, s, new)
       PROVE  RecordsControlled'
  BY <1>10 DEF AuthorizeWithdrawer
<1>11. ASSUME NEW u \in Users, NEW s \in Stakes, SetLockup(u, s)
       PROVE  RecordsControlled'
  BY <1>11 DEF SetLockup
<1>12. ASSUME NEW s \in Stakes, LockupExpires(s)
       PROVE  RecordsControlled'
  BY <1>12 DEF LockupExpires
<1>13. ASSUME NEW s \in Stakes, EpochPasses(s)
       PROVE  RecordsControlled'
  BY <1>13 DEF EpochPasses
<1>14. ASSUME NEW amount \in Donations, NEW s \in Stakes, StakeReceives(s, amount)
       PROVE  RecordsControlled'
  BY <1>14 DEF StakeReceives
<1>15. ASSUME NEW amount \in Donations, NEW s \in Stakes, RecordReceives(s, amount)
       PROVE  RecordsControlled'
  <2>1. \A t \in Stakes : recordLamports'[t] >= recordLamports[t]
    BY <1>15 DEF RecordReceives
  <2> QED BY <1>15, <2>1, RentAssumption DEF RecordReceives
<1> QED
  BY <1>1, <1>2, <1>3, <1>4, <1>5, <1>6, <1>7, <1>8, <1>9, <1>10, <1>11, <1>12,
     <1>13, <1>14, <1>15
  DEF AnyStep, PoolInstruction, Environment, StakeOwner, Cluster, Unstake, UnstakeWsol,
      AddLiquidity, RemoveLiquidity, SetFee, SetProtocolFee, ReservesReceive, HolderBurns

(* A stake account with a record only gains lamports until it is reclaimed.*)
LEMMA CoveredStep ==
    ASSUME AccountsTypeOK, StakeFunded, RecordsControlled, RecordsCovered, AnyStep
    PROVE  RecordsCovered'
<1> USE UsersAssumption, AmountsAssumption, RentAssumption
<1> USE DEF RecordsCovered, AccountsTypeOK, ledgerVars, configVars, recordVars, stakeVars
<1>1. ASSUME UNCHANGED <<records, recorded, lamports>>
      PROVE  RecordsCovered'
  BY <1>1
<1>2. ASSUME NEW u \in Users, NEW s \in Stakes, NEW destination, NEW referrer,
             RunUnstake(u, s, destination, referrer)
      PROVE  RecordsCovered'
  BY <1>2 DEF RunUnstake, StakeFunded
<1>3. ASSUME NEW s \in Stakes, ReclaimStakeAccount(s)
      PROVE  RecordsCovered'
  BY <1>3 DEF ReclaimStakeAccount, Unbook, CloseStake
<1>4. ASSUME NEW u \in Users, NEW s \in Stakes, NEW amount \in StakeAmounts,
             CreateStake(u, s, amount)
      PROVE  RecordsCovered'
  BY <1>4 DEF CreateStake, RecordsControlled
<1>5. ASSUME NEW u \in Users, NEW s \in Stakes, OwnerWithdraw(u, s)
      PROVE  RecordsCovered'
  BY <1>5 DEF OwnerWithdraw, CloseStake, RecordsControlled
<1>6. ASSUME NEW amount \in Donations, NEW s \in Stakes, StakeReceives(s, amount)
      PROVE  RecordsCovered'
  <2>1. \A t \in Stakes : lamports'[t] >= lamports[t]
    BY <1>6 DEF StakeReceives
  <2> QED BY <1>6, <2>1 DEF StakeReceives
<1> QED
  BY <1>1, <1>2, <1>3, <1>4, <1>5, <1>6
  DEF AnyStep, PoolInstruction, Environment, StakeOwner, Cluster, Unstake, UnstakeWsol,
      AddLiquidity, RemoveLiquidity, SetFee, SetProtocolFee, DeactivateStakeAccount,
      DelegateStake, OwnerDeactivate, AuthorizeStaker, AuthorizeWithdrawer, SetLockup,
      LockupExpires, EpochPasses, ReservesReceive, RecordReceives, HolderBurns


-----------------------------------------------------------------------------
(* incoming_stake and the LP supply.                                       *)

LEMMA IncomingStep ==
    ASSUME AccountsTypeOK, IncomingIsRecorded, AnyStep
    PROVE  IncomingIsRecorded'
<1> USE DEF IncomingIsRecorded, ledgerVars, configVars, recordVars, stakeVars
<1>1. ASSUME UNCHANGED <<incoming, records, recorded>>
      PROVE  IncomingIsRecorded'
  BY <1>1
<1>2. IsFiniteSet(records) /\ \A t \in records : recorded[t] \in Nat
  BY UsersAssumption, FS_Subset DEF AccountsTypeOK
<1>3. ASSUME NEW u \in Users, NEW s \in Stakes, NEW destination, NEW referrer,
             RunUnstake(u, s, destination, referrer)
      PROVE  IncomingIsRecorded'
  <2>1. /\ s \notin records /\ records' = records \cup {s}
        /\ incoming' = incoming + lamports[s]
        /\ recorded' = [recorded EXCEPT ![s] = lamports[s]]
    BY <1>3 DEF RunUnstake
  <2>2. /\ recorded'[s] = lamports[s] /\ recorded'[s] \in Nat
        /\ \A t \in records : recorded[t] \in Nat /\ recorded'[t] = recorded[t]
    BY <2>1 DEF AccountsTypeOK
  <2>3. SumFunctionOnSet(recorded', records \cup {s})
          = SumFunctionOnSet(recorded, records) + recorded'[s]
    <3>1. /\ IsFiniteSet(records) /\ s \notin records
          /\ \A t \in records : recorded[t] \in Nat /\ recorded'[t] = recorded[t]
          /\ recorded'[s] \in Nat
      BY <1>2, <2>1, <2>2
    <3> QED BY ONLY <3>1, SumAdd
  <2> QED BY <2>1, <2>2, <2>3
<1>4. ASSUME NEW s \in Stakes, ReclaimStakeAccount(s)
      PROVE  IncomingIsRecorded'
  <2>1. /\ s \in records /\ records' = records \ {s}
        /\ incoming' = incoming - recorded[s]
        /\ recorded' = [recorded EXCEPT ![s] = 0]
    BY <1>4 DEF ReclaimStakeAccount, Unbook
  <2>2. \A t \in records \ {s} : recorded'[t] = recorded[t]
    BY <2>1 DEF AccountsTypeOK
  <2>3. SumFunctionOnSet(recorded', records \ {s})
          = SumFunctionOnSet(recorded, records) - recorded[s]
    <3>1. /\ IsFiniteSet(records) /\ s \in records
          /\ \A t \in records : recorded[t] \in Nat
          /\ \A t \in records \ {s} : recorded'[t] = recorded[t]
      BY <1>2, <2>1, <2>2
    <3> QED BY ONLY <3>1, SumRemove
  <2> QED BY <2>1, <2>3
<1> QED
  BY <1>1, <1>3, <1>4
  DEF AnyStep, PoolInstruction, Environment, StakeOwner, Cluster, Unstake, UnstakeWsol,
      AddLiquidity, RemoveLiquidity, SetFee, SetProtocolFee, DeactivateStakeAccount,
      CreateStake, DelegateStake, OwnerDeactivate, OwnerWithdraw, AuthorizeStaker,
      AuthorizeWithdrawer, SetLockup, LockupExpires, EpochPasses, ReservesReceive,
      StakeReceives, RecordReceives, HolderBurns

(* Redeeming fewer than all shares of a nonempty pool leaves something.    *)
LEMMA ReturnBounds ==
    ASSUME NEW owned \in Nat \ {0}, NEW shares \in Nat \ {0}, NEW burnt \in 0 .. shares
    PROVE  LET ret == LamportsToReturn(owned, shares, burnt)
           IN  /\ ret \in Nat
               /\ ret <= owned
               /\ shares * ret <= burnt * owned
               /\ burnt < shares => ret < owned
               /\ burnt = shares => ret = owned
<1> DEFINE ret == (burnt * owned) \div shares
<1>1. burnt * owned \in Nat
  OBVIOUS
<1>2. ret \in Nat /\ shares * ret <= burnt * owned /\ burnt * owned < shares * ret + shares
  BY <1>1, DivBounds
<1> HIDE DEF ret
<1>3. burnt * owned <= shares * owned
  OBVIOUS
<1>4. burnt < shares => burnt * owned < shares * owned
  OBVIOUS
<1>5. ret > owned => shares * ret > shares * owned
  BY <1>2
<1>6. ret = owned => shares * ret = shares * owned
  OBVIOUS
<1>7. ret <= owned
  BY <1>2, <1>3, <1>5
<1>8. burnt < shares => ret < owned
  BY <1>2, <1>4, <1>6, <1>7
<1>9. burnt = shares => ret = owned
  <2> SUFFICES ASSUME burnt = shares, ret < owned PROVE FALSE
    BY <1>2, <1>7
  <2>1. ret + 1 <= owned
    BY <1>2
  <2>2. shares * (ret + 1) <= shares * owned
    BY <1>2, <2>1
  <2>3. shares * (ret + 1) = shares * ret + shares
    BY <1>2
  <2> QED BY <1>2, <2>2, <2>3
<1>10. LamportsToReturn(owned, shares, burnt) = ret
  BY DEF LamportsToReturn, ret
<1> QED BY <1>2, <1>7, <1>8, <1>9, <1>10


(* Minting rounds down: the new shares are worth no more than the deposit. *)
LEMMA MintBounds ==
    ASSUME NEW owned \in Nat \ {0}, NEW shares \in Nat \ {0}, NEW amount \in Nat
    PROVE  LET minted == LpTokensToMint(owned, shares, amount)
           IN  minted \in Nat /\ (owned + amount) * shares >= owned * (shares + minted)
<1> DEFINE minted == (amount * shares) \div owned
<1>1. amount * shares \in Nat
  OBVIOUS
<1>2. minted \in Nat /\ owned * minted <= amount * shares
  BY <1>1, DivBounds
<1> HIDE DEF minted
<1>3. /\ (owned + amount) * shares = owned * shares + amount * shares
      /\ owned * (shares + minted) = owned * shares + owned * minted
  BY <1>2
<1>4. owned * shares \in Nat /\ owned * minted \in Nat
  BY <1>2
<1>5. (owned + amount) * shares >= owned * (shares + minted)
  BY <1>1, <1>2, <1>3, <1>4
<1>6. LpTokensToMint(owned, shares, amount) = minted
  BY DEF LpTokensToMint, minted
<1> QED BY <1>2, <1>5, <1>6

(* What each kind of step does to the lamports the pool owns.              *)

LEMMA OwnedLamportsType ==
    ASSUME NEW a \in Nat, NEW b \in Nat, NEW c \in Nat
    PROVE  PoolOwnedLamports(a, b, c) \in Nat
BY DEF PoolOwnedLamports

LEMMA OwnedType ==
    ASSUME AccountsTypeOK
    PROVE  /\ reserves \in Nat /\ incoming \in Nat /\ borrowed \in Nat /\ supply \in Nat
           /\ Owned \in Nat /\ Owned = reserves + incoming + borrowed
BY U64MaxAssumption DEF AccountsTypeOK, Owned, PoolOwnedLamports, U64

LEMMA UnstakeOwned ==
    ASSUME AccountsInv, NEW s \in Stakes, NEW u, NEW destination, NEW referrer,
           RunUnstake(u, s, destination, referrer)
    PROVE  Owned' >= Owned - RecordRent /\ Owned' > 0
<1>1. /\ RecordTopUp(s) <= RecordRent /\ RecordTopUp(s) \in Nat
      /\ reserves' \in Nat
      /\ reserves' >= reserves - RecordTopUp(s) - lamports[s]
  BY RunUnstakePays DEF AccountsInv
<1>2. /\ incoming' = incoming + lamports[s]
      /\ borrowed' = borrowed
      /\ phase[s] # "none"
  BY DEF RunUnstake
<1>3. lamports[s] \in Nat /\ lamports[s] > 0
  BY <1>2, RentAssumption DEF AccountsInv, AccountsTypeOK, StakeFunded
<1>4. reserves \in Nat /\ incoming \in Nat /\ borrowed \in Nat
  BY U64MaxAssumption DEF AccountsInv, AccountsTypeOK, U64
<1> QED
  BY <1>1, <1>2, <1>3, <1>4, RentAssumption DEF Owned, PoolOwnedLamports

LEMMA ReclaimOwned ==
    ASSUME AccountsInv, NEW s \in Stakes, ReclaimStakeAccount(s)
    PROVE  Owned' >= Owned + RecordRent /\ Owned' > 0
<1>1. /\ s \in records
      /\ incoming' = incoming - recorded[s]
      /\ reserves' = reserves + lamports[s] + recordLamports[s]
      /\ borrowed' = borrowed
  BY DEF ReclaimStakeAccount, Unbook
<1>2. lamports[s] >= recorded[s] /\ recordLamports[s] >= RecordRent
  BY <1>1 DEF AccountsInv, RecordsCovered, RecordsControlled
<1>3. /\ lamports[s] \in Nat /\ recorded[s] \in Nat /\ recordLamports[s] \in Nat
      /\ reserves \in Nat /\ incoming \in Nat /\ borrowed \in Nat
  BY U64MaxAssumption DEF AccountsInv, AccountsTypeOK, U64
<1>4. Owned = reserves + incoming + borrowed /\ Owned' = reserves' + incoming' + borrowed'
  BY <1>1, <1>3 DEF Owned, PoolOwnedLamports
<1>5. RecordRent \in Nat /\ RecordRent > 0
  BY RentAssumption
<1>6. Owned' = Owned + recordLamports[s] + (lamports[s] - recorded[s])
  BY <1>1, <1>3, <1>4
<1>7. Owned \in Nat
  BY <1>3, <1>4
<1> QED BY <1>2, <1>3, <1>5, <1>6, <1>7

LEMMA BackedStep ==
    ASSUME AccountsInv, SupplyBacked, AccountsTypeOK', AnyStep
    PROVE  SupplyBacked'
<1> USE DEF SupplyBacked
<1>1. Owned \in Nat /\ Owned' \in Nat /\ supply \in Nat
  <2>1. reserves \in Nat /\ incoming \in Nat /\ borrowed \in Nat /\ supply \in Nat
    BY U64MaxAssumption DEF AccountsInv, AccountsTypeOK, U64
  <2>2. reserves' \in Nat /\ incoming' \in Nat /\ borrowed' \in Nat
    BY U64MaxAssumption DEF AccountsTypeOK, U64
  <2> QED BY <2>1, <2>2, OwnedLamportsType DEF Owned
<1>2. ASSUME UNCHANGED <<Owned, supply>>
      PROVE  SupplyBacked'
  BY <1>2
<1>3. ASSUME NEW amount \in Deposits, AddLiquidity(amount)
      PROVE  SupplyBacked'
  <2>1. Owned' = Owned + amount /\ amount \in Nat
    BY <1>3, AmountsAssumption, U64MaxAssumption
    DEF AddLiquidity, Owned, PoolOwnedLamports, AccountsInv, AccountsTypeOK, U64
  <2>2. CASE supply > 0
    BY <1>1, <2>1, <2>2
  <2>3. CASE supply = 0
    <3>1. LpTokensToMint(Owned, supply, amount) = amount + Owned
      BY <1>1, <2>1, <2>3 DEF LpTokensToMint
    <3>2. LpTokensToMint(Owned, supply, amount) # 0
      BY <1>3 DEF AddLiquidity
    <3> QED BY <1>1, <2>1, <3>1, <3>2
  <2> QED BY <1>1, <2>2, <2>3
<1>4. ASSUME NEW amountLp \in Burns \cup {supply}, NEW to, RemoveLiquidity(amountLp, to)
      PROVE  SupplyBacked'
  <2> SUFFICES ASSUME supply' > 0 PROVE Owned' > 0
    OBVIOUS
  <2> DEFINE ret == LamportsToReturn(Owned, supply, amountLp)
  <2>1. /\ supply' = supply - amountLp
        /\ reserves' = reserves - PaidOut(to, ret)
        /\ UNCHANGED <<incoming, borrowed>>
        /\ amountLp <= supply
    BY <1>4 DEF RemoveLiquidity
  <2>2. amountLp \in 0 .. supply
    BY <1>1, <2>1, AmountsAssumption
  <2>3. amountLp < supply
    BY <1>1, <2>1, <2>2
  <2>4. supply > 0 /\ Owned > 0
    BY <1>1, <2>1, <2>2
  <2>5. ret \in Nat /\ ret < Owned
    BY <1>1, <2>2, <2>3, <2>4, ReturnBounds
  <2> HIDE DEF ret
  <2>6. PaidOut(to, ret) < Owned /\ PaidOut(to, ret) \in Nat
    BY <1>1, <2>4, <2>5 DEF PaidOut
  <2>7. Owned' = Owned - PaidOut(to, ret)
    BY <2>1, <2>6, U64MaxAssumption DEF Owned, PoolOwnedLamports, AccountsInv, AccountsTypeOK, U64
  <2> QED BY <1>1, <2>6, <2>7
<1>5. ASSUME NEW u \in Users, NEW s \in Stakes, NEW destination, NEW referrer,
             RunUnstake(u, s, destination, referrer)
      PROVE  SupplyBacked'
  BY <1>5, UnstakeOwned
<1>6. ASSUME NEW s \in Stakes, ReclaimStakeAccount(s)
      PROVE  SupplyBacked'
  BY <1>6, ReclaimOwned
<1>7. ASSUME NEW amount \in Donations, ReservesReceive(amount)
      PROVE  SupplyBacked'
  <2>1. Owned' = Owned + amount /\ amount \in Nat /\ supply' = supply
    BY <1>7, AmountsAssumption, U64MaxAssumption
    DEF ReservesReceive, Owned, PoolOwnedLamports, AccountsInv, AccountsTypeOK, U64
  <2> QED BY <1>1, <2>1
<1>8. ASSUME NEW amountLp \in Burns, HolderBurns(amountLp)
      PROVE  SupplyBacked'
  <2>1. Owned' = Owned /\ supply' = supply - amountLp /\ amountLp \in Nat
    BY <1>8, AmountsAssumption DEF HolderBurns, Owned, PoolOwnedLamports
  <2> QED BY <1>1, <2>1
<1> QED
  BY <1>2, <1>3, <1>4, <1>5, <1>6, <1>7, <1>8
  DEF AnyStep, PoolInstruction, Environment, StakeOwner, Cluster, Unstake, UnstakeWsol,
      SetFee, SetProtocolFee, DeactivateStakeAccount, CreateStake, DelegateStake,
      OwnerDeactivate, OwnerWithdraw, AuthorizeStaker, AuthorizeWithdrawer, SetLockup,
      LockupExpires, EpochPasses, StakeReceives, RecordReceives,
      Owned, PoolOwnedLamports, ledgerVars

(* Only flash loans borrow: nothing else in or around the pool does.       *)
LEMMA OthersLeaveLoans == ASSUME AnyStep PROVE borrowed' = borrowed
<1> USE DEF ledgerVars
<1>1. CASE PoolInstruction
  BY <1>1
  DEF PoolInstruction, Unstake, UnstakeWsol, RunUnstake, AddLiquidity, RemoveLiquidity,
      DeactivateStakeAccount, ReclaimStakeAccount, SetFee, SetProtocolFee
<1>2. CASE StakeOwner
  BY <1>2
  DEF StakeOwner, CreateStake, DelegateStake, OwnerDeactivate, OwnerWithdraw,
      AuthorizeStaker, AuthorizeWithdrawer, SetLockup
<1>3. CASE Cluster
  BY <1>3
  DEF Cluster, LockupExpires, EpochPasses, ReservesReceive, StakeReceives,
      RecordReceives, HolderBurns
<1> QED BY <1>1, <1>2, <1>3 DEF AnyStep, Environment

-----------------------------------------------------------------------------
(* The invariants as theorems.                                             *)

LEMMA IInvInit == Init => IInv
<1> SUFFICES ASSUME Init PROVE IInv
  OBVIOUS
<1>1. TypeOK
  BY InitType
<1>2. StakeFunded /\ RecordsControlled /\ RecordsCovered /\ SupplyBacked
  BY DEF Init, StakeFunded, RecordsControlled, RecordsCovered, SupplyBacked
<1>3. IncomingIsRecorded
  <2>1. SumFunctionOnSet(recorded, {}) = 0
    BY SumEmpty
  <2> QED BY <2>1 DEF Init, IncomingIsRecorded
<1> QED BY <1>1, <1>2, <1>3 DEF IInv, AccountsInv, TypeOK

LEMMA AccountsStutter == ASSUME AccountsInv, UNCHANGED vars PROVE AccountsInv'
<1> USE DEF AccountsInv, vars, ledgerVars, configVars, recordVars, stakeVars
<1>1. AccountsTypeOK'
  BY DEF AccountsTypeOK
<1>2. StakeFunded' /\ RecordsControlled' /\ RecordsCovered'
  BY DEF StakeFunded, RecordsControlled, RecordsCovered
<1>3. IncomingIsRecorded'
  BY DEF IncomingIsRecorded
<1> QED BY <1>1, <1>2, <1>3

LEMMA AccountsStep == ASSUME AccountsInv, AnyStep PROVE AccountsInv'
<1>1. /\ AccountsTypeOK /\ StakeFunded /\ RecordsControlled
      /\ RecordsCovered /\ IncomingIsRecorded
  BY DEF AccountsInv
<1>2. AccountsTypeOK'
  BY <1>1, TypeStep
<1>3. StakeFunded' /\ RecordsControlled' /\ RecordsCovered'
  BY <1>1, StakeFundedStep, ControlledStep, CoveredStep
<1>4. IncomingIsRecorded'
  BY <1>1, IncomingStep
<1> QED BY <1>2, <1>3, <1>4 DEF AccountsInv

LEMMA IInvStep == IInv /\ [Next]_vars => IInv'
<1> SUFFICES ASSUME IInv, [Next]_vars PROVE IInv'
  OBVIOUS
<1> USE DEF IInv
<1>1. CASE UNCHANGED vars
  <2>1. SupplyBacked' /\ borrowed' = 0
    BY <1>1 DEF SupplyBacked, Owned, vars, ledgerVars
  <2> QED BY <1>1, <2>1, AccountsStutter
<1>2. CASE AnyStep
  <2>1. AccountsInv' /\ borrowed' = 0
    BY <1>2, AccountsStep, OthersLeaveLoans
  <2>2. SupplyBacked'
    BY <1>2, <2>1, BackedStep DEF AccountsInv
  <2> QED BY <2>1, <2>2
<1> QED BY <1>1, <1>2 DEF Next, AnyStep

(* The inductive invariant holds in every reachable state.                 *)
THEOREM InductiveInvariant == Spec => []IInv
BY IInvInit, IInvStep, PTL DEF Spec

(* Every variable stays in its range; incoming_stake never overflows.      *)
THEOREM TypeCorrect == Spec => []TypeOK
<1>1. IInv => TypeOK
  BY DEF IInv, AccountsInv, TypeOK
<1> QED BY <1>1, InductiveInvariant, PTL

(* reclaim_stake_account's checked_sub never fails for a pool: the booked  *)
(* total is the sum of the live records.                                   *)
THEOREM IncomingCorrect == Spec => []IncomingIsRecorded
<1>1. IInv => IncomingIsRecorded
  BY DEF IInv, AccountsInv
<1> QED BY <1>1, InductiveInvariant, PTL

(* A stake account with a record can neither be taken back nor locked.     *)
THEOREM RecordsStayControlled == Spec => []RecordsControlled
<1>1. IInv => RecordsControlled
  BY DEF IInv, AccountsInv
<1> QED BY <1>1, InductiveInvariant, PTL

(* A stake account is worth at least what was booked for it.               *)
THEOREM RecordsStayCovered == Spec => []RecordsCovered
<1>1. IInv => RecordsCovered
  BY DEF IInv, AccountsInv
<1> QED BY <1>1, InductiveInvariant, PTL

(* LP tokens in circulation always have lamports behind them.              *)
THEOREM SupplyStaysBacked == Spec => []SupplyBacked
<1>1. IInv => SupplyBacked
  BY DEF IInv
<1> QED BY <1>1, InductiveInvariant, PTL

-----------------------------------------------------------------------------
(* Redemption of the last share.                                           *)

LEMMA LastShareStep ==
    ASSUME IInv, AccountsTypeOK', Next, supply > 0, supply' = 0, reserves' < reserves
    PROVE  Owned' = 0
<1>1. Owned \in Nat /\ Owned = reserves + incoming /\ Owned > 0
  BY OwnedType DEF IInv, AccountsInv, SupplyBacked
<1>2. supply \in Nat /\ reserves \in Nat /\ incoming \in Nat /\ borrowed = 0
  BY U64MaxAssumption DEF IInv, AccountsInv, AccountsTypeOK, U64
<1>3. ASSUME NEW amountLp \in Burns \cup {supply}, NEW to, RemoveLiquidity(amountLp, to)
      PROVE  Owned' = 0
  <2> DEFINE ret == LamportsToReturn(Owned, supply, amountLp)
  <2>1. /\ supply' = supply - amountLp
        /\ reserves' = reserves - PaidOut(to, ret)
        /\ UNCHANGED <<incoming, borrowed>>
    BY <1>3 DEF RemoveLiquidity
  <2>2. amountLp = supply
    BY <1>2, <2>1, AmountsAssumption
  <2>3. ret = Owned
    BY <1>1, <1>2, <2>2, ReturnBounds
  <2> HIDE DEF ret
  <2>4. PaidOut(to, ret) = Owned
    BY <1>1, <1>2, <2>1, <2>3 DEF PaidOut
  <2> QED BY <1>1, <1>2, <2>1, <2>4 DEF Owned, PoolOwnedLamports
<1>4. ASSUME NEW amount \in Deposits, AddLiquidity(amount)
      PROVE  FALSE
  BY <1>2, <1>4, AmountsAssumption DEF AddLiquidity
<1>5. ASSUME NEW amountLp \in Burns, HolderBurns(amountLp)
      PROVE  FALSE
  BY <1>2, <1>5 DEF HolderBurns
<1> QED
  BY <1>2, <1>3, <1>4, <1>5
  DEF Next, PoolInstruction, Environment, StakeOwner, Cluster, Unstake, UnstakeWsol,
      RunUnstake, ReclaimStakeAccount, Unbook,
      SetFee, SetProtocolFee, DeactivateStakeAccount, CreateStake, DelegateStake,
      OwnerDeactivate, OwnerWithdraw, AuthorizeStaker, AuthorizeWithdrawer, SetLockup,
      LockupExpires, EpochPasses, StakeReceives, RecordReceives, ReservesReceive,
      ledgerVars

(* Whoever redeems the last LP tokens for lamports empties the pool, with  *)
(* no stake outstanding and no dust left to the next depositor.            *)
THEOREM LastShareCorrect == Spec => LastShareTakesAll
<1>1. IInv /\ IInv' /\ [Next]_vars
        => [supply > 0 /\ supply' = 0 /\ reserves' < reserves => Owned' = 0]_vars
  BY LastShareStep DEF IInv, AccountsInv
<1> QED BY <1>1, InductiveInvariant, PTL DEF Spec, LastShareTakesAll

-----------------------------------------------------------------------------
(* Deposits and redemptions seen by the trader.                            *)

(* One share more than the minted ones is worth more than the deposit, at  *)
(* the price after it.                                                     *)
LEMMA MintWorth ==
    ASSUME NEW owned \in Nat \ {0}, NEW shares \in Nat \ {0}, NEW amount \in Nat
    PROVE  LET minted == LpTokensToMint(owned, shares, amount)
           IN  /\ minted \in Nat
               /\ (minted + 1) * (owned + amount) > amount * (shares + minted)
<1> DEFINE minted == (amount * shares) \div owned
<1>1. amount * shares \in Nat
  OBVIOUS
<1>2. minted \in Nat /\ amount * shares < owned * minted + owned
  BY <1>1, DivBounds
<1> HIDE DEF minted
<1>3. /\ (minted + 1) * (owned + amount)
           = owned * minted + owned + (amount * minted + amount)
      /\ amount * (shares + minted) = amount * shares + amount * minted
  BY <1>2
<1>4. /\ owned * minted \in Nat /\ amount * minted \in Nat
      /\ amount * minted + amount >= amount * minted
  BY <1>2
<1>5. (minted + 1) * (owned + amount) > amount * (shares + minted)
  BY <1>1, <1>2, <1>3, <1>4
<1>6. LpTokensToMint(owned, shares, amount) = minted
  BY DEF LpTokensToMint, minted
<1> QED BY <1>2, <1>5, <1>6

(* A redemption returns its exact worth but for a fraction of a lamport.   *)
LEMMA ReturnWorth ==
    ASSUME NEW owned \in Nat \ {0}, NEW shares \in Nat \ {0}, NEW burnt \in 0 .. shares
    PROVE  LET ret == LamportsToReturn(owned, shares, burnt)
           IN  ret \in Nat /\ (ret + 1) * shares > burnt * owned
<1> DEFINE ret == (burnt * owned) \div shares
<1>1. burnt * owned \in Nat
  OBVIOUS
<1>2. ret \in Nat /\ burnt * owned < shares * ret + shares
  BY <1>1, DivBounds
<1> HIDE DEF ret
<1>3. (ret + 1) * shares = shares * ret + shares
  BY <1>2
<1>4. LamportsToReturn(owned, shares, burnt) = ret
  BY DEF LamportsToReturn, ret
<1> QED BY <1>2, <1>3, <1>4

LEMMA TradersStep ==
    ASSUME IInv, AccountsTypeOK', Next
    PROVE  /\ supply' > supply
                => (supply' - supply + 1) * Owned' > (Owned' - Owned) * supply'
           /\ supply' < supply /\ reserves' < reserves
                => (reserves - reserves' + 1) * supply > (supply - supply') * Owned
<1> DEFINE Worth ==
             /\ supply' > supply
                  => (supply' - supply + 1) * Owned' > (Owned' - Owned) * supply'
             /\ supply' < supply /\ reserves' < reserves
                  => (reserves - reserves' + 1) * supply > (supply - supply') * Owned
<1>1. /\ Owned \in Nat /\ Owned = reserves + incoming /\ (supply > 0 => Owned > 0)
      /\ supply \in Nat /\ reserves \in Nat /\ incoming \in Nat /\ borrowed = 0
  BY OwnedType, U64MaxAssumption DEF IInv, AccountsInv, SupplyBacked, AccountsTypeOK, U64
<1>2. supply' \in Nat
  BY U64MaxAssumption DEF AccountsTypeOK, U64
<1>3. ASSUME NEW amount \in Deposits, AddLiquidity(amount)
      PROVE  Worth
  <2> DEFINE minted == LpTokensToMint(Owned, supply, amount)
  <2>1. /\ Owned' = Owned + amount /\ amount \in Nat
        /\ supply' = supply + minted /\ minted \in Nat /\ minted > 0
    BY <1>1, <1>3, AmountsAssumption, U64MaxAssumption
    DEF AddLiquidity, Owned, PoolOwnedLamports, U64
  <2>2. CASE supply = 0
    <3>1. supply' = Owned' /\ minted = Owned'
      BY <1>1, <2>1, <2>2 DEF LpTokensToMint
    <3> HIDE DEF minted
    <3>2. (minted + 1) * Owned' = Owned' * Owned' + Owned'
      BY <1>1, <2>1, <3>1
    <3>3. amount * Owned' <= Owned' * Owned'
      BY <1>1, <2>1
    <3>4. Owned' > 0 /\ Owned' - Owned = amount /\ supply' - supply = minted
      BY <1>1, <2>1, <2>2, <3>1
    <3>5. amount * Owned' \in Nat /\ Owned' * Owned' \in Nat
      BY <1>1, <2>1
    <3>6. (minted + 1) * Owned' > amount * Owned'
      BY <1>1, <2>1, <3>2, <3>3, <3>4, <3>5
    <3> QED BY <1>1, <1>2, <2>1, <3>1, <3>4, <3>6
  <2>3. CASE supply > 0
    <3>1. (minted + 1) * (Owned + amount) > amount * (supply + minted)
      BY <1>1, <2>1, <2>3, MintWorth
    <3> HIDE DEF minted
    <3>2. /\ supply' - supply + 1 = minted + 1 /\ Owned' - Owned = amount
          /\ ~(supply' < supply)
      BY <1>1, <2>1
    <3> QED BY <2>1, <3>1, <3>2
  <2> QED BY <1>1, <2>2, <2>3
<1>4. ASSUME NEW amountLp \in Burns \cup {supply}, NEW to, RemoveLiquidity(amountLp, to)
      PROVE  Worth
  <2> DEFINE ret == LamportsToReturn(Owned, supply, amountLp)
  <2>1. /\ supply' = supply - amountLp /\ amountLp \in 0 .. supply
        /\ reserves' = reserves - PaidOut(to, ret)
    BY <1>1, <1>4, AmountsAssumption DEF RemoveLiquidity
  <2>2. ~(supply' > supply)
    BY <1>1, <2>1
  <2>3. ASSUME supply' < supply, reserves' < reserves
        PROVE  (reserves - reserves' + 1) * supply > (supply - supply') * Owned
    <3>1. Owned \in Nat \ {0} /\ supply \in Nat \ {0}
      BY <1>1, <1>2, <2>3
    <3>2. ret \in Nat /\ (ret + 1) * supply > amountLp * Owned
      BY <2>1, <3>1, ReturnWorth
    <3> HIDE DEF ret
    <3>3. reserves - reserves' = ret /\ supply - supply' = amountLp
      BY <1>1, <2>1, <2>3, <3>2 DEF PaidOut
    <3> QED BY <3>2, <3>3
  <2> QED BY <2>2, <2>3
<1>5. ASSUME NEW amountLp \in Burns, HolderBurns(amountLp)
      PROVE  Worth
  <2>1. supply' = supply - amountLp /\ reserves' = reserves /\ amountLp \in Nat
    BY <1>5, AmountsAssumption DEF HolderBurns
  <2> QED BY <1>1, <1>2, <2>1
<1>6. CASE supply' = supply
  BY <1>1, <1>6
<1> QED
  BY <1>3, <1>4, <1>5, <1>6
  DEF Next, PoolInstruction, Environment, StakeOwner, Cluster, Unstake, UnstakeWsol,
      RunUnstake, ReclaimStakeAccount,
      SetFee, SetProtocolFee, DeactivateStakeAccount, CreateStake, DelegateStake,
      OwnerDeactivate, OwnerWithdraw, AuthorizeStaker, AuthorizeWithdrawer, SetLockup,
      LockupExpires, EpochPasses, StakeReceives, RecordReceives, ReservesReceive,
      ledgerVars

(* The rounding of add_liquidity and remove_liquidity never costs the      *)
(* trader a whole share or a whole lamport, whatever the price has become. *)
THEOREM TradersCorrect == Spec => TradersKeepTheirWorth
<1>1. IInv /\ IInv' /\ [Next]_vars
        => [/\ supply' > supply
                 => (supply' - supply + 1) * Owned' > (Owned' - Owned) * supply'
            /\ supply' < supply /\ reserves' < reserves
                 => (reserves - reserves' + 1) * supply > (supply - supply') * Owned]_vars
  BY TradersStep DEF IInv, AccountsInv
<1> QED BY <1>1, InductiveInvariant, PTL DEF Spec, TradersKeepTheirWorth

-----------------------------------------------------------------------------
(* The pool implements the vault.                                          *)

LEMMA VaultInit == Init => Vault!Init
<1> SUFFICES ASSUME Init PROVE  /\ Owned = 0 /\ supply = 0
                                     /\ RecordRent * Cardinality(records) = 0
  BY DEF Vault!Init
<1>1. Cardinality(records) = 0
  BY FS_EmptySet DEF Init
<1> QED BY <1>1, RentAssumption DEF Init, Owned, PoolOwnedLamports

(* Assets of an empty vault have no price to keep.                         *)
LEMMA EmptyPriceKept ==
    ASSUME NEW owned \in Nat, NEW owned2 \in Nat, NEW shares \in Nat, NEW shares2 \in Nat,
           owned = 0
    PROVE  owned2 * shares >= owned * shares2
OBVIOUS

LEMMA VaultStep ==
    ASSUME AccountsInv, AccountsTypeOK', AnyStep
    PROVE  [Vault!Next]_(Vault!vars)
<1> DEFINE n == Cardinality(records)
           Kept == UNCHANGED <<Owned, supply, records>>
<1>1. /\ Owned \in Nat /\ Owned = reserves + incoming + borrowed
      /\ supply \in Nat /\ reserves \in Nat /\ incoming \in Nat /\ borrowed \in Nat
      /\ IsFiniteSet(records) /\ n \in Nat
  BY OwnedType, UsersAssumption, FS_Subset, FS_CardinalityType
  DEF AccountsInv, AccountsTypeOK
<1>2. Owned' \in Nat
  <2>1. reserves' \in Nat /\ incoming' \in Nat /\ borrowed' \in Nat
    BY U64MaxAssumption DEF AccountsTypeOK, U64
  <2> QED BY <2>1, OwnedLamportsType DEF Owned
<1>3. supply' \in Nat
  BY U64MaxAssumption DEF AccountsTypeOK, U64
<1>4. n' \in Nat
  <2>1. IsFiniteSet(records')
    BY UsersAssumption, FS_Subset DEF AccountsTypeOK
  <2> QED BY <2>1, FS_CardinalityType
<1>5. CASE Kept
  BY <1>5 DEF Vault!vars
<1>6. ASSUME NEW amount \in Deposits, AddLiquidity(amount)
      PROVE  Vault!Next
  <2> DEFINE minted == LpTokensToMint(Owned, supply, amount)
  <2>1. /\ Owned' = Owned + amount /\ amount \in Nat
        /\ records' = records
    BY <1>1, <1>6, AmountsAssumption
    DEF AddLiquidity, Owned, PoolOwnedLamports, recordVars
  <2>2. supply' = supply + minted /\ minted \in Nat /\ minted > 0
    BY <1>6, U64MaxAssumption DEF AddLiquidity, U64
  <2>3. supply = 0 => supply' = Owned'
    BY <1>1, <2>1, <2>2 DEF LpTokensToMint
  <2>4. supply > 0 => Owned' * supply >= Owned * supply'
    <3> SUFFICES ASSUME supply > 0 PROVE Owned' * supply >= Owned * supply'
      OBVIOUS
    <3>1. CASE Owned = 0
      BY <1>1, <1>2, <1>3, <3>1, EmptyPriceKept
    <3>2. CASE Owned > 0
      <4>1. Owned \in Nat \ {0} /\ supply \in Nat \ {0}
        BY <1>1, <3>2
      <4>2. (Owned + amount) * supply >= Owned * (supply + minted)
        BY <2>1, <4>1, MintBounds
      <4> QED BY <2>1, <2>2, <4>2
    <3> QED BY <1>1, <3>1, <3>2
  <2> HIDE DEF minted
  <2>5. Vault!Mint
    BY <1>1, <1>2, <1>3, <2>1, <2>2, <2>3, <2>4 DEF Vault!Mint, Vault!PriceKept
  <2> QED BY <2>5 DEF Vault!Next
<1>7. ASSUME NEW amountLp \in Burns \cup {supply}, NEW to, RemoveLiquidity(amountLp, to)
      PROVE  Vault!Next \/ Kept
  <2> DEFINE ret == LamportsToReturn(Owned, supply, amountLp)
  <2>1. /\ supply' = supply - amountLp
        /\ reserves' = reserves - PaidOut(to, ret)
        /\ UNCHANGED <<incoming, borrowed, records>>
        /\ amountLp \in 0 .. supply
    BY <1>1, <1>7, AmountsAssumption DEF RemoveLiquidity, recordVars
  <2>2. CASE supply = 0 \/ Owned = 0
    <3>1. ret = 0
      BY <2>2 DEF LamportsToReturn
    <3>2. PaidOut(to, ret) = 0
      BY <3>1 DEF PaidOut
    <3> HIDE DEF ret
    <3>3. reserves' = reserves
      BY <1>1, <2>1, <3>2
    <3>4. Owned' = Owned
      BY <2>1, <3>3 DEF Owned, PoolOwnedLamports
    <3>5. CASE amountLp = 0
      BY <1>1, <2>1, <3>4, <3>5
    <3>6. CASE amountLp > 0
      <4>1. Owned = 0 /\ supply' < supply
        BY <1>1, <2>1, <2>2, <3>6
      <4>2. Owned' * supply >= Owned * supply'
        BY <1>1, <1>2, <1>3, <4>1, EmptyPriceKept
      <4>3. Vault!Burn
        BY <1>1, <1>3, <2>1, <3>4, <4>1, <4>2 DEF Vault!Burn, Vault!PriceKept
      <4> QED BY <4>3 DEF Vault!Next
    <3> QED BY <2>1, <3>5, <3>6
  <2>3. CASE supply > 0 /\ Owned > 0
    <3>1. Owned \in Nat \ {0} /\ supply \in Nat \ {0}
      BY <1>1, <2>3
    <3>2. ret \in Nat /\ ret <= Owned /\ supply * ret <= amountLp * Owned
      BY <2>1, <3>1, ReturnBounds
    <3> DEFINE paid == PaidOut(to, ret)
    <3>3. paid \in Nat /\ paid <= ret
      BY <3>2 DEF PaidOut
    <3> HIDE DEF ret, paid
    <3>4. Owned' = Owned - paid
      BY <1>1, <2>1, <3>3 DEF Owned, PoolOwnedLamports, paid
    <3>5. CASE amountLp = 0
      <4>1. supply * ret <= 0
        BY <3>1, <3>2, <3>5
      <4>2. ret = 0
        BY <3>1, <3>2, <4>1
      <4> QED BY <1>1, <2>1, <3>3, <3>4, <3>5, <4>2
    <3>6. CASE amountLp > 0
      <4>1. Owned' * supply >= Owned * supply'
        <5>1. /\ (Owned - paid) * supply = Owned * supply - supply * paid
              /\ Owned * (supply - amountLp) = Owned * supply - amountLp * Owned
          BY <2>1, <3>1, <3>3
        <5>2. supply * paid <= supply * ret
          BY <3>1, <3>2, <3>3
        <5>3. /\ supply * paid \in Int /\ supply * ret \in Int
              /\ Owned * supply \in Int /\ amountLp * Owned \in Int
          BY <2>1, <3>1, <3>2, <3>3
        <5>4. (Owned - paid) * supply >= Owned * (supply - amountLp)
          BY <3>2, <5>1, <5>2, <5>3
        <5> QED BY <2>1, <3>4, <5>4
      <4>2. Owned' <= Owned /\ supply' < supply
        BY <1>1, <2>1, <3>3, <3>4, <3>6
      <4>3. Vault!Burn
        BY <1>2, <1>3, <2>1, <4>1, <4>2 DEF Vault!Burn, Vault!PriceKept
      <4> QED BY <4>3 DEF Vault!Next
    <3> QED BY <2>1, <3>5, <3>6
  <2> QED BY <1>1, <2>2, <2>3
<1>8. ASSUME NEW u \in Users, NEW s \in Stakes, NEW destination, NEW referrer,
             RunUnstake(u, s, destination, referrer)
      PROVE  Vault!Next
  <2>1. Owned' >= Owned - RecordRent
    BY <1>8, UnstakeOwned
  <2>2. s \notin records /\ records' = records \cup {s} /\ supply' = supply
    BY <1>8 DEF RunUnstake
  <2>3. n' = n + 1
    BY <1>1, <2>2, FS_AddElement
  <2>4. RecordRent * n' = RecordRent * n + RecordRent
    BY <1>1, <2>3, RentAssumption
  <2>5. Vault!Earn
    BY <1>1, <1>2, <1>4, <2>1, <2>2, <2>4, RentAssumption DEF Vault!Earn
  <2> QED BY <2>5 DEF Vault!Next
<1>9. ASSUME NEW s \in Stakes, ReclaimStakeAccount(s)
      PROVE  Vault!Next
  <2>1. Owned' >= Owned + RecordRent
    BY <1>9, ReclaimOwned
  <2>2. s \in records /\ records' = records \ {s} /\ supply' = supply
    BY <1>9 DEF ReclaimStakeAccount, Unbook
  <2>3. n' = n - 1
    BY <1>1, <2>2, FS_RemoveElement
  <2>4. RecordRent * n' = RecordRent * n - RecordRent
    BY <1>1, <1>4, <2>3, RentAssumption
  <2>5. Vault!Earn
    BY <1>1, <1>2, <1>4, <2>1, <2>2, <2>4, RentAssumption DEF Vault!Earn
  <2> QED BY <2>5 DEF Vault!Next
<1>10. ASSUME NEW amount \in Donations, ReservesReceive(amount)
       PROVE  Vault!Next
  <2>1. Owned' = Owned + amount /\ amount \in Nat /\ UNCHANGED <<supply, records>>
    BY <1>1, <1>10, AmountsAssumption
    DEF ReservesReceive, Owned, PoolOwnedLamports, recordVars
  <2>2. Vault!Earn
    BY <1>1, <1>2, <1>4, <2>1, RentAssumption DEF Vault!Earn
  <2> QED BY <2>2 DEF Vault!Next
<1>11. ASSUME NEW amountLp \in Burns, HolderBurns(amountLp)
       PROVE  Vault!Next \/ Kept
  <2>1. /\ UNCHANGED <<Owned, records>>
        /\ supply' = supply - amountLp
        /\ amountLp \in Nat
    BY <1>11, AmountsAssumption DEF HolderBurns, Owned, PoolOwnedLamports, recordVars
  <2>2. CASE amountLp = 0
    BY <1>1, <2>1, <2>2
  <2>3. CASE amountLp > 0
    <3>1. supply' <= supply /\ supply' < supply
      BY <1>1, <2>1, <2>3
    <3>2. Owned * supply >= Owned * supply'
      <4>1. Owned * amountLp \in Nat /\ Owned * supply \in Nat
        BY <1>1, <2>1
      <4>2. Owned * (supply - amountLp) = Owned * supply - Owned * amountLp
        BY <1>1, <2>1
      <4> QED BY <2>1, <4>1, <4>2
    <3>3. Vault!Burn
      BY <1>1, <1>2, <1>3, <2>1, <3>1, <3>2 DEF Vault!Burn, Vault!PriceKept
    <3> QED BY <3>3 DEF Vault!Next
  <2> QED BY <2>1, <2>2, <2>3
<1> QED
  BY <1>5, <1>6, <1>7, <1>8, <1>9, <1>10, <1>11
  DEF AnyStep, PoolInstruction, Environment, StakeOwner, Cluster, Unstake, UnstakeWsol,
      SetFee, SetProtocolFee, DeactivateStakeAccount, CreateStake, DelegateStake,
      OwnerDeactivate, OwnerWithdraw, AuthorizeStaker, AuthorizeWithdrawer, SetLockup,
      LockupExpires, EpochPasses, StakeReceives, RecordReceives,
      Owned, PoolOwnedLamports, ledgerVars, recordVars

(* Every step of the pool keeps the promise made to LP holders: deposits,  *)
(* redemptions, swaps, reclaims and fee changes never lower the value of a *)
(* share, except by the rent a new record locks up until it is reclaimed.  *)
THEOREM ImplementsVault == Spec => VaultSpec
<1>1. Init => Vault!Init
  BY VaultInit
<1>2. IInv /\ IInv' /\ [Next]_vars => [Vault!Next]_(Vault!vars)
  <2> SUFFICES ASSUME IInv, IInv', [Next]_vars PROVE [Vault!Next]_(Vault!vars)
    OBVIOUS
  <2>1. CASE UNCHANGED vars
    BY <2>1 DEF vars, ledgerVars, recordVars, Owned, Vault!vars
  <2>2. CASE AnyStep
    BY <2>2, VaultStep DEF IInv, AccountsInv
  <2> QED BY <2>1, <2>2 DEF Next, AnyStep
<1> QED BY <1>1, <1>2, InductiveInvariant, PTL DEF Spec, VaultSpec, Vault!Spec

-----------------------------------------------------------------------------
(* No lamport is made: what the pool, its records and the stake accounts   *)
(* hold never exceeds SolSupply, and since the pool counts for each record *)
(* no more than its stake account holds, neither does what it owns.        *)

LamportsConserved == TotalLamports <= SolSupply

RentHeld == SumFunctionOnSet(recordLamports, Stakes)
StakeHeld == SumFunctionOnSet(lamports, Stakes)

LEMMA HeldType ==
    ASSUME TypeOK
    PROVE  /\ RentHeld \in Nat /\ StakeHeld \in Nat
           /\ reserves \in Nat /\ borrowed = 0
           /\ TotalLamports = reserves + RentHeld + StakeHeld
<1>1. RentHeld \in Nat /\ StakeHeld \in Nat
  <2>1. /\ IsFiniteSet(Stakes)
        /\ \A s \in Stakes : recordLamports[s] \in Nat /\ lamports[s] \in Nat
    BY UsersAssumption DEF TypeOK, AccountsTypeOK
  <2> QED BY <2>1, SumType DEF RentHeld, StakeHeld
<1>2. reserves \in Nat /\ borrowed = 0
  BY DEF TypeOK, AccountsTypeOK
<1> QED BY <1>1, <1>2 DEF TotalLamports, RentHeld, StakeHeld

(* A step that changes the balance of one stake account, or of one record. *)
LEMMA StakeHeldChange ==
    ASSUME TypeOK, TypeOK', NEW s \in Stakes, NEW balance \in Nat,
           lamports' = [lamports EXCEPT ![s] = balance]
    PROVE  StakeHeld' = StakeHeld - lamports[s] + balance
<1>1. /\ \A t \in Stakes : lamports[t] \in Nat /\ lamports'[t] \in Nat
      /\ \A t \in Stakes \ {s} : lamports'[t] = lamports[t]
      /\ lamports'[s] = balance /\ IsFiniteSet(Stakes) /\ s \in Stakes
  BY UsersAssumption DEF TypeOK, AccountsTypeOK
<1> QED BY ONLY <1>1, SumChange DEF StakeHeld

LEMMA RentHeldChange ==
    ASSUME TypeOK, TypeOK', NEW s \in Stakes, NEW balance \in Nat,
           recordLamports' = [recordLamports EXCEPT ![s] = balance]
    PROVE  RentHeld' = RentHeld - recordLamports[s] + balance
<1>1. /\ \A t \in Stakes : recordLamports[t] \in Nat /\ recordLamports'[t] \in Nat
      /\ \A t \in Stakes \ {s} : recordLamports'[t] = recordLamports[t]
      /\ recordLamports'[s] = balance /\ IsFiniteSet(Stakes) /\ s \in Stakes
  BY UsersAssumption DEF TypeOK, AccountsTypeOK
<1> QED BY ONLY <1>1, SumChange DEF RentHeld

LEMMA ConservedInit == Init => LamportsConserved
<1> SUFFICES ASSUME Init PROVE LamportsConserved
  OBVIOUS
<1>1. TypeOK
  BY InitType
<1> DEFINE none == [s \in Stakes |-> 0]
<1>2. \A s \in Stakes : none[s] = 0
  OBVIOUS
<1>3. SumFunctionOnSet(none, Stakes) <= 0
  <2> DEFINE B == {T \in SUBSET Stakes : SumFunctionOnSet(none, T) # 0}
  <2>1. SUFFICES ASSUME B # {} PROVE FALSE
    <3>1. Stakes \in SUBSET Stakes
      OBVIOUS
    <3> QED BY <3>1
  <2>2. PICK m \in B : \A t \in SUBSET m : t # m => t \notin B
    <3>1. B \in SUBSET SUBSET Stakes
      OBVIOUS
    <3> HIDE DEF B
    <3> QED BY <2>1, <3>1, UsersAssumption, MinimalSubset, Zenon
  <2>3. IsFiniteSet(m) /\ m \in SUBSET Stakes
    BY UsersAssumption, FS_Subset
  <2>4. m # {}
    <3>1. SumFunctionOnSet(none, {}) = 0
      BY SumEmpty
    <3> QED BY <3>1
  <2>5. Rest(m) \in SUBSET m /\ Rest(m) # m /\ Pick(m) \in m
    BY <2>4, PickRest
  <2>6. SumFunctionOnSet(none, Rest(m)) = 0 /\ none[Pick(m)] = 0
    BY <2>2, <2>3, <2>5
  <2>7. SumFunctionOnSet(none, m) = none[Pick(m)] + SumFunctionOnSet(none, Rest(m))
    BY <2>3, <2>4, SumRecursion
  <2> QED BY <2>6, <2>7
<1>4. RentHeld <= 0 /\ StakeHeld <= 0 /\ reserves = 0
  BY <1>3 DEF Init, RentHeld, StakeHeld
<1> QED BY <1>1, <1>4, HeldType, AmountsAssumption, U64MaxAssumption
        DEF LamportsConserved, U64

LEMMA ConservedStep ==
    ASSUME TypeOK, TypeOK', LamportsConserved, Next
    PROVE  LamportsConserved'
<1>1. /\ TotalLamports = reserves + RentHeld + StakeHeld
      /\ RentHeld \in Nat /\ StakeHeld \in Nat /\ reserves \in Nat
  BY HeldType
<1>2. /\ TotalLamports' = reserves' + RentHeld' + StakeHeld'
      /\ RentHeld' \in Nat /\ StakeHeld' \in Nat /\ reserves' \in Nat
  <2>1. borrowed' = 0 /\ reserves' \in Nat
    BY DEF TypeOK, AccountsTypeOK
  <2>2. RentHeld' \in Nat /\ StakeHeld' \in Nat
    <3>1. /\ IsFiniteSet(Stakes)
          /\ \A s \in Stakes : recordLamports'[s] \in Nat /\ lamports'[s] \in Nat
      BY UsersAssumption DEF TypeOK, AccountsTypeOK
    <3> QED BY <3>1, SumType DEF RentHeld, StakeHeld
  <2> QED BY <2>1, <2>2 DEF TotalLamports, RentHeld, StakeHeld
<1>3. SolSupply \in Nat
  BY AmountsAssumption, U64MaxAssumption DEF U64
<1>4. /\ UNCHANGED recordLamports => RentHeld' = RentHeld
      /\ UNCHANGED lamports => StakeHeld' = StakeHeld
  BY DEF RentHeld, StakeHeld
<1>5. \A s \in Stakes : lamports[s] \in Nat /\ recordLamports[s] \in Nat
  BY DEF TypeOK, AccountsTypeOK
<1> USE DEF LamportsConserved
<1>6. CASE UNCHANGED <<recordLamports, lamports, reserves>>
  BY <1>1, <1>2, <1>4, <1>6
<1>7. ASSUME NEW amount \in Deposits, AddLiquidity(amount)
      PROVE  LamportsConserved'
  <2>1. /\ UNCHANGED <<recordLamports, lamports>> /\ reserves' = reserves + amount
        /\ TotalLamports + amount <= SolSupply /\ amount \in Nat
    BY <1>7, AmountsAssumption DEF AddLiquidity, Affordable, recordVars, stakeVars
  <2> QED BY <1>1, <1>2, <1>4, <2>1
<1>8. ASSUME NEW amountLp, NEW to, RemoveLiquidity(amountLp, to)
      PROVE  LamportsConserved'
  <2>1. /\ UNCHANGED <<recordLamports, lamports>>
        /\ LamportsToReturn(Owned, supply, amountLp) \in Nat
        /\ reserves' = reserves - PaidOut(to, LamportsToReturn(Owned, supply, amountLp))
    BY <1>8, U64MaxAssumption DEF RemoveLiquidity, recordVars, stakeVars, U64
  <2>2. reserves' <= reserves
    BY <1>1, <2>1 DEF PaidOut
  <2> QED BY <1>1, <1>2, <1>3, <1>4, <2>1, <2>2
<1>9. ASSUME NEW u \in Users, NEW s \in Stakes, NEW destination, NEW referrer,
             RunUnstake(u, s, destination, referrer)
      PROVE  LamportsConserved'
  <2> DEFINE topUp == RecordTopUp(s)
  <2>1. topUp \in Nat /\ reserves' <= reserves - topUp
    BY <1>9, RunUnstakePays DEF TypeOK
  <2>2. /\ UNCHANGED lamports
        /\ recordLamports' = [recordLamports EXCEPT ![s] = recordLamports[s] + topUp]
    BY <1>9 DEF RunUnstake
  <2> HIDE DEF topUp
  <2>3. RentHeld' = RentHeld - recordLamports[s] + (recordLamports[s] + topUp)
    <3>1. recordLamports[s] + topUp \in Nat
      BY <1>5, <2>1
    <3> QED BY <2>2, <3>1, RentHeldChange
  <2> QED BY <1>1, <1>2, <1>3, <1>4, <1>5, <2>1, <2>2, <2>3
<1>10. ASSUME NEW s \in Stakes, ReclaimStakeAccount(s)
       PROVE  LamportsConserved'
  <2>1. /\ reserves' = reserves + lamports[s] + recordLamports[s]
        /\ recordLamports' = [recordLamports EXCEPT ![s] = 0]
        /\ lamports' = [lamports EXCEPT ![s] = 0]
    BY <1>10 DEF ReclaimStakeAccount, CloseStake
  <2>2. /\ RentHeld' = RentHeld - recordLamports[s] + 0
        /\ StakeHeld' = StakeHeld - lamports[s] + 0
    BY <2>1, RentHeldChange, StakeHeldChange
  <2> QED BY <1>1, <1>2, <1>3, <1>5, <2>1, <2>2
<1>11. ASSUME NEW u \in Users, NEW s \in Stakes, NEW amount \in StakeAmounts,
              CreateStake(u, s, amount)
       PROVE  LamportsConserved'
  <2>1. /\ UNCHANGED <<reserves, recordLamports>> /\ amount \in Nat
        /\ lamports' = [lamports EXCEPT ![s] = amount]
        /\ TotalLamports + amount <= SolSupply
    BY <1>11, AmountsAssumption DEF CreateStake, Affordable, ledgerVars, recordVars
  <2>2. StakeHeld' = StakeHeld - lamports[s] + amount
    BY <2>1, StakeHeldChange
  <2> QED BY <1>1, <1>2, <1>3, <1>4, <1>5, <2>1, <2>2
<1>12. ASSUME NEW u \in Users, NEW s \in Stakes, OwnerWithdraw(u, s)
       PROVE  LamportsConserved'
  <2>1. /\ UNCHANGED <<reserves, recordLamports>>
        /\ lamports' = [lamports EXCEPT ![s] = 0]
    BY <1>12 DEF OwnerWithdraw, CloseStake, ledgerVars, recordVars
  <2>2. StakeHeld' = StakeHeld - lamports[s] + 0
    BY <2>1, StakeHeldChange
  <2> QED BY <1>1, <1>2, <1>3, <1>4, <1>5, <2>1, <2>2
<1>13. ASSUME NEW s \in Stakes, NEW amount \in Donations, StakeReceives(s, amount)
       PROVE  LamportsConserved'
  <2>1. /\ UNCHANGED <<reserves, recordLamports>> /\ amount \in Nat
        /\ lamports' = [lamports EXCEPT ![s] = lamports[s] + amount]
        /\ TotalLamports + amount <= SolSupply
    BY <1>13, AmountsAssumption DEF StakeReceives, Affordable, ledgerVars, recordVars
  <2>2. StakeHeld' = StakeHeld - lamports[s] + (lamports[s] + amount)
    <3>1. lamports[s] + amount \in Nat
      BY <1>5, <2>1
    <3> QED BY <2>1, <3>1, StakeHeldChange
  <2> QED BY <1>1, <1>2, <1>3, <1>4, <1>5, <2>1, <2>2
<1>14. ASSUME NEW s \in Stakes, NEW amount \in Donations, RecordReceives(s, amount)
       PROVE  LamportsConserved'
  <2>1. /\ UNCHANGED <<reserves, lamports>> /\ amount \in Nat
        /\ recordLamports' = [recordLamports EXCEPT ![s] = recordLamports[s] + amount]
        /\ TotalLamports + amount <= SolSupply
    BY <1>14, AmountsAssumption DEF RecordReceives, Affordable, ledgerVars, stakeVars
  <2>2. RentHeld' = RentHeld - recordLamports[s] + (recordLamports[s] + amount)
    <3>1. recordLamports[s] + amount \in Nat
      BY <1>5, <2>1
    <3> QED BY <2>1, <3>1, RentHeldChange
  <2> QED BY <1>1, <1>2, <1>3, <1>4, <1>5, <2>1, <2>2
<1>15. ASSUME NEW amount \in Donations, ReservesReceive(amount)
       PROVE  LamportsConserved'
  <2>1. /\ UNCHANGED <<recordLamports, lamports>> /\ reserves' = reserves + amount
        /\ TotalLamports + amount <= SolSupply /\ amount \in Nat
    BY <1>15, AmountsAssumption DEF ReservesReceive, Affordable, recordVars, stakeVars
  <2> QED BY <1>1, <1>2, <1>4, <2>1
<1> QED
  BY <1>6, <1>7, <1>8, <1>9, <1>10, <1>11, <1>12, <1>13, <1>14, <1>15
  DEF Next, PoolInstruction, Environment, StakeOwner, Cluster, Unstake, UnstakeWsol,
      SetFee, SetProtocolFee, DeactivateStakeAccount, DelegateStake, OwnerDeactivate,
      AuthorizeStaker, AuthorizeWithdrawer, SetLockup, LockupExpires, EpochPasses,
      HolderBurns, ledgerVars, recordVars, stakeVars

(* The chain's lamports bound those in the pool's reach.                   *)
THEOREM Conservation == Spec => []LamportsConserved
<1>1. Init => LamportsConserved
  BY ConservedInit
<1>2. IInv /\ IInv' /\ LamportsConserved /\ [Next]_vars => LamportsConserved'
  <2> SUFFICES ASSUME IInv, IInv', LamportsConserved, [Next]_vars
               PROVE  LamportsConserved'
    OBVIOUS
  <2>1. CASE Next
    BY <2>1, ConservedStep DEF IInv, AccountsInv, TypeOK
  <2>2. CASE UNCHANGED vars
    BY <2>2 DEF LamportsConserved, TotalLamports, vars, ledgerVars, recordVars, stakeVars
  <2> QED BY <2>1, <2>2
<1> QED BY <1>1, <1>2, InductiveInvariant, PTL DEF Spec

(* What the pool counts as incoming, the stake accounts really hold.       *)
LEMMA IncomingIsHeld == ASSUME IInv PROVE incoming <= StakeHeld
<1>1. /\ IsFiniteSet(Stakes) /\ records \in SUBSET Stakes /\ IsFiniteSet(records)
      /\ \A s \in Stakes : lamports[s] \in Nat /\ recorded[s] \in Nat
  BY UsersAssumption, FS_Subset DEF IInv, AccountsInv, AccountsTypeOK
<1>2. \A s \in records : recorded[s] <= lamports[s]
  BY <1>1 DEF IInv, AccountsInv, RecordsCovered
<1>3. SumFunctionOnSet(recorded, records) <= SumFunctionOnSet(lamports, records)
  BY <1>1, <1>2, SumAtMost
<1>4. SumFunctionOnSet(lamports, records) <= StakeHeld
  BY <1>1, SumOfPart DEF StakeHeld
<1>5. /\ SumFunctionOnSet(recorded, records) \in Nat
      /\ SumFunctionOnSet(lamports, records) \in Nat /\ StakeHeld \in Nat
  BY <1>1, SumType DEF StakeHeld
<1> QED BY <1>3, <1>4, <1>5 DEF IInv, AccountsInv, IncomingIsRecorded

(* The sums of calc_pool_owned_lamports fit a u64: neither a deposit nor a *)
(* redemption is ever refused for the pool having become too rich.         *)
THEOREM OwnedCorrect == Spec => []OwnedFits
<1>1. IInv /\ LamportsConserved => OwnedFits
  <2> SUFFICES ASSUME IInv, LamportsConserved PROVE OwnedFits
    OBVIOUS
  <2>1. Owned = reserves + incoming /\ incoming \in Nat
    BY OwnedType DEF IInv, AccountsInv
  <2>2. incoming <= StakeHeld
    BY IncomingIsHeld
  <2>3. /\ TotalLamports = reserves + RentHeld + StakeHeld
        /\ RentHeld \in Nat /\ StakeHeld \in Nat /\ reserves \in Nat
    BY HeldType DEF IInv, AccountsInv, TypeOK
  <2>4. SolSupply \in Nat
    BY AmountsAssumption, U64MaxAssumption DEF U64
  <2> QED BY <2>1, <2>2, <2>3, <2>4 DEF LamportsConserved, OwnedFits
<1> QED BY <1>1, InductiveInvariant, Conservation, PTL

-----------------------------------------------------------------------------
(* The pool implements StakeBook.  The step that matters is an owner's:    *)
(* RecordsControlled shows that none of them reaches a stake account with  *)
(* a record.                                                               *)

Held    == {s \in Stakes : withdrawer[s] = Pool}
Steered == {s \in Stakes : staker[s] = Pool}

LEMMA BookInit == Init => Book!Init
BY UsersAssumption DEF Init, Book!Init

(* What a step does to one stake account is all it does to the sets.       *)
LEMMA HeldExcept ==
    ASSUME AccountsTypeOK, NEW s \in Stakes, NEW a,
           withdrawer' = [withdrawer EXCEPT ![s] = a]
    PROVE  Held' = IF a = Pool THEN Held \cup {s} ELSE Held \ {s}
BY DEF AccountsTypeOK, Held

LEMMA SteeredExcept ==
    ASSUME AccountsTypeOK, NEW s \in Stakes, NEW a,
           staker' = [staker EXCEPT ![s] = a]
    PROVE  Steered' = IF a = Pool THEN Steered \cup {s} ELSE Steered \ {s}
BY DEF AccountsTypeOK, Steered

(* An owner's step: the stake account has no record, only its own entries  *)
(* change, and it stays with the pool if the pool was its withdrawer.      *)
LEMMA OwnerStep ==
    ASSUME NEW s \in Stakes, s \notin records, UNCHANGED records,
           NEW ph \in Phases, phase' = [phase EXCEPT ![s] = ph],
           Held' \in {Held \cup {s}, Held \ {s}},
           Steered' \in {Steered \cup {s}, Steered \ {s}},
           s \in Held /\ phase[s] # "none" => s \in Held' /\ phase'[s] # "none"
    PROVE  Book!Next
<1>1. Book!OwnerActs(s)
  BY DEF Book!OwnerActs, Book!Delegation, Phases, Held, Steered
<1> QED BY <1>1 DEF Book!Next

LEMMA OwnersAct ==
    ASSUME AccountsTypeOK, RecordsControlled, StakeOwner
    PROVE  Book!Next \/ UNCHANGED <<phase, Held, Steered, records>>
<1> USE UsersAssumption DEF recordVars
<1>1. PICK u \in Users, s \in Stakes :
          \/ \E amount \in StakeAmounts : CreateStake(u, s, amount)
          \/ DelegateStake(u, s) \/ OwnerDeactivate(u, s) \/ OwnerWithdraw(u, s)
          \/ \E new \in Users \cup {Pool} :
                 AuthorizeStaker(u, s, new) \/ AuthorizeWithdrawer(u, s, new)
          \/ SetLockup(u, s)
  BY DEF StakeOwner
<1>2. u # Pool /\ phase \in [Stakes -> Phases] /\ phase = [phase EXCEPT ![s] = phase[s]]
  BY DEF AccountsTypeOK
<1>3. s \in records => phase[s] # "none" /\ staker[s] = Pool /\ withdrawer[s] = Pool
  BY DEF RecordsControlled
<1>4. ASSUME NEW amount \in StakeAmounts, CreateStake(u, s, amount)
      PROVE  Book!Next
  <2>1. Held' = Held \ {s} /\ Steered' = Steered \ {s}
    BY <1>2, <1>4, HeldExcept, SteeredExcept DEF CreateStake
  <2> QED BY <1>3, <1>4, <2>1, OwnerStep DEF CreateStake, Phases
<1>5. CASE DelegateStake(u, s)
  <2>1. Held' = Held /\ Steered' = Steered
    BY <1>5 DEF DelegateStake, Held, Steered
  <2>2. s \notin Steered
    BY <1>2, <1>5 DEF DelegateStake, Steered
  <2>3. Held' \in {Held \cup {s}, Held \ {s}} /\ Steered' \in {Steered \cup {s}, Steered \ {s}}
    BY <2>1, <2>2
  <2>4. phase' = [phase EXCEPT ![s] = "activating"] /\ phase'[s] # "none"
    BY <1>2, <1>5 DEF DelegateStake
  <2> QED BY <1>2, <1>3, <1>5, <2>1, <2>3, <2>4, OwnerStep DEF DelegateStake, Phases
<1>6. CASE OwnerDeactivate(u, s)
  <2>1. Held' = Held /\ Steered' = Steered
    BY <1>6 DEF OwnerDeactivate, Held, Steered
  <2>2. s \notin Steered
    BY <1>2, <1>6 DEF OwnerDeactivate, Steered
  <2>3. Held' \in {Held \cup {s}, Held \ {s}} /\ Steered' \in {Steered \cup {s}, Steered \ {s}}
    BY <2>1, <2>2
  <2>4. /\ phase' = [phase EXCEPT ![s] = Deactivated(phase[s])]
        /\ Deactivated(phase[s]) \in Phases /\ phase'[s] # "none"
    BY <1>2, <1>6 DEF OwnerDeactivate, Deactivated, Phases
  <2> QED BY <1>2, <1>3, <1>6, <2>1, <2>3, <2>4, OwnerStep DEF OwnerDeactivate
<1>7. CASE OwnerWithdraw(u, s)
  <2>1. Held' = Held \ {s} /\ Steered' = Steered \ {s}
    BY <1>7, HeldExcept, SteeredExcept DEF OwnerWithdraw, CloseStake
  <2>2. s \notin Held
    BY <1>2, <1>7 DEF OwnerWithdraw, Held
  <2> QED BY <1>2, <1>3, <1>7, <2>1, <2>2, OwnerStep DEF OwnerWithdraw, CloseStake, Phases
<1>8. ASSUME NEW new \in Users \cup {Pool}, AuthorizeStaker(u, s, new)
      PROVE  Book!Next
  <2>1. Steered' \in {Steered \cup {s}, Steered \ {s}}
    BY <1>8, SteeredExcept DEF AuthorizeStaker
  <2>2. Held' = Held /\ Held' \in {Held \cup {s}, Held \ {s}}
    BY <1>8 DEF AuthorizeStaker, Held
  <2>3. phase' = [phase EXCEPT ![s] = phase[s]] /\ phase[s] \in Phases
    BY <1>2, <1>8 DEF AuthorizeStaker
  <2> QED BY <1>2, <1>3, <1>8, <2>1, <2>2, <2>3, OwnerStep DEF AuthorizeStaker
<1>9. ASSUME NEW new \in Users \cup {Pool}, AuthorizeWithdrawer(u, s, new)
      PROVE  Book!Next
  <2>1. Held' \in {Held \cup {s}, Held \ {s}}
    BY <1>9, HeldExcept DEF AuthorizeWithdrawer
  <2>2. Steered' = Steered /\ Steered' \in {Steered \cup {s}, Steered \ {s}}
    BY <1>9 DEF AuthorizeWithdrawer, Steered
  <2>3. phase' = [phase EXCEPT ![s] = phase[s]] /\ phase[s] \in Phases
    BY <1>2, <1>9 DEF AuthorizeWithdrawer
  <2>4. s \notin Held
    BY <1>2, <1>9 DEF AuthorizeWithdrawer, Held
  <2> QED BY <1>2, <1>3, <1>9, <2>1, <2>2, <2>3, <2>4, OwnerStep DEF AuthorizeWithdrawer
<1>10. CASE SetLockup(u, s)
  BY <1>10 DEF SetLockup, Held, Steered
<1> QED BY <1>1, <1>4, <1>5, <1>6, <1>7, <1>8, <1>9, <1>10

LEMMA BookStep ==
    ASSUME AccountsTypeOK, RecordsControlled, AnyStep
    PROVE  Book!Next \/ UNCHANGED <<phase, Held, Steered, records>>
<1> DEFINE Same == UNCHANGED <<phase, Held, Steered, records>>
<1>1. ASSUME NEW u \in Users, NEW s \in Stakes, NEW destination, NEW referrer,
             RunUnstake(u, s, destination, referrer)
      PROVE  Book!Next
  <2>1. Held' = Held \cup {s} /\ Steered' = Steered \cup {s}
    BY <1>1, HeldExcept, SteeredExcept DEF RunUnstake, TakeAuthorities
  <2>2. s \notin Held
    BY <1>1, UsersAssumption DEF RunUnstake, Held
  <2>3. Book!Sell(s)
    BY <1>1, <2>1, <2>2 DEF RunUnstake, Book!Sell, Held, Steered
  <2> QED BY <2>3 DEF Book!Next
<1>2. ASSUME NEW s \in Stakes, DeactivateStakeAccount(s)
      PROVE  Book!Next
  <2>1. Held' = Held /\ Steered' = Steered /\ s \in Steered
    BY <1>2 DEF DeactivateStakeAccount, Held, Steered
  <2>2. Book!Deactivate(s)
    BY <1>2, <2>1
    DEF DeactivateStakeAccount, Deactivated, recordVars, Held, Steered,
        Book!Deactivate, Book!CanDeactivate, Book!AfterDeactivation
  <2> QED BY <2>2 DEF Book!Next
<1>3. ASSUME NEW s \in Stakes, ReclaimStakeAccount(s)
      PROVE  Book!Next
  <2>1. Held' = Held \ {s} /\ Steered' = Steered \ {s}
    BY <1>3, HeldExcept, SteeredExcept, UsersAssumption DEF ReclaimStakeAccount, CloseStake
  <2>2. Book!Collect(s)
    BY <1>3, <2>1
    DEF ReclaimStakeAccount, CloseStake, Unbook, Withdrawable, Held, Steered,
        Book!Collect, Book!CanCollect, Book!Settled
  <2> QED BY <2>2 DEF Book!Next
<1>4. ASSUME NEW s \in Stakes, EpochPasses(s)
      PROVE  Book!Next
  <2>1. Held' = Held /\ Steered' = Steered
    BY <1>4 DEF EpochPasses, Held, Steered
  <2>2. Book!EpochPasses(s)
    BY <1>4, <2>1 DEF EpochPasses, recordVars, Book!EpochPasses, Held, Steered
  <2> QED BY <2>2 DEF Book!Next
<1>5. CASE StakeOwner
  BY <1>5, OwnersAct
<1>6. CASE UNCHANGED <<phase, staker, withdrawer, records>>
  BY <1>6 DEF Held, Steered
<1>7. CASE PoolInstruction
  BY <1>1, <1>2, <1>3, <1>6, <1>7
  DEF PoolInstruction, Unstake, UnstakeWsol, AddLiquidity, RemoveLiquidity,
      SetFee, SetProtocolFee, recordVars, stakeVars
<1>8. CASE Cluster
  BY <1>4, <1>6, <1>8
  DEF Cluster, LockupExpires, ReservesReceive, StakeReceives, RecordReceives,
      HolderBurns, recordVars, stakeVars
<1> QED BY <1>5, <1>7, <1>8 DEF AnyStep, Environment

(* From its sale to its collection a stake account is the pool's: no owner *)
(* can move it, and only deactivation and epochs change its delegation.    *)
THEOREM ImplementsStakeBook == Spec => BookSpec
<1>1. IInv /\ [Next]_vars => [Book!Next]_(Book!bookVars)
  <2> SUFFICES ASSUME IInv, [Next]_vars PROVE [Book!Next]_(Book!bookVars)
    OBVIOUS
  <2>1. CASE UNCHANGED vars
    BY <2>1 DEF vars, recordVars, stakeVars, Book!bookVars
  <2>2. CASE AnyStep
    BY <2>2, BookStep DEF IInv, AccountsInv, Book!bookVars, Held, Steered
  <2> QED BY <2>1, <2>2 DEF Next, AnyStep
<1> QED BY <1>1, BookInit, InductiveInvariant, PTL DEF Spec, BookSpec, Book!Spec

=============================================================================
