# Unstake: a TLA+ verification of the unstake program

The unstake program (`src/programs/unstake`, Solana/Anchor) lets a user trade a
stake account for SOL at once. A liquidity pool buys the stake account out of
its SOL reserves, deactivates it, and takes its lamports back when the cluster
has cooled it down. Liquidity providers (LPs) hold an SPL token that stands for
a share of everything the pool owns: reserves, stake on its way back, and
lamports lent as flash loans.

This directory holds TLA+ modules that model the program, TLC configurations
that check them on small instances, and TLAPS proofs of theorems about them for
all instances.

    tlc -workers 2 -config MCOneStake.cfg MCUnstakePool.tla
    tlapm UnstakePoolProofs.tla

`PROJECT.json` lists components, runs, mutants, the map from definitions to
source lines, findings, hazards and theorems.

## 1. The system

### Components, their state and operations

| Component | State | Operations |
|---|---|---|
| Liquidity (`add_liquidity`, `remove_liquidity`) | lamports of `pool_sol_reserves`; supply of `lp_mint` | deposit SOL for LP tokens; burn LP tokens for SOL |
| Unstake (`unstake`, `unstake_wsol`, both `run_unstake`) | reserves; `pool.incoming_stake`; a `StakeAccountRecord` per stake account bought; the stake account's authorities | top up the record's rent, compute the fee, move both authorities to the pool, pay unstaker, referrer and protocol, book the stake |
| Stake life (`deactivate_stake_account`, `reclaim_stake_account`) | the stake account, the record | deactivate; withdraw everything into the reserves, close the record, un-book |
| Fees (`state/fee.rs`, `rational.rs`, `state/protocol_fee.rs`) | `fee_account`, the global `protocol_fee` account | validate a fee, compute it, split off the protocol's and the referrer's shares |
| Flash loans (`take_flash_loan`, `repay_flash_loan`, `set_flash_loan_fee`) | the flash account (`lamports_borrowed`), the flash loan fee account | lend, repay with a fee, set the fee |
| Administration (`create_pool`, `init_protocol_fee`, `set_fee`, `set_fee_authority`, `set_protocol_fee`, `set_flash_loan_fee`, `set_lp_token_metadata`) | pool accounts, fee accounts, flash loan fee accounts, the protocol fee, the LP mint's authority and metadata | create, hand over, change |
| Rust CLI (`cli-rust`) | none of its own; lists fetched by RPC; fee files | `deactivate_all` and `reclaim_all` cranks in batches; one subcommand per instruction |
| TypeScript SDK (`ts`) | what a caller has read of the pool | fee estimates, previews, transaction builders |
| TypeScript CLI (`cli`) | the cursor of a report | `unstakes`, a report of all swaps; one command per instruction |
| `unstake_interface` | none | generated serialization |

The components interact through shared accounts only. The reserves are touched
by all of them; `incoming_stake` joins unstake and reclaim with the LP price
and with the fee schedule; the flash account joins loans with the LP price
(`calc_pool_owned_lamports`, `utils.rs:93-99`). The program calls the system,
stake and token programs. The stake program decides when a stake account can be
deactivated, withdrawn or handed over.

### What is hard

An instruction is atomic, so there are no data races. What is hard is the
*sequence*: legal instructions of several actors in an order nobody tested,
the same state seen through the price, the fee and the books.

- LPs enter and leave while stake is outstanding, on loan, or half of it booked.
- The pool counts stake by what was booked at the sale, while the accounts earn
  rewards, receive transfers, and pay rent for records the price leaves out.
- A stake account changes hands with two authorities, a lockup and a delegation
  in some phase; the seller could keep a hold on it.
- A loan leaves the reserves before it is repaid; other instructions run in the
  middle of it; the transaction may fail anywhere.
- Anybody may send lamports to the address of anything, before it exists.
- Integer rounding, zero supply, zero liquidity, fixed-point fees.
- Nobody but a crank turns stake back into liquidity.
- A transaction is signed at one time and executed later, in any order with others:
  authorities are handed over, fees set, pools founded in between.
- Clients read a pool in several requests, and act on what they read later.

`PROJECT.json` "hazards" lists each at its line with the properties about it.

### What makes each component correct

- *Liquidity*: no step lowers the value of a share; the last LP leaves nothing;
  LP tokens are always backed.
- *Unstake and stake life*: the books (`incoming_stake`) are the records; a
  recorded stake account is the pool's alone and worth what was booked; it is
  eventually reclaimed.
- *Fees*: a swap is charged what the schedule says, within its two ends; fees
  follow liquidity; a fee that is accepted can be charged.
- *Flash loans*: no loan outlives its transaction; no loan costs an LP anything
  or cheapens a swap.
- *Administration*: only the holder of an authority acts with it, through any
  sequence of handovers; an LP token is its pool's alone; fees are what their files say.
- *Clients*: estimates and previews err on a known side; the report skips no swap it recognises.
- *Cranks*: every record is reclaimed although batches fail, go stale or get lost.

## 2. The modules

| Module | Content |
|---|---|
| `PoolMath` | ratios, `PreciseNumber`, the two fee schedules, share conversion: pure operators |
| `LpVault` | abstract specification: what a pool promises LP token holders |
| `UnstakePool` | one pool, one instruction per step, and the world around it |
| `FeeSchedule` | exact reference definition of the fee, and properties of `UnstakePool` about fees |
| `StakeBook` | abstract specification: the life of a stake account from sale to collection |
| `Cranks` | the CLI's `deactivate_all` and `reclaim_all`, composed with `StakeBook` |
| `FlashLoan` | transactions of several instructions with loans and rollback, composed from `UnstakePool` |
| `Custody` | abstract specification: how a setting and its holder may change |
| `PoolAdmin` | all pools and the protocol fee: creation, fees, authorities, mints and metadata |
| `FeeFile` | the Rust CLI's conversion of fee files: pure operators and their reference |
| `Commands` | the Rust CLI's administrative subcommands, composed with `PoolAdmin` |
| `Quotes` | the SDK's fee estimate, composed with `FeeSchedule` |
| `Previews` | the SDK's preview of a swap, composed with `Quotes` |
| `UnstakeReport` | the TypeScript CLI's report of all swaps, composed with `UnstakePool` |
| `SumLemmas` | lemmas on the sum of a function over a set (the community fold) |
| `UnstakePoolProofs`, `FeeScheduleProofs`, `FlashLoanProofs`, `CranksProofs`, `AdministrationProofs`, `PreviewsProofs`, `UnstakeReportProofs` | theorems and proofs (`UnstakePoolProofs` with the refinements of `LpVault` and `StakeBook`, `AdministrationProofs` of `PoolAdmin` and `Commands`, `PreviewsProofs` of `Quotes` and `Previews`) |
| `MCUnstakePool`, `MCFeeSchedule`, `MCFlashLoan`, `MCCranks`, `MCCommands`, `MCPreviews`, `MCUnstakeReport` | values of constants for TLC |

### `PoolMath`

Amounts are u64, `U64 == 0..U64Max`. An operator stands for a Rust function
that may fail by having a value outside `U64` (`None == -1`, a negative
difference, or a value too large); the caller's `?` is the guard `x \in U64`.
Intermediate products are exact: the code computes them in u128 and, inside
`PreciseNumber`, in U256, where two u64 factors fit. `PreciseNumber`
(external, from `spl_math`) has scale `ONE`, 10^12 in the library, scaled down
for TLC; the proofs hold for every `ONE`. Its rounding (half a unit added
before truncation) is modelled, and so is the ceiling that ends a fee.

### `UnstakePool`

Variables and accounts: `reserves` (lamports of the PDA), `incoming`, `supply`,
`fee`, `protocolFee`, `borrowed` (always 0 here; `FlashLoan` frees it), `records`,
`recorded` (`lamports_at_creation`), `recordLamports` (balance of the record's
PDA, record or not), and, per stake account, `phase`, `lamports`, `staker`,
`withdrawer`, `locked`.

Each program instruction is one action; its guards are the account constraints
and error returns of the code, in the code's order of reading and writing: for
instance `RunUnstake` reads the reserves *after* the top-up of the record's
rent. A failing instruction leaves no trace, so error paths are guards.
`unstake` and `unstake_wsol` differ in what a destination can be and are two
actions over `RunUnstake`. A destination, referrer, protocol destination or
receiver of LP lamports that is the reserves themselves is `PaidOut`'s case.

The environment has what can touch these accounts from outside the program:
owners create, delegate, deactivate, withdraw, re-authorize and lock stake
accounts (even making the pool an authority without a sale, so a stake account
can reach a sale in any state); epochs pass; rewards and donations arrive at
stake accounts, reserves and record addresses; LP holders burn tokens by hand.
These are marked external in the map.

Simplifications, all stated in the module:

- A delegation warms up or cools down in one epoch. The stake program may take
  longer for large stakes; the pool acts only on "withdrawable or not".
- A lockup is in force or not; it has no custodian, because the program passes none.
- One stake account has one record address for the pool; a record exists iff
  `s \in records`.
- Payees other than the reserves have no balance in the model and are assumed to be able
  to receive. A payee that is a stake account or a record address is a payment
  to elsewhere followed by a donation.
- `RentState` is the runtime's rule that a transaction must not leave the reserves
  below rent exemption unless empty.
- `SetFee` and `SetProtocolFee` stand for whoever holds the authority; who that is, is `PoolAdmin`'s matter.

### `FlashLoan`

Extends `UnstakePool` with transactions: `Begin` saves the accounts and chooses
how many `repay_flash_loan` instructions the transaction will contain,
`Instruction` runs any instruction of the pool or of a stake owner, `Commit`
ends the transaction if no repayment is left and every balance is rent-exempt,
`Rollback` restores the saved accounts at any point. `repaysAhead` is what
`take_flash_loan` finds by looking ahead in the instructions sysvar
(`take_flash_loan.rs:69-79`); a repayment that another program runs (a nested instruction) is
not among them, and may come as well.

The flash account is created by the first loan of a transaction with one
lamport of the reserves, too little to survive. `FlashReceives` lets others
fund that address first, so that it would survive; the properties hold anyway.

`Affordable` in `TakeFlashLoan` and `RepayFlashLoan` is a bound on lamports, not a guard of the
code. A pool whose flash loan fee account was never created lends nothing and
is not modelled. 

### `LpVault` and the refinement

The abstract vault has `assets`, `shares` and `deposits` and three actions:
`Mint`, `Burn` (both keep `assets' * shares >= assets * shares'`, no division)
and `Earn` (shares fixed; assets and deposits together do not shrink).
`UnstakePool!VaultSpec` and `FlashLoan!LendingKeepsVault` instantiate it with

    assets   <- Owned = reserves + incoming + borrowed
    shares   <- supply
    deposits <- RecordRent * Cardinality(records)      (+ the flash account's lamports)

`deposits` is there because of a property of the code worth knowing:
`calc_pool_owned_lamports` does not count the rent the pool pays for a record,
so the price of a share *drops* by that rent at a sale (unless the fee exceeds
it) and rises again at the reclaim. It never drops by more. With a flash loan
the same is true of the one lamport of the flash account.

### `StakeBook` and `Cranks`

`StakeBook` is the pool without lamports: delegation phases, the stake accounts whose
withdrawer (`held`) or staker (`steered`) is the pool, and those with a record. It
promises that a sold stake account moves only by the pool's deactivation and by epochs until it is
collected. `UnstakePool!BookSpec` is the refinement

    held    <- {s \in Stakes : withdrawer[s] = Pool}
    steered <- {s \in Stakes : staker[s] = Pool}

`Cranks` extends this small state with the two batch commands of the CLI
(`deactivate_all.rs`, `reclaim_all.rs`, `utils/state.rs`, `tx_utils.rs`). `StartRun` lists the
stake accounts the pool is withdrawer of and keeps the active or the settled ones, in whatever order the
node returns them; `SendBatch` takes the first batch; the node simulates it, and a
simulation that fails panics and ends the run; an accepted batch is in flight, to
be executed later (`Land`, all or nothing, possibly in several copies) or never (`Expire`). `OthersAct` is any step of
`StakeBook`: sales, owners, epochs, and single deactivations and reclaims by others.
Reading the list and reading the epoch are one step, and simulation sees the current state;
what is executed is still arbitrarily later than both. `Strays` are stake accounts that their owners may make over to the
pool by hand, without a sale.

### `PoolAdmin`, `Custody` and the refinement

`PoolAdmin` has no lamports, but all pools, and everything that decides who may set what. A transaction
is a record of the accounts it names; nothing says that they belong together until an instruction
checks it. `Sign` puts any of `Proposed` in flight, `Land` executes one of those in flight on the
accounts as they are then, `Expire` drops one. Each of the seven instructions is its checks
(`CanCreatePool`, `CanSetFee`, ... where a transaction can fail on them) and what it then writes. The checks are the account
constraints of its `Accounts` struct and the validations of its handler: `has_one = fee_authority` and the `Signer` (`FeeAuthoritySigned`), PDA seeds (an
account derived from p is named p, so a seeds check is an equation such as `t.fee_account = t.pool`), `init` (the
account must not exist) and `init_if_needed`. Mints can be prepared by others: created, issued, described with Metaplex
metadata and made over to a pool's reserves, so that they look like that pool's. The rules of Metaplex are external.

`Custody` says what administrators are promised: a *thing* (a pool, or the protocol fee) has a *charter*, its
settings and its holder among them. A charter changes only in the items a request names, to the values it names, if
the request was signed by the holder of that moment for that very thing, or founds it. The mapping reads the charter from
`pools`, `fees`, `flashFees`, `metadata` and `protocolFee`, and the requests from `sent`.

### `FeeFile` and `Commands`

`ConvertFee` is what `cli-rust/src/utils/fee.rs` makes of a number of a fee file: the digits without the point over a power of ten, which
wraps around (`10_i64.pow(dps) as u64` in a release build); `IsFiled` is what the file says. A panic is an empty set of results.

`Commands` runs the six administrative subcommands (there is none for `set_protocol_fee`) for the wallets in `Operators`. A command
derives all accounts from the pool, the node simulates its transaction (`Accepted`: the checks of `PoolAdmin` for its type), and a failed simulation panics. Then the transaction is
in flight and the command is over. The other wallets sign whatever is in `Proposed`.

### `Quotes` and `Previews`

Both extend the pool with a variable `quote`, what one user of the SDK has in hand. For an estimate the user reads
the reserves (`ReadReserves`), and later the pool (`ReadPool`), and computes `applyFee`; for a preview, two requests are
in flight at once (`Promise.all`), the node answers them in either order (`AnswerBalance`, `AnswerSimulation`), and the account looked at may
move in between. The simulated swap passes or fails by `CanUnstake`: the checks of a swap without a referrer, the rent state of the reserves
included. `PoolMoves` is any step of the pool, at any time. `since` collects what the pool did after the
first read: gained liquidity (`relief`), lost some (`drain`), or changed otherwise, which makes the quote void.
The SDK computes in double precision; the model has the exact ratio, and the properties allow the lamport that either arithmetic can cost.

### `UnstakeReport`

The loop of the `unstakes` command (`cli/src/cli.ts:464-592`) over a history that grows while it is read. A transaction of the
history is its kind and whether it failed, its place in the history is its signature. `Page` is
`getSignaturesForAddress(before, until, limit)`; the node may have no copy of a transaction it lists. The rows of a page are those of its
transactions it shows, each once and in the page's order, newest first.

### Fault definitions

Some modules hold definitions marked *Fault*: plausible wrong versions of an
operation (a missing guard, a wrong term, a stale total). No specification uses
them. `PROJECT.json` "mutants" names, for every property of every passing run, a fault
that makes TLC find that property violated: a record that the property can
fail, and of what it protects from.

## 3. The runs

| Run | Config | States | Question |
|---|---|---|---|
| `one_stake` | `MCOneStake` | 913 k | Do the books, control of sold stake, the LP vault and the traders' side of it hold over any history of one stake account, two fees, two protocol fees (one paid to the reserves), donations anywhere? Does the pool implement `StakeBook`, and is every sold stake account reclaimed, whatever rewards it earns? |
| `swap_fees` | `MCSwapFees` | 341 k | With two stake accounts of different balances in any order: are fees what the schedules promise, exactly and in range, do quotes follow liquidity, do the books and the vault hold? |
| `constant_fee` | `MCConstantFee` | found at once | Can every accepted fee be charged? No: see the findings |
| `lending` | `MCLending` | 720 k | Loans, deposits, redemptions and repayments within transactions, with a prefunded flash account |
| `swaps_on_loan` | `MCSwapsOnLoan` | 227 k | Sales and reclaims in the middle of a loan; rollback |
| `cranks` | `MCCranksAlone` | 97 k | Do the CLI's commands, run over and over, get every stake account back? |
| `cranks_stray` | `MCCranksStray` | found at once | Still so if a stake account was made over by hand? No: see the findings |
| `administration` | `MCAdministration` | 1.3 M | Two pools, two mints and the protocol fee, an operator with the CLI, a stranger who signs anything: who can change what, whose tokens are LP tokens, which fees get into force, which transactions fail? |
| `clients` | `MCClients` | 136 k | On which side can the SDK's estimate and preview be wrong, with the pool moving between any two requests and until the swap? |
| `preview_wsol` | `MCPreviewedWsol` | found at once | Is a preview of a pool that did not move the payout? Not for `unstake_wsol` without a destination: see the findings |
| `report` | `MCReport` | 225 k | Does the paging of the report skip nothing and show nothing twice although the history grows, and does it end? |
| `report_wsol` | `MCReportWsol` | found at once | Does the report have all successful unstakes? No: see the findings |

### The properties

- `IncomingIsRecorded`: `incoming_stake` is the sum of the records. Hence a reclaim's
  `checked_sub` never fails.
- `RecordsControlled`, `RecordsCovered`: a recorded stake account belongs to the
  pool only, is not locked, its record is rent-exempt, and it holds at least
  what was booked.
- `SupplyBacked`, `BackedAtRest`: LP tokens in circulation have lamports behind them. In the middle of a
  transaction the last lamport may be the one in the flash account, so with
  loans it is a property of the states between transactions.
- `OwnedFits`: what the pool owns fits a u64.
- `VaultSpec`, `LendingKeepsVault`: the LP holders' promise, above.
- `LastShareTakesAll`: `SPEC.md`'s rule on a redemption that brings the supply to zero.
- `TradersKeepTheirWorth`: the other side of the vault. A deposit falls short of its worth by less than one share, a redemption by
  less than one lamport, however donations, rewards and burns have moved the price. (An early share can be made dear by a donation; the bound
  says so: the loss is a share, not a lamport.)
- `EventuallyReclaimed`: liveness of the stake's way back.
- `BookSpec`: the promise of `StakeBook`, above.
- `DrainsWhenSalesStop`: once sales stop, the cranks get all stake back. While sales go on, batches can keep
  failing over stake accounts that others reclaim first, so no more than this is true.
- `ChargedBySchedule`: what stays in the pool after a swap is the exact rational fee rounded up to a lamport. The
  ratio may be off by three units of the fixed-point scale (`1 / ONE`) below and two above: two where the ends of the schedule
  are rounded down, one at the division. With 10^12 that is a lamport only for stakes of hundreds of SOL, so the slack is stated in units
  times the stake and not in lamports.
- `ChargedInRange`: never below the fee at full liquidity, nor above the fee at none by more than one lamport's share of the
  schedule (each up to one unit of the scale). The comment in the code says the ratio can go above its end (`fee.rs:156-157`); the liquidity check of
  `run_unstake` keeps such fees from being charged, but the fee is rounded up before it, so a pool that is short of a lamport passes, and if that is
  much of its liquidity the ratio is well above the end. `swap_fees` reaches it: a pool drained to two lamports buys a stake account of 12.
- `QuotesFollowLiquidity`: sales do not cheapen, deposits and reclaims do not raise the next quote, not even by a lamport
  of rounding. The first half is about sales that take lamports out of the reserves and about next swaps within the schedule (`OnSchedule`):
  for a stake beyond what the pool can pay the formula goes on beyond its end, and there a larger pool with more stake
  quotes less. Such a swap fails anyway.
- `NoLoanOutlivesItsTransaction`, `LoanWillBeRepaid`, `LoansNeverCheapenSwaps`.
- `LpTokenIsThePools`: nobody but the pool ever minted its LP token, can mint it or can describe it; no two pools share one.
- `CustodySpec`: the promise of `Custody`, above.
- `FeesAreFiled`: while an operator is a pool's authority, its fee becomes only what a file says. It holds for numbers whose decimal places fit, which is what the run's files have; for what happens beyond see the observations.
- `OnlyOvertakenFail`: an operator's accepted transaction fails later only because another one founded the same accounts or handed the pool over.
- `EstimateErrsKnowingly`: if the pool only gained liquidity after the first read, the swap costs no more than estimated; if it only lost
  some, no less; up to a lamport and two or three units of the fixed point, where the protocol takes no share, and although the two reads may see two different pools.
- `PreviewErrsKnowingly`: the same of a preview's payout: exact if the pool did not move, at least the preview if it only gained liquidity, at most it, a lamport
  and one unit of the fixed point if it only lost some. The unit is needed: a pool can get more stake on its way and no fewer lamports (a sale paid to the reserves themselves, over a
  record address that was funded before), and the divisor of the schedule, rounded, can then grow by more than the dividend. With `ONE = 50` and ends of 5 and 48, stake of 509 on its way and
  31 in the reserves, the fee of a stake of 307 falls from 289 to 283 with one more lamport on its way. With the program's scale this is a lamport of a stake of 1000 SOL. A swap names no minimum, so this is all its user has.
- `ReportIsComplete`: all successful unstakes between `--until` and `--before`, by either instruction, are in the report, as its description says. It fails: see the findings.
- `PagesSkipNothing`, `ReportEnds`: what is true of the report. Each successful `unstake` in the window, not those by `unstake_wsol`, is in it once, newest first, and whatever is in it is a
  successful swap; the command ends. `ReportIsComplete` and `PagesSkipNothing` are stated over the history, not by the command's own test for a row (`IsRow`).
- `TypeOK`, `TxTypeOK`, `CranksTypeOK`, `AdminTypeOK`: one type invariant per state machine.

### Bounds, and why they are enough

`SolSupply` bounds all lamports of a behaviour (26 in `one_stake`, 23 in `swap_fees`); deposits, stake balances, burns and donations are drawn from sets
of one or two values; `U64Max` exceeds `SolSupply`, so overflow of a u64 is possible in
the operators, not in balances that are conserved on chain. `remove_liquidity`
may always burn the whole supply, besides the amounts in `Burns`. Rents differ
from one another and from the stake minimum in the runs where they matter (3,
2, 5), and deposits of 7 to 20 with stakes of 4 to 12 cover: reserves that cannot pay,
a pool with everything in stake, fees from 0 to more than half, redemptions that round,
record addresses funded partly, exactly and over the rent. A donation is 2, so that it
covers part of a record's rent once and all of it twice. Properties on rounding
are inequalities by one lamport and small odd numbers show every remainder;
the proofs cover the rest of the range.

`swap_fees` uses `ONE = 1000` and ratios with denominators up to 5: rounding
of the intermediate results is then relatively far coarser than with 10^12; the margins of its properties are in units of the scale and proved for every scale. It has no protocol fee, since the protocol's share
would have to be taken out again to see what a swap was charged. Its redemption of 9 of 11 shares, besides that of all,
leaves pools that are small beside the stake accounts they buy, where fees go to the ends of their schedules.

`lending` has no stake account and two repayments; `swaps_on_loan` one of each.
Together they fire every action. Loans are of 3 lamports, so two of them can be
outstanding.

For liveness, too, `one_stake` has one stake account: two would be independent but for lamports. `cranks` has two, with
batches of one for deactivation and of two for reclaims, so that a list is cut into several batches and a batch
fails over one of its members; the sizes in the code are 7 and 5.

`administration` has two wallets, so that one can hold what the other set, two pools and two mints, so that accounts can be mixed up,
and two transactions in flight, so that one can overtake the other. Proposed transactions are wrong in at most
one respect. `U64Max` is 1023, so that powers of ten fit up to three places, and the files have a range, a reversed range, a negative number, a
number above one, one with as many places as fit, and one with more digits than fit. `MCApart` explores the pools and the protocol fee one at a time: they share no account. `MCFewSettings` keeps one flash loan fee or one description at a time.

`clients` has two stake accounts (one quoted, one for the pool to move with) and one linear schedule with ends above zero. The account a preview
looks at has one of two balances, so that it may move between the answers. `report` has a history of at most four transactions and pages of one and two:
pages are full, partly filled, and empty, the last one is full, and transactions come during the reading.

`SYMMETRY` is used in safety runs only: over stake accounts, and over pools and mints in `administration`.

Deadlock is checked in every run: in these models a step is always possible, be it a
setting of a fee.

### Fairness

`FairSpec` assumes weak fairness of, for each stake account, `Crank(s)` (deactivate or reclaim) and of
`EpochPasses(s)`. Both instructions are permissionless (neither accounts struct has a signer,
`deactivate_stake_account.rs:7-25`, `reclaim_stake_account.rs:10-41`), and the CLI's `deactivate_all` and
`reclaim_all` exist to be run. Epochs end on their own. No fairness is assumed
of users, LPs or owners. Once sold, `RecordsControlled` keeps each enabled
crank step enabled until it is taken, so weak fairness is enough. The actions under
fairness carry the rent condition of the reserves, which a reclaim can only satisfy better.

In `Cranks`, `StartRun` and `SendBatch` are weakly fair: operators run the commands again and again, the way `cron` would.
`Land` is strongly fair for each batch: one that is sent over and over while it could be executed is
executed in the end. Single reclaims by others are not assumed to happen.

In `UnstakeReport`, `ReadPage` is weakly fair: the loop goes on. Nothing is assumed of the pool, which may be busy or stop.

### The findings

`FeeEnum::validate` accepts a linear fee whose two ends are equal, in agreement with the
documented invariant (`fee.rs:62`), but `apply` divides by their difference
(`fee.rs:164-174`). The run `constant_fee` shows a pool with such a fee in which no stake account can be sold until the
fee authority sets another fee. Nothing is lost; every unstake fails.

The Rust CLI's `fetch_liquidity_pool_stake_accounts` means to list stake accounts with a record, but its filter compares
addresses (`cli-rust/src/utils/state.rs:104-114`) and excludes none; the SDK's
counterpart fetches the records (`ts/src/fetch.ts:41-57`), and a test covers that (`tests/test-tsBindings.ts:170`). The run `cranks_stray` shows a
stake account made over by hand that fails its batch and ends `reclaim_all` again and again, while a sold
stake account in the same list is never reclaimed by it. `reclaim_stake_account` on its own still works for the latter.

The SDK's `previewUnstakeWsol` without a destination looks at the unstaker's SOL account, while the swap pays the unstaker's wSOL account
(`preview.ts:42`, `transactions/unstakeWsol.ts:93-95`). It returns the unstaker's own change and not the payout; the run `preview_wsol` shows it for a pool that did not
move at all. `PreviewErrsKnowingly` is checked, and proved, for the other requests (`DestinationGiven`).

The `unstakes` command of the TypeScript CLI "gets all successful unstakes for a pool" (`cli/src/cli.ts:466`) but looks for the data of `unstake` only (line 544). The run `report_wsol`
shows a successful `unstake_wsol`, which the specification of the program calls an unstake as well (`SPEC.md:278-280`), that the finished report leaves out. Nor is it in the totals.

### Observations

Facts met while modelling that need no interleaving, and have no run:

- A fee file defines a "liquidity pool's fee settings" (`cli-rust/src/subcmd/set_fee.rs:19`), but `10_i64.pow(dps as u32) as u64` (`cli-rust/src/utils/fee.rs:40`) overflows for 19 and more
  decimal places. A debug build panics; a release build wraps around, and from 20 places on the result is not the power of ten. `f64`'s `to_string` writes no exponent, so 1/30000 has 21 places;
  its denominator becomes 3875820019684212736 and the fee sent 0.86% instead of 0.0033%, which `validate` accepts. `FeeFile` has the conversion as it is (`Scale`); with a file of six places
  TLC refutes `FeesAreFiled` in two steps, an operator's `set_fee` or `create_pool` and its landing. `FilesFit` is what the theorem assumes instead.
- The TypeScript CLI's own conversion (`cli/src/utils.ts:18`) looks for a point in `n.toString()`, which is `1e-7` for small numbers.
- The fee column of the `unstakes` report (`cli/src/cli.ts:558`) is the stake less what left the reserves. The record's rent, the protocol's and the referrer's share leave the reserves as well,
  so it is less than the fee, and may be negative.
- The comment before `apply` leaves out that the protocol's share of the fee
  leaves the pool. That does not change the fee charged, and no property depends on it.

## 4. The proofs

All are checked by `tlapm` (SMT, Zenon, LS4), for every value of the constants
that satisfies the assumptions of `PoolMath` (`U64MaxAssumption`, `ONEAssumption`), `UnstakePool` (`UsersAssumption`,
`RentAssumption`, `AmountsAssumption`, `FeesAssumption`), for loans `FlashLoan` (`LoansAssumption`), and for the administration `PoolAdmin`
(`AccountsAssumption`, `SettingsAssumption`, `ProposedAssumption`) and `Commands` (`OperatorsAssumption`, `FilesAssumption`), for the cranks `Cranks` (`OperatorsAssumption`, `BatchAssumption`,
`StraysAssumption`), for the previews `Previews` (`RequestsAssumption`), and for the report `UnstakeReport` (`BatchSizesAssumption`). TLC evaluates these
assumptions in every run. `SolSupply \in U64` is the one that carries weight: the chain's
lamports fit a u64.

| Theorem | Says |
|---|---|
| `TypeCorrect` | `Spec => []TypeOK` |
| `IncomingCorrect` | `Spec => []IncomingIsRecorded` |
| `RecordsStayControlled` | `Spec => []RecordsControlled` |
| `RecordsStayCovered` | `Spec => []RecordsCovered` |
| `SupplyStaysBacked` | `Spec => []SupplyBacked` |
| `LastShareCorrect` | `Spec => LastShareTakesAll` |
| `ImplementsVault` | `Spec => VaultSpec` |
| `ImplementsStakeBook` | `Spec => BookSpec` |
| `TradersCorrect` | `Spec => TradersKeepTheirWorth` |
| `Conservation`, `OwnedCorrect` | `Spec => []LamportsConserved`, `Spec => []OwnedFits` |
| `ChargedCorrect`, `RangeCorrect` | `Spec => ChargedBySchedule`, `Spec => ChargedInRange` |
| `QuotesCorrect` | `Spec => QuotesFollowLiquidity` |
| `LoansEnd` | `TxSpec => []NoLoanOutlivesItsTransaction` |
| `LoansAreFollowed` | `TxSpec => []LoanWillBeRepaid` |
| `TxTypeCorrect` | `TxSpec => []TxTypeOK` |
| `IncomingOnLoan`, `RecordsOnLoan` | `TxSpec => []IncomingIsRecorded`, `TxSpec =>` the two about records |
| `BackedAtRestCorrect` | `TxSpec => []BackedAtRest` |
| `LendingKeepsVaultCorrect` | `TxSpec => LendingKeepsVault` |
| `LoansNeverCheapenSwapsCorrect` | `TxSpec => LoansNeverCheapenSwaps` |
| `CranksTypeCorrect` | `CranksSpec => []CranksTypeOK` |
| `AdminTypeCorrect` | `PoolAdmin`'s `Spec => []AdminTypeOK` |
| `LpTokensAreThePools` | `Spec => []LpTokenIsThePools` |
| `ImplementsCustody` | `Spec => CustodySpec` |
| `CommandsAdminister` | `CommandSpec => Spec` |
| `CommandsKeepCustody` | `CommandSpec =>` the three above |
| `FeesAreFiledCorrect` | `FilesFit /\ CommandSpec => FeesAreFiled` |
| `OnlyOvertakenFailCorrect` | `CommandSpec => []OnlyOvertakenFail` |
| `QuotesStayMarked` | `PreviewsSpec => [](IInv /\ QuoteInv)`, the invariant of the next two |
| `EstimateCorrect` | `PreviewsSpec => EstimateErrsKnowingly` |
| `PreviewCorrect` | `PreviewsSpec => PreviewErrsKnowingly` |
| `PagesSkipNothingCorrect` | `ReportSpec => []PagesSkipNothing` |

**Argument.** The inductive invariant of `UnstakePool` is

    AccountsInv == AccountsTypeOK /\ StakeFunded /\ RecordsControlled
                   /\ RecordsCovered /\ IncomingIsRecorded
    IInv        == AccountsInv /\ borrowed = 0 /\ SupplyBacked

`AccountsInv` allows lamports on loan, and its lemmas are about one step of the pool or of the world around it, so that the proofs about
transactions cite the same lemmas.

`StakeFunded` (an initialised stake account holds at least its minimum) is the
strengthening: without it a sale could book a stake account of no value, and then selling it
could take the last lamport behind the LP tokens: the record's rent leaves the
price, and it is only because the stake is worth at least that rent
(`RecordRent <= StakeMin`) that `SupplyBacked` survives. `RecordsCovered` needs `RecordsControlled`: only a
withdrawer lowers a stake account's balance, and the pool's only withdrawal is a
reclaim, which removes the record.

There is one lemma per conjunct that a step can disturb, one step per action in each. The shared lemmas: `PayoutBounds` and `RunUnstakePays` (a sale pays out at most
the stake's balance, and no more than the guard left), from `FloorMulBounds` (a ratio of
at most one takes at most what it is applied to); `DivBounds` for rounding; `SumLemmas` for adding,
removing and changing a member of the sum behind `IncomingIsRecorded`.

`ImplementsVault` maps every action to `Mint`, `Burn`, `Earn` or a stutter. Deposits
and redemptions keep the price by the rounding lemmas; a sale is an `Earn`, since assets lose
at most the record's rent, which `deposits` gains; a reclaim an `Earn`, since `RecordsCovered`
gives back at least what was booked and `RecordsControlled` the rent.

`ImplementsStakeBook` needs `RecordsControlled` for the owners' steps: an owner is not the pool, so the stake account
it acts on has no record.

`TradersCorrect` is about the two divisions: with q the quotient rounded down, (q + 1) times the divisor exceeds the dividend
(`DivBounds`); the four cases of `calc_lp_tokens_to_mint` and a redemption paid to the reserves themselves are steps of their own.

`OwnedCorrect` needs two invariants. `LamportsConserved`: what the reserves, the records and the stake accounts hold together never
exceeds `SolSupply` (one step per action, with `SumChange` for the balance that moves). And `IncomingIsHeld`: the pool counts for its records no more than the
stake accounts hold, from `RecordsCovered` and the monotonicity of sums (`SumAtMost`, `SumOfPart`). So the sum of `calc_pool_owned_lamports` never overflows.

`LoansEnd` and `LoansAreFollowed` use `LoanInv`: lamports are borrowed only with an open flash account, and an
open flash account has a lamport and a repayment ahead in a running transaction. Commit requires that none is
ahead; rollback restores a state without loans. The flash account's
missing rent is not used: the look-ahead alone is enough.

The other theorems on transactions have the invariant

    TxInv == AccountsInv /\ (~flashOpen => SupplyBacked) /\ LoanInv /\ ...
             /\ (running => Saved!AccountsInv /\ Saved!SupplyBacked)

where `Saved` is the pool's invariant of the accounts as they were at the transaction's beginning: a rollback puts `before`
back, and only because the invariant held of it does it hold again. Taking and repaying a loan are steps of their own; the instructions in
between are the pool's, by the lemmas on `AccountsInv`. `SupplyBacked` may fail while the flash account is open (its lamport may be the last), and is restored
by the repayment, which brings back what was borrowed, the account's lamport, and a fee of which at most a part goes to others (`LevyBounds`).
`LendingKeepsVaultCorrect` maps the pool's instructions by `ImplementsVault`'s lemmas, with the flash account's lamports as one more deposit, and shows a loan and a
repayment to be an `Earn`. `LoansNeverCheapenSwapsCorrect` is the monotonicity of the fee in the share of the liquidity that is locked (below).

**The fee schedules.** `Line(max, slope, incoming, owned, stake)` is the ratio of a linear schedule as the program computes it, with its two rounded
divisions by the slope and one of the quotients. `QuotesCorrect` shows it monotone in spite of the roundings, in three directions: less liquidity
(`LineFallingLiquidity`), more stake on its way (`LineRisingIncoming`), and a sale of a stake account that adds to `incoming` at least what it takes from the
reserves (`LineRisingStake`). What is behind them is arithmetic on integers: the start of the line never exceeds any point of it (`StartArithmetic`,
`LineAboveStart`), so that moving liquidity to the other side of the fraction can only raise it (`FallArithmetic`, `RiseArithmetic`). Multiplication by the
stake and the ceiling are monotone (`FeeByRatio`, `FeeFollowsShare`). `OnSchedule` is where the ratio is at most the line's end; beyond
it a sale may lower it, as TLC's counterexample to the property without that condition shows.

`ChargedCorrect` bounds the same line against the exact rational one (`RoundingArithmetic`: how far a quotient of rounded numbers is from the
quotient of the exact ones; `EndsRound`: how far the ends are; `LineRounds`: both together; `ExactArithmetic`: the cross-multiplied result).
`RangeCorrect` adds what the liquidity check of `run_unstake` implies for the ratio (`PayableRatio`). It is only because of that check that the ratio is
bounded at all, and because the fee is rounded up before the check that one lamport goes beyond the end (`RangeArithmetic`).

`CranksTypeCorrect` needs `Stakes` to be finite: a list enumerates a set of stake accounts without repetition, and a batch of its first n elements has at most n
members; the rest is again a list without repetition. Control of the records is preserved by `StakeBook`'s steps and by the landing of a batch.

`FeesAreFiledCorrect` has the invariant `FiledInFlight` (every transaction of an operator in flight carries a fee some file says) on top of the types; so a fee that lands late is
still one of the files'. Its hypothesis `FilesFit` says that no file has a number whose power of ten exceeds a u64, nor a whole number that does; the first observation above
tells what happens otherwise. The run's files satisfy it.

`LpTokensAreThePools` strengthens `LpTokenIsThePools` by `FreeMintsAreBlank`: a mint that does not exist has no tokens issued and no metadata. `create_pool`
creates its mint, so it starts blank, and afterwards only the pool's reserves, for which no wallet signs, are its authority.
`ImplementsCustody` maps each instruction to founding or amending the charter of the account it writes, and shows that no other charter moves: for
metadata that is `LpTokenIsThePools` again, since pools do not share mints. `CommandsAdminister` shows that each subcommand is a `Sign`.

`OnlyOvertakenFailCorrect` divides the checks of a transaction into two. What they ask of the transaction itself (it is signed, its accounts are the pool's, its fee
is valid) holds when the node accepts it and for ever: `FormedInFlight`. What they ask of the accounts is undone by nobody (`PoolsStay`: a pool is not closed and keeps its mint;
`PoolsHaveFees`: pool and fee account are founded together), but for what `Overtaken` names. For metadata the mint's description is the pool's own to change, by `LpTokenIsThePools`.

**Estimates and previews.** `QuoteInv` says where a quote in hand comes from. There was a moment with incoming stake i and reserves a for which what the user holds is true: the
reserves he read, the estimate he computed, the change that was simulated. From it the present pool has only moved as `since` is marked (`Since`): unless marked as drained, it has no
fewer lamports and no more stake on its way; unless marked as relieved, no more lamports, and the record's address holds no more than it did. The step rests on three facts about any step of the pool: `EffectsTell` (a quote that is
kept is marked by everything that moves its fee), `IncomingLeaves` (stake ceases to be on its way only by a reclaim, which brings the reserves at least as much), and `RecordsFill` (a record's address that is not in use is never
emptied). For an estimate, the two reads may be of two pools, so the moment is one of the reserves' and its own of the incoming stake. `EstimateErrs` then compares two exact ratios (`ExactRelieved`, `ExactDrained`: monotone in i and a) and takes
the step from the exact ratio to the charged one from `ChargedCorrect`'s lemma. A preview is compared with the program's own rounded line, by `FeeFollowsShare` where the pool was relieved, and by
`FeeOfDrained` where it was drained: with `LineDips` (more incoming stake lowers the rounded line by at most one unit) within the schedule and `LineBeyondEnd` for a stake beyond what the pool can pay, where the liquidity check of the swap bounds
the fee instead.

**The report.** `ReportInv` says that at any time in the reading the rows are the successful `unstake`s of the part of the window already read, save those the node
could not serve, newest first (`RowsAreRead`), where the part ends at `Cursor`. A page is the next part (`PageBounds`: a page that is not full reaches the window's end, a full one has a last member, found by counting), and its rows are older than those before
(`JoinedLists`). `ListsAll` is why a list without repetition, as long as the set it draws from, has all of it (`FS_Injection`, the pigeonhole principle of the library). The history may grow between the pages:
what is in it stays, and what comes is above the window's top, except at the first page without `--before`, which may show it too.

**Model-checked only.** Out of the prover's reach is liveness: `EventuallyReclaimed`, `DrainsWhenSalesStop`, `ReportEnds`. Every other property of a passing run is a
theorem. That `CanUnstake` is when an `Unstake` without a referrer is enabled cannot be said to the prover either (`ENABLED`); it was compared by TLC on the states of `clients`.
The properties of the four runs that expect a violation are not true there.

## 5. What is not modelled

- Error codes, logs, account sizes, serialization, generated code, argument parsing: no
  property is about them.
- Account validation by Anchor in the modules with lamports: an account there is the right account. `PoolAdmin` has the constraints that tie
  accounts to each other (seeds, `has_one`, addresses, `init`, signers); owners and discriminators are left out everywhere.
- The subcommands, commands and transaction builders that assemble one instruction from fetched accounts and keep nothing
  (`add_liquidity`, `remove_liquidity`, `unstake`, single cranks, views, fetches), in all three clients.
- The generated interface: serialization of instructions and accounts.
- Who holds each LP token: the pool reads only the supply.
- The program's upgrade and migration of accounts.

## 6. Plan

Done in this order: `PoolMath`, `UnstakePool`, `LpVault` with the refinement, `FeeSchedule`, `FlashLoan`, `StakeBook`, `Cranks`; proofs
of the core and of both refinements; `PoolAdmin` and `Custody` with the refinement proved; `FeeFile`, `Commands`; `Quotes`, `Previews`, `UnstakeReport`;
proofs of conservation, of the traders' side, and of the CLI's custody; proofs of the fee schedules for every scale, of transactions with loans and rollback,
of the refinement of the vault by the pool with loans, of the cranks' lists and batches, and of the fees that files say;
proofs of the commands that are only ever overtaken, of the report for any page size, and of the estimates and previews for every schedule and scale.

What could follow:

1. `ReportIsComplete` as a theorem, once the command knows `unstake_wsol`.
2. A protocol fee in `ChargedBySchedule`, `EstimateErrsKnowingly` and `PreviewErrsKnowingly`: what a swap was charged then has to be told from what the protocol and the referrer took out of the pool.
3. Deactivation over several epochs, as the stake program does when much stake is deactivated at once.
