# Bert market maker: a TLA+ verification project

The repository is a Node/TypeScript bot that keeps one concentrated-liquidity
position for BERT/SOL on Solana and, beside it, runs a pooled vault: depositors
enrol over Telegram, send SOL or BERT to an address of their own, receive shares
and withdraw to a whitelisted address. This directory holds TLA+ models of its
stateful parts, TLC configurations that check them on small instances, and TLAPS
proofs for all values of the constants. Paths below are those used in
`PROJECT.json` (`src/src/...` is the code, `src/docs/...` the documentation).

## 1. Inventory

### How the program runs

One Node process runs a tick loop (`src/src/main.ts`) and a Telegram poll loop
(`src/src/telegramCommander.ts`). Handlers run one after the other, but they
interleave with the tick at every `await`. Between two awaits nothing else runs,
so a database check followed by a write is atomic unless an `await` or a crash
separates them. No mutex exists. The command line (`src/src/cli`) is a second
process on the same SQLite file and the same wallet, also without a lock. systemd
restarts the bot ten seconds after it dies; SQLite survives, everything else is
lost: price history, prompts, unlocked sessions, lockouts, running submits.

Transactions go through `TxSubmitter`: sign, send, wait for a confirmation,
retry up to three times with a new blockhash. A rejection does not mean that the
transaction is dead: it may land later.

### Components

| component | state | operations | talks to | what must hold |
|---|---|---|---|---|
| withdrawal queue and executor | `vault_withdrawals`, `vault_shares`; position in `drain()` | enqueue, drain, pay, record signature, burn, fail, `/forceprocess` | submitter, rebalancer's position, NAV, stop flags | one payout per request; burn exactly once and only after a payout; a row with a signature is frozen; the queue moves |
| deposit watcher, pipeline, sweeper, credit engine | `vault_deposits`, `vault_shares`, audit rows | poll, detect, sweep, credit, `/recreditdeposit` | submitter, price, NAV | mint only what was swept, once; never sweep another inflow's money; every inflow is credited in the end |
| tick, rebalancer, position state | `position_state`, `rebalance_log`, degraded flag | tick, decide, close, swap, open, persist, record, roll back, boot check | strategy, venue, submitter | at most one position; none forgotten; state names confirmed positions only; daily cap; an empty table gets filled |
| operator command line | none of its own | force, collect-fees, exit, close-orphan, reconcile, clear-degraded, pause | the bot's database, wallet and kill file | does not invalidate what the bot relies on |
| depositor requests and whitelist | prompts, unlocked sessions, `vault_pending_whitelist_changes` | withdraw, amount prompt, set and cancel whitelist, reveal, code | NAV, queue, tick | caps and balance hold; payouts go only to matured addresses; an address changes only after its cooldown |
| 2FA gate | secrets, enrolment and replay counter in `vault_users`; prompts, failures, lockout, session in memory | enrol, verify, lock, `/resettotp` | all prompts | a code counts once; bounded guessing; a guarded command follows a fresh code |
| Telegram transport | the poll offset, in memory | poll, dispatch | every handler | no update lost, reordered or in the way of the next |
| NAV and shares | `vault_nav_snapshots` | bootstrap, credit, burn | deposits, withdrawals | the book follows the money; another's withdrawal costs a share no more than its part of what the pool was overvalued by, and his deposit no more than the snapshot was behind |
| oracle, strategy | price history, cooldown | median, divergence filter, decision | tick | a trusted price is everybody's; samples older than a range do not count against it; an out-of-range price is acted on |
| submitter and Jito client | none | bundle, poll, fall back, retry | everything that sends | a doubled send does no harm beyond what the callers tolerate |
| venue clients, fetchers, screens, configuration, encryption | - | I/O | - | not modelled or only in part, see section 7 |

Hard behaviours: a crash between a confirmed transaction and the write that
records it; a submit that rejects although its transaction lands; an SQLite
write that throws after money has moved; a handler that runs while the tick
awaits, and the tick while a handler awaits the NAV; the command line beside the
bot; midnight between the cap's check and the log entry; several whitelist
changes that mature together; a step of the TOTP clock between two clock reads;
updates that are delivered again after a crash; prices that move while a
withdrawal is paid; a bundle that lands after it was given up. `PROJECT.json`
lists them as hazards, each at its line.

## 2. Plan

Done, in this order, the money paths first:

1. `PayoutLedger`, `Withdrawals`: the withdrawal side and the abstract promise
   it implements; `WithdrawalsProofs`.
2. `Deposits`, `DepositsProofs`.
3. `Rebalancer` (tick, executeRebalance, boot, command line), `RebalancerProofs`.
4. `VaultRequests`: requests, caps, whitelist.
5. `TotpGate` and `Chat`: the second factor, and the Telegram poll loop composed
   with it, so that redelivered messages meet the replay counter.
6. `Fractions` and `NavLedger`: what the other vault modules leave constant, the
   price of a share, with deposits, recredits and withdrawals beside each other.
7. `Market` (oracle and strategy as pure functions) and `Trading`: the tick that
   decides, and the swap with its bundle, fallback and retries, in amounts.

8. Proofs of every safety property the runs check: `VaultRequestsProofs`,
   `ChatProofs` (the gate included), `NavLedgerProofs`, `TradingProofs`, the share
   sums of `Withdrawals` and `Deposits`, and the one-position argument of
   `Rebalancer`.
9. `Arithmetic`: the lemmas on sums, Euclid's algorithm and exact fractions on
   which four of those modules rest.

Open: an abstract deposit ledger beside `PayoutLedger`, and the refinement of the
one-step executors named below to the detailed one.

`VaultRequests` uses a one-step abstraction of the executor (`Settle`), whose
detail is `Withdrawals`; `NavLedger` a payment that succeeds or is given up,
whose detail is the same module.

## 3. Modules and code

### Withdrawals (and PayoutLedger)

`status`, `owner`, `burned`, `txSig`, `shares` are the columns of
`vault_withdrawals` and `vault_shares`; `stops` the flags that make the tick skip
the drain; `sends`, `mempool`, `landed` the transactions on their way and on
chain; `pc`, `batch`, `cur`, `tries`, `oracle` the position of
`drain()`/`processOne()`/`submit()` and whether the price history has a sample.
There is one action per stretch of code between two awaits, and one more cut at
each database write, where a crash or a throw matters: `TakeNext` (the loop up to
`setWithdrawalProcessing`), `CheckMid`, `ReadBalances`, `PartialClose`,
`SendTransfer`, `TransferConfirmed`/`AttemptThrows`, `RecordSig`
(`markWithdrawalSent` and its catch), `CommitBurn` (the completion transaction),
`DrainCatch`. Handlers run only where the executor awaits (`Awaiting`).

Faults are constants. `LostAnswers`: a send may reject although its transaction
is pending or landed. `DbFaults`: a write may throw. `MayCrash`: the process may
die at any step.

`PayoutLedger` is the abstract promise: a request, at most one transfer for it,
one burn after the transfer. The refinement mapping reads the phase of a row off
its status and the chain.

### Deposits

`owner`, `amount`, `newer`, `balance`, `pool`, `landed`, `late` are the chain (the
`newer` count decides whether the ten-signature listing still shows an inflow);
`credited`, `shares`, `detected`, `swept` the tables and the two kinds of audit
rows that `/recreditdeposit` reads; the rest is the position of `pollAddress()` and
`onInflow()`. `RecreditCheck`/`RecreditCommit` are the operator command before and
after its await of the price, which races the pipeline's own `Credit`. The sweep
moves the inflow's amount minus the rent reserve, and fails on chain when the
address holds less. `FetchFails` is what can end the work on a signature before its
sweep is sent: a transaction the node does not know, or an RPC call or audit write
that throws.

### Rebalancer

`job[p]` is the position of process `p` ("bot" or "cli") in the tick, in
`executeRebalance` or in a command; `live`/`opened` are the positions on chain;
`late` the transactions nobody waits for any more. `executeRebalance` is written
once and used by both processes, as in the code. `decide()` is a
nondeterministic answer behind its hard gates (kill switch as sampled at the
tick's start, degraded flag, daily cap). The boot check looks up the stored mint
only. `reconcile` asks the chain with a SOL price of zero, so what it stores has
zero bounds (`zeroed`), which the boot check refuses.

### VaultRequests

`pending` is the prompt map, `unlocked` the sessions within five minutes of a
right code, `call` the handler that awaits `getNav()`. While it waits, the tick may
settle rows or activate whitelist changes; other handlers wait. `CheckRequest`
holds both versions of the checks, that of `/withdraw` with caps and that of the
amount prompt without. `HandleReveal` stands for `/deposit` and `/balance`, which
overwrite a prompt and unlock the session like the others.

### TotpGate and Chat

`TotpGate` has one operator per handler and no next-state relation of its own:
`Chat` starts the handlers with the updates it delivers, and adds the clock and
the crash. Time counts TOTP steps. A code is the counter it was made for, so
that `VerifyCode` is the window and the strict advance of
`totp_last_used_counter`; `slip` is the step that may begin between
`totp.validate` and `currentCounter()`. The limiter's list of failure times is a
set of pairs, a time and its place in the list. A wrong set-up code is audited
before it is counted, so it may go uncounted. `SetupTorn` is the enrolment whose
second write is lost. What a guarded command does is left out; that it runs is
recorded in `unproved` if no code was accepted within the unlock time. `spare`
(how often a code may still count), `misses` and `proved` are history and no
handler reads them.

`queue`, `batch` and `done` are what Telegram holds, what the last `getUpdates`
returned and how far the loop has come. The offset moves before the handler runs,
so a handler that throws is not called again, and the rest of its batch is asked
for by the next poll; a crash resets the offset, and whatever no poll has
confirmed comes again. What an update says is chosen when it is first read, which
is the same as when it is sent, and stays.

### NavLedger (and Fractions)

`pool` is the worth of wallet and position in the smallest unit a transfer can
carry, at the prices of the oracle's last sample; a new sample is a `Move`. Shares,
prices and the book are exact fractions. `BookPrice` (latest snapshot over current
supply) prices deposits, `LivePrice(e)` withdrawals: `processOne` takes the pool for
`pool + e`, because `getPosition` values the position's BERT at the center of its
range and not at the market, because a position that is not found counts as
nothing, and because wallet and position are read in two awaits. `QuotedPrices`
serves the checks of the commands: `getNav` misjudges in the same way, counts
uncollected fees besides, and falls back to the snapshot. A sweep leaves the rent
behind or, of a deposit in BERT alone, nothing. The tick loop is `pc` and `job`; the
commands and the market run beside it. `GiveUp` is any failure or death in a job.
`drift`, `ahead`, `clean`, `skewed` and `late` are history: what has come to the
pool since the snapshot, how much more the pool is worth than the withdrawal in work
was priced at, whether the job was disturbed, whether the book is set wrong.

### Market and Trading

`Market` holds the oracle (`ComputeTrustedMid`), the range and the trigger of the
strategy as operators. The pool quotes BERT in SOL: a range is centered on the USD
price of the tick that opens it and converted with that tick's SOL/USD (`InSol`), and
every later tick converts it back with its own (`InRange`), so its USD bounds move
with SOL/USD, and `decide` compares them with samples of every age. `sol` is the
SOL/USD of the tick, the mean of the sources that give one or the fallback of 150,
hence any of `SolPrices`; `center` is in SOL; `solThen`, history, is the SOL/USD of
the opening. `Trading` is the tick with them: `Fetch`, the decision,
then `executeRebalance` from the read of the balances to the open, with the swap
to 50/50 as a bundle that is confirmed or given up, up to `SubmitRetries` plain
sends, and sends that land after they were given up (`flying`). Holdings are in
USD at the price of the tick. Close, storage and roll-back are `Rebalancer`'s; here
a rebalance either begins or does not (and then the drawdown breaker may have set
the degraded flag), and an open that fails leaves the row of the closed position
behind, or that of the one rolled back.

## 4. Runs

| run | instance | shows |
|---|---|---|
| `withdrawals_exact` | 2 users, 2 rows, 2 attempts, 1 requeue, crashes, two stop flags | `PaidAtMostOnce`, `FailedIsUnpaid`, `RowIsOurs`, `ImplementsLedger`; liveness `EventuallySettled` |
| `withdrawals_faults` | the same with lost answers and failing writes | `CompletedIsPaid`, `SharesMatchCompleted`, `SentIsFrozen` |
| `withdrawals_lost_answer` | violation | "If this throws, no funds have moved" does not hold: `FailedIsUnpaid` |
| `deposits_exact` | 2 users, 2 inflows, amounts on both sides of the reserve | `SweptOnce`, `UnsweptIsThere`; liveness `SweepableIsCredited` |
| `deposits_faults` | the same with every fault | `CreditedIsSwept`, `MintedOnce` |
| `rebalancer_exact` | the bot, `clear-degraded`, `emergency-exit`, `close-orphan` and the kill switch, 4 mints, 2 days, cap 2 | `AtMostOnePosition`, `NothingOrphaned`, `DailyCap`; liveness `OpensEventually` |
| `rebalancer_faults` | every fault, every other command beside the bot, 2 mints | `StoredWasOpened`, `ReplacesNotAdds` |
| `requests_safe` | 1 user, 2 addresses, 3 changes, 1 row, 3 instants, crashes | `TypeOK`, `DestinationMatured`, `NewestChangeCounts`, `ReplacedAfterCooldown` |
| `requests_overdraw` | violation | shares become negative: `NoOverdraw` |
| `chat_safe` | 1 user, 2 queued updates, 3 clock steps, 2 failures lock, crashes | `TypeOK`, `CodeCountsOnce`, `GuessesBounded`, `ActsAreProved`, `InOrderOnce`, `NothingSkipped`; liveness `QueueMoves` |
| `nav_book` | 2 users, 3 deposits, requests and moves together, 2 instants, the pool taken for 2 less, what it is, or 1 more | `BookFollowsMoney`, `SnapshotsInOrder`, `PayoutIsFair`, `DilutionBounded` |
| `trading_tick` | 2 sources, 3 prices, SOL/USD 9 or 10, half width 10.5 %, window of 2 polls, 2 attempts, 1 abandoned send | `TypeOK`, `RangeHoldsQuotes`, `SwapNoWorse`, `FloorKept`, `OldPricesDontCount`; liveness `Recentred` |

Every property in the table but the liveness ones is also proved for all values
of the constants (section 5). The types of `Withdrawals`, `Deposits` and
`Rebalancer` are proved only, and no run repeats them.

Every property of a passing run has a mutant in `PROJECT.json`: a variant of one
mapped definition, kept beside it in the module (`CapReachedLate`,
`NextSigUnchecked`, ...), under which TLC finds the property violated.

### Bounds

Two rows, inflows or positions are what the properties relate: a row and the
next of the batch, an inflow and one whose money could be taken for it, a
position and its replacement. Two attempts of a submit give an abandoned
transaction beside a live one; one requeue gives a second payout if there is one
to be had. Four mints over two days let the log reach the cap of two on one day
and start again on the next. Three changes give an active address, a pending
change and a newer one that overtakes or is cancelled; users do not share state
in `VaultRequests` except the queue length, so one user suffices there. `Window`
is 4 or 6 instead of 10, so that a listing can or cannot overflow with two
inflows. In `chat_safe` the limits are 2 instead of 5 failures and a few steps
instead of minutes: a window, a lockout and a session each begin, overlap and
end within three steps. Users share only the queue there, so one user suffices.
In `nav_book` three events allow a move, a deposit priced with the stale
snapshot and a request across it, or a request, a move while it is priced or
paid, and a deposit after it; the founder and one depositor are everybody and
somebody else; the pool can be over- and undervalued. In `trading_tick` the
price 20 agrees only with itself and is outside every range around the others,
10 and 11 lie within the divergence limit; SOL/USD of 9 is within the half width
of 10 but not 10 within that of 9, so that both sides of the premise of
`OldPricesDontCount` occur; one wallet must sell SOL, the other BERT. One
abandoned send is what `SwapNoWorse` and `FloorKept` speak of. With two sources
the median is the higher quote; that of three and more is a matter of the proof.
`QueueMax`, `MaxOps`, `MaxAbandoned` are bounds of the models, not of the code.
Time stands at `MaxTime` when the bound is reached; the other bounds disable the
request that would exceed them. Symmetry is used only in runs without liveness.

### Fairness

- `Withdrawals`: weak fairness of the executor (the tick loop never ends by
  itself; every await settles) and of the chain (a blockhash is valid for about a
  minute, so a sent transaction lands or expires); from some time on no crash.
  Handlers are not fair, and the stop flags are a premise of `EventuallySettled`.
- `Deposits`: weak fairness of the pipeline, the operator command's second half
  and the chain; strong fairness of each user's poll (every tick polls everybody),
  of a price, and of fetching and landing each inflow: the RPC node does not
  refuse the same request for ever. From some time on no crash.
- `Rebalancer`: weak fairness of the tick and the chain; strong fairness of
  `executeRebalance`, because submit attempts are finite, and of `OpenInitial`,
  because a trusted price comes back.
- `Chat`: weak fairness of the poll and of the handler (the loop never ends by
  itself, a failed request is repeated, every await settles); from some time on no
  crash. Messages and the clock are not fair.
- `Trading`: weak fairness of the tick and of the chain; strong fairness of
  `BeginRebalance`, because a close that is tried again and again is sent some day;
  from some time on no restart. Quotes are not fair: the price being out of range
  and trusted, at a steady SOL/USD, is the premise of `Recentred`; a SOL price that
  swings for ever can bring one sample of each window back into the bounds.

## 5. Proofs

All for every value of the constants, from the modules' named assumptions: sizes
are naturals, fault switches Boolean, `NoMint`-like values are not members of the
sets. Beyond that, `NavAssumption` has finitely many users, fees and splits
between 0 and 1; `MarketAssumption` finitely many sources and
0 < divergence < half width < 1 (`src/src/config.ts` wants the first and the last;
the second is what `RangeHoldsQuotes` is about); the fractions among the constants
are in lowest terms, which is a matter of notation.

- **WithdrawalsProofs.** `SafeInv` is inductive under all faults: types, the
  retry budget, `RowIsOurs`, signatures in use are below the row's send count,
  `SigFollowsChain` (until `markWithdrawalSent` the row has no signature; after the
  confirmation the latest one is on chain) and `CompletedIsPaid`. None of the last
  three is inductive alone: that a completed row names a landed transaction needs
  to know what the executor remembers between confirmation and commit.
  `SentRowsAreFrozen` is the action property from the same invariant;
  `SharesConserved` follows the sum over a user's completed rows through each
  commit. With `Exact` (no lost answers, no failing writes; crashes allowed)
  `ExactInv` adds that rows outside processing have nothing alive, that an older
  attempt is dead before a newer one is sent, and that at most one transaction per
  row is alive: `DoublePayGuard`, `FailedWasNotPaid` and `LedgerRefinement`, which maps
  every step to a ledger step or a stutter.
- **DepositsProofs.** `SafeInv`: types, what the pipeline and the audit refer to
  exists, audited and to-be-credited sweeps have landed, `CreditedIsSwept`.
  `SharesAreMinted` adds the sums, with the pipeline and `/recreditdeposit` racing
  for the same inflow. Under `FaultFree`, `ExactInv` says that nothing is abandoned
  and that an uncredited inflow whose sweep has landed is the one at hand, hence
  `SweptAtMostOnce`; with it, `UnsweptStaysThere`: a sweep takes its own inflow out of
  the address's sum and nothing else.
- **RebalancerProofs.** `SafeInv` states per process what its label implies about
  the chain (`Fits`) and that a closed position does not return, under all faults
  and with the command line: `ReplacesNotAdds`, `StoredWasOpened`. `DailyCapHolds`
  counts a slot for each process that has passed the cap check and has not logged:
  log plus slots stay within the cap, plus one if rebalances can be forced.
  `OneInv` holds without faults, forced rebalances and `reconcile` (`Undisturbed`):
  the positions that exist are within the stored one, the one the bot holds, or the
  one it opens, by its label (`BotFits`); and an emergency exit beside it
  never takes the position the bot is opening (`CliFits`). That last part is what
  makes it inductive: between a confirmed exit and its write the row still names
  the closed position, which keeps the bot from opening. `OnePosition`, `NoOrphans`.
- **VaultRequestsProofs.** The ids of whitelist changes follow the times of the
  requests (`IdsFollowTime`), so a waiting change is newer than every activated one
  of its user (`WaitingIsNewer`). Without that, `activateDue` with several due
  changes could leave an older address behind. A change that is activated has
  waited for its cooldown (`DueInTime`), and a handler that has read an address
  before its `await` has read a matured one (`CallMatured`): `PaysToMatured`,
  `NewestCounts`, `Replaced`, `TypeCorrect`.
- **ChatProofs.** `GateInv` is preserved by every handler of the gate, by the clock
  and by a crash; `PollInv` by the poll loop. `CounterInv`: a code above the recorded
  counter has not been used up, and who is being enrolled has no counter.
  `LimiterInv` relates the limiter's list of failures to all refused codes: whoever
  is not locked has fewer than the threshold within the window, and a lockout lasts
  until the window is over, for which `FailureWindow <= Lockout` is needed.
  `SessionInv`: an unlocked session ends `Unlock` after an accepted code. `PollInv`:
  exactly the updates before the offset were dispatched since the start. From these
  `CodeOnce`, `GuessesStayBounded`, `ActsProved`, `InOrder`, `NoneSkipped`.
- **NavLedgerProofs.** `OrderInv`, about times alone, gives `SnapshotOrder`. `BookInv`
  adds that every share, price and book value is a fraction in lowest terms with
  the sign it should have, that the row in work waits, that a deposit's price is
  still the book's when it is credited (`CreditAtBook`), and that the payout in work
  is what an undisturbed price of the pool, as it was taken for, gives (`PricedLive`).
  `BookIsRight`: the snapshot of a credit adds the deposit, that of a withdrawal is
  what the pool was taken for less what was owed, and `drift` takes up the rest
  exactly, the misjudgement included. For `PayoutsAreFair`, supply times price is what
  the pool was taken for, which is its worth less `ahead`; the payout is at most the
  net shares at that price, so what it costs the others beyond their part is at
  most the burned shares' part of a negative `ahead`. For `DilutionIsBounded`, what is
  minted is the deposit at the book price, and the book is behind by `drift`.
- **TradingProofs.** `TradeInv`: until the position is open the wallet is the
  starting one after k swaps, and k is bounded by the sends given up, flying or
  waited for; at most two have landed if one was given up, and two swaps end as
  far from 50/50 as none, on the other side (`SwapIsNoWorse`, `FloorIsKept`).
  `TickInv`: the newest sample is the oracle's answer of the tick, and the
  sample a position was opened around is as old as the position unless it is
  lost or out of the window. The range being kept in SOL, its bounds of a tick
  are those around the opening price scaled by the two SOL prices
  (`BoundsScale`, `InSolUndoes`), and the opening sample is inside exactly if
  the SOL price now is within the half width around that of the opening. With it
  `OldPricesNeverCount`: on that premise, while an older sample is in the
  window, the opening one is too, and `decide` holds. `RangesHoldQuotes` is
  about any number of sources: the median exists and has at most half of the
  quotes below it, so the mean is at least halfway between the lowest quote and
  the median, and a spread within h times the median keeps lowest and highest
  within h times the mean. `TypeCorrect` includes the cap on the deposit: two
  floored parts do not exceed the whole.
- **Arithmetic.** Folds over finite sets do not depend on the order, sums of
  integers and fractions change by what one summand changes, Euclid's algorithm
  finds the greatest common divisor, a fraction in lowest terms is determined by
  its value, and `Plus`, `Times`, `Over`, `Less` obey the laws of an ordered field. The
  library's induction theorems take an operator, which the provers cannot
  instantiate; these proofs look instead at a least number, or a smallest set, for
  which the claim fails, and the recursive functions are shown to exist by giving
  one.

Only model-checked: the five liveness properties (`EventuallySettled`,
`SweepableIsCredited`, `OpensEventually`, `QueueMoves`, `Recentred`), because fairness
and ENABLED are outside the prover.

## 6. Disagreements found

With a run (see `findings` in `PROJECT.json`):

- A rejected submit fails the row although its transfer may land; `/forceprocess`
  then pays again, and the submitter's own retry can pay twice.
- Requests are checked against shares that queued requests will burn.

Met while modelling, without a run. Deposits, withdrawals and positions:

- A retried sweep asks for the inflow's full amount of an address that is already
  empty and never succeeds (`src/src/vault/sweeper.ts:26`), where a comment counts
  on "drain whatever is left" (`src/src/vault/depositPipeline.ts:53`); only
  `/recreditdeposit` helps, if the audit row exists. With one user,
  one inflow and `MayCrash = TRUE` in `MCDeposits_exact.cfg`, TLC finds
  `SweepableIsCredited` violated.
- The amount prompt bypasses the daily caps and the queue limit
  (`src/src/vault/commands.ts:776`), and none is looked at again when the code
  arrives; "3 withdrawals per day" (`src/docs/explained-for-beginners.md:198`).
- The boot check looks up only the mint the database names (`src/src/main.ts:90`),
  so it does not see an orphan; the design wants the bot to refuse to start
  (`src/docs/superpowers/specs/2026-04-09-bert-mm-bot-design.md:264`).

- If the write of the signature and the audit write after it both throw, `drain()`
  fails a paid row without a signature and `/forceprocess` pays it again
  (`src/src/vault/withdrawalExecutor.ts:159`; the model has this path).
- `reconcile` reports every healthy position as a mismatch and, confirmed, stores
  zero bounds that the boot check refuses (`src/src/cli/reconcile.ts:13`).
- A row that a crash leaves in processing is taken up by nothing; the overview's
  `/forceprocess` applies to failed rows only.
- A drain before the first price sample fails every queued row.
- An inflow at or below the rent reserve is never swept; more than ten signatures
  between two polls hide an inflow.
- A close that rejects leaves the bot undegraded; if it landed after all, the
  stored position is gone and the bot holds for ever.
- A sweep that lands after its answer was lost, and the next poll's sweep of the
  same inflow, take another inflow's funds (`src/src/vault/depositPipeline.ts:148`):
  with `LostAnswers = TRUE` in `MCDeposits_exact.cfg` TLC finds `SweptOnce` and
  `UnsweptIsThere` violated.
- `rebalance --force` ignores kill switch and degraded flag, and beside the bot's own
  rebalance leaves two positions (`src/src/cli/force-rebalance.ts:36`): with
  `Commands = {"force"}` in `MCRebalancer_exact.cfg` TLC finds `AtMostOnePosition`
  violated.
- A crash between a confirmed open and `setCurrentPosition`, or a failing write and a
  failing roll-back, orphans the new position (`src/src/rebalancer.ts:272`, `:286`); if
  only `recordRebalance` fails, the row of the rolled-back position stays. The YES
  of `reconcile` is applied to what was read before the prompt
  (`src/src/cli/reconcile.ts:47`). With `MayCrash`, `DbFaults` or
  `Commands = {"reconcile"}` in that configuration TLC finds `NothingOrphaned`
  violated.
- The design's mutex between handlers and tick does not exist, and pausing the
  vault does not stop deposits.

The second factor:

- A TOTP step that begins between the two clock reads of `verifyCode` records the
  next counter (`src/src/vault/totp.ts:47`): the code of that next step is refused
  afterwards, and a code that has counted before passes the replay check once
  more. `CodeCountsOnce` allows for exactly this and for the next item.
- If the second write of the enrolment is lost, the set-up code opens the gate
  (`src/src/vault/enrollment.ts:75`).
- A wrong set-up code whose audit write throws is not counted
  (`src/src/vault/commands.ts:409`, before `:417`); `GuessesBounded` is about the codes
  that are.
- `/resettotp` leaves the unlocked session, the prompt and the limiter as they are.
- The custom-amount and set-address buttons set a prompt without looking at the
  lockout; "locked users can't pile up pending actions"
  (`src/docs/vault-v1-overview.md:136`).

The book:

- The rent left at a deposit address is credited, at everybody's cost.
- `processOne` pays what it takes the pool for. The position's BERT is valued at the
  center of its range (`src/src/meteoraClient.ts:173`,
  `src/src/raydiumClient.ts:196`), so below the center a withdrawal is paid too much
  and above it too little; the sample may be old (`src/src/main.ts:338`), and a
  position that is not found counts as nothing (`src/src/main.ts:349`).
  `PayoutIsFair` says what that costs the others: the burned shares' part of the
  error.
- What was swept and not yet credited is in the wallet when a withdrawal is priced,
  which is then paid too much; the book is wrong until the next withdrawal that
  nothing disturbs.
- `/recreditdeposit` beside a withdrawal leaves the withdrawal's snapshot behind
  its own, where it is not seen until the next one.
- `getNav` is read for the check and again for the row; it counts a position it
  cannot read as zero, so more shares than the user holds can be queued. It counts
  uncollected fees, and `processOne` does not.
- After a payment whose completion is lost the shares are still there and can be
  asked for again.
- A comment counts on snapshots of an "hourly tick" (`src/src/main.ts:395`), but the
  hourly report writes none; `DilutionBounded` says what that costs.
- Once overdrawn accounts make the supply zero or negative, the price is 1 whatever
  the pool holds, and the next credit writes that into the book.

Prices and trading:

- `sustainedMinutes` is compared with a number of samples
  (`src/src/strategy.ts:35`): at the usual 30-second polls ten samples take five
  minutes, so after a restart half the time is enough; with polls much more
  than a minute apart the bot never rebalances ("sustained outside the current range for
  10 minutes", `src/docs/explained-for-beginners.md:53`). The history keeps 120
  samples, which also cuts windows longer than an hour.
- The USD bounds of a range follow SOL/USD (`src/src/main.ts:565`), which falls back to
  150 when no source gives it (`src/src/main.ts:545`), while the samples they are
  compared with (`src/src/strategy.ts:37`) were taken at other SOL prices. Once SOL/USD
  has left the half width around its price at the opening, samples from before
  the position was opened count against it, if the rebalance that opened it was not
  logged or the cooldown is shorter than the window.
- Nothing but configuration keeps `oracleDivergenceBps` below half the range's
  width; `MarketAssumption` states it, and `RangeHoldsQuotes` depends on it.
- The age limit of a trusted price never applies, because samples carry the time
  of the tick that made them.
- A bundle that lands after the fallback has swapped doubles the swap. One such
  send ends no further from 50/50 than no swap; two can sell the SOL floor.
- After a failed open the row of the closed position stays, and without
  `reconcile` the bot neither rebalances nor opens.

## 7. Not modelled

- Slippage, fees and tips of swaps, the split of the pool into two tokens (a part
  of a payout is one, the other the rest).
- How sources combine to a SOL/USD price (any of a set), and the rounding of a
  range's bounds to bins or ticks.
- `dryRun`, which sends nothing on the rebalancer's side; the vault's transfer and
  partial close do not consult it (`src/src/main.ts:365`).
- The tolerance of the boot check (ten per cent on the bounds): the model knows
  only right and zero bounds.
- Secrets, hashes and encryption: a code belongs to the current secret or to none.
- Venue clients beyond the amount of a swap, price fetchers: SDK and network I/O,
  present as nondeterministic answers. The scripts that create pools run once, by
  hand.
- Replies, screens, the hourly report, `/stats`, `status`, `report`: they print.
- Configuration, logging, notifications, preflight: no state the properties depend
  on.

## 8. Running

`tlc -config MCWithdrawals_exact.cfg MCWithdrawals` and likewise for the other
configurations; `tlapm Arithmetic.tla`, `WithdrawalsProofs.tla`, `DepositsProofs.tla`,
`RebalancerProofs.tla`, `VaultRequestsProofs.tla`, `ChatProofs.tla`,
`NavLedgerProofs.tla`, `TradingProofs.tla`. The largest runs (`trading_tick`,
`nav_book`, `chat_safe`, `rebalancer_faults`) take one to two minutes each; the
largest proofs several minutes.
