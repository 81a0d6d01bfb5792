----------------------------- MODULE Withdrawals -----------------------------
(***************************************************************************)
(* The withdrawal queue of the depositor vault: the vault_withdrawals and  *)
(* vault_shares tables (src/src/vault/depositorStore.ts), the executor     *)
(* that drains the queue (withdrawalExecutor.ts), the tick that runs it    *)
(* (tick.ts), /forceprocess (operatorCommands.ts), the submitter it sends  *)
(* through (src/src/txSubmitter.ts), and process death.                    *)
(*                                                                         *)
(* The bot is one Node process: a Telegram handler runs only where the     *)
(* executor awaits I/O, so the steps between two awaits (a DB write after  *)
(* another) can be separated by a crash but not by a handler.              *)
(*                                                                         *)
(* Abstracted: share amounts are small integers; NAV, fee split and token  *)
(* amounts are left out; wallet liquidity is a nondeterministic answer.    *)
(***************************************************************************)
EXTENDS Integers, FiniteSets, Functions

CONSTANTS
  Users,          \* enrolled depositors with a whitelisted destination
  MaxRows,        \* bound: withdrawals ever requested
  Amounts,        \* share amounts a request can name
  InitialShares,  \* every user's shares at the start
  StopFlags,      \* the flags that skip a drain: vault_paused, degraded, killed
  SubmitRetries,  \* maxRetries of TxSubmitter.submit (3 in the code)
  MaxRequeues,    \* bound: /forceprocess runs per withdrawal
  LostAnswers,    \* may a send throw although its transaction is still alive?
  DbFaults,       \* may an SQLite write throw (lock, full disk)?
  MayCrash        \* may the process die and be restarted by systemd?

ASSUME WithdrawalsAssumption ==
  /\ MaxRows \in Nat
  /\ Amounts \subseteq Nat
  /\ InitialShares \in Nat
  /\ SubmitRetries \in Nat \ {0}
  /\ MaxRequeues \in Nat
  /\ LostAnswers \in BOOLEAN /\ DbFaults \in BOOLEAN /\ MayCrash \in BOOLEAN

Ids == 1..MaxRows
Statuses == {"none", "queued", "processing", "completed", "failed"}

NoOwner == "nobody"

\* tx_sig IS NULL; the n-th transaction sent for a row has signature n > 0.
NoSig == 0

VARIABLES
  (* SQLite, survives a crash *)
  status,         \* per row: its status, "none" before the insert
  owner,          \* per row: telegram_id
  burned,         \* per row: shares_burned
  txSig,          \* per row: tx_sig
  shares,         \* per user: vault_shares.shares
  stops,          \* the flags that keep the tick from draining
  (* Solana *)
  sends,          \* per row: transactions signed and sent so far
  mempool,        \* <<row, signature>> sent, neither landed nor expired
  landed,         \* <<row, signature>> confirmed on chain: funds have moved
  (* volatile *)
  pc,             \* where drain() / processOne() stands
  batch,          \* rows of drain()'s snapshot still to be taken
  cur,            \* the row processOne() works on
  tries,          \* attempts of the running TxSubmitter.submit
  oracle          \* priceHistory is non-empty: getMid() answers

store == <<status, owner, burned, txSig, shares, stops>>
wire  == <<sends, mempool, landed>>
exec  == <<pc, batch, cur, tries, oracle>>
vars  == <<status, owner, burned, txSig, shares, stops,
           sends, mempool, landed, pc, batch, cur, tries, oracle>>

-----------------------------------------------------------------------------
(* Operations of the store. *)

InStatus(s) == {id \in Ids : status[id] = s}

SetStatus(id, s) == status' = [status EXCEPT ![id] = s]

\* UPDATE ... SET status='processing' WHERE id=? AND status='queued'
SetWithdrawalProcessing(id) ==
  status' = [status EXCEPT ![id] = IF @ = "queued" THEN "processing" ELSE @]

\* UPDATE ... SET status='failed' WHERE id=?
FailWithdrawal(id) == SetStatus(id, "failed")

\* UPDATE ... SET tx_sig=? WHERE id=? AND tx_sig IS NULL; throws on no change.
MarkWithdrawalSent(id, sig) ==
  /\ txSig[id] = NoSig
  /\ txSig' = [txSig EXCEPT ![id] = sig]

\* One SQLite transaction: status, tx_sig and the burn.
CompleteWithdrawal(id, sig) ==
  /\ SetStatus(id, "completed")
  /\ txSig' = [txSig EXCEPT ![id] = sig]
  /\ shares' = [shares EXCEPT ![owner[id]] = @ - burned[id]]

-----------------------------------------------------------------------------
(* Init: the vault is bootstrapped, the process has just started. *)

Init ==
  /\ status = [id \in Ids |-> "none"]
  /\ owner = [id \in Ids |-> NoOwner]
  /\ burned = [id \in Ids |-> 0]
  /\ txSig = [id \in Ids |-> NoSig]
  /\ shares = [u \in Users |-> InitialShares]
  /\ stops = {}
  /\ sends = [id \in Ids |-> 0]
  /\ mempool = {} /\ landed = {}
  /\ pc = "idle" /\ batch = {} /\ cur = 0 /\ tries = 0
  /\ oracle = FALSE

-----------------------------------------------------------------------------
(* Telegram handlers. *)

\* Where the executor awaits network I/O, or sleeps until the next tick.
Awaiting == pc \in {"idle", "funding", "closing", "sending", "confirming"}

\* _doWithdraw: the confirmed request becomes the next row of the queue.
DoWithdraw(u, a) ==
  /\ Awaiting
  /\ \E id \in Ids :
       /\ status[id] = "none"
       /\ \A j \in Ids : j < id => status[j] # "none"
       /\ SetStatus(id, "queued")
       /\ owner' = [owner EXCEPT ![id] = u]
       /\ burned' = [burned EXCEPT ![id] = a]
  /\ UNCHANGED <<txSig, shares, stops, wire, exec>>

RequeueableUnfinished(id) ==   \* also rows a crash left in 'processing'
  txSig[id] = NoSig /\ status[id] \in {"failed", "processing"}

\* requeueFailedWithdrawal throws when tx_sig is set or the row is not failed.
Requeueable(id) == txSig[id] = NoSig /\ status[id] = "failed"

\* /forceprocess
HandleForceProcess(id) ==
  /\ Awaiting
  /\ Requeueable(id)
  /\ sends[id] <= SubmitRetries * MaxRequeues    \* the bound, not the code
  /\ SetStatus(id, "queued")
  /\ UNCHANGED <<owner, burned, txSig, shares, stops, wire, exec>>

\* /pausevault, a degraded rebalancer, the kill-switch file ... and back.
RaiseStop(f) ==
  /\ Awaiting /\ f \notin stops
  /\ stops' = stops \cup {f}
  /\ UNCHANGED <<status, owner, burned, txSig, shares, wire, exec>>

ClearStop(f) ==
  /\ Awaiting /\ f \in stops
  /\ stops' = stops \ {f}
  /\ UNCHANGED <<status, owner, burned, txSig, shares, wire, exec>>

-----------------------------------------------------------------------------
(* The tick and drain(). *)

\* A tick with a trusted mid pushes the first sample into priceHistory.
PriceArrives ==
  /\ pc = "idle" /\ ~oracle
  /\ oracle' = TRUE
  /\ UNCHANGED <<store, wire, pc, batch, cur, tries>>

StartDrainAlone ==   \* waits until no row is 'processing'
  /\ pc = "idle" /\ stops = {}
  /\ InStatus("queued") # {} /\ InStatus("processing") = {}
  /\ pc' = "next" /\ batch' = InStatus("queued")
  /\ UNCHANGED <<store, wire, cur, tries, oracle>>

\* runVaultPostRebalance: no stop flag is up; drain() lists the queue once.
StartDrain ==
  /\ pc = "idle" /\ stops = {}
  /\ InStatus("queued") # {}
  /\ pc' = "next" /\ batch' = InStatus("queued")
  /\ UNCHANGED <<store, wire, cur, tries, oracle>>

EndDrain ==
  /\ pc = "next" /\ batch = {}
  /\ pc' = "idle" /\ cur' = 0 /\ tries' = 0
  /\ UNCHANGED <<store, wire, batch, oracle>>

\* An exception that leaves drain(): the tick logs it; the rest waits.
AbortDrain ==
  /\ pc' = "idle" /\ batch' = {} /\ cur' = 0 /\ tries' = 0
  /\ UNCHANGED oracle

\* The loop body up to the call of getMid(), lowest id first.
TakeNext ==
  /\ pc = "next"
  /\ \E id \in batch :
       /\ \A j \in batch : id <= j
       /\ \/ /\ SetWithdrawalProcessing(id)
             /\ pc' = "priced" /\ batch' = batch \ {id} /\ cur' = id
             /\ UNCHANGED <<tries, oracle>>
          \/ DbFaults /\ AbortDrain /\ UNCHANGED status
  /\ UNCHANGED <<owner, burned, txSig, shares, stops, wire>>

\* processOne() marks its row failed and returns; a throw goes to the catch.
FailAndReturn ==
  /\ \/ FailWithdrawal(cur) /\ pc' = "next"
     \/ DbFaults /\ pc' = "catch" /\ UNCHANGED status
  /\ UNCHANGED <<owner, burned, txSig, shares, stops, batch, cur, oracle>>

\* getMid(): null fails the row, else the row is re-read and I/O begins.
CheckMid ==
  /\ pc = "priced"
  /\ \/ ~oracle /\ FailAndReturn /\ UNCHANGED tries
     \/ oracle /\ pc' = "funding" /\ UNCHANGED <<store, batch, cur, tries, oracle>>
  /\ UNCHANGED wire

\* Balances and position are read: enough to pay, short, or the RPC threw.
ReadBalances ==
  /\ pc = "funding"
  /\ pc' \in {"sending", "closing", "catch"}
  /\ UNCHANGED <<store, wire, batch, cur, tries, oracle>>

\* partialClose() and the second look at the balances.
PartialClose ==
  /\ pc = "closing"
  /\ \/ pc' \in {"sending", "catch"} /\ UNCHANGED <<store, batch, cur, oracle>>
     \/ FailAndReturn
  /\ UNCHANGED <<wire, tries>>

\* One attempt of TxSubmitter.submit: sign with a fresh blockhash and send.
SendTransfer ==
  /\ pc = "sending"
  /\ LET n == sends[cur] + 1 IN
       /\ sends' = [sends EXCEPT ![cur] = n]
       /\ mempool' = mempool \cup {<<cur, n>>}
  /\ pc' = "confirming" /\ tries' = tries + 1
  /\ UNCHANGED <<store, landed, batch, cur, oracle>>

TransferConfirmedOnSend ==   \* the signature is taken for a confirmation
  /\ pc = "confirming"
  /\ pc' = "mark" /\ tries' = 0
  /\ UNCHANGED <<store, wire, batch, cur, oracle>>

\* sendAndConfirmTransaction resolves: the transaction is on chain.
TransferConfirmed ==
  /\ pc = "confirming"
  /\ <<cur, sends[cur]>> \in landed
  /\ pc' = "mark" /\ tries' = 0
  /\ UNCHANGED <<store, wire, batch, cur, oracle>>

\* It rejects. With LostAnswers the transaction may be pending or landed.
AttemptThrows ==
  /\ pc = "confirming"
  /\ LostAnswers \/ <<cur, sends[cur]>> \notin mempool \cup landed
  /\ \/ /\ tries < SubmitRetries
        /\ pc' = "sending"
        /\ UNCHANGED <<store, batch, cur, tries, oracle>>
     \/ /\ tries >= SubmitRetries
        /\ tries' = 0
        /\ FailAndReturn
  /\ UNCHANGED wire

\* markWithdrawalSent; if it throws, the audit is written and processOne
\* returns -- or the audit write throws as well and drain() catches that.
RecordSig ==
  /\ pc = "mark"
  /\ \/ MarkWithdrawalSent(cur, sends[cur]) /\ pc' = "complete"
     \/ DbFaults /\ pc' \in {"next", "catch"} /\ UNCHANGED txSig
  /\ UNCHANGED <<status, owner, burned, shares, stops, wire, batch, cur, tries, oracle>>

CommitBurnUnwrapped ==   \* the burn is not rolled back with the status
  /\ pc = "complete"
  /\ \/ CompleteWithdrawal(cur, sends[cur]) /\ pc' = "next"
     \/ /\ DbFaults /\ pc' = "catch"
        /\ shares' = [shares EXCEPT ![owner[cur]] = @ - burned[cur]]
        /\ UNCHANGED <<status, txSig>>
  /\ UNCHANGED <<owner, burned, stops, wire, batch, cur, tries, oracle>>

\* The completion transaction; any throw is rethrown to drain().
CommitBurn ==
  /\ pc = "complete"
  /\ \/ CompleteWithdrawal(cur, sends[cur]) /\ pc' = "next"
     \/ DbFaults /\ pc' = "catch" /\ UNCHANGED <<status, txSig, shares>>
  /\ UNCHANGED <<owner, burned, stops, wire, batch, cur, tries, oracle>>

DrainCatchAlwaysFails ==   \* drain() before the tx_sig check was added
  /\ pc = "catch"
  /\ FailWithdrawal(cur)
  /\ pc' = "next"
  /\ UNCHANGED <<owner, burned, txSig, shares, stops, wire, batch, cur, tries, oracle>>

\* drain()'s catch: a row with a tx_sig is left alone, any other is failed.
DrainCatch ==
  /\ pc = "catch"
  /\ \/ /\ txSig[cur] # NoSig
        /\ pc' = "next" /\ UNCHANGED <<status, batch, cur, tries, oracle>>
     \/ /\ txSig[cur] = NoSig
        /\ FailWithdrawal(cur)
        /\ pc' = "next" /\ UNCHANGED <<batch, cur, tries, oracle>>
     \/ /\ txSig[cur] = NoSig /\ DbFaults
        /\ AbortDrain /\ UNCHANGED status
  /\ UNCHANGED <<owner, burned, txSig, shares, stops, wire>>

-----------------------------------------------------------------------------
(* Solana, and the death of the process. *)

Land(tx) ==
  /\ tx \in mempool
  /\ mempool' = mempool \ {tx} /\ landed' = landed \cup {tx}
  /\ UNCHANGED <<store, sends, exec>>

\* The blockhash expires, or the transaction fails on chain.
Expire(tx) ==
  /\ tx \in mempool
  /\ mempool' = mempool \ {tx}
  /\ UNCHANGED <<store, sends, landed, exec>>

CrashFailsProcessing ==   \* a restart that fails every unfinished row
  /\ MayCrash
  /\ pc' = "idle" /\ batch' = {} /\ cur' = 0 /\ tries' = 0
  /\ oracle' = FALSE
  /\ status' = [id \in Ids |-> IF status[id] = "processing" THEN "failed" ELSE status[id]]
  /\ UNCHANGED <<owner, burned, txSig, shares, stops, wire>>

\* SIGKILL, an uncaught error, a reboot; systemd starts the bot again.
Crash ==
  /\ MayCrash
  /\ pc' = "idle" /\ batch' = {} /\ cur' = 0 /\ tries' = 0
  /\ oracle' = FALSE
  /\ UNCHANGED <<store, wire>>

-----------------------------------------------------------------------------
ExecutorStep ==
  \/ StartDrain \/ EndDrain \/ TakeNext \/ CheckMid \/ ReadBalances \/ PartialClose
  \/ SendTransfer \/ TransferConfirmed \/ AttemptThrows
  \/ RecordSig \/ CommitBurn \/ DrainCatch

HandlerStep ==
  \/ \E u \in Users, a \in Amounts : DoWithdraw(u, a)
  \/ \E id \in Ids : HandleForceProcess(id)
  \/ \E f \in StopFlags : RaiseStop(f) \/ ClearStop(f)

ChainStep == \E tx \in mempool : Land(tx) \/ Expire(tx)

Next == ExecutorStep \/ HandlerStep \/ ChainStep \/ PriceArrives \/ Crash

Spec == Init /\ [][Next]_vars

\* The tick loop never stops by itself, a blockhash is valid for about a
\* minute (a sent transaction lands or expires), and from some time on the
\* process stays up.
FairSpec ==
  /\ Spec
  /\ WF_vars(ExecutorStep) /\ WF_vars(ChainStep)
  /\ <>[][~Crash]_vars

-----------------------------------------------------------------------------
(* Properties. *)

\* processOne() is at work on row cur.
Busy == pc \in {"priced", "funding", "closing", "sending",
                "confirming", "mark", "complete", "catch"}

\* The signatures of row id that are, or may still come, on chain.
Alive(id) == {tx \in mempool \cup landed : tx[1] = id}

Paid(id) == \E tx \in landed : tx[1] = id

\* Every variable has its type, and the executor's registers are reset
\* whenever drain() is not running.
TypeOK ==
  /\ status \in [Ids -> Statuses]
  /\ owner \in [Ids -> Users \cup {NoOwner}]
  /\ burned \in [Ids -> Amounts \cup {0}]
  /\ txSig \in [Ids -> Nat]
  /\ shares \in [Users -> Int]
  /\ stops \subseteq StopFlags
  /\ sends \in [Ids -> Nat]
  /\ mempool \subseteq Ids \X Nat
  /\ landed \subseteq Ids \X Nat
  /\ pc \in {"idle", "next", "priced", "funding", "closing", "sending",
            "confirming", "mark", "complete", "catch"}
  /\ batch \subseteq Ids
  /\ cur \in Ids \cup {0}
  /\ tries \in 0..SubmitRetries
  /\ oracle \in BOOLEAN
  /\ pc = "idle" => batch = {} /\ cur = 0 /\ tries = 0
  /\ Busy => cur \in Ids

\* The double-pay guard: whatever the interleaving of drains, /forceprocess
\* runs and crashes, at most one transfer for a withdrawal reaches the chain.
PaidAtMostOnce ==
  \A t1, t2 \in landed : t1[1] = t2[1] => t1 = t2

\* "If this throws, no funds have moved": a row that is (back) in the queue
\* or failed has no transfer on chain and none that could still land.
FailedIsUnpaid ==
  \A id \in Ids : status[id] \in {"none", "queued", "failed"} => Alive(id) = {}

\* processOne()'s awaits never lose the row: while it works on cur, no handler
\* moves the row out of 'processing', so the re-read by status finds it and
\* the drain's snapshot holds only rows that are still queued.
RowIsOurs ==
  /\ Busy => status[cur] = "processing"
  /\ \A id \in batch : status[id] = "queued"

\* A burn needs a payout: a completed row names a transaction on chain.
CompletedIsPaid ==
  \A id \in Ids : status[id] = "completed" => <<id, txSig[id]>> \in landed

CompletedOf(u) == {id \in Ids : status[id] = "completed" /\ owner[id] = u}

\* Shares leave a balance only with a completed row: for every user, the
\* balance is the initial one minus what his completed rows burn.
SharesMatchCompleted ==
  \A u \in Users : shares[u] = InitialShares - SumFunctionOnSet(burned, CompletedOf(u))

FreezeSent ==
  \A id \in Ids : txSig[id] # NoSig =>
    /\ txSig'[id] = txSig[id]
    /\ sends'[id] = sends[id]
    /\ status'[id] \in {status[id], "completed"}

\* Once tx_sig is recorded it is never overwritten, the row is neither failed
\* nor requeued, and no further transfer is sent for it.
SentIsFrozen == [][FreezeSent]_vars

\* If the operator stops pausing the vault, every queued withdrawal is paid
\* or reported failed, or a crash leaves it in 'processing' for the operator.
EventuallySettled ==
  <>[](stops = {}) =>
    \A id \in Ids :
      status[id] = "queued"
        ~> \/ status[id] \in {"completed", "failed"}
           \/ status[id] = "processing" /\ pc = "idle"

\* The promise of PayoutLedger, with the row's phase read off status and chain.
Phase == [id \in Ids |->
  IF status[id] = "none" THEN "absent"
  ELSE IF status[id] = "completed" THEN "settled"
  ELSE IF Paid(id) THEN "paid" ELSE "open"]

Ledger == INSTANCE PayoutLedger WITH phase <- Phase, transfers <- landed

\* The queue implements the ledger: one transfer per request, one burn after it.
ImplementsLedger == Ledger!Spec
=============================================================================
