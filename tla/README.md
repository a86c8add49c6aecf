# A verification project for the MZL payment API

The repository is a Go HTTP API for multi-currency wallets: users register,
fund a wallet, swap currencies, transfer to other users, receive card payments
through Paystack and withdraw to a bank account. PostgreSQL (through the Prisma
client) holds the money, Redis holds locks, a job queue, caches and counters,
and Paystack is the gateway. This directory holds TLA+ modules of the parts
where money moves and where concurrency, retries and failures meet, the TLC
configurations that check them, and TLAPS proofs.

## Inventory

| Part | State | Operations | What is hard, what makes it correct |
|---|---|---|---|
| `repository/wallet_repo.go` | tables `WalletAsset`, `Transaction` | `CreditWallet`, `SwapFunds`, `TransferFunds`, `DebitForWithdrawal`, `CreditWalletByEmail`, `RefundWithdrawal`, `UpdateTransactionStatus` | Batches race with each other and with the reads made before them; upserts race with upserts; a batch can commit while its caller sees an error. Balance and log must agree, no overdraft, each reference once. |
| `service/wallet_service.go` with the fund, swap and transfer handlers | Redis keys `idemp:*`, caches `wallet:*`, `tx_history:*` | `FundWallet`, `SwapFunds`, `TransferFunds`, `WithdrawFunds`, reads | The lock, the reads, the batch and the marker are separate steps; any Redis error is read as "already processed"; a cancelled request cannot clean up. |
| `server/paystack_handler.go`, `pkg/redis.go` worker | key `idemp:<paystack reference>`, list `payment_webhooks`, dead letters | webhook handler, `Enqueue`, `StartWorker`, `handleFailure` | The acknowledgement, the queue and the processing are separate; a crash between them loses the job; retries repeat work. |
| `service/payment_service.go` | none of its own | `ProcessPaystackEvent`, `VerifyAndCredit`, `InitiateTransfer` and other calls to Paystack | The webhook and the verify endpoint credit the same payment; gateway events arrive in any order, repeatedly. |
| `server/payment_handler.go` withdrawals | Paystack transfers, `PENDING` rows | `WithdrawalHandler`, `WithdrawFunds` | The payout and the debit are in two systems. |
| `service/auth_service.go`, `repository/user_repository.go` | tables `User`, `Wallet`, `RefreshToken`; cache `user_profile:*` | register, login, rotate, logout, pins | Registration is three separate inserts; rotation is validate, revoke, save; two tokens of one second are equal. Whoever is told "success" has a complete account or a good token, and a spent token stays spent. |
| `middlewares/rate_limit.go`, `IsRateLimited` | counter `ratelimit:<user>` | INCR, EXPIRE | Two calls that a crash can separate; one counter for routes with different limits; refused requests count too. No more than the limit pass, and the counter ends. |
| `server/rates_handler.go`, `GetBankList` | cached rates under an `RWMutex`, key `banks:*` | read, refill | A late writer publishes older rates; a refill can empty the cache. |
| The caches across handlers and worker | Redis keys `wallet:*`, `tx_history:*`, `user_profile:*` | look up, load, fill; evict before or after a commit | Nothing orders a fill and an eviction. A client sees its own changes, and staleness ends. |
| `server/server.go` | the process | start, shutdown | The worker is not stopped by the shutdown. |
| Remaining handlers, configuration, routing, logging, JWT parsing, response helpers | none | pure functions or plain I/O | Not modelled. |

The parts interact by direct calls inside one process; handlers run concurrently
with each other and with one worker goroutine. Everything they share is in
PostgreSQL and Redis. There are no callbacks except Paystack's webhooks.

## Modules

| Module | Models | Built on |
|---|---|---|
| `Ledger` | What the money operations promise together: single and double postings, settling, voiding, no overdraft. Abstract; no code of its own. | |
| `WalletStore` | The tables `WalletAsset` and `Transaction` and the engine that runs a repository's batch. | |
| `WalletService` | `FundWallet`, `SwapFunds`, `TransferFunds` with their handlers and the Redis keys `idemp:*`. | `WalletStore`, `Ledger` |
| `WebhookQueue` | The webhook handler, the Redis list, the worker's loop, dead letters, restarts. | |
| `Payments` | What the worker does with a job, the verify endpoint, withdrawals, Paystack's payouts. | `WalletStore`, `WebhookQueue`, `Ledger` |
| `Accounts` | Registration, login, rotation and logout, with their rows and the browsers' cookies. | |
| `Caches` | The lookups and fills of every cached read, the evictions of every operation, expiry. | |
| `RateLimit` | The counter of one user and the requests of all limited routes. | |
| `MCWalletService`, `MCWebhookQueue`, `MCPayments`, `MCAccounts`, `MCCaches`, `MCRateLimit` | Finite instances for TLC. | |
| `Sums` | Lemmas about the community modules' `SumFunctionOnSet`: a sum over a finite set is an integer, and how it changes with one or two of its terms. | `Functions`, TLAPS |
| `WalletStoreProofs` | Lemmas about the tables and the engine, for whoever submits batches. | `WalletStore`, `Sums` |
| `WalletServiceProofs` | Theorems about `WalletService`. | `WalletService`, `WalletStoreProofs` |
| `WebhookQueueProofs` | Theorems about `WebhookQueue`. | `WebhookQueue`, TLAPS |
| `PaymentsProofs` | Theorems about `Payments`. | `Payments`, `WalletStoreProofs`, `WebhookQueueProofs` |
| `AccountsProofs` | Theorems about `Accounts`. | `Accounts`, TLAPS |
| `CachesProofs` | Theorems about `Caches`. | `Caches`, TLAPS |
| `RateLimitProofs` | Theorems about `RateLimit`. | `RateLimit`, `Sums` |

### WalletStore

`balance` and `assets` are the column and the rows of `WalletAsset`; `log` maps
each reference to its row of `Transaction`. A *session* is a goroutine that
uses the database. `Submit` is `Prisma.Transaction(...).Exec`: the batch leaves
the process and its fate is no longer tied to the caller's. The engine then
takes three steps that others can interleave with:

1. `Begin` (or `Refuse`): the debit runs first. It takes the row lock and is
   where the CHECK `non_negative_balance` is evaluated. The upsert's lookup
   belongs to the same step: `creating` remembers the asset rows it found
   missing, which is what makes two first credits of one currency collide.
2. `Commit` (or `Reject`): the unique indexes are evaluated against what has
   been committed meanwhile, and either everything becomes visible or nothing.
3. `Abort` at any moment before the commit: a broken connection or a deadlock.

`BatchError` carries the one fact the callers' error handling depends on: the
Prisma runtime formats an engine error of a batch into a plain string, so
`db.IsErrUniqueConstraint` is never true of it, while the text search
`isUniqueConstraintError` is.

### WalletService

One session is one request. `pc` follows the service methods: `lock` (before
SETNX), `read`, `wait` (the batch is with the engine), `mark`, `cleanup`, and the
three answers. `gone` holds the requests whose context is cancelled: Redis calls
and reads of such a request fail, a batch already sent does not. `FundCall`,
`SwapCall` and `TransferCall` are what the three handlers let through.

The three methods have the same control flow and share their actions; they
differ in `Accepted` (what the reads must find: a swap compares a balance it has
just read, a transfer compares nothing, a transfer to oneself is refused) and in
the batch. `RefOf` abstracts the suffixes of references (`-OUT`, `-IN`, `-DEBIT`,
`-CREDIT`, none for deposits) and keeps the one collision they allow: a deposit
whose key ends in a suffix.

### WebhookQueue

`hook` follows the handler: `lock`, `push`, `unlock`, and its answers. `queue` is
the list `payment_webhooks`, `dead` the dead letters, `job` what BLPOP has taken out
of Redis and the worker holds in memory, `locks` the references with a key, `done`
a history of what the worker logged as processed. `faults`, chosen at the start
from `FaultSets`, is what may go wrong in a behaviour; a property that does not
survive a fault says so in its premise.

### Payments

`pc` of the worker is `idle` or `wait` inside `ProcessPaystackEvent`; a verifier goes
`idle`, `wait`, `fetch`; a withdrawal goes through both rounds of
`CreateTransferRecipient` and `InitiateTransfer` (the handler's and the service's),
then `debit` and `wait`. `payout` is Paystack's side of a transfer. A `PENDING` row
is written by `DebitForWithdrawal`, confirmed by one unguarded `UPDATE`
(`UpdateTransactionStatus`), and refunded by a lookup followed by a batch
(`Refundable`, `RefundWithdrawal`), which are separate steps.

### Accounts

`pc` follows one request through the service and its answer to the browser:
`find`, the three inserts `user`, `wallet`, `asset`; `parse`, `validate`, `mint`, `revoke`,
`save` for tokens; then `grant`, `deny` or `bye` while the answer travels. The tables are
`users`, `wallet` (account number by user), `assets` and `tokens`. A token is the
record of its user and second, since that is all its string depends on
(`jwt.go:28`). Several requests may share a browser's `cookie`, which is read when a
request is sent and set when its answer arrives, in any order. Every call may
fail, or take effect and lose its answer; a process may die anywhere. Passwords,
access tokens and formatting are left out: a login is let in or not.

### Caches

`data[k]` counts the changes of what entry `k` caches and `cache[k]` is the count the
entry holds. An operation is a record: the entry it reads, or the entries whose data
it changes with those it deletes `before` and `after` its commit, in the code's order.
One definition per operation (`SwapFunds`, `ChargeSuccess`, ...) translates these lists;
the actions are the same for all. `owed` is what a client may count on after it was
told "success", `asked` what was true when a read began. A client waits for an answer
before it asks again; the worker runs beside it. A history in the cache is a JSON array
of objects that the reader decodes as bytes, which fails: `Decodable`. The rates are
in a variable of the process, so their lookups and fills do not fail and a crash
empties them.

### RateLimit

`count` and `left` are the key `ratelimit:<user>` and its time to live. A request goes
`incr`, `expire` (the one that reads 1 back), `compare`. When a call fails the request
passes (`rate_limit.go:22`) or goes on without an expiry (`redis.go:165`). `present`,
`admitted` and `broken` are history: whose replies belong to the living counter, how
many it let pass for each limit, and whether a call on it went wrong.

## The abstract ledger

`Ledger` has a balance for each account and at most one entry for each reference.
An entry is posted alone or in a pair, both legs in one step; an open entry can be
settled; any entry can be voided once, which gives its amount back; no step
overdraws. `WalletService!Book` and `Payments!Book` instantiate it with
`bal <- balance` and `entry <- Posted`, where a row is read as

| row | entry |
|---|---|
| `status` PENDING, SUCCESS, FAILED | `open`, `settled`, `void` |
| type and suffix of the reference | sign of `delta` |
| no row | `NoEntry` |

Void is allowed from `settled` too, because Paystack reverses transfers it has
reported as successful. The ledger does not allow a voided entry to be settled:
that is the step `UpdateTransactionStatus` would take if a late
`transfer.success` were processed after the refund.

## Runs

| Run | Question | Instance |
|---|---|---|
| `WalletService_all` | Do money and log stay consistent, can a retry be applied twice, can two requests share a lock, can "completed" lie, are keys released and requests answered, and does the service implement the ledger? | 2 requests out of 6 calls: all operations, both keys, retries, a colliding reference, opposite transfers, a transfer to oneself, a swap into a missing asset; engine faults, failing Redis calls and lost replies, cancellations, expiry, crash |
| `WebhookQueue_all` | Is a queued event kept, does it leave the queue, can a reference have two jobs? | 2 payments, 3 webhooks; either Redis fails for the handlers and locks expire, or the process crashes, is shut down, and the worker loses jobs; processing may fail every time |
| `Payments_deposits` | Is a payment credited once, and before its client is told so? | 2 payments in a currency the wallet does not hold, 1 webhook, 2 verify requests, Redis faults and expiry |
| `Payments_withdrawals` | Do balance, log and payouts agree, and is each change a step of the ledger? | 2 withdrawals of 2 from a balance of 3, 1 webhook at a time, crashes and shutdowns |
| `Accounts_all` | Are accounts complete, tokens good, unique and spent once, cookies current? | 1 registered user with an open session, 1 new one, 2 account numbers, 2 browsers, 3 requests of any kind, 3 seconds, tokens good for 2 |
| `Caches_all` | Does a client see its own changes, are histories current, does staleness end? | 2 clients and the worker, 2 changes of each entry; 5 menus of operations that touch no common entry, one menu per behaviour |
| `RateLimit_all` | Do the limits hold, and does a counter end? | 3 requests at a time, again and again, routes with limits 1 and 2, a window of 2 ticks |
| `WalletService_nocheck` | (violated) Is there an overdraft without the CHECK? | as `WalletService_all` |
| `WebhookQueue_payout` | (violated) Is an ignored webhook a duplicate? | the events of one payout, no fault |
| `Payments_lostcredit` | (violated) Is a processed payment credited? | as `Payments_deposits`, no fault |
| `Payments_norefund` | (violated) Is a processed failure refunded? | 1 withdrawal, no fault |
| `Payments_undebited` | (violated) Is what is paid out debited? | 1 withdrawal, no fault |

### Why these bounds

Each anomaly the properties exclude needs two requests in each other's way; two
keys are what a collision of references needs, and a request may find its key
given back by the other. Balances of 1 to 3 and amounts of 1 and 2 let two debits
fit separately and not together. Three webhooks allow a repetition of one of two
payments at any later moment. Requests of these modules are one-shot: a client that
retries is another session with the same call. The queue cannot grow past the webhooks
(`Enqueue` may add a job twice under `redis`) and the retry counter is the code's.

The counters with a bound are named: `Accounts!MaxNow` stops the clock after three
seconds, which is enough for tokens of the same second, of different seconds and
past their expiry. `Caches!MaxChanges` ends the changes after two commits for each entry: a read
can then be one or two behind, and an old fill can follow a new eviction. Where
the bound stops a commit the operation can still fail, as it may anyhow. `RateLimit!MaxCount`
is one above the larger limit, and counts beyond it are all refused alike;
it is a saturation and hides no behaviour.

### Where a property does not hold

The set of faults of a run is part of what it says.

- `OneJobPerReference` is claimed without expiry and handler-side Redis faults
  (`LocksHold`): with a repeated RPUSH or an expired lock a payment does get two jobs. The
  database's unique reference is what protects the money then, which is why
  `Payments_deposits` includes exactly these faults.
- `QueuedIsKept` and `Drained` are claimed without crashes and worker-side faults
  (`WorkerLives`). BLPOP hands a job over for good (`redis.go:79`), and neither a crash nor
  the graceful shutdown (`server.go:71` starts the worker with a context nobody
  cancels) gives it back.
- `Payments_withdrawals` runs without handler-side Redis faults and expiry. Only
  the 24-hour lock on the shared reference keeps a `transfer.success` and a
  `transfer.reversed` of one payout from both being processed; in the wrong
  order `UpdateTransactionStatus` (`wallet_repo.go:306`, no guard on the old status)
  makes a refunded row SUCCESS again.
- `ReadYourWrites` excepts entries whose deletion failed, and says nothing of the
  receiver of a transfer or of what the worker changes.
- `CounterExpires` and `LimitedIsTemporary` except counters on which a call was lost,
  failed or cut off by a crash.

## Findings

| Run | What the code does |
|---|---|
| `WalletService_nocheck` | The deployment applies the schema with `db push`, which leaves out the raw SQL that installs the CHECK the debits rely on. |
| `WebhookQueue_payout` | The lock is on the reference only, so the second kind of event of a payout is dropped as a duplicate of the first. |
| `Payments_lostcredit` | A unique violation of the asset row is taken for an already credited payment. |
| `Payments_norefund` | A webhook that overtakes the debit finds no row and counts as processed. |
| `Payments_undebited` | Handler and service both order a payout; one is debited. |

PROJECT.json quotes the lines each of them disagrees with.

Observed while modelling, and part of the models, but without a run of their own:

- The branch for duplicates after a batch (`wallet_service.go:230` and its like) is
  dead code: a retry after the lock is gone gets an error and its key is deleted.
  Money is safe (`AppliedOnce`).
- A refunded withdrawal that a late `transfer.success` makes SUCCESS again is refunded a
  second time if the job of the reversal is retried (`wallet_repo.go:306`); only a lock that
  lapses or fails lets it come that far, see `PayoutsInOrder` below.
- Two rotations of one token that are both checked before either revokes it both
  succeed, although `auth_service.go:138` says "token has been revoked or used". A
  logout that a rotation overtakes is undone: the cookie that arrives later is good.
- A login or rotation that generates a token its user already got in the same second
  fails on the unique column; in a rotation the old token is revoked by then, and
  the session lost.
- A registration that fails half-way leaves its rows, and a retry is told "this
  email is already registered". So is one that drew an account number in use.
- The history cache is written and deleted and never hit.
- A counter that lost its EXPIRE refuses its user forever with "please try again
  later" (`rate_limit.go:28`). The README's "Token Bucket" (`src/README.md:22`) is a
  fixed window.
- An error document of the rates provider decodes as no rates, is published with
  status "success" and empties the cache (`rates_handler.go:70`).

## Fairness

`WalletService!FairSpec`:

- `Returns(p)`: a handler's calls return. Excepted is `fetchExchangeRate`, whose
  `http.Get` has no timeout and ignores the request's context; a swap may stay in
  `read` forever, and `Answered` claims nothing for swaps. A request that waits
  for the engine returns only when the engine is done or its context is over.
- `Cancel(p)`: `middleware.Timeout(60 s)` (`server.go:43`) ends every context.
- `Expire(k)`: Redis drops keys. The lock lives 5 minutes and a context at most 60 seconds,
  so it does not expire under a request that can still use Redis; this is the
  guard of `Expire`.
- `EngineRuns(p)`, `DeadlockBroken`: the engine executes what it has been sent, and
  PostgreSQL aborts one of the batches that wait for each other. `Abort` alone is
  not fair: no fault has to happen.

`WebhookQueue!QueueFairSpec`: the worker's loop pops, and finishes what it popped.
The choice between success and failure is not fair, so a job may fail every time.

`Caches!FairSpec`: calls return or fail (`Step`; the contexts end after 60 seconds) and an
entry expires unless it is filled again, which is what a time to live gives. Which of
a call's outcomes happens is not fair. `Converges` holds because changes end, by the bound, and because a
stale fill can only come from a read that began before.

`RateLimit!FairSpec`: the calls of a request return, and time passes. Nobody has to ask
again, and nobody has to stop asking.

`Accounts` has no liveness property: every request is a finite chain of calls.

## Environment assumptions

- After a restart the new worker does not submit a batch before the engine is through
  with what the old one had sent (`EngineFree`).
- Payout codes stand for both the code and the reference of a transfer, which
  Paystack's events carry together; references made from `time.Now().UnixNano()`
  differ.
- go-redis repeats a command whose reply was lost. An RPUSH can therefore take effect
  twice, and a SETNX that took effect can look refused.
- Isolation is PostgreSQL's READ COMMITTED with the row locks of an UPDATE. An upsert
  is a lookup followed by a write (Prisma's, not `ON CONFLICT`).
- Amounts are whole numbers; the database does not lose committed data.

## Proofs

Every invariant, action property and refinement that a passing run checks is also a theorem,
for every value of the constants: any number of users, wallets, currencies, keys,
requests, events and payouts. TLC found each of them to hold on the instances above
before it was proved. Some of the properties are not inductive; the arguments below name the
invariant that is.

### The engine: `WalletStoreProofs`, `Sums`

`WalletService` and `Payments` share the tables, and so their proofs share the lemmas.
`RowLocks` (no asset is locked by two sessions) and `Covered` (a locked asset still has
what its batch takes) close the gap between the CHECK and the commit; `SubmitSolvent` and
`EngineSolvent` say that submitting and the engine preserve them. A step is `Explained`
if it changes every balance by as much as it changes what the log adds up to, and such a
step keeps `BalanceMatchesLedger` (`BalanceKept`). `DepositBalances` and `ExchangeBalances`
say that the commit of a batch with one row, or with two, is explained. `Net` is the sum of
`Effect` over all references; `Sums` opens the recursive definition of the sum by showing
that the function it chooses exists and is unique, and derives what is needed of sums:
one or two terms change, all stay, all are zero, all grow (`SumMonotone`).

### The wallet service: `WalletServiceProofs`

| Theorem | Statement | Argument |
|---|---|---|
| `TypeCorrect` | `Spec => []TypeOK` | by cases on `Next`; the batches are well formed (`BatchesForType`) |
| `NoOverdraft` | `CheckConstraint => (Spec => []NonNegative)` | `RowLocks` and `Covered` |
| `BalanceAgrees` | `Spec => []BalanceMatchesLedger` | `Placed` ties a batch to its call, so that each commit is a deposit or an exchange, and each step explained (`ExplainedStep`); the CHECK is not used |
| `AtMostOnce` | `Spec => []AppliedOnce` | `Recorded` keeps a committed batch's rows in the log, so the next batch with one of them is rejected. The Redis lock is not used. |
| `LogNeverRewritten` | `Spec => LogKept` | every step leaves the log alone or adds rows where there were none (`LogStep`) |
| `SuccessIsRecorded` | `Spec => []SuccessRecorded` | `Confirmed`: only a committed batch takes a request to `mark` or `success` |
| `ImplementsLedger` | `CheckConstraint => (Spec => LedgerImplemented)` | `CommitPosts`: a commit is `PostOne` or `PostPair`, using `NoOverdraft` in the state after for solvency; every other step stutters |
| `LockExcludes` | `Spec => []OneHolder` | `LockedByHolder`: the key of a request past the lock is "processing" |
| `MarkerTrue` | `Spec => []MarkerSound` | `Confirmed`, and what is applied stays applied under its key |
| `DoubleEntry` | `Spec => []PairedLegs` | `CommitLegs`: what one commit does to the legs of each key |

### The webhook queue: `WebhookQueueProofs`

| Theorem | Statement | Argument |
|---|---|---|
| `QueueTypeCorrect` | `QueueSpec => []QueueTypeOK` | `Bounded`: jobs in the list or in hand have retries left, so that the one that is put back is still a job |
| `NothingForgotten` | `QueueSpec => []QueuedIsKept` | inductive with the type: popping, retrying and burying each hand the event on; `AppendEvents` and its like say which events a changed list holds |
| `OneJob` | `QueueSpec => []OneJobPerReference` | Counting jobs is not inductive: a webhook between its lock and its push would add one. `LockHeld` follows the lock: its reference is being pushed by one webhook, or is in exactly one of list, hand, dead letters and done (`Single`), never both. |

### Payments: `PaymentsProofs`

| Theorem | Statement | Argument |
|---|---|---|
| `ImplementsQueue` | `Spec => QueueSpec /\ []QueuedIsKept /\ []OneJobPerReference` | what the worker does with a job is `Complete`, `handleFailure` or nothing (`QueueStep`) |
| `TypeCorrect` | `Spec => []TypeOK` | `Submits`: all that is submitted are deposits, debits and refunds |
| `NoOverdraft` | `CheckConstraint => (Spec => []NonNegative)` | `RowLocks` and `Covered`, as for the wallet service |
| `BalanceAgrees` | `Spec => [](PayoutsInOrder => BalanceMatchesLedger)` | `ExplainedStep`: with `Known`, every step is explained or a late confirmation (`Reopens`); `NoLateSuccess`, below, excludes those |
| `ImplementsLedger` | `CheckConstraint => (PayoutsInOrder /\ Spec => LedgerImplemented)` | a credit or debit is `PostOne`, a confirmation `Settle` or a stutter, a refund `Void`; solvency from `NoOverdraft` in the state after |
| `LedgerUpToReopening` | `CheckConstraint => (Spec => Book!Init /\ [][Book!Next \/ \E r \in Refs : Reopen(r)]_(Book!ledgerVars))` | a late confirmation is of one row (`OneRowPerPayout`), which was FAILED, of a payout that was carried out, since the success was reported, and is over, since the row was refunded: of a reversed one |
| `WalletCoversLog` | `Spec => [](\A a \in Assets : balance[a] >= Opening[a] + Net(a))` | `ExplainedStep`; a late confirmation moves nothing and makes `Net` smaller (`ReopenBalances`) |
| `NoMoneyFromNothing` | `Spec => []` of `Net(a) <= PaidIn(a)`, and `PayoutsInOrder => balance[a] <= Opening[a] + PaidIn(a)`, for every asset | by `KnownRows` no row says more than its card payment; `SumMonotone`; `BalanceAgrees` |
| `StatusIsTrue` | `Spec => []`: a SUCCESS row has a payout that was carried out, a FAILED row one that failed or was reversed | `Settled`, with `Reported` for the confirmation and `VoidedIsOver` for the refund |
| `StatusIsFinal` | `Spec => [][...]_vars`: a row keeps all but its status, leaves SUCCESS or FAILED only if its payout was reversed, and FAILED not even then while `PayoutsInOrder` | `ChangesFit`: a row is changed by a confirmation or a refund alone; `Settled` says what the old status meant |
| `LogIsExplained`, `FirstPayoutUnrecorded` | `Spec => []KnownRows`; `Spec => []`: no row names the payout that `WithdrawalHandler` orders | `Known`; the codes of payouts differ. The second is why `Payments_undebited` is no accident of one schedule. |
| `VerifiedMeansCredited` | `Spec => []VerifiedIsCredited` | `Asked`: only a payment that was made gets past `Verify`, only one with a row past `VerifyFetch`; by `KnownRows` the row is the payment's |
| `SuccessMeansRecorded` | `Spec => []WithdrawalRecorded` | `Recorded`: a committed debit's row stays. `Reported`: a failure that is on its way, in the list or in hand has happened, and is final; `Ordered` is why a payout is never started again. Hence `VoidedIsOver`. |

`Known` says what is in the log and in the batches: a row is the deposit of a payment
or the row of a withdrawal, whose status alone may have changed (`KnownRows`), a batch is
the one its handler builds (`Submitted`), and a refund that is under way has found a row
that is still refundable (`RefundFits`, where `EngineFree` and the single worker are needed).

`PayoutsInOrder` is the one hypothesis about the environment: the faults of the
behaviour, which are chosen in its first state, contain neither failing Redis calls of the
handlers nor expiring locks, or there are no payouts. It is not a convenience. With two
webhooks and such faults TLC finds `BalanceMatchesLedger` violated: `transfer.success`
waits before its lock, `transfer.reversed` overtakes it, is queued and refunded, the lock
expires, and the confirmation that follows makes the refunded row SUCCESS again. If the
refund's answer was lost, its retry then finds a row that is not FAILED and pays it back a
second time. With the hypothesis, `NoLateSuccess` holds: once a row of a payout is FAILED
or about to be, the lock of its reference is taken and no confirmation is on its way; it
rests on `LockHeld` of the queue.

The theorems without it hold under all faults, and four of them say how much of the rest
survives: the late confirmation is the only step the ledger lacks, only a reversed
payout can meet it (`LedgerUpToReopening`), and from then on the wallet has more than the
log says, never less (`WalletCoversLog`); what the log says of a payout stays true
(`StatusIsTrue`), and rows that are SUCCESS or FAILED stay so unless their payout is
reversed (`StatusIsFinal`). In the table, `LedgerUpToReopening` to
`FirstPayoutUnrecorded` are theorems that no listed run checks on its own.

### Accounts: `AccountsProofs`

| Theorem | Statement | Argument |
|---|---|---|
| `TypeCorrect` | `Spec => []TypeOK` | `Routed`: what a request asks for fits where it is and what it carries |
| `RegisteredCompletely`, `RegisteredOnce` | `[]CreatedIsComplete`, `[]OneRegistration` | `Inserting`: what a registration has inserted so far is there; `Alone`: no two are past the insert of one email |
| `GrantsAreLive`, `GrantsDiffer`, `RotationsSpend`, `CookiesAreCurrent` | `[]GrantedIsLive`, `[]GrantedOnce`, `[]RotationSpends`, `[]CookieIsCurrent` | one invariant, `TokenInv`, since they need each other: `Known` (the table knows every token that is held, carried or granted), `Spending` (who saves or grants in a rotation has revoked what it carries) and `Owned` (a token belongs to one browser, and who carries it was sent by that browser) |
| `SpentTokensAreRefused`, `RevocationIsFinal` | `Spec => SpentIsRefused`, `Spec => RevokedForGood` | `TokensStay`: no step takes a row from the token table or undoes a revocation |

### Caches: `CachesProofs`

| Theorem | Statement | Argument |
|---|---|---|
| `TypeCorrect` | `Spec => []TypeOK` | `Routed`: a read has the key of an entry, and what a write deletes is known |
| `HistoriesAreCurrent` | `Spec => []HistoryIsCurrent` | `HistoryLoads`: a read of a history cannot use the entry and comes to the data |
| `WritesAreRead` | `Spec => []ReadYourWrites` | What was promised has to hold of the entry and of a fill that is under way, not only of the answer: `Fresh`. Between a commit and its eviction the entry may be old; `Cleared` says that it is then empty or still to be deleted, and nobody else can fill it. That each operation deletes what it makes stale of its own client's entries is a lemma about all operations (`OperationsAreProper`). |

### Rate limiter: `RateLimitProofs`

| Theorem | Statement | Argument |
|---|---|---|
| `TypeCorrect`, `CounterIsBounded` | `[]TypeOK`, `[]CounterExpires` | inductive together |
| `LimitIsKept` | `Spec => []LimitHolds` | `Budget`: for each limit, those that passed and those that have read a count up to it and may still pass are together no more than the counts INCR has handed out; the sum over the routes is handled by `Sums` |

### Assumptions

The proofs rest on the named assumptions of the modules, which TLC evaluates in the runs:
`StoreAssumption` (the references are a finite set, "no row" is not a row),
`ServiceAssumption`, `RefAssumption`, `FaultAssumption`, `QueueAssumption`,
`PaymentAssumption` (references of payments and withdrawals and codes of payouts
differ), `PostingAssumption`, `AccountsAssumption`, `CachesAssumption` and
`RateAssumption` (finitely many routes). That the sets of references and routes are finite is what makes the sums
over them defined. `CheckConstraint` is a hypothesis where it is needed;
`WalletService_nocheck` shows that it is.

Only model-checked: liveness under fairness (`KeyReleased`, `Answered`, `Drained`, `Converges`,
`LimitedIsTemporary`), which is out of the prover's reach; and the violation runs,
whose properties are false. Of `Payments`, TLC checks the properties with two faults at a
time at most, the proofs with any.

## Not modelled

Floating-point amounts and their rounding; parsing, signatures, passwords, access
tokens and PIN checks (a request that fails them changes nothing, or is a
nondeterministic refusal); response texts and logging; the calls to Paystack that
only pass data through (initiating a payment, resolving an account); user lookups;
`LogoutHandler`, which no route uses; configuration; and the components listed as such in
PROJECT.json. What remains of them is plain I/O or formatting.

## Plan

Done: all components with state of their own, a theorem for every safety property,
action property and refinement that is checked, and what the payments guarantee
without `PayoutsInOrder`. What could be added:

1. the bound on the queue: how many jobs a number of webhooks can make at most;
2. facts about single operations that follow from the theorems, such as that a
   transfer's receiver gains what its sender loses;
3. how much a row that is confirmed late and refunded again can give away in all:
   `WalletCoversLog` bounds the difference on one side only.
