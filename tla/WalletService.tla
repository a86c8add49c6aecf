---------------------------- MODULE WalletService ----------------------------
(***************************************************************************)
(* FundWallet, SwapFunds and TransferFunds of the wallet service, with the *)
(* handlers that call them: every request takes the idempotency key in     *)
(* Redis, reads, submits one batch to the database, and then marks the key *)
(* completed or gives it back.  A request is one goroutine; requests       *)
(* interleave at every call they make.  The client may disconnect (or the  *)
(* 60s timeout middleware fire), a Redis call may fail or its reply get    *)
(* lost, the database may break off a batch or its answer get lost, the    *)
(* process may crash, and keys expire.                                     *)
(***************************************************************************)
EXTENDS WalletStore

CONSTANTS Keys,     \* Idempotency-Key headers; one namespace for all routes
          RefOf,    \* RefOf[k, leg]: the reference the key makes for a row
          Calls,    \* what the clients ask for
          Rates,    \* the exchange rates the provider may answer
          RedisFaults,  \* may a Redis call fail, or its reply be lost?
          NoCall

KeyLegs == {"DEPOSIT", "OUT", "IN", "DEBIT", "CREDIT"}

\* What a validated request asks for: an amount, an operation, its key, and
\* the asset rows it concerns.
AnyCall == [op : {"fund", "swap", "transfer"}, key : Keys,
            from : Assets, to : Assets, amount : Nat \ {0}]

\* A deposit names one asset of the caller's wallet, a swap two (which may be
\* the same), a transfer one currency and two wallets (which may be the same).
FundCall     == {c \in AnyCall : c.op = "fund" /\ c.from = c.to}
SwapCall     == {c \in AnyCall : c.op = "swap" /\ c.from[1] = c.to[1]}
TransferCall == {c \in AnyCall : c.op = "transfer" /\ c.from[2] = c.to[2]}

Call == FundCall \cup SwapCall \cup TransferCall

ASSUME ServiceAssumption ==
  /\ Calls \subseteq Call
  /\ NoCall \notin Call
  /\ RedisFaults \in BOOLEAN
  /\ Rates \subseteq Nat \ {0}

\* A reference is the key plus a suffix that tells the legs apart, and no
\* suffix ends in another one.  Only the deposit leg has no suffix: the
\* reference of a deposit under key "k-OUT" is that of a swap under key "k".
ASSUME RefAssumption ==
  /\ RefOf \in [Keys \X KeyLegs -> Refs]
  /\ \A j, k \in Keys : \A l, m \in KeyLegs :
       RefOf[<<j, l>>] = RefOf[<<k, m>>] =>
         \/ j = k /\ l = m
         \/ j # k /\ l # m /\ "DEPOSIT" \in {l, m}

VARIABLES pc,      \* pc[p]: where request p is
          call,    \* call[p]: what it asks for
          gone,    \* the requests whose context is cancelled
          idemp    \* idemp[k]: the value of the Redis key idemp:k

vars == <<store, pc, call, gone, idemp>>

Replied == {"success", "duplicate", "error"}
Running == {"lock", "read", "wait", "mark", "cleanup"}
Pc      == {"idle", "dead"} \cup Running \cup Replied

TypeOK ==
  /\ StoreTypeOK
  /\ pc \in [Sessions -> Pc]
  /\ call \in [Sessions -> Calls \cup {NoCall}]
  /\ \A p \in Sessions : pc[p] \notin {"idle", "dead"} => call[p] \in Calls
  /\ gone \subseteq Sessions
  /\ idemp \in [Keys -> {"free", "processing", "completed"}]

Init ==
  /\ StoreInit
  /\ pc = [p \in Sessions |-> "idle"]
  /\ call = [p \in Sessions |-> NoCall]
  /\ gone = {}
  /\ idemp = [k \in Keys |-> "free"]

Goto(p, from, to) == pc[p] = from /\ pc' = [pc EXCEPT ![p] = to]

Key(p) == call[p].key

\* The request has taken the lock of its key and can still use Redis.
Holds(p) == pc[p] \in {"read", "wait", "mark", "cleanup"} /\ p \notin gone

-----------------------------------------------------------------------------
(* The handlers, up to the lock.                                           *)

Arrive(p, c) ==
  /\ Goto(p, "idle", "lock")
  /\ call' = [call EXCEPT ![p] = c]
  /\ UNCHANGED <<store, gone, idemp>>

LockAlways(p) ==
  /\ Goto(p, "lock", "read")
  /\ p \notin gone
  /\ idemp' = [idemp EXCEPT ![Key(p)] = "processing"]
  /\ UNCHANGED <<store, call, gone>>

\* SETNX took the key.
Lock(p) ==
  /\ Goto(p, "lock", "read")
  /\ p \notin gone
  /\ idemp[Key(p)] = "free"
  /\ idemp' = [idemp EXCEPT ![Key(p)] = "processing"]
  /\ UNCHANGED <<store, call, gone>>

\* "not locked": the key is there, or the call failed and its error was
\* dropped; either way the answer is ErrTransactionAlreadyProcessed.
LockRefused(p) ==
  /\ Goto(p, "lock", "duplicate")
  /\ idemp[Key(p)] # "free" \/ p \in gone \/ RedisFaults
  /\ UNCHANGED <<store, call, gone, idemp>>

\* As above, after SETNX took effect but its reply was lost.
LockReplyLost(p) ==
  /\ Goto(p, "lock", "duplicate")
  /\ RedisFaults /\ p \notin gone
  /\ idemp[Key(p)] = "free"
  /\ idemp' = [idemp EXCEPT ![Key(p)] = "processing"]
  /\ UNCHANGED <<store, call, gone>>

-----------------------------------------------------------------------------
(* The service and the repository.                                         *)

\* What the reads must find before the batch is built.  A transfer does not
\* look at the sender's balance.
Accepted(c) ==
  /\ c.from \in assets
  /\ c.op = "swap" => balance[c.from] >= c.amount
  /\ c.op = "transfer" => c.from[1] # c.to[1]

FundBatch(c) == Deposit(c.to, c.amount, RefOf[<<c.key, "DEPOSIT">>])

SwapBatchOneReference(c, rate) ==
  Exchange(c.from, c.amount, RefOf[<<c.key, "IN">>], "OUT",
           c.to, c.amount * rate, RefOf[<<c.key, "IN">>], "IN")

SwapBatch(c, rate) ==
  Exchange(c.from, c.amount, RefOf[<<c.key, "OUT">>], "OUT",
           c.to, c.amount * rate, RefOf[<<c.key, "IN">>], "IN")

TransferBatch(c) ==
  Exchange(c.from, c.amount, RefOf[<<c.key, "DEBIT">>], "DEBIT",
           c.to, c.amount, RefOf[<<c.key, "CREDIT">>], "CREDIT")

\* fetchExchangeRate asks nobody when the two currencies are the same.
RateFor(c) == IF c.from[2] = c.to[2] THEN {1} ELSE Rates

BatchesFor(c) ==
  CASE c.op = "fund"     -> {FundBatch(c)}
    [] c.op = "swap"     -> {SwapBatch(c, rate) : rate \in RateFor(c)}
    [] c.op = "transfer" -> {TransferBatch(c)}

ReadAndSubmit(p) ==
  /\ Goto(p, "read", "wait")
  /\ p \notin gone
  /\ Accepted(call[p])
  /\ \E b \in BatchesFor(call[p]) : Submit(p, b)
  /\ UNCHANGED <<call, gone, idemp>>

ReadFailsConnected(p) ==
  /\ p \notin gone
  /\ Goto(p, "read", "cleanup")
  /\ UNCHANGED <<store, call, gone, idemp>>

\* A read fails, finds nothing, or finds too little.
ReadFails(p) ==
  /\ Goto(p, "read", "cleanup")
  /\ UNCHANGED <<store, call, gone, idemp>>

AfterErrorIgnored(outcome) == "mark"

\* Where the batch's outcome takes the request.  The branch that would
\* answer "duplicate" leaves the key alone.
After(outcome) ==
  IF outcome = "ok" THEN "mark"
  ELSE IF IsErrUniqueConstraint(BatchError(outcome)) THEN "duplicate"
  ELSE "cleanup"

Reply(p) ==
  /\ p \notin gone
  /\ stage[p] \in Outcome
  /\ Goto(p, "wait", After(stage[p]))
  /\ UNCHANGED <<store, call, gone, idemp>>

\* The context is cancelled or the connection to the engine breaks while
\* the batch is on its way: an error, whatever becomes of the batch.
ReplyLost(p) ==
  /\ Goto(p, "wait", "cleanup")
  /\ UNCHANGED <<store, call, gone, idemp>>

\* A write to a Redis key whose error is dropped.  With a cancelled context
\* it does not leave the process.
PutKey(p, value) ==
  \/ p \notin gone /\ idemp' = [idemp EXCEPT ![Key(p)] = value]
  \/ (p \in gone \/ RedisFaults) /\ UNCHANGED idemp

\* Set(idemp:key, "completed", 24h).
Mark(p) ==
  /\ Goto(p, "mark", "success")
  /\ PutKey(p, "completed")
  /\ UNCHANGED <<store, call, gone>>

\* Delete(idemp:key).
Cleanup(p) ==
  /\ Goto(p, "cleanup", "error")
  /\ PutKey(p, "free")
  /\ UNCHANGED <<store, call, gone>>

-----------------------------------------------------------------------------
(* The surroundings.                                                       *)

EngineStep(p) == Engine(p) /\ UNCHANGED <<pc, call, gone, idemp>>

\* The client disconnects, or the request has run for 60 seconds.
Cancel(p) ==
  /\ pc[p] \in Running /\ p \notin gone
  /\ gone' = gone \cup {p}
  /\ UNCHANGED <<store, pc, call, idemp>>

ExpireCompleted(k) ==
  /\ idemp[k] = "completed"
  /\ idemp' = [idemp EXCEPT ![k] = "free"]
  /\ UNCHANGED <<store, pc, call, gone>>

\* A lock lives 5 minutes and a request has a usable context for at most
\* 60 seconds, so a lock never expires under a request that holds it.
Expire(k) ==
  /\ idemp[k] # "free"
  /\ \A p \in Sessions : Holds(p) => Key(p) # k
  /\ idemp' = [idemp EXCEPT ![k] = "free"]
  /\ UNCHANGED <<store, pc, call, gone>>

\* The process dies with all its requests; what the engine has been sent
\* may still be committed.
Crash ==
  /\ \E p \in Sessions : pc[p] \in Running
  /\ pc' = [p \in Sessions |-> IF pc[p] \in Running THEN "dead" ELSE pc[p]]
  /\ UNCHANGED <<store, call, gone, idemp>>

\* Every client has its answer: the model stops here and nowhere else.
Finished ==
  /\ \A p \in Sessions : pc[p] \in Replied \cup {"dead"}
  /\ UNCHANGED vars

Handler(p) ==
  \/ Lock(p) \/ LockRefused(p) \/ LockReplyLost(p)
  \/ ReadAndSubmit(p) \/ ReadFails(p)
  \/ Reply(p) \/ ReplyLost(p)
  \/ Mark(p) \/ Cleanup(p)

Next ==
  \/ \E p \in Sessions : \/ \E c \in Calls : Arrive(p, c)
                         \/ Handler(p)
                         \/ EngineStep(p)
                         \/ Cancel(p)
  \/ \E k \in Keys : Expire(k)
  \/ Crash
  \/ Finished

Spec == Init /\ [][Next]_vars

(***************************************************************************)
(* Fairness.  Every call the handlers make returns, except the HTTP GET of *)
(* fetchExchangeRate: it has no timeout and ignores the request's context. *)
(* The timeout middleware cancels every context that lives long enough,    *)
(* Redis drops keys whose time is up, the engine runs what it is sent, and *)
(* PostgreSQL's deadlock detector breaks off one of the batches that wait  *)
(* for each other.                                                         *)
(***************************************************************************)
FetchingRate(p) == pc[p] = "read" /\ call[p].op = "swap"

Returns(p) ==
  /\ ~ FetchingRate(p)
  /\ pc[p] = "wait" => stage[p] \in Outcome \/ p \in gone
  /\ Handler(p)

EngineRuns(p) ==
  (Refuse(p) \/ Begin(p) \/ Reject(p) \/ Commit(p))
    /\ UNCHANGED <<pc, call, gone, idemp>>

Opened  == {p \in Sessions : stage[p] = "open"}
Waiting == {p \in Opened : ~ Free(p, Credited(batch[p]))}

DeadlockBroken ==
  /\ Waiting = Opened
  /\ \E p \in Opened : Abort(p) /\ UNCHANGED <<pc, call, gone, idemp>>

Fairness ==
  /\ \A p \in Sessions : /\ WF_vars(Returns(p))
                         /\ WF_vars(EngineRuns(p))
                         /\ WF_vars(Cancel(p))
  /\ \A k \in Keys : WF_vars(Expire(k))
  /\ WF_vars(DeadlockBroken)

FairSpec == Spec /\ Fairness

-----------------------------------------------------------------------------
(* Properties.                                                             *)

Applied(p) == stage[p] = "ok"

RefsOf(p) == Written(batch[p])

RowAt(k, leg) == log[RefOf[<<k, leg>>]]

HasLeg(k, leg) == RowAt(k, leg) # NoRow /\ RowAt(k, leg).leg = leg

\* Double entry: SwapFunds and TransferFunds never leave one leg without the
\* other, and the legs of a transfer agree on amount and currency, whatever
\* is aborted, cancelled or retried under the same key.
PairedLegs ==
  \A k \in Keys :
    /\ HasLeg(k, "OUT") <=> HasLeg(k, "IN")
    /\ HasLeg(k, "DEBIT") <=> HasLeg(k, "CREDIT")
    /\ HasLeg(k, "DEBIT") =>
         /\ RowAt(k, "DEBIT").amount = RowAt(k, "CREDIT").amount
         /\ RowAt(k, "DEBIT").asset[2] = RowAt(k, "CREDIT").asset[2]

\* A reference moves money at most once: retries of FundWallet, SwapFunds
\* and TransferFunds under one key may overlap, outlive the Redis lock or
\* follow a lost answer, and no two of them are both committed.
AppliedOnce ==
  \A p, q \in Sessions :
    Applied(p) /\ Applied(q) /\ RefsOf(p) \cap RefsOf(q) # {} => p = q

\* A client that is told its operation succeeded finds the rows of exactly
\* that operation in the log.
SuccessRecorded ==
  \A p \in Sessions : pc[p] = "success" =>
    \E b \in BatchesFor(call[p]) :
      \A r \in Written(b) : log[r] = b.rows[r]

\* The Redis lock excludes: two requests with the same key and a usable
\* context are never past the lock together, although late requests still
\* delete or overwrite keys and locks expire on their own.
OneHolder ==
  \A p, q \in Sessions :
    Holds(p) /\ Holds(q) /\ Key(p) = Key(q) => p = q

\* "completed" under a key means that an operation with this key is
\* committed: the marker that makes the service refuse a retry for 24 hours
\* is never set for an operation that failed.
MarkerSound ==
  \A k \in Keys : idemp[k] = "completed" =>
    \E p \in Sessions : Applied(p) /\ Key(p) = k

\* A row of the transaction log is never changed or removed by the three
\* operations.
LogKept == [][\A r \in Refs : log[r] # NoRow => log'[r] = log[r]]_vars

\* The transaction log, seen as the postings of the abstract ledger.
Posted ==
  [r \in Refs |->
     IF log[r] = NoRow THEN NoRow
     ELSE [account |-> log[r].asset, delta |-> Signed(log[r]),
           state |-> "settled"]]

Book == INSTANCE Ledger WITH
  Accounts <- Assets, NoEntry <- NoRow, bal <- balance, entry <- Posted

\* Seen through the mapping above, every step of the service is a posting of
\* the abstract ledger, with all its legs at once, or changes nothing.
LedgerImplemented == Book!Spec

\* A key never stays locked forever, even if its request hangs, fails to
\* delete it or dies with the process.
KeyReleased ==
  \A k \in Keys : idemp[k] = "processing" ~> idemp[k] # "processing"

\* FundWallet and TransferFunds answer (SwapFunds need not: its rate lookup
\* may hang), even when transfers in opposite directions lock each other out.
Answered ==
  \A p \in Sessions :
    pc[p] = "lock" /\ call[p].op # "swap" ~> pc[p] \in Replied \cup {"dead"}
=============================================================================
