------------------------- MODULE WalletServiceProofs -------------------------
(***************************************************************************)
(* What TLAPS proves of WalletService, for any number of wallets,          *)
(* currencies, keys, requests and calls.                                   *)
(***************************************************************************)
EXTENDS WalletService, WalletStoreProofs

USE DEF Goto

-----------------------------------------------------------------------------
(* The batches the repositories build.                                     *)

\* What the constants say of a request, whichever handler accepted it.
LEMMA CallFacts ==
  /\ Calls \subseteq AnyCall
  /\ NoCall \notin Calls
  /\ \A c \in Calls : /\ c.op = "fund" => c.from = c.to
                      /\ c.op = "swap" => c.from[1] = c.to[1]
                      /\ c.op = "transfer" => c.from[2] = c.to[2]
BY ServiceAssumption DEF Call, FundCall, SwapCall, TransferCall

\* The rates a swap may use are whole numbers.
LEMMA RatesAreNaturals ==
  ASSUME NEW c, NEW rate \in RateFor(c)
  PROVE  rate \in Nat
<1>1. Rates \subseteq Nat
  BY ServiceAssumption
<1>2. CASE c.from[2] = c.to[2]
  <2>1. rate \in {1}
    BY <1>2 DEF RateFor
  <2> QED BY <2>1
<1>3. CASE c.from[2] # c.to[2]
  <2>1. rate \in Rates
    BY <1>3 DEF RateFor
  <2> QED BY <1>1, <2>1
<1> QED BY <1>2, <1>3

\* Whatever a client asks for, the batches made for it are well formed.
LEMMA BatchesForType ==
  ASSUME NEW c \in Calls
  PROVE  BatchesFor(c) \subseteq Batch
<1>1. /\ c \in AnyCall /\ c.key \in Keys /\ c.from \in Assets /\ c.to \in Assets
      /\ c.amount \in Nat
  BY CallFacts DEF AnyCall
<1>2. \A l \in KeyLegs : RefOf[<<c.key, l>>] \in Refs
  BY <1>1, RefAssumption
<1>3. FundBatch(c) \in Batch
  BY <1>1, <1>2, DepositType DEF FundBatch, KeyLegs
<1>4. ASSUME NEW rate \in RateFor(c) PROVE SwapBatch(c, rate) \in Batch
  <2>1. rate \in Nat
    BY <1>4, RatesAreNaturals
  <2>2. c.amount * rate \in Nat
    BY <1>1, <2>1
  <2> QED BY <2>2, <1>1, <1>2, ExchangeType DEF SwapBatch, KeyLegs, Legs
<1>5. TransferBatch(c) \in Batch
  BY <1>1, <1>2, ExchangeType DEF TransferBatch, KeyLegs, Legs
<1>6. c.op \in {"fund", "swap", "transfer"}
  BY <1>1 DEF AnyCall
<1> QED BY <1>3, <1>4, <1>5, <1>6 DEF BatchesFor

-----------------------------------------------------------------------------
(* Type correctness.                                                       *)

\* Every variable keeps its type: in particular a request that is past its
\* arrival has a call, and a session that uses the engine has a batch.
THEOREM TypeCorrect == Spec => []TypeOK
<1>1. Init => TypeOK
  BY StoreAssumption
  DEF Init, StoreInit, TypeOK, StoreTypeOK, Stage, Outcome, Pc, Running, Replied
<1>2. TypeOK /\ [Next]_vars => TypeOK'
  <2> SUFFICES ASSUME TypeOK, [Next]_vars PROVE TypeOK'
    OBVIOUS
  <2> USE DEF TypeOK, Pc, Running, Replied
  <2>1. ASSUME NEW p \in Sessions, NEW c \in Calls, Arrive(p, c) PROVE TypeOK'
    BY <2>1 DEF Arrive, store, StoreTypeOK
  <2>2. ASSUME NEW p \in Sessions, Handler(p) PROVE TypeOK'
    <3>0. pc[p] \notin {"idle", "dead"} => Key(p) \in Keys
      BY CallFacts DEF Key, AnyCall
    <3>1. CASE Lock(p) BY <2>2, <3>0, <3>1 DEF Lock, store, StoreTypeOK
    <3>2. CASE LockRefused(p)
      BY <2>2, <3>0, <3>2 DEF LockRefused, store, StoreTypeOK
    <3>3. CASE LockReplyLost(p)
      BY <2>2, <3>0, <3>3 DEF LockReplyLost, store, StoreTypeOK
    <3>4. CASE ReadAndSubmit(p)
      <4>1. pc[p] = "read" /\ call[p] \in Calls
        BY <3>4 DEF ReadAndSubmit
      <4>2. PICK b \in Batch : Submit(p, b)
        BY <3>4, <4>1, BatchesForType DEF ReadAndSubmit
      <4>3. StoreTypeOK'
        BY <4>2 DEF Submit, StoreTypeOK, Stage
      <4> QED BY <3>4, <4>3 DEF ReadAndSubmit
    <3>5. CASE ReadFails(p) BY <2>2, <3>5 DEF ReadFails, store, StoreTypeOK
    <3>6. CASE Reply(p)
      <4>1. After(stage[p]) \in Pc \ {"idle", "dead"} BY DEF After
      <4> QED BY <2>2, <3>6, <4>1 DEF Reply, store, StoreTypeOK
    <3>7. CASE ReplyLost(p) BY <2>2, <3>7 DEF ReplyLost, store, StoreTypeOK
    <3>8. CASE Mark(p)
      BY <2>2, <3>0, <3>8 DEF Mark, PutKey, store, StoreTypeOK
    <3>9. CASE Cleanup(p)
      BY <2>2, <3>0, <3>9 DEF Cleanup, PutKey, store, StoreTypeOK
    <3> QED BY <2>2, <3>1, <3>2, <3>3, <3>4, <3>5, <3>6, <3>7, <3>8, <3>9
            DEF Handler
  <2>3. ASSUME NEW p \in Sessions, EngineStep(p) PROVE TypeOK'
    BY <2>3, EngineType DEF EngineStep
  <2>4. ASSUME NEW p \in Sessions, Cancel(p) PROVE TypeOK'
    BY <2>4 DEF Cancel, store, StoreTypeOK
  <2>5. ASSUME NEW k \in Keys, Expire(k) PROVE TypeOK'
    BY <2>5 DEF Expire, store, StoreTypeOK
  <2>6. CASE Crash
    BY <2>6 DEF Crash, store, StoreTypeOK
  <2>7. CASE UNCHANGED vars
    BY <2>7 DEF vars, store, StoreTypeOK
  <2> QED BY <2>1, <2>2, <2>3, <2>4, <2>5, <2>6, <2>7 DEF Next, Finished
<1> QED BY <1>1, <1>2, PTL DEF Spec

-----------------------------------------------------------------------------
(* No overdraft.                                                           *)

\* A step of the service leaves the store alone, submits one batch of a
\* request that has read, or is a step of the engine.
LEMMA StoreSteps ==
  ASSUME [Next]_vars
  PROVE  \/ UNCHANGED store
         \/ \E p \in Sessions : ReadAndSubmit(p)
         \/ \E p \in Sessions : EngineStep(p)
<1> USE DEF store
<1>1. ASSUME NEW p \in Sessions, NEW c \in Calls, Arrive(p, c)
      PROVE  UNCHANGED store
  BY <1>1 DEF Arrive
<1>2. ASSUME NEW p \in Sessions, Handler(p), ~ ReadAndSubmit(p)
      PROVE  UNCHANGED store
  BY <1>2 DEF Handler, Lock, LockRefused, LockReplyLost, ReadFails, Reply,
              ReplyLost, Mark, Cleanup
<1>3. ASSUME NEW p \in Sessions, Cancel(p) PROVE UNCHANGED store
  BY <1>3 DEF Cancel
<1>4. ASSUME NEW k \in Keys, Expire(k) PROVE UNCHANGED store
  BY <1>4 DEF Expire
<1>5. Crash => UNCHANGED store
  BY DEF Crash
<1>6. UNCHANGED vars => UNCHANGED store
  BY DEF vars
<1> QED BY <1>1, <1>2, <1>3, <1>4, <1>5, <1>6 DEF Next, Finished

\* With the constraint of the migration installed no asset is ever overdrawn,
\* however the debits of swaps and transfers race (NonNegative).
THEOREM NoOverdraft == CheckConstraint => (Spec => []NonNegative)
<1> SUFFICES ASSUME CheckConstraint PROVE Spec => []NonNegative
  OBVIOUS
<1>1. Init => NonNegative /\ RowLocks /\ Covered
  BY SolventInit DEF Init
<1>2. TypeOK /\ NonNegative /\ RowLocks /\ Covered /\ [Next]_vars
        => (NonNegative /\ RowLocks /\ Covered)'
  <2> SUFFICES ASSUME TypeOK, NonNegative, RowLocks, Covered, [Next]_vars
               PROVE  (NonNegative /\ RowLocks /\ Covered)'
    OBVIOUS
  <2>1. CASE UNCHANGED store
    BY <2>1 DEF store, NonNegative, RowLocks, Covered, Locked, Debited
  <2>2. ASSUME NEW p \in Sessions, ReadAndSubmit(p)
        PROVE  (NonNegative /\ RowLocks /\ Covered)'
    BY <2>2, SubmitSolvent DEF ReadAndSubmit, TypeOK
  <2>3. ASSUME NEW p \in Sessions, EngineStep(p)
        PROVE  (NonNegative /\ RowLocks /\ Covered)'
    BY <2>3, EngineSolvent DEF EngineStep, TypeOK
  <2> QED BY <2>1, <2>2, <2>3, StoreSteps
<1> QED BY <1>1, <1>2, TypeCorrect, PTL DEF Spec

-----------------------------------------------------------------------------
(* At most once.                                                           *)

\* A session's batch is one of those made for its request, and what was
\* committed is still in the log.
Placed ==
  \A p \in Sessions : stage[p] # "none" =>
    /\ call[p] \in Calls /\ batch[p] \in BatchesFor(call[p])
    /\ pc[p] \notin {"idle", "lock", "read"}

Recorded ==
  \A p \in Sessions : Applied(p) =>
    \A r \in Written(batch[p]) : log[r] = batch[p].rows[r]

\* No batch of this service fails rows.
LEMMA NoFail ==
  ASSUME NEW c \in Calls, NEW b \in BatchesFor(c)
  PROVE  b.fail = {}
<1>1. c.op \in {"fund", "swap", "transfer"}
  BY CallFacts DEF AnyCall
<1> QED BY <1>1 DEF BatchesFor, FundBatch, SwapBatch, TransferBatch,
                    Deposit, Exchange

LEMMA PlacedInductive == TypeOK /\ Placed /\ [Next]_vars => Placed'
<1> SUFFICES ASSUME TypeOK, Placed, [Next]_vars PROVE Placed'
  OBVIOUS
<1> USE DEF Placed, TypeOK
<1>1. ASSUME NEW p \in Sessions, NEW c \in Calls, Arrive(p, c) PROVE Placed'
  BY <1>1 DEF Arrive, store
<1>2. ASSUME NEW p \in Sessions, Handler(p), ~ ReadAndSubmit(p) PROVE Placed'
  <2>1. After(stage[p]) \notin {"idle", "lock", "read"}
    BY DEF After
  <2>2. CASE Lock(p)
    BY <2>2 DEF Lock, store
  <2> QED BY <1>2, <2>1, <2>2
          DEF Handler, LockRefused, LockReplyLost, ReadFails, Reply,
              ReplyLost, Mark, Cleanup, store
<1>3. ASSUME NEW p \in Sessions, ReadAndSubmit(p) PROVE Placed'
  <2>1. pc[p] = "read" /\ call[p] \in Calls /\ pc' = [pc EXCEPT ![p] = "wait"]
    BY <1>3 DEF ReadAndSubmit, Pc
  <2>2. PICK b \in BatchesFor(call[p]) : Submit(p, b)
    BY <1>3 DEF ReadAndSubmit
  <2>3. call' = call
    BY <1>3 DEF ReadAndSubmit
  <2> QED BY <2>1, <2>2, <2>3 DEF Submit, StoreTypeOK
<1>4. ASSUME NEW p \in Sessions, EngineStep(p) PROVE Placed'
  BY <1>4 DEF EngineStep, Engine, Refuse, Begin, Reject, Commit, Abort,
              StoreTypeOK
<1>5. ASSUME NEW p \in Sessions, Cancel(p) PROVE Placed'
  BY <1>5 DEF Cancel, store
<1>6. ASSUME NEW k \in Keys, Expire(k) PROVE Placed'
  BY <1>6 DEF Expire, store
<1>7. CASE Crash
  BY <1>7 DEF Crash, store
<1>8. CASE UNCHANGED vars
  BY <1>8 DEF vars, store
<1> QED BY <1>1, <1>2, <1>3, <1>4, <1>5, <1>6, <1>7, <1>8 DEF Next, Finished

\* What a step of the engine does to the log: nothing, unless it commits a
\* batch; then exactly the rows of that batch appear, where there were none.
LEMMA EngineLog ==
  ASSUME TypeOK, Placed, NEW s \in Sessions, EngineStep(s)
  PROVE  /\ UNCHANGED <<batch, call, pc>>
         /\ \A o \in Sessions : o # s => stage'[o] = stage[o]
         /\ stage[s] \in {"sent", "open"}
         /\ \/ /\ UNCHANGED <<balance, log>>
               /\ stage'[s] # "ok"
            \/ /\ Commit(s)
               /\ stage'[s] = "ok"
               /\ batch[s] \in Batch /\ batch[s] \in BatchesFor(call[s])
               /\ call[s] \in Calls
               /\ \A r \in Written(batch[s]) :
                    log[r] = NoRow /\ log'[r] = batch[s].rows[r]
               /\ \A r \in Refs \ Written(batch[s]) : log'[r] = log[r]
<1> USE DEF TypeOK, StoreTypeOK
<1>1. UNCHANGED <<batch, call, pc>> /\ Engine(s)
  BY DEF EngineStep, Engine, Refuse, Begin, Reject, Commit, Abort
<1>2. CASE Refuse(s) \/ Begin(s) \/ Reject(s) \/ Abort(s)
  BY <1>1, <1>2 DEF Refuse, Begin, Reject, Abort
<1>3. CASE Commit(s)
  <2>1. batch[s] \in Batch /\ batch[s] \in BatchesFor(call[s]) /\ call[s] \in Calls
    BY <1>3 DEF Commit, Placed
  <2>2. batch[s].fail = {}
    BY <2>1, NoFail
  <2>3. \A r \in Written(batch[s]) : log[r] = NoRow
    BY <1>3 DEF Commit, UniqueViolation
  <2>4. /\ \A r \in Written(batch[s]) : log'[r] = batch[s].rows[r]
        /\ \A r \in Refs \ Written(batch[s]) : log'[r] = log[r]
    BY <1>3, <2>2 DEF Commit, Written
  <2>5. /\ stage[s] = "open" /\ stage'[s] = "ok"
        /\ \A o \in Sessions : o # s => stage'[o] = stage[o]
    BY <1>3 DEF Commit
  <2> QED BY <1>1, <1>3, <2>1, <2>3, <2>4, <2>5
<1> QED BY <1>1, <1>2, <1>3 DEF Engine

\* A row that is there stays as it is.
LEMMA LogStep ==
  ASSUME TypeOK, Placed, [Next]_vars
  PROVE  \A r \in Refs : log[r] # NoRow => log'[r] = log[r]
<1>1. CASE UNCHANGED store BY <1>1 DEF store
<1>2. ASSUME NEW p \in Sessions, ReadAndSubmit(p) PROVE UNCHANGED log
  BY <1>2 DEF ReadAndSubmit, Submit
<1>3. ASSUME NEW p \in Sessions, EngineStep(p)
      PROVE  \A r \in Refs : log[r] # NoRow => log'[r] = log[r]
  BY <1>3, EngineLog
<1> QED BY <1>1, <1>2, <1>3, StoreSteps

\* A request submits at most one batch, so that a committed one stays put.
LEMMA OnceInductive ==
  TypeOK /\ Placed /\ Recorded /\ AppliedOnce /\ [Next]_vars
    => Recorded' /\ AppliedOnce'
<1> SUFFICES ASSUME TypeOK, Placed, Recorded, AppliedOnce, [Next]_vars
             PROVE  Recorded' /\ AppliedOnce'
  OBVIOUS
<1> USE DEF Recorded, AppliedOnce, Applied, RefsOf
<1>1. CASE UNCHANGED store
  BY <1>1 DEF store, Written
<1>2. ASSUME NEW p \in Sessions, ReadAndSubmit(p)
      PROVE  Recorded' /\ AppliedOnce'
  <2>1. PICK b : Submit(p, b)
    BY <1>2 DEF ReadAndSubmit
  <2>2. /\ stage'[p] # "ok" /\ UNCHANGED log
        /\ \A o \in Sessions : o # p =>
             stage'[o] = stage[o] /\ batch'[o] = batch[o]
    BY <2>1 DEF Submit, TypeOK, StoreTypeOK
  <2> QED BY <2>2 DEF Written
<1>3. ASSUME NEW p \in Sessions, EngineStep(p)
      PROVE  Recorded' /\ AppliedOnce'
  <2>1. UNCHANGED batch /\ \A o \in Sessions : o # p => stage'[o] = stage[o]
    BY <1>3, EngineLog
  <2>2. CASE stage'[p] # "ok"
    <3>1. UNCHANGED log BY <1>3, <2>2, EngineLog
    <3> QED BY <2>1, <2>2, <3>1 DEF Written
  <2>3. CASE stage'[p] = "ok"
    <3>1. \A r \in Written(batch[p]) :
            log[r] = NoRow /\ log'[r] = batch[p].rows[r]
      BY <1>3, <2>3, EngineLog
    <3>2. \A r \in Refs : log[r] # NoRow => log'[r] = log[r]
      BY LogStep
    <3>3. \A o \in Sessions : o # p /\ Applied(o) =>
            \A r \in Written(batch[o]) : log[r] = batch[o].rows[r] /\ log[r] # NoRow
      BY DEF Written
    <3>4. Recorded'
      BY <2>1, <2>3, <3>1, <3>2, <3>3 DEF Written
    <3>5. \A o \in Sessions : o # p /\ Applied(o) =>
            Written(batch[o]) \cap Written(batch[p]) = {}
      BY <3>1, <3>3
    <3>6. AppliedOnce'
      BY <2>1, <2>3, <3>5 DEF Written
    <3> QED BY <3>4, <3>6
  <2> QED BY <2>2, <2>3
<1> QED BY <1>1, <1>2, <1>3, StoreSteps

LEMMA OnceInvariant == Spec => [](Placed /\ Recorded /\ AppliedOnce)
<1>1. Init => Placed /\ Recorded /\ AppliedOnce
  BY DEF Init, StoreInit, Placed, Recorded, AppliedOnce, Applied
<1> QED BY <1>1, TypeCorrect, PlacedInductive, OnceInductive, PTL DEF Spec

\* No two committed operations share a reference: a retry never moves the
\* money a second time (AppliedOnce).
THEOREM AtMostOnce == Spec => []AppliedOnce
BY OnceInvariant, PTL

\* Rows of the transaction log are never rewritten (LogKept).
THEOREM LogNeverRewritten == Spec => LogKept
<1>1. TypeOK /\ Placed /\ [Next]_vars =>
        [\A r \in Refs : log[r] # NoRow => log'[r] = log[r]]_vars
  BY LogStep
<1> QED BY <1>1, TypeCorrect, OnceInvariant, PTL DEF Spec, LogKept

-----------------------------------------------------------------------------
(* Balances and the log.                                                   *)

\* Every batch of the service moves as much as its rows say.
LEMMA CommitBalances ==
  ASSUME TypeOK, TypeOK', Placed, NEW p \in Sessions,
         EngineStep(p), Commit(p), stage'[p] = "ok"
  PROVE  Explained
<1> DEFINE b == batch[p]
           c == call[p]
           R(l) == RefOf[<<c.key, l>>]
<1>1. /\ c \in AnyCall /\ c.key \in Keys /\ c.from \in Assets /\ c.to \in Assets
      /\ c.amount \in Nat /\ c \in Calls /\ b \in BatchesFor(c)
  BY EngineLog, CallFacts DEF AnyCall
<1>2. \A l \in KeyLegs : R(l) \in Refs
  BY <1>1, RefAssumption
<1>3. R("OUT") # R("IN") /\ R("DEBIT") # R("CREDIT")
  BY <1>1, RefAssumption DEF KeyLegs
<1>4. StoreTypeOK /\ StoreTypeOK'
  BY DEF TypeOK
<1>5. CASE c.op = "fund"
  <2>1. b = Deposit(c.to, c.amount, R("DEPOSIT"))
    BY <1>1, <1>5 DEF BatchesFor, FundBatch
  <2> QED BY <1>1, <1>2, <1>4, <2>1, DepositBalances DEF KeyLegs
<1>6. CASE c.op = "swap"
  <2>1. PICK rate \in RateFor(c) : b = SwapBatch(c, rate)
    BY <1>1, <1>6 DEF BatchesFor
  <2>2. c.amount * rate \in Nat
    BY <1>1, <2>1, RatesAreNaturals
  <2>3. b = Exchange(c.from, c.amount, R("OUT"), "OUT",
                     c.to, c.amount * rate, R("IN"), "IN")
    BY <2>1 DEF SwapBatch
  <2>4. R("OUT") \in Refs /\ R("IN") \in Refs /\ Commit(p)
    BY <1>2 DEF KeyLegs
  <2> HIDE DEF R
  <2> QED BY <1>1, <1>3, <1>4, <2>2, <2>3, <2>4, ExchangeBalances
<1>7. CASE c.op = "transfer"
  <2>1. b = Exchange(c.from, c.amount, R("DEBIT"), "DEBIT",
                     c.to, c.amount, R("CREDIT"), "CREDIT")
    BY <1>1, <1>7 DEF BatchesFor, TransferBatch
  <2> QED BY <1>1, <1>2, <1>3, <1>4, <2>1, ExchangeBalances DEF KeyLegs
<1> QED BY <1>1, <1>5, <1>6, <1>7 DEF AnyCall

LEMMA ExplainedStep ==
  TypeOK /\ TypeOK' /\ Placed /\ [Next]_vars => Explained
<1> SUFFICES ASSUME TypeOK, TypeOK', Placed, [Next]_vars PROVE Explained
  OBVIOUS
<1>1. CASE UNCHANGED <<balance, log>>
  BY <1>1, Unmoved DEF TypeOK
<1>2. ASSUME NEW p \in Sessions, EngineStep(p), stage'[p] = "ok" PROVE Explained
  BY <1>2, EngineLog, CommitBalances
<1>3. ASSUME NEW p \in Sessions, EngineStep(p), stage'[p] # "ok"
      PROVE  UNCHANGED <<balance, log>>
  BY <1>3, EngineLog
<1> QED BY <1>1, <1>2, <1>3, StoreSteps DEF store, ReadAndSubmit, Submit

\* What the balance column says is what the transaction log adds up to, with
\* or without the CHECK: no abort, cancellation or retry separates a batch's
\* money from its rows (BalanceMatchesLedger).
THEOREM BalanceAgrees == Spec => []BalanceMatchesLedger
<1>1. Init => BalanceMatchesLedger
  BY BalanceInit DEF Init
<1>2. TypeOK /\ TypeOK' /\ Placed /\ BalanceMatchesLedger /\ [Next]_vars
        => BalanceMatchesLedger'
  BY ExplainedStep, BalanceKept DEF TypeOK
<1> QED BY <1>1, <1>2, TypeCorrect, OnceInvariant, PTL DEF Spec

-----------------------------------------------------------------------------
(* Success means committed.                                                *)

Confirmed ==
  \A p \in Sessions : pc[p] \in {"mark", "success"} => Applied(p)

LEMMA ConfirmedInductive == TypeOK /\ Confirmed /\ [Next]_vars => Confirmed'
<1> SUFFICES ASSUME TypeOK, Confirmed, [Next]_vars PROVE Confirmed'
  OBVIOUS
<1> USE DEF Confirmed, Applied, TypeOK
<1>1. ASSUME NEW p \in Sessions, NEW c \in Calls, Arrive(p, c) PROVE Confirmed'
  BY <1>1 DEF Arrive, store
<1>2. ASSUME NEW p \in Sessions, Handler(p) PROVE Confirmed'
  <2>1. CASE ReadAndSubmit(p)
    BY <2>1 DEF ReadAndSubmit, Submit, StoreTypeOK
  <2>2. CASE Reply(p)
    <3>1. After(stage[p]) = "mark" => stage[p] = "ok"
      BY DEF After
    <3>2. After(stage[p]) # "success"
      BY DEF After
    <3> QED BY <2>2, <3>1, <3>2 DEF Reply, store
  <2>3. CASE Mark(p)
    BY <2>3 DEF Mark, store
  <2> QED BY <1>2, <2>1, <2>2, <2>3
          DEF Handler, Lock, LockRefused, LockReplyLost, ReadFails,
              ReplyLost, Cleanup, store
<1>3. ASSUME NEW p \in Sessions, EngineStep(p) PROVE Confirmed'
  BY <1>3 DEF EngineStep, Engine, Refuse, Begin, Reject, Commit, Abort,
              StoreTypeOK
<1>4. ASSUME NEW p \in Sessions, Cancel(p) PROVE Confirmed'
  BY <1>4 DEF Cancel, store
<1>5. ASSUME NEW k \in Keys, Expire(k) PROVE Confirmed'
  BY <1>5 DEF Expire, store
<1>6. CASE Crash
  BY <1>6 DEF Crash, store
<1>7. CASE UNCHANGED vars
  BY <1>7 DEF vars, store
<1> QED BY <1>1, <1>2, <1>3, <1>4, <1>5, <1>6, <1>7 DEF Next, Finished

\* A client that is told "successful" has the rows of its operation in the
\* log (SuccessRecorded).
THEOREM SuccessIsRecorded == Spec => []SuccessRecorded
<1>1. Init => Confirmed
  BY DEF Init, Confirmed
<1>2. Placed /\ Recorded /\ Confirmed => SuccessRecorded
  <2> SUFFICES ASSUME Placed, Recorded, Confirmed,
                      NEW p \in Sessions, pc[p] = "success"
               PROVE  \E b \in BatchesFor(call[p]) :
                        \A r \in Written(b) : log[r] = b.rows[r]
    BY DEF SuccessRecorded
  <2>1. stage[p] = "ok" BY DEF Confirmed, Applied
  <2>2. batch[p] \in BatchesFor(call[p]) BY <2>1 DEF Placed
  <2>3. \A r \in Written(batch[p]) : log[r] = batch[p].rows[r]
    BY <2>1 DEF Recorded, Applied
  <2> QED BY <2>2, <2>3
<1> QED BY <1>1, <1>2, TypeCorrect, OnceInvariant, ConfirmedInductive, PTL
        DEF Spec

-----------------------------------------------------------------------------
(* The service implements the ledger.                                      *)

\* What a committed swap or transfer does to balances and log is a double
\* entry of the ledger, what a committed funding does is a single one.
LEMMA CommitPosts ==
  ASSUME CheckConstraint, TypeOK, Placed, NonNegative', NEW p \in Sessions,
         EngineStep(p), Commit(p), stage'[p] = "ok"
  PROVE  Book!Next
<1> DEFINE b == batch[p]
           c == call[p]
<1>1. /\ c \in AnyCall /\ c.key \in Keys /\ c.from \in Assets /\ c.to \in Assets
      /\ c.amount \in Nat /\ c \in Calls /\ b \in BatchesFor(c)
  BY EngineLog, CallFacts DEF AnyCall
<1>2. /\ \A r \in Written(b) : log[r] = NoRow /\ log'[r] = b.rows[r]
      /\ \A r \in Refs \ Written(b) : log'[r] = log[r]
  BY EngineLog
<1>3. balance' = [a \in Assets |-> balance[a] - b.debit[a] + b.credit[a]]
  BY DEF Commit
<1>4. \A a \in Assets : balance'[a] >= 0
  BY DEF NonNegative
<1>5. \A l \in KeyLegs : RefOf[<<c.key, l>>] \in Refs
  BY <1>1, RefAssumption
<1>6. \A a \in Assets : balance[a] \in Int
  BY DEF TypeOK, StoreTypeOK
<1>7. ASSUME NEW a \in Assets, NEW x \in Nat, NEW r \in Refs,
             b = Deposit(a, x, r)
      PROVE  Book!PostOne(r)
  <2>1. SuccessRow(a, x, "DEPOSIT") # NoRow
    BY StoreAssumption DEF SuccessRow, Row, Legs
  <2>2. Written(b) = {r} /\ b.rows[r] = SuccessRow(a, x, "DEPOSIT")
    BY <1>7, <2>1 DEF Deposit, NoRows, Written
  <2>3. Posted[r] = NoRow
    BY <1>2, <2>2 DEF Posted
  <2>4. log'[r] = SuccessRow(a, x, "DEPOSIT")
    BY <1>2, <2>2
  <2>5. Posted'[r] = [account |-> a, delta |-> x, state |-> "settled"]
    BY <2>1, <2>4 DEF Posted, Signed, SuccessRow
  <2>6. Posted' = [Posted EXCEPT ![r] = Posted'[r]]
    BY <1>2, <2>2 DEF Posted
  <2>7. balance' = [d \in Assets |-> balance[d] + Book!Share(Posted'[r], d)]
    <3>1. \A d \in Assets : /\ b.debit[d] = 0
                            /\ b.credit[d] = IF a = d THEN x ELSE 0
      BY <1>7 DEF Deposit, Amount, NoAmount
    <3>2. \A d \in Assets : balance[d] - b.debit[d] + b.credit[d]
                              = balance[d] + Book!Share(Posted'[r], d)
      BY <1>6, <2>5, <3>1 DEF Book!Share
    <3> QED BY <1>3, <3>2
  <2> QED BY <1>4, <2>3, <2>5, <2>6, <2>7 DEF Book!PostOne, Book!Unposted, Book!Solvent
<1>8. ASSUME NEW a \in Assets, NEW x \in Nat, NEW r \in Refs,
             NEW leg \in {"OUT", "DEBIT"},
             NEW a2 \in Assets, NEW x2 \in Nat, NEW r2 \in Refs,
             NEW leg2 \in {"IN", "CREDIT"}, r # r2,
             b = Exchange(a, x, r, leg, a2, x2, r2, leg2)
      PROVE  Book!PostPair(r, r2)
  <2>1. SuccessRow(a, x, leg) # NoRow /\ SuccessRow(a2, x2, leg2) # NoRow
    BY StoreAssumption DEF SuccessRow, Row, Legs
  <2>2. /\ Written(b) = {r, r2}
        /\ b.rows[r] = SuccessRow(a, x, leg)
        /\ b.rows[r2] = SuccessRow(a2, x2, leg2)
    BY <1>8, <2>1 DEF Exchange, NoRows, Written
  <2>3. Posted[r] = NoRow /\ Posted[r2] = NoRow
    BY <1>2, <2>2 DEF Posted
  <2>4. log'[r] = SuccessRow(a, x, leg) /\ log'[r2] = SuccessRow(a2, x2, leg2)
    BY <1>2, <2>2
  <2>5. /\ Posted'[r] = [account |-> a, delta |-> - x, state |-> "settled"]
        /\ Posted'[r2] = [account |-> a2, delta |-> x2, state |-> "settled"]
    BY <2>1, <2>4 DEF Posted, Signed, SuccessRow
  <2>6. Posted' = [Posted EXCEPT ![r] = Posted'[r], ![r2] = Posted'[r2]]
    BY <1>2, <2>2 DEF Posted
  <2>7. balance' = [d \in Assets |-> balance[d] + Book!Share(Posted'[r], d)
                                        + Book!Share(Posted'[r2], d)]
    <3>1. \A d \in Assets : /\ b.debit[d] = (IF a = d THEN x ELSE 0)
                            /\ b.credit[d] = (IF a2 = d THEN x2 ELSE 0)
      BY <1>8 DEF Exchange, Amount, NoAmount
    <3>2. \A d \in Assets :
            balance[d] - b.debit[d] + b.credit[d]
              = balance[d] + Book!Share(Posted'[r], d) + Book!Share(Posted'[r2], d)
      BY <1>6, <2>5, <3>1 DEF Book!Share
    <3> QED BY <1>3, <3>2
  <2>8. Posted'[r].delta <= 0 /\ 0 <= Posted'[r2].delta
    BY <2>5
  <2>9. {Posted'[r], Posted'[r2]} \subseteq
          [account : Assets, delta : Int, state : {"settled"}]
    BY <2>5
  <2> QED BY <1>4, <1>8, <2>3, <2>6, <2>7, <2>8, <2>9
          DEF Book!PostPair, Book!Unposted, Book!Solvent
<1>9. CASE c.op = "fund"
  <2>1. b = Deposit(c.to, c.amount, RefOf[<<c.key, "DEPOSIT">>])
    BY <1>1, <1>9 DEF BatchesFor, FundBatch
  <2> QED BY <1>1, <1>5, <1>7, <2>1 DEF Book!Next, KeyLegs
<1>10. CASE c.op = "swap"
  <2>1. PICK rate \in RateFor(c) : b = SwapBatch(c, rate)
    BY <1>1, <1>10 DEF BatchesFor
  <2>2. rate \in Nat BY <2>1, RatesAreNaturals
  <2>3. c.amount * rate \in Nat BY <1>1, <2>2
  <2>4. RefOf[<<c.key, "OUT">>] # RefOf[<<c.key, "IN">>]
    BY <1>1, RefAssumption DEF KeyLegs
  <2>5. Book!PostPair(RefOf[<<c.key, "OUT">>], RefOf[<<c.key, "IN">>])
    BY <1>1, <1>5, <1>8, <2>1, <2>3, <2>4 DEF SwapBatch, KeyLegs
  <2> QED BY <1>5, <2>5 DEF Book!Next, KeyLegs
<1>11. CASE c.op = "transfer"
  <2>1. b = TransferBatch(c)
    BY <1>1, <1>11 DEF BatchesFor
  <2>2. RefOf[<<c.key, "DEBIT">>] # RefOf[<<c.key, "CREDIT">>]
    BY <1>1, RefAssumption DEF KeyLegs
  <2>3. Book!PostPair(RefOf[<<c.key, "DEBIT">>], RefOf[<<c.key, "CREDIT">>])
    BY <1>1, <1>5, <1>8, <2>1, <2>2 DEF TransferBatch, KeyLegs
  <2> QED BY <1>5, <2>3 DEF Book!Next, KeyLegs
<1> QED BY <1>1, <1>9, <1>10, <1>11 DEF AnyCall

\* With the CHECK installed every behaviour of the service is, through the
\* mapping of the log to postings, a behaviour of the ledger.
THEOREM ImplementsLedger == CheckConstraint => (Spec => LedgerImplemented)
<1> SUFFICES ASSUME CheckConstraint PROVE Spec => LedgerImplemented
  OBVIOUS
<1>1. Init => Book!Init
  BY StoreAssumption DEF Init, StoreInit, Posted, Book!Init
<1>2. TypeOK /\ Placed /\ NonNegative' /\ [Next]_vars
        => [Book!Next]_(Book!ledgerVars)
  <2> SUFFICES ASSUME TypeOK, Placed, NonNegative', [Next]_vars
               PROVE  [Book!Next]_(Book!ledgerVars)
    OBVIOUS
  <2>1. CASE UNCHANGED store
    BY <2>1 DEF store, Posted, Book!ledgerVars
  <2>2. ASSUME NEW p \in Sessions, ReadAndSubmit(p)
        PROVE  UNCHANGED Book!ledgerVars
    BY <2>2 DEF ReadAndSubmit, Submit, Posted, Book!ledgerVars
  <2>3. ASSUME NEW p \in Sessions, EngineStep(p)
        PROVE  [Book!Next]_(Book!ledgerVars)
    <3>1. CASE stage'[p] # "ok"
      <4>1. UNCHANGED <<balance, log>> BY <2>3, <3>1, EngineLog
      <4> QED BY <4>1 DEF Posted, Book!ledgerVars
    <3>2. CASE stage'[p] = "ok"
      <4>1. Commit(p) BY <2>3, <3>2, EngineLog
      <4> QED BY <2>3, <3>2, <4>1, CommitPosts
    <3> QED BY <3>1, <3>2
  <2> QED BY <2>1, <2>2, <2>3, StoreSteps
<1>3. Spec => []NonNegative
  BY NoOverdraft
<1> QED BY <1>1, <1>2, <1>3, TypeCorrect, OnceInvariant, PTL
        DEF Spec, LedgerImplemented, Book!Spec

-----------------------------------------------------------------------------
(* The idempotency key.                                                    *)

LockedByHolder == \A p \in Sessions : Holds(p) => idemp[Key(p)] = "processing"

LEMMA HolderInductive ==
  TypeOK /\ LockedByHolder /\ OneHolder /\ [Next]_vars
    => LockedByHolder' /\ OneHolder'
<1> SUFFICES ASSUME TypeOK, LockedByHolder, OneHolder, [Next]_vars
             PROVE  LockedByHolder' /\ OneHolder'
  OBVIOUS
<1> USE DEF LockedByHolder, OneHolder, Holds, Key, TypeOK
<1>0. \A p \in Sessions : pc[p] \notin {"idle", "dead"} => Key(p) \in Keys
  BY CallFacts DEF AnyCall
<1>1. ASSUME NEW p \in Sessions, NEW c \in Calls, Arrive(p, c)
      PROVE  LockedByHolder' /\ OneHolder'
  BY <1>1 DEF Arrive
<1>2. ASSUME NEW p \in Sessions, Handler(p)
      PROVE  LockedByHolder' /\ OneHolder'
  <2>1. CASE Lock(p)
    BY <1>0, <2>1 DEF Lock
  <2>2. CASE LockReplyLost(p)
    BY <1>0, <2>2 DEF LockReplyLost
  <2>3. CASE Mark(p)
    BY <1>0, <2>3 DEF Mark, PutKey
  <2>4. CASE Cleanup(p)
    BY <1>0, <2>4 DEF Cleanup, PutKey
  <2>5. CASE Reply(p)
    <3>1. After(stage[p]) \in {"mark", "duplicate", "cleanup"}
      BY DEF After
    <3> QED BY <2>5, <3>1 DEF Reply
  <2> QED BY <1>2, <2>1, <2>2, <2>3, <2>4, <2>5
          DEF Handler, LockRefused, ReadAndSubmit, ReadFails, ReplyLost
<1>3. ASSUME NEW p \in Sessions, EngineStep(p)
      PROVE  LockedByHolder' /\ OneHolder'
  BY <1>3 DEF EngineStep
<1>4. ASSUME NEW p \in Sessions, Cancel(p)
      PROVE  LockedByHolder' /\ OneHolder'
  BY <1>4 DEF Cancel
<1>5. ASSUME NEW k \in Keys, Expire(k)
      PROVE  LockedByHolder' /\ OneHolder'
  BY <1>0, <1>5 DEF Expire
<1>6. CASE Crash
  BY <1>6 DEF Crash, Running
<1>7. CASE UNCHANGED vars
  BY <1>7 DEF vars
<1> QED BY <1>1, <1>2, <1>3, <1>4, <1>5, <1>6, <1>7 DEF Next, Finished

\* Two requests with one key and a usable context are never past the lock
\* together (OneHolder): no late delete, overwrite or expiry opens it early.
THEOREM LockExcludes == Spec => []OneHolder
<1>1. Init => LockedByHolder /\ OneHolder
  BY DEF Init, LockedByHolder, OneHolder, Holds
<1> QED BY <1>1, TypeCorrect, HolderInductive, PTL DEF Spec

\* What is committed stays committed, under the key it was made for.
LEMMA AppliedStays ==
  ASSUME TypeOK, Placed, [Next]_vars, NEW p \in Sessions, Applied(p)
  PROVE  Applied(p)' /\ Key(p)' = Key(p)
<1> USE DEF Applied, Key, TypeOK, StoreTypeOK
<1>0. pc[p] \notin {"idle", "lock", "read"}
  BY DEF Placed
<1>1. ASSUME NEW q \in Sessions, NEW c \in Calls, Arrive(q, c)
      PROVE  UNCHANGED <<stage[p], call[p]>>
  BY <1>0, <1>1 DEF Arrive, store
<1>2. ASSUME NEW q \in Sessions, Handler(q)
      PROVE  UNCHANGED <<stage[p], call[p]>>
  <2>1. CASE ReadAndSubmit(q)
    BY <1>0, <2>1 DEF ReadAndSubmit, Submit
  <2> QED BY <1>2, <2>1
          DEF Handler, Lock, LockRefused, LockReplyLost, ReadFails, Reply,
              ReplyLost, Mark, Cleanup, store
<1>3. ASSUME NEW q \in Sessions, EngineStep(q)
      PROVE  UNCHANGED <<stage[p], call[p]>>
  BY <1>3 DEF EngineStep, Engine, Refuse, Begin, Reject, Commit, Abort
<1>4. ASSUME NEW q \in Sessions, Cancel(q)
      PROVE  UNCHANGED <<stage[p], call[p]>>
  BY <1>4 DEF Cancel, store
<1>5. ASSUME NEW k \in Keys, Expire(k) PROVE UNCHANGED <<stage[p], call[p]>>
  BY <1>5 DEF Expire, store
<1>6. Crash => UNCHANGED <<stage[p], call[p]>>
  BY DEF Crash, store
<1>7. UNCHANGED vars => UNCHANGED <<stage[p], call[p]>>
  BY DEF vars, store
<1> QED BY <1>1, <1>2, <1>3, <1>4, <1>5, <1>6, <1>7 DEF Next, Finished

\* The marker "completed" is only ever found under a key with which an
\* operation is committed (MarkerSound).
THEOREM MarkerTrue == Spec => []MarkerSound
<1>1. Init => Confirmed /\ MarkerSound
  BY DEF Init, Confirmed, MarkerSound
<1>2. TypeOK /\ Placed /\ Confirmed /\ MarkerSound /\ [Next]_vars
        => MarkerSound'
  <2> SUFFICES ASSUME TypeOK, Placed, Confirmed, MarkerSound, [Next]_vars,
                      NEW k \in Keys, idemp'[k] = "completed"
               PROVE  \E p \in Sessions : Applied(p)' /\ Key(p)' = k
    BY DEF MarkerSound
  <2>1. CASE idemp[k] = "completed"
    <3>1. PICK p \in Sessions : Applied(p) /\ Key(p) = k
      BY <2>1 DEF MarkerSound
    <3> QED BY <3>1, AppliedStays
  <2>2. CASE idemp[k] # "completed"
    <3>1. \E p \in Sessions : Mark(p) /\ Key(p) = k
      BY <2>2
      DEF Next, Arrive, Handler, Lock, LockRefused, LockReplyLost,
          ReadAndSubmit, ReadFails, Reply, ReplyLost, Mark, Cleanup, PutKey,
          EngineStep, Cancel, Expire, Crash, Finished, vars, TypeOK
    <3>2. PICK p \in Sessions : Mark(p) /\ Key(p) = k
      BY <3>1
    <3>3. Applied(p) BY <3>2 DEF Mark, Confirmed
    <3> QED BY <3>2, <3>3, AppliedStays
  <2> QED BY <2>1, <2>2
<1> QED BY <1>1, <1>2, TypeCorrect, OnceInvariant, ConfirmedInductive, PTL
        DEF Spec

-----------------------------------------------------------------------------
(* Double entry.                                                           *)

\* The legs of an operation that records two rows.
TwoLegs(c) == IF c.op = "swap" THEN {"OUT", "IN"}
              ELSE IF c.op = "transfer" THEN {"DEBIT", "CREDIT"}
              ELSE {}

\* Which rows a commit can put where: a row with leg l appears under
\* RefOf[k, l] exactly when the batch is one of key k that has such a leg.
LEMMA CommitLegs ==
  ASSUME TypeOK, Placed, NEW p \in Sessions, EngineStep(p), stage'[p] = "ok",
         NEW k \in Keys, NEW l \in KeyLegs \ {"DEPOSIT"}
  PROVE  /\ call[p].key = k /\ l \in TwoLegs(call[p]) =>
              /\ HasLeg(k, l)'
              /\ RowAt(k, l)' = batch[p].rows[RefOf[<<k, l>>]]
         /\ ~ (call[p].key = k /\ l \in TwoLegs(call[p])) =>
              \/ log'[RefOf[<<k, l>>]] = log[RefOf[<<k, l>>]]
              \/ /\ ~ HasLeg(k, l)
                 /\ ~ HasLeg(k, l)'
<1> DEFINE b == batch[p]
           c == call[p]
           R(m) == RefOf[<<c.key, m>>]
           ref == RefOf[<<k, l>>]
<1>1. /\ c \in AnyCall /\ c.key \in Keys /\ c.from \in Assets /\ c.to \in Assets
      /\ c.amount \in Nat /\ c \in Calls /\ b \in BatchesFor(c)
  BY EngineLog, CallFacts DEF AnyCall
<1>2. /\ \A r \in Written(b) : log[r] = NoRow /\ log'[r] = b.rows[r]
      /\ \A r \in Refs \ Written(b) : log'[r] = log[r]
  BY EngineLog
<1>3. ref \in Refs /\ \A m \in KeyLegs : R(m) \in Refs
  BY <1>1, RefAssumption
<1>4. \A a \in Assets, x \in Nat, m \in Legs :
        SuccessRow(a, x, m) # NoRow /\ SuccessRow(a, x, m).leg = m
  BY StoreAssumption DEF SuccessRow, Row
<1>5. \A m \in KeyLegs : R(m) = ref => \/ c.key = k /\ m = l
                                       \/ m = "DEPOSIT"
  <2> SUFFICES ASSUME NEW m \in KeyLegs, R(m) = ref
               PROVE  (c.key = k /\ m = l) \/ m = "DEPOSIT"
    OBVIOUS
  <2>1. \/ c.key = k /\ m = l
        \/ "DEPOSIT" \in {m, l}
    BY <1>1, RefAssumption
  <2> QED BY <2>1
<1>6. ref \notin Written(b) => log'[ref] = log[ref]
  BY <1>2, <1>3
<1>7. CASE c.op = "fund"
  <2>1. /\ Written(b) = {R("DEPOSIT")}
        /\ b.rows[R("DEPOSIT")] = SuccessRow(c.to, c.amount, "DEPOSIT")
    BY <1>1, <1>3, <1>4, <1>7
    DEF BatchesFor, FundBatch, Deposit, NoRows, Written, KeyLegs, Legs
  <2>2. CASE ref = R("DEPOSIT")
    <3>1. log[ref] = NoRow /\ log'[ref] # NoRow /\ log'[ref].leg = "DEPOSIT"
      BY <1>1, <1>2, <1>4, <2>1, <2>2 DEF Legs
    <3>2. ~ HasLeg(k, l)' /\ ~ HasLeg(k, l)
      BY <3>1 DEF HasLeg, RowAt
    <3> QED BY <1>7, <3>2 DEF TwoLegs
  <2>3. CASE ref # R("DEPOSIT")
    BY <1>6, <1>7, <2>1, <2>3 DEF TwoLegs
  <2> QED BY <2>2, <2>3
<1>8. ASSUME NEW a \in Assets, NEW x \in Nat, NEW a2 \in Assets, NEW x2 \in Nat,
             NEW m \in KeyLegs \ {"DEPOSIT"}, NEW m2 \in KeyLegs \ {"DEPOSIT"},
             m # m2,
             b = Exchange(a, x, R(m), m, a2, x2, R(m2), m2)
      PROVE  /\ c.key = k /\ l \in {m, m2} =>
                  /\ HasLeg(k, l)'
                  /\ RowAt(k, l)' = b.rows[ref]
             /\ ~ (c.key = k /\ l \in {m, m2}) => log'[ref] = log[ref]
  <2>1. R(m) # R(m2)
    BY <1>1, <1>8, RefAssumption
  <2>0. m \in Legs /\ m2 \in Legs /\ R(m) \in Refs /\ R(m2) \in Refs
    BY <1>3 DEF KeyLegs, Legs
  <2>2. /\ Written(b) = {R(m), R(m2)}
        /\ b.rows[R(m)] = SuccessRow(a, x, m)
        /\ b.rows[R(m2)] = SuccessRow(a2, x2, m2)
    <3>1. b.rows = [NoRows EXCEPT ![R(m)] = SuccessRow(a, x, m),
                                  ![R(m2)] = SuccessRow(a2, x2, m2)]
      BY <1>8 DEF Exchange
    <3>2. SuccessRow(a, x, m) # NoRow /\ SuccessRow(a2, x2, m2) # NoRow
      BY <1>4, <2>0
    <3> QED BY <2>0, <2>1, <3>1, <3>2 DEF NoRows, Written
  <2>3. CASE c.key = k /\ l \in {m, m2}
    <3>1. ref \in Written(b) /\ b.rows[ref] # NoRow /\ b.rows[ref].leg = l
      BY <1>4, <2>2, <2>3 DEF KeyLegs, Legs
    <3> QED BY <1>2, <2>3, <3>1 DEF HasLeg, RowAt
  <2>4. CASE ~ (c.key = k /\ l \in {m, m2})
    <3>1. ref \notin Written(b)
      BY <1>5, <2>2, <2>4
    <3> QED BY <1>6, <2>4, <3>1
  <2> QED BY <2>3, <2>4
<1>9. CASE c.op = "swap"
  <2>1. PICK rate \in RateFor(c) : b = SwapBatch(c, rate)
    BY <1>1, <1>9 DEF BatchesFor
  <2>2. rate \in Nat BY <2>1, RatesAreNaturals
  <2>3. c.amount * rate \in Nat BY <1>1, <2>2
  <2>4. b = Exchange(c.from, c.amount, R("OUT"), "OUT",
                     c.to, c.amount * rate, R("IN"), "IN")
    BY <2>1 DEF SwapBatch
  <2>5. /\ c.key = k /\ l \in {"OUT", "IN"} =>
             /\ HasLeg(k, l)'
             /\ RowAt(k, l)' = b.rows[ref]
        /\ ~ (c.key = k /\ l \in {"OUT", "IN"}) => log'[ref] = log[ref]
    BY <1>1, <1>8, <2>3, <2>4 DEF KeyLegs
  <2> QED BY <1>9, <2>5 DEF TwoLegs
<1>10. CASE c.op = "transfer"
  <2>1. b = Exchange(c.from, c.amount, R("DEBIT"), "DEBIT",
                     c.to, c.amount, R("CREDIT"), "CREDIT")
    BY <1>1, <1>10 DEF BatchesFor, TransferBatch
  <2>2. /\ c.key = k /\ l \in {"DEBIT", "CREDIT"} =>
             /\ HasLeg(k, l)'
             /\ RowAt(k, l)' = b.rows[ref]
        /\ ~ (c.key = k /\ l \in {"DEBIT", "CREDIT"}) => log'[ref] = log[ref]
    BY <1>1, <1>8, <2>1 DEF KeyLegs
  <2> QED BY <1>10, <2>2 DEF TwoLegs
<1> QED BY <1>1, <1>7, <1>9, <1>10 DEF AnyCall

\* Neither a swap nor a transfer is ever half recorded, and the two rows of
\* a transfer agree (PairedLegs).
THEOREM DoubleEntry == Spec => []PairedLegs
<1>1. Init => PairedLegs
  <2> SUFFICES ASSUME Init, NEW k \in Keys, NEW l \in KeyLegs
               PROVE  ~ HasLeg(k, l)
    BY DEF PairedLegs, KeyLegs
  <2> QED BY RefAssumption DEF Init, StoreInit, HasLeg, RowAt
<1>2. TypeOK /\ Placed /\ PairedLegs /\ [Next]_vars => PairedLegs'
  <2> SUFFICES ASSUME TypeOK, Placed, PairedLegs, [Next]_vars, NEW k \in Keys
               PROVE  /\ HasLeg(k, "OUT")' <=> HasLeg(k, "IN")'
                      /\ HasLeg(k, "DEBIT")' <=> HasLeg(k, "CREDIT")'
                      /\ HasLeg(k, "DEBIT")' =>
                           /\ RowAt(k, "DEBIT").amount' = RowAt(k, "CREDIT").amount'
                           /\ RowAt(k, "DEBIT").asset[2]' = RowAt(k, "CREDIT").asset[2]'
    BY DEF PairedLegs
  <2>1. CASE UNCHANGED log
    BY <2>1 DEF PairedLegs, HasLeg, RowAt
  <2>2. ASSUME NEW p \in Sessions, EngineStep(p), stage'[p] = "ok"
        PROVE  /\ HasLeg(k, "OUT")' <=> HasLeg(k, "IN")'
               /\ HasLeg(k, "DEBIT")' <=> HasLeg(k, "CREDIT")'
               /\ HasLeg(k, "DEBIT")' =>
                    /\ RowAt(k, "DEBIT").amount' = RowAt(k, "CREDIT").amount'
                    /\ RowAt(k, "DEBIT").asset[2]' = RowAt(k, "CREDIT").asset[2]'
    <3> DEFINE c == call[p]
    <3>0. \A l \in KeyLegs \ {"DEPOSIT"} :
            ~ (c.key = k /\ l \in TwoLegs(c)) =>
              /\ HasLeg(k, l)' <=> HasLeg(k, l)
              /\ HasLeg(k, l) => RowAt(k, l)' = RowAt(k, l)
      BY <2>2, CommitLegs DEF HasLeg, RowAt
    <3>1. HasLeg(k, "OUT")' <=> HasLeg(k, "IN")'
      <4>1. CASE c.op = "swap" /\ c.key = k
        BY <2>2, <4>1, CommitLegs DEF TwoLegs, KeyLegs
      <4>2. CASE ~ (c.op = "swap" /\ c.key = k)
        BY <3>0, <4>2 DEF PairedLegs, TwoLegs, KeyLegs
      <4> QED BY <4>1, <4>2
    <3>2. CASE c.op = "transfer" /\ c.key = k
      <4>1. /\ HasLeg(k, "DEBIT")' /\ HasLeg(k, "CREDIT")'
            /\ RowAt(k, "DEBIT")' = batch[p].rows[RefOf[<<k, "DEBIT">>]]
            /\ RowAt(k, "CREDIT")' = batch[p].rows[RefOf[<<k, "CREDIT">>]]
        BY <2>2, <3>2, CommitLegs DEF KeyLegs, TwoLegs
      <4>2. /\ c \in Calls /\ batch[p] = TransferBatch(c)
        BY <2>2, <3>2, EngineLog, CallFacts DEF BatchesFor, AnyCall
      <4>3. /\ RefOf[<<k, "DEBIT">>] # RefOf[<<k, "CREDIT">>]
            /\ RefOf[<<k, "DEBIT">>] \in Refs /\ RefOf[<<k, "CREDIT">>] \in Refs
        BY RefAssumption DEF KeyLegs
      <4>4. /\ batch[p].rows[RefOf[<<k, "DEBIT">>]]
                 = SuccessRow(c.from, c.amount, "DEBIT")
            /\ batch[p].rows[RefOf[<<k, "CREDIT">>]]
                 = SuccessRow(c.to, c.amount, "CREDIT")
        BY <3>2, <4>2, <4>3 DEF TransferBatch, Exchange, NoRows
      <4>5. c.from[2] = c.to[2]
        BY <3>2, <4>2, CallFacts
      <4> QED BY <3>1, <4>1, <4>4, <4>5 DEF SuccessRow
    <3>3. CASE ~ (c.op = "transfer" /\ c.key = k)
      <4>1. /\ HasLeg(k, "DEBIT")' <=> HasLeg(k, "DEBIT")
            /\ HasLeg(k, "CREDIT")' <=> HasLeg(k, "CREDIT")
            /\ HasLeg(k, "DEBIT") => RowAt(k, "DEBIT")' = RowAt(k, "DEBIT")
            /\ HasLeg(k, "CREDIT") => RowAt(k, "CREDIT")' = RowAt(k, "CREDIT")
        BY <3>0, <3>3 DEF KeyLegs, TwoLegs
      <4>2. /\ HasLeg(k, "DEBIT") <=> HasLeg(k, "CREDIT")
            /\ HasLeg(k, "DEBIT") =>
                 /\ RowAt(k, "DEBIT").amount = RowAt(k, "CREDIT").amount
                 /\ RowAt(k, "DEBIT").asset[2] = RowAt(k, "CREDIT").asset[2]
        BY DEF PairedLegs
      <4> QED BY <3>1, <4>1, <4>2
    <3> QED BY <3>2, <3>3
  <2>3. ASSUME NEW p \in Sessions, EngineStep(p), stage'[p] # "ok"
        PROVE  UNCHANGED log
    BY <2>3, EngineLog
  <2> QED BY <2>1, <2>2, <2>3, StoreSteps DEF store, ReadAndSubmit, Submit
<1> QED BY <1>1, <1>2, TypeCorrect, OnceInvariant, PTL DEF Spec
=============================================================================
