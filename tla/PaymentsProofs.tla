---------------------------- MODULE PaymentsProofs ----------------------------
(***************************************************************************)
(* What TLAPS proves of Payments, for any number of payments, withdrawals, *)
(* webhook requests and events.                                            *)
(***************************************************************************)
EXTENDS Payments, WalletStoreProofs, WebhookQueueProofs

USE DEF Goto

-----------------------------------------------------------------------------
(* What the constants say, and the batches.                                *)

LEMMA SessionFacts ==
  /\ Worker \in Sessions /\ Verifiers \subseteq Sessions /\ Withdrawers \subseteq Sessions
  /\ \A s \in Sessions : s = Worker \/ s \in Verifiers \/ s \in Withdrawers
  /\ \A v \in Verifiers : v # Worker /\ v \notin Withdrawers
  /\ \A w \in Withdrawers : w # Worker /\ w \notin Verifiers
BY PaymentAssumption

LEMMA EventFacts ==
  ASSUME NEW e \in Events
  PROVE  /\ e.kind \in {"charge", "success", "failed", "reversed"}
         /\ e.kind = "charge" => e \in Charges
         /\ e.kind # "charge" => e.ref \in GatewayRefs /\ e \notin Charges
<1>1. \A c \in Charges : c.kind = "charge"
  BY PaymentAssumption DEF ChargeEvent
<1>2. CASE e \in Charges
  BY <1>1, <1>2
<1>3. CASE e \notin Charges
  BY <1>3, PaymentAssumption DEF PayoutEvent
<1> QED BY <1>2, <1>3

LEMMA ChargeFacts ==
  /\ \A c \in Charges : /\ c.ref \in Refs /\ c.asset \in Assets /\ c.amount \in Nat
                        /\ c.kind = "charge"
  /\ \A v \in Verifiers : ChargeOf[v].ref \in Refs
BY PaymentAssumption DEF ChargeEvent

LEMMA WantFacts ==
  ASSUME NEW w \in Withdrawers
  PROVE  /\ WantOf[w].asset \in Assets /\ WantOf[w].amount \in Nat
         /\ RowOf[w] \in Refs
         /\ \A n \in {1, 2} : <<w, n>> \in DOMAIN TransferOf /\ TransferOf[<<w, n>>] \in GatewayRefs
BY PaymentAssumption DEF Want

\* The row DebitForWithdrawal writes, with whatever status it has now.
WithdrawalRow(w, status) ==
  [asset |-> WantOf[w].asset, amount |-> WantOf[w].amount, leg |-> "WITHDRAWAL",
   status |-> status, gateway |-> TransferOf[<<w, 2>>]]

\* The refund of row r, which gives x back to asset a.
Refund(a, x, r) ==
  [debit |-> NoAmount, credit |-> Amount(a, x), rows |-> NoRows, fail |-> {r}]

LEMMA WithdrawalRowType ==
  ASSUME NEW w \in Withdrawers, NEW status \in {"PENDING", "SUCCESS", "FAILED"}
  PROVE  WithdrawalRow(w, status) \in Row /\ WithdrawalRow(w, status) # NoRow
<1>1. WithdrawalRow(w, status) \in Row
  BY WantFacts DEF WithdrawalRow, Row, Legs
<1> QED BY <1>1, StoreAssumption

LEMMA CreditType ==
  ASSUME NEW c \in Charges
  PROVE  CreditWalletByEmail(c) \in Batch
BY ChargeFacts, DepositType DEF CreditWalletByEmail

LEMMA DebitType ==
  ASSUME NEW w \in Withdrawers
  PROVE  DebitForWithdrawal(w) \in Batch
<1>1. NoAmount \in [Assets -> Nat] /\ Amount(WantOf[w].asset, WantOf[w].amount) \in [Assets -> Nat]
  BY WantFacts DEF NoAmount, Amount
<1>2. [NoRows EXCEPT ![RowOf[w]] = WithdrawalRow(w, "PENDING")] \in [Refs -> Row \cup {NoRow}]
  BY WithdrawalRowType DEF NoRows
<1> QED BY <1>1, <1>2 DEF DebitForWithdrawal, WithdrawalRow, Batch

LEMMA RefundType ==
  ASSUME NEW a \in Assets, NEW x \in Nat, NEW r \in Refs
  PROVE  Refund(a, x, r) \in Batch
<1>1. NoAmount \in [Assets -> Nat] /\ Amount(a, x) \in [Assets -> Nat]
  BY DEF NoAmount, Amount
<1>2. NoRows \in [Refs -> Row \cup {NoRow}]
  BY DEF NoRows
<1> QED BY <1>1, <1>2 DEF Refund, Batch

LEMMA RefundableFacts ==
  ASSUME StoreTypeOK, NEW t, NEW r \in Refundable(t)
  PROVE  /\ r \in Refs /\ log[r] \in Row /\ log[r] # NoRow /\ log[r].gateway = t
         /\ log[r].leg = "WITHDRAWAL" /\ log[r].status # "FAILED"
         /\ RefundWithdrawal(r) = Refund(log[r].asset, log[r].amount, r)
         /\ RefundWithdrawal(r) \in Batch
<1>1. /\ r \in Refs /\ log[r] \in Row /\ log[r] # NoRow /\ log[r].gateway = t
      /\ log[r].leg = "WITHDRAWAL" /\ log[r].status # "FAILED"
  BY DEF Refundable, RowsOf, StoreTypeOK
<1>2. log[r].asset \in Assets /\ log[r].amount \in Nat
  BY <1>1 DEF Row
<1>3. RefundWithdrawal(r) = Refund(log[r].asset, log[r].amount, r)
  BY DEF RefundWithdrawal, Refund
<1> QED BY <1>1, <1>2, <1>3, RefundType

-----------------------------------------------------------------------------
(* What a step does to the queue, and what to the store.                   *)

LEMMA QueueStep == [Next]_vars => [QueueNext]_queueVars
<1> SUFFICES ASSUME [Next]_vars PROVE [QueueNext]_queueVars
  OBVIOUS
<1>1. Webhooks => QueueNext
  BY DEF Webhooks, QueueNext, Delivery
<1>2. ProcessPaystackEvent => [QueueNext]_queueVars
  BY DEF ProcessPaystackEvent, ProcessCharge, ProcessSuccess, ProcessRefund,
         ProcessNoRefund, ProcessFails, ProcessReply, ProcessReplyLost, QueueNext, Work
<1>3. ASSUME NEW v \in Verifiers, VerifyAndCredit(v) PROVE UNCHANGED queueVars
  BY <1>3 DEF VerifyAndCredit, Verify, VerifyReply, VerifyFetch, VerifyFails
<1>4. ASSUME NEW w \in Withdrawers, WithdrawFunds(w) PROVE UNCHANGED queueVars
  BY <1>4 DEF WithdrawFunds, Withdraw, CreateTransferRecipient, InitiateTransfer,
              WithdrawDebit, WithdrawReply, WithdrawFails
<1>5. ASSUME NEW t \in GatewayRefs, Payout(t) PROVE UNCHANGED queueVars
  BY <1>5 DEF Payout
<1>6. ASSUME NEW s \in Sessions, EngineStep(s) PROVE UNCHANGED queueVars
  BY <1>6 DEF EngineStep
<1>7. Crash \/ Shutdown => QueueNext
  BY DEF Crash, Shutdown, QueueNext
<1>8. Rest \/ UNCHANGED vars => UNCHANGED queueVars
  BY DEF Rest, vars
<1> QED BY <1>1, <1>2, <1>3, <1>4, <1>5, <1>6, <1>7, <1>8 DEF Next

\* The UPDATE of transfer.success.
Confirm ==
  /\ Processing({"success"}) /\ EngineFree
  /\ UpdateTransactionStatus(job.event.ref, "SUCCESS")
  /\ UNCHANGED <<pc, payout>>

StoreStep ==
  \/ UNCHANGED store
  \/ ProcessCharge
  \/ ProcessRefund
  \/ Confirm
  \/ \E v \in Verifiers : Verify(v)
  \/ \E w \in Withdrawers : WithdrawDebit(w)
  \/ \E s \in Sessions : EngineStep(s)

LEMMA StoreSteps == [Next]_vars => StoreStep
<1> SUFFICES ASSUME [Next]_vars PROVE StoreStep
  OBVIOUS
<1> USE DEF StoreStep
<1>1. Webhooks => UNCHANGED store
  BY DEF Webhooks
<1>2. ProcessPaystackEvent => StoreStep
  BY DEF ProcessPaystackEvent, ProcessSuccess, ProcessNoRefund, ProcessFails,
         ProcessReply, ProcessReplyLost, Confirm, Processing
<1>3. ASSUME NEW v \in Verifiers, VerifyAndCredit(v) PROVE StoreStep
  BY <1>3 DEF VerifyAndCredit, VerifyReply, VerifyFetch, VerifyFails
<1>4. ASSUME NEW w \in Withdrawers, WithdrawFunds(w) PROVE StoreStep
  BY <1>4 DEF WithdrawFunds, Withdraw, CreateTransferRecipient, InitiateTransfer,
              WithdrawReply, WithdrawFails
<1>5. ASSUME NEW t \in GatewayRefs, Payout(t) PROVE UNCHANGED store
  BY <1>5 DEF Payout
<1>7. Crash \/ Shutdown => UNCHANGED store
  BY DEF Crash, Shutdown
<1>8. Rest \/ UNCHANGED vars => UNCHANGED store
  BY DEF Rest, vars
<1> QED BY <1>1, <1>2, <1>3, <1>4, <1>5, <1>7, <1>8 DEF Next

\* Every batch that is submitted is one the repositories build, and nothing
\* else changes the tables but the engine and the UPDATE.
LEMMA Submits ==
  ASSUME StoreTypeOK, QueueTypeOK
  PROVE  /\ ProcessCharge => /\ job.event \in Charges
                             /\ Submit(Worker, CreditWalletByEmail(job.event))
         /\ \A v \in Verifiers : Verify(v) =>
              /\ ChargeOf[v] \in Charges
              /\ Submit(v, CreditWalletByEmail(ChargeOf[v]))
         /\ \A w \in Withdrawers : WithdrawDebit(w) => Submit(w, DebitForWithdrawal(w))
         /\ ProcessRefund =>
              /\ job \in Job /\ job.event \in Events /\ job.event.kind \in {"failed", "reversed"}
              /\ \E r \in Refundable(job.event.ref) : Submit(Worker, RefundWithdrawal(r))
<1>1. job # NoJob => job \in Job /\ job.event \in Events
  BY DEF QueueTypeOK, Job
<1>2. ProcessCharge => job.event \in Charges
  BY <1>1, EventFacts DEF ProcessCharge, Processing
<1>3. ProcessRefund => job \in Job /\ job.event \in Events /\ job.event.kind \in {"failed", "reversed"}
  BY <1>1 DEF ProcessRefund, Processing
<1> QED BY <1>2, <1>3 DEF ProcessCharge, ProcessRefund, Verify, VerifyTransaction, WithdrawDebit

-----------------------------------------------------------------------------
(* Type correctness.                                                       *)

LEMMA UpdateType ==
  ASSUME StoreTypeOK, NEW t, UpdateTransactionStatus(t, "SUCCESS")
  PROVE  StoreTypeOK'
<1>1. log' \in [Refs -> Row \cup {NoRow}]
  <2> SUFFICES ASSUME NEW r \in Refs PROVE log'[r] \in Row \cup {NoRow}
    BY DEF UpdateTransactionStatus
  <2>1. CASE r \in RowsOf(t)
    <3>1. log[r] \in Row
      BY <2>1 DEF RowsOf, StoreTypeOK
    <3>2. log'[r] = [log[r] EXCEPT !.status = "SUCCESS"]
      BY <2>1 DEF UpdateTransactionStatus
    <3> QED BY <3>1, <3>2 DEF Row
  <2>2. CASE r \notin RowsOf(t)
    BY <2>2 DEF UpdateTransactionStatus, StoreTypeOK
  <2> QED BY <2>1, <2>2
<1> QED BY <1>1 DEF UpdateTransactionStatus, StoreTypeOK

LEMMA StoreTypeStep ==
  ASSUME StoreTypeOK, QueueTypeOK, StoreStep
  PROVE  StoreTypeOK'
<1>1. CASE UNCHANGED store
  BY <1>1 DEF store, StoreTypeOK
<1>2. CASE ProcessCharge
  BY <1>2, Submits, CreditType, SubmitType, SessionFacts
<1>3. CASE ProcessRefund
  BY <1>3, Submits, RefundableFacts, SubmitType, SessionFacts
<1>4. CASE Confirm
  BY <1>4, UpdateType DEF Confirm
<1>5. ASSUME NEW v \in Verifiers, Verify(v) PROVE StoreTypeOK'
  BY <1>5, Submits, CreditType, SubmitType, SessionFacts
<1>6. ASSUME NEW w \in Withdrawers, WithdrawDebit(w) PROVE StoreTypeOK'
  BY <1>6, Submits, DebitType, SubmitType, SessionFacts
<1>7. ASSUME NEW s \in Sessions, EngineStep(s) PROVE StoreTypeOK'
  BY <1>7, EngineType DEF EngineStep
<1> QED BY <1>1, <1>2, <1>3, <1>4, <1>5, <1>6, <1>7 DEF StoreStep

LEMMA PcStep ==
  ASSUME pc \in [Sessions -> Pc],
         payout \in [GatewayRefs -> {"none", "started", "paid", "failed", "reversed"}],
         [Next]_vars
  PROVE  /\ pc' \in [Sessions -> Pc]
         /\ payout' \in [GatewayRefs -> {"none", "started", "paid", "failed", "reversed"}]
<1> USE SessionFacts DEF Pc, Underway
<1>1. CASE Webhooks
  BY <1>1 DEF Webhooks
<1>2. CASE ProcessPaystackEvent
  BY <1>2 DEF ProcessPaystackEvent, ProcessCharge, ProcessSuccess, ProcessRefund,
              ProcessNoRefund, ProcessFails, ProcessReply, ProcessReplyLost
<1>3. ASSUME NEW v \in Verifiers, VerifyAndCredit(v)
      PROVE  pc' \in [Sessions -> Pc] /\ UNCHANGED payout
  BY <1>3 DEF VerifyAndCredit, Verify, VerifyReply, VerifyFetch, VerifyFails
<1>4. ASSUME NEW w \in Withdrawers, WithdrawFunds(w)
      PROVE  /\ pc' \in [Sessions -> Pc]
             /\ payout' \in [GatewayRefs -> {"none", "started", "paid", "failed", "reversed"}]
  <2>1. TransferOf[<<w, 1>>] \in GatewayRefs /\ TransferOf[<<w, 2>>] \in GatewayRefs
    BY WantFacts
  <2>2. CASE \E n \in {1, 2}, from \in Pc, to \in Pc : InitiateTransfer(w, n, from, to)
    BY <2>1, <2>2 DEF InitiateTransfer
  <2>3. CASE \E from \in Pc, to \in Pc : CreateTransferRecipient(w, from, to)
    BY <2>3 DEF CreateTransferRecipient
  <2>4. CASE Withdraw(w) \/ WithdrawDebit(w) \/ WithdrawReply(w) \/ WithdrawFails(w)
    BY <2>4 DEF Withdraw, WithdrawDebit, WithdrawReply, WithdrawFails
  <2> QED BY <1>4, <2>2, <2>3, <2>4 DEF WithdrawFunds
<1>5. ASSUME NEW t \in GatewayRefs, Payout(t)
      PROVE  /\ UNCHANGED pc
             /\ payout' \in [GatewayRefs -> {"none", "started", "paid", "failed", "reversed"}]
  BY <1>5 DEF Payout
<1>6. ASSUME NEW s \in Sessions, EngineStep(s) PROVE UNCHANGED <<pc, payout>>
  BY <1>6 DEF EngineStep
<1>7. CASE Crash
  BY <1>7 DEF Crash
<1>8. CASE Shutdown
  BY <1>8 DEF Shutdown
<1>9. CASE Rest \/ UNCHANGED vars
  BY <1>9 DEF Rest, vars
<1> QED BY <1>1, <1>2, <1>3, <1>4, <1>5, <1>6, <1>7, <1>8, <1>9 DEF Next

LEMMA TypeInit == Init => TypeOK /\ Bounded
BY StoreTypeInit, QueueTypeInit DEF Init, TypeOK, Pc

LEMMA TypeStep == TypeOK /\ Bounded /\ [Next]_vars => (TypeOK /\ Bounded)'
BY StoreSteps, StoreTypeStep, QueueStep, QueueTypeStep, PcStep DEF TypeOK

\* What ProcessPaystackEvent does with a job is what WebhookQueue leaves open
\* there: what is proved of the queue alone holds of the queue in the payments.
THEOREM ImplementsQueue ==
  Spec => QueueSpec /\ []QueuedIsKept /\ []OneJobPerReference
<1>1. Spec => QueueSpec
  <2>1. Init => QueueInit
    BY DEF Init
  <2> QED BY <2>1, QueueStep, PTL DEF Spec, QueueSpec
<1> QED BY <1>1, NothingForgotten, OneJob, PTL

\* Every variable keeps its type: what the worker, the verify endpoint and
\* the withdrawals submit are batches, and jobs are retried within the limit.
THEOREM TypeCorrect == Spec => []TypeOK
BY TypeInit, TypeStep, PTL DEF Spec
-----------------------------------------------------------------------------
(* No overdraft.                                                           *)

LEMMA SolventStep ==
  CheckConstraint /\ TypeOK /\ NonNegative /\ RowLocks /\ Covered /\ [Next]_vars
    => (NonNegative /\ RowLocks /\ Covered)'
<1> SUFFICES ASSUME CheckConstraint, TypeOK, NonNegative, RowLocks, Covered, StoreStep
             PROVE  (NonNegative /\ RowLocks /\ Covered)'
  BY StoreSteps
<1> USE DEF TypeOK
<1>1. CASE UNCHANGED <<balance, batch, stage>>
  BY <1>1 DEF NonNegative, RowLocks, Covered, Locked, Debited
<1>2. ASSUME NEW s \in Sessions, NEW b, Submit(s, b)
      PROVE  (NonNegative /\ RowLocks /\ Covered)'
  BY <1>2, SubmitSolvent
<1>3. ASSUME NEW s \in Sessions, EngineStep(s)
      PROVE  (NonNegative /\ RowLocks /\ Covered)'
  BY <1>3, EngineSolvent DEF EngineStep
<1>4. UNCHANGED store \/ Confirm => UNCHANGED <<balance, batch, stage>>
  BY DEF store, Confirm, UpdateTransactionStatus
<1> QED BY <1>1, <1>2, <1>3, <1>4, Submits, SessionFacts DEF StoreStep

\* With the constraint of the migration installed no asset is overdrawn,
\* however withdrawals of one balance overtake each other's checks
\* (NonNegative).
THEOREM NoOverdraft == CheckConstraint => (Spec => []NonNegative)
<1> SUFFICES ASSUME CheckConstraint PROVE Spec => []NonNegative
  OBVIOUS
<1>1. Init => NonNegative /\ RowLocks /\ Covered
  BY SolventInit DEF Init
<1> QED BY <1>1, TypeInit, TypeStep, SolventStep, PTL DEF Spec

-----------------------------------------------------------------------------
(* What is in the log.                                                     *)

\* A session's batch is the one its handler builds, ...
Submitted ==
  \A s \in Sessions : stage[s] # "none" =>
    /\ s = Worker =>
         \/ \E c \in Charges : batch[s] = CreditWalletByEmail(c)
         \/ \E a \in Assets, x \in Nat, r \in Refs : batch[s] = Refund(a, x, r)
    /\ s \in Verifiers =>
         ChargeOf[s] \in Charges /\ batch[s] = CreditWalletByEmail(ChargeOf[s])
    /\ s \in Withdrawers => batch[s] = DebitForWithdrawal(s)

CreditRow(c) == SuccessRow(c.asset, c.amount, "DEPOSIT")

\* ... so that a row records a payment or a withdrawal, ...
KnownRows ==
  \A r \in Refs : log[r] # NoRow =>
    \/ \E c \in Charges : r = c.ref /\ log[r] = CreditRow(c)
    \/ \E w \in Withdrawers : r = RowOf[w] /\ log[r] = WithdrawalRow(w, log[r].status)

\* ... and a refund that is under way fits the row it was made for.
RefundFits ==
  stage[Worker] \in {"sent", "open"} =>
    \A r \in batch[Worker].fail :
      /\ r \in Refs /\ log[r] # NoRow
      /\ log[r].leg = "WITHDRAWAL" /\ log[r].status # "FAILED"
      /\ batch[Worker] = Refund(log[r].asset, log[r].amount, r)

Known == Submitted /\ KnownRows /\ RefundFits

CommitsCredit(s, c) ==
  /\ batch[s] = CreditWalletByEmail(c)
  /\ log[c.ref] = NoRow /\ log'[c.ref] = CreditRow(c)
  /\ \A q \in Refs : q # c.ref => log'[q] = log[q]

CommitsDebit(w) ==
  /\ batch[w] = DebitForWithdrawal(w)
  /\ log[RowOf[w]] = NoRow /\ log'[RowOf[w]] = WithdrawalRow(w, "PENDING")
  /\ \A q \in Refs : q # RowOf[w] => log'[q] = log[q]

CommitsRefund(r) ==
  /\ batch[Worker] = Refund(log[r].asset, log[r].amount, r)
  /\ log[r] # NoRow /\ log[r].leg = "WITHDRAWAL" /\ log[r].status # "FAILED"
  /\ log'[r] = [log[r] EXCEPT !.status = "FAILED"]
  /\ \A q \in Refs : q # r => log'[q] = log[q]

\* What a step of the engine does to the log.
LEMMA EngineLog ==
  ASSUME StoreTypeOK, Known, NEW s \in Sessions, EngineStep(s)
  PROVE  /\ UNCHANGED <<batch, pc, payout>> /\ UNCHANGED queueVars
         /\ stage[s] \in {"sent", "open"} /\ stage'[s] # "none"
         /\ stage'[s] \in {"sent", "open"} => stage[s] \in {"sent", "open"}
         /\ \A o \in Sessions : o # s => stage'[o] = stage[o]
         /\ \/ UNCHANGED <<balance, log>> /\ stage'[s] # "ok"
            \/ /\ Commit(s) /\ stage'[s] = "ok"
               /\ \/ \E c \in Charges :
                       /\ s = Worker \/ (s \in Verifiers /\ ChargeOf[s] = c)
                       /\ CommitsCredit(s, c)
                  \/ s \in Withdrawers /\ CommitsDebit(s)
                  \/ s = Worker /\ \E r \in Refs : CommitsRefund(r)
<1> USE DEF StoreTypeOK
<1>1. Engine(s) /\ UNCHANGED <<batch, pc, payout>> /\ UNCHANGED queueVars
  BY DEF EngineStep, Engine, Refuse, Begin, Reject, Commit, Abort
<1>2. CASE Refuse(s) \/ Begin(s) \/ Reject(s) \/ Abort(s)
  BY <1>1, <1>2 DEF Refuse, Begin, Reject, Abort
<1>3. CASE Commit(s)
  <2> DEFINE b == batch[s]
  <2>1. /\ stage[s] = "open" /\ stage'[s] = "ok"
        /\ \A o \in Sessions : o # s => stage'[o] = stage[o]
    BY <1>3 DEF Commit
  <2>2. \A r \in Written(b) : log[r] = NoRow
    BY <1>3 DEF Commit, UniqueViolation
  <2>3. \A r \in Refs : log'[r] =
           IF b.rows[r] # NoRow THEN b.rows[r]
           ELSE IF r \in b.fail /\ log[r] # NoRow THEN [log[r] EXCEPT !.status = "FAILED"]
           ELSE log[r]
    BY <1>3 DEF Commit
  <2>4. ASSUME NEW c \in Charges, b = CreditWalletByEmail(c) PROVE CommitsCredit(s, c)
    <3>1. CreditRow(c) # NoRow
      BY ChargeFacts, SuccessRowFacts DEF CreditRow, Legs
    <3>2. b.rows = [NoRows EXCEPT ![c.ref] = CreditRow(c)] /\ b.fail = {} /\ c.ref \in Refs
      BY <2>4, ChargeFacts DEF CreditWalletByEmail, Deposit, CreditRow
    <3> QED BY <2>2, <2>3, <2>4, <3>1, <3>2 DEF CommitsCredit, NoRows, Written
  <2>5. ASSUME s \in Withdrawers, b = DebitForWithdrawal(s) PROVE CommitsDebit(s)
    <3>1. WithdrawalRow(s, "PENDING") # NoRow /\ RowOf[s] \in Refs
      BY <2>5, WithdrawalRowType, WantFacts
    <3>2. b.rows = [NoRows EXCEPT ![RowOf[s]] = WithdrawalRow(s, "PENDING")] /\ b.fail = {}
      BY <2>5 DEF DebitForWithdrawal, WithdrawalRow
    <3> QED BY <2>2, <2>3, <2>5, <3>1, <3>2 DEF CommitsDebit, NoRows, Written
  <2>6. ASSUME s = Worker, NEW r \in Refs, r \in b.fail PROVE CommitsRefund(r)
    <3>1. /\ b = Refund(log[r].asset, log[r].amount, r)
          /\ log[r] # NoRow /\ log[r].leg = "WITHDRAWAL" /\ log[r].status # "FAILED"
      BY <2>1, <2>6 DEF Known, RefundFits
    <3>2. b.rows = NoRows /\ b.fail = {r}
      BY <3>1 DEF Refund
    <3> QED BY <2>3, <2>6, <3>1, <3>2 DEF CommitsRefund, NoRows
  <2>7. ASSUME NEW a \in Assets, NEW x \in Nat, NEW r \in Refs, b = Refund(a, x, r)
        PROVE  r \in b.fail
    BY <2>7 DEF Refund
  <2>8. \/ \E c \in Charges : /\ s = Worker \/ (s \in Verifiers /\ ChargeOf[s] = c)
                              /\ CommitsCredit(s, c)
        \/ s \in Withdrawers /\ CommitsDebit(s)
        \/ s = Worker /\ \E r \in Refs : CommitsRefund(r)
    <3>1. CASE s = Worker
      <4>1. \/ \E c \in Charges : b = CreditWalletByEmail(c)
            \/ \E a \in Assets, x \in Nat, r \in Refs : b = Refund(a, x, r)
        BY <2>1, <3>1 DEF Known, Submitted
      <4> QED BY <2>4, <2>6, <2>7, <3>1, <4>1
    <3>2. CASE s \in Verifiers
      <4>1. ChargeOf[s] \in Charges /\ b = CreditWalletByEmail(ChargeOf[s])
        BY <2>1, <3>2 DEF Known, Submitted
      <4> QED BY <2>4, <3>2, <4>1
    <3>3. CASE s \in Withdrawers
      <4>1. b = DebitForWithdrawal(s)
        BY <2>1, <3>3 DEF Known, Submitted
      <4> QED BY <2>5, <3>3, <4>1
    <3> QED BY <3>1, <3>2, <3>3, SessionFacts
  <2> HIDE DEF b
  <2> QED BY <1>1, <1>3, <2>1, <2>8
<1> QED BY <1>1, <1>2, <1>3 DEF Engine

\* What the UPDATE does to the log: rows become SUCCESS, and stay the same
\* otherwise.
LEMMA ConfirmLog ==
  ASSUME StoreTypeOK, Confirm
  PROVE  /\ UNCHANGED <<balance, batch, stage>>
         /\ \A r \in RowsOf(job.event.ref) :
              r \in Refs /\ log[r] \in Row /\ log'[r] = [log[r] EXCEPT !.status = "SUCCESS"]
         /\ \A r \in Refs : r \notin RowsOf(job.event.ref) => log'[r] = log[r]
BY DEF Confirm, UpdateTransactionStatus, RowsOf, StoreTypeOK

LEMMA SubmitFacts ==
  ASSUME StoreTypeOK, NEW s \in Sessions, NEW b, Submit(s, b)
  PROVE  /\ UNCHANGED <<balance, log>>
         /\ batch'[s] = b /\ stage'[s] = "sent"
         /\ \A o \in Sessions : o # s => batch'[o] = batch[o] /\ stage'[o] = stage[o]
BY DEF Submit, StoreTypeOK

LEMMA SubmittedStep ==
  ASSUME StoreTypeOK, QueueTypeOK, Known, StoreStep
  PROVE  Submitted'
<1> USE DEF Known, Submitted
<1>a. /\ \A c : CreditWalletByEmail(c)' = CreditWalletByEmail(c)
      /\ \A w : DebitForWithdrawal(w)' = DebitForWithdrawal(w)
      /\ \A a, x, r : Refund(a, x, r)' = Refund(a, x, r)
  BY DEF CreditWalletByEmail, DebitForWithdrawal, Refund
<1>1. CASE UNCHANGED store
  <2>1. batch' = batch /\ stage' = stage
    BY <1>1 DEF store
  <2> QED BY <2>1, <1>a
<1>2. CASE ProcessCharge
  BY <1>2, <1>a, Submits, SubmitFacts, SessionFacts
<1>3. CASE ProcessRefund
  <2>1. PICK r \in Refundable(job.event.ref) : Submit(Worker, RefundWithdrawal(r))
    BY <1>3, Submits
  <2>2. /\ r \in Refs /\ log[r] \in Row
        /\ RefundWithdrawal(r) = Refund(log[r].asset, log[r].amount, r)
    BY RefundableFacts
  <2>3. log[r].asset \in Assets /\ log[r].amount \in Nat
    BY <2>2 DEF Row
  <2> QED BY <2>1, <2>2, <2>3, SubmitFacts, SessionFacts
<1>4. CASE Confirm
  BY <1>4, <1>a, ConfirmLog
<1>5. ASSUME NEW v \in Verifiers, Verify(v) PROVE Submitted'
  BY <1>5, <1>a, Submits, SubmitFacts, SessionFacts
<1>6. ASSUME NEW w \in Withdrawers, WithdrawDebit(w) PROVE Submitted'
  BY <1>6, <1>a, Submits, SubmitFacts, SessionFacts
<1>7. ASSUME NEW s \in Sessions, EngineStep(s) PROVE Submitted'
  BY <1>7, <1>a, EngineLog
<1> QED BY <1>1, <1>2, <1>3, <1>4, <1>5, <1>6, <1>7 DEF StoreStep
LEMMA RowKinds ==
  /\ \A c : /\ CreditRow(c).leg = "DEPOSIT" /\ CreditRow(c).gateway = NoGateway
            /\ CreditRow(c).status = "SUCCESS"
  /\ \A w, x, y : /\ [WithdrawalRow(w, x) EXCEPT !.status = y] = WithdrawalRow(w, y)
                  /\ WithdrawalRow(w, x).status = x
                  /\ WithdrawalRow(w, x).leg = "WITHDRAWAL"
                  /\ WithdrawalRow(w, x).gateway = TransferOf[<<w, 2>>]
BY DEF CreditRow, SuccessRow, WithdrawalRow

\* A row with a payout's code, or with a withdrawal's leg, is a withdrawal's.
LEMMA WithdrawalRows ==
  ASSUME KnownRows, NEW r \in Refs, log[r] # NoRow,
         log[r].gateway \in GatewayRefs \/ log[r].leg = "WITHDRAWAL"
  PROVE  \E w \in Withdrawers : r = RowOf[w] /\ log[r] = WithdrawalRow(w, log[r].status)
BY RowKinds, StoreAssumption DEF KnownRows

LEMMA KnownRowsStep ==
  ASSUME StoreTypeOK, QueueTypeOK, Known, StoreStep
  PROVE  KnownRows'
<1> USE DEF Known, KnownRows
<1>a. /\ \A c : CreditRow(c)' = CreditRow(c)
      /\ \A w, x : WithdrawalRow(w, x)' = WithdrawalRow(w, x)
  BY DEF CreditRow, WithdrawalRow
<1>1. CASE UNCHANGED log
  BY <1>1, <1>a
<1>2. CASE Confirm
  <2> DEFINE t == job.event.ref
  <2>1. t \in GatewayRefs
    BY <1>2, EventFacts DEF Confirm, Processing, QueueTypeOK, Job
  <2> SUFFICES ASSUME NEW r \in Refs, log'[r] # NoRow
               PROVE  \/ \E c \in Charges : r = c.ref /\ log'[r] = CreditRow(c)
                      \/ \E w \in Withdrawers :
                           r = RowOf[w] /\ log'[r] = WithdrawalRow(w, log'[r].status)
    BY <1>a
  <2>2. CASE r \in RowsOf(t)
    <3>1. log[r] # NoRow /\ log[r].gateway = t
      BY <2>2 DEF RowsOf
    <3>2. PICK w \in Withdrawers : r = RowOf[w] /\ log[r] = WithdrawalRow(w, log[r].status)
      BY <2>1, <3>1, WithdrawalRows
    <3>3. log'[r] = [log[r] EXCEPT !.status = "SUCCESS"]
      BY <1>2, <2>2, ConfirmLog
    <3>4. log'[r] = WithdrawalRow(w, "SUCCESS")
      BY <3>2, <3>3, RowKinds
    <3> QED BY <3>2, <3>4, RowKinds
  <2>3. CASE r \notin RowsOf(t)
    BY <1>2, <2>3, ConfirmLog
  <2> QED BY <2>2, <2>3
<1>3. ASSUME NEW s \in Sessions, EngineStep(s) PROVE KnownRows'
  <2> SUFFICES ASSUME NEW r \in Refs, log'[r] # NoRow
               PROVE  \/ \E c \in Charges : r = c.ref /\ log'[r] = CreditRow(c)
                      \/ \E w \in Withdrawers :
                           r = RowOf[w] /\ log'[r] = WithdrawalRow(w, log'[r].status)
    BY <1>a
  <2>1. CASE UNCHANGED log
    BY <2>1
  <2>2. ASSUME NEW c \in Charges, CommitsCredit(s, c)
        PROVE  log'[r] = log[r] \/ (r = c.ref /\ log'[r] = CreditRow(c))
    BY <2>2 DEF CommitsCredit
  <2>3. ASSUME s \in Withdrawers, CommitsDebit(s)
        PROVE  log'[r] = log[r] \/ (r = RowOf[s] /\ log'[r] = WithdrawalRow(s, "PENDING"))
    BY <2>3 DEF CommitsDebit
  <2>4. ASSUME NEW q \in Refs, CommitsRefund(q)
        PROVE  \/ log'[r] = log[r]
               \/ \E w \in Withdrawers :
                    r = RowOf[w] /\ log'[r] = WithdrawalRow(w, log'[r].status)
    <3>1. CASE r # q
      BY <2>4, <3>1 DEF CommitsRefund
    <3>2. CASE r = q
      <4>1. PICK w \in Withdrawers : r = RowOf[w] /\ log[r] = WithdrawalRow(w, log[r].status)
        BY <2>4, <3>2, WithdrawalRows DEF CommitsRefund
      <4>2. log'[r] = WithdrawalRow(w, "FAILED")
        BY <2>4, <3>2, <4>1, RowKinds DEF CommitsRefund
      <4> QED BY <4>1, <4>2, RowKinds
    <3> QED BY <3>1, <3>2
  <2>5. \/ UNCHANGED log
        \/ \E c \in Charges : CommitsCredit(s, c)
        \/ s \in Withdrawers /\ CommitsDebit(s)
        \/ \E q \in Refs : CommitsRefund(q)
    BY <1>3, EngineLog
  <2> QED BY <2>1, <2>2, <2>3, <2>4, <2>5, RowKinds
<1>4. \/ UNCHANGED log \/ Confirm
      \/ \E s \in Sessions : EngineStep(s)
  BY Submits DEF StoreStep, store, Submit
<1> QED BY <1>1, <1>2, <1>3, <1>4

LEMMA RefundFitsStep ==
  ASSUME StoreTypeOK, QueueTypeOK, Known, StoreStep
  PROVE  RefundFits'
<1> USE DEF Known, RefundFits
<1>a. \A a, x, r : Refund(a, x, r)' = Refund(a, x, r)
  BY DEF Refund
<1>1. CASE UNCHANGED store
  BY <1>1, <1>a DEF store
<1>2. CASE ProcessCharge
  <2>1. batch'[Worker].fail = {}
    BY <1>2, Submits, SubmitFacts, SessionFacts DEF CreditWalletByEmail, Deposit
  <2> QED BY <2>1
<1>3. CASE ProcessRefund
  <2>1. PICK r \in Refundable(job.event.ref) : Submit(Worker, RefundWithdrawal(r))
    BY <1>3, Submits
  <2>2. /\ r \in Refs /\ log[r] # NoRow
        /\ log[r].leg = "WITHDRAWAL" /\ log[r].status # "FAILED"
        /\ RefundWithdrawal(r) = Refund(log[r].asset, log[r].amount, r)
    BY RefundableFacts
  <2>3. batch'[Worker] = Refund(log[r].asset, log[r].amount, r) /\ log' = log
    BY <2>1, <2>2, SubmitFacts, SessionFacts
  <2>4. batch'[Worker].fail = {r}
    BY <2>3 DEF Refund
  <2> QED BY <1>a, <2>2, <2>3, <2>4
<1>4. CASE Confirm
  BY <1>4, ConfirmLog DEF Confirm, EngineFree
<1>5. ASSUME NEW s \in Sessions, s # Worker, NEW b, Submit(s, b) PROVE RefundFits'
  BY <1>5, <1>a, SubmitFacts, SessionFacts
<1>6. ASSUME NEW s \in Sessions, EngineStep(s) PROVE RefundFits'
  <2> SUFFICES ASSUME stage'[Worker] \in {"sent", "open"}, NEW r \in batch[Worker].fail
               PROVE  r \in Refs /\ log[r] # NoRow /\ log'[r] = log[r]
                        /\ stage[Worker] \in {"sent", "open"}
    BY <1>6, <1>a, EngineLog
  <2>1. stage[Worker] \in {"sent", "open"}
    BY <1>6, EngineLog, SessionFacts
  <2>2. r \in Refs /\ log[r] # NoRow
    BY <2>1
  <2>3. \/ UNCHANGED log
        \/ \E c \in Charges : CommitsCredit(s, c)
        \/ s \in Withdrawers /\ CommitsDebit(s)
    BY <1>6, EngineLog
  <2>4. log'[r] = log[r]
    BY <2>2, <2>3 DEF CommitsCredit, CommitsDebit
  <2> QED BY <2>1, <2>2, <2>4
<1> QED BY <1>1, <1>2, <1>3, <1>4, <1>5, <1>6, Submits, SessionFacts DEF StoreStep

LEMMA KnownInit == Init => Known
BY SessionFacts DEF Init, StoreInit, Known, Submitted, KnownRows, RefundFits

LEMMA KnownStep == TypeOK /\ Known /\ [Next]_vars => Known'
BY StoreSteps, SubmittedStep, KnownRowsStep, RefundFitsStep DEF TypeOK, Known
-----------------------------------------------------------------------------
(* A payout that failed is not confirmed afterwards.                       *)

\* The two ways for transfer.success to come after transfer.failed or
\* transfer.reversed are a lock that is lost and one that is not taken.  The
\* faults of a behaviour are chosen in its first state.
PayoutsInOrder == LocksHold \/ Events \subseteq Charges

LEMMA PayoutsInOrderKept == [Next]_vars => (PayoutsInOrder' <=> PayoutsInOrder)
BY QueueStep
   DEF QueueNext, Delivery, Hook, Notify, HookLock, HookIgnore, Enqueue, EnqueueFails,
       HookUnlock, HookExpire, Pop, Work, Complete, handleFailure, QueueCrash,
       QueueShutdown, Quiet, queueVars, LocksHold, PayoutsInOrder

\* A confirmation of transfer t is somewhere on its way to the worker.
SuccessPending(t) ==
  \/ \E i \in DOMAIN queue : queue[i].event.kind = "success" /\ queue[i].event.ref = t
  \/ job # NoJob /\ job.event.kind = "success" /\ job.event.ref = t
  \/ \E h \in Requests : hook[h] = "push" /\ sent[h].kind = "success" /\ Ref(h) = t

\* A row of transfer t is FAILED, or about to be.
Voiding(t) ==
  \E r \in Refs : /\ log[r] # NoRow /\ log[r].gateway = t
                  /\ \/ log[r].status = "FAILED"
                     \/ stage[Worker] \in {"sent", "open"} /\ r \in batch[Worker].fail

NoLateSuccess ==
  LocksHold => \A t \in References \cap GatewayRefs :
                 Voiding(t) => t \in locks /\ ~ SuccessPending(t)

\* Only a new refund voids a transfer.
LEMMA VoidingStep ==
  ASSUME StoreTypeOK, QueueTypeOK, Known, StoreStep, NEW t \in GatewayRefs, Voiding(t)'
  PROVE  Voiding(t) \/ (ProcessRefund /\ t = job.event.ref)
<1>0. PICK r \in Refs : /\ log'[r] # NoRow /\ log'[r].gateway = t
                        /\ \/ log'[r].status = "FAILED"
                           \/ stage'[Worker] \in {"sent", "open"} /\ r \in batch'[Worker].fail
  BY DEF Voiding
<1> USE DEF Voiding
<1>1. CASE UNCHANGED store
  BY <1>0, <1>1 DEF store
<1>2. CASE ProcessCharge
  <2>1. batch'[Worker].fail = {} /\ log' = log
    BY <1>2, Submits, SubmitFacts, SessionFacts DEF CreditWalletByEmail, Deposit
  <2> QED BY <1>0, <2>1
<1>3. CASE ProcessRefund
  <2>1. PICK q \in Refundable(job.event.ref) : Submit(Worker, RefundWithdrawal(q))
    BY <1>3, Submits
  <2>2. log' = log /\ batch'[Worker].fail = {q}
    BY <2>1, RefundableFacts, SubmitFacts, SessionFacts DEF Refund
  <2>3. log[q].gateway = job.event.ref
    BY RefundableFacts
  <2> QED BY <1>0, <1>3, <2>2, <2>3
<1>4. CASE Confirm
  <2>1. stage'[Worker] \notin {"sent", "open"}
    BY <1>4, ConfirmLog DEF Confirm, EngineFree
  <2>2. log'[r].status = "FAILED"
    BY <1>0, <2>1
  <2>3. r \in RowsOf(job.event.ref) => log'[r].status = "SUCCESS"
    <3> SUFFICES ASSUME r \in RowsOf(job.event.ref) PROVE log'[r].status = "SUCCESS"
      OBVIOUS
    <3>1. log[r] \in Row /\ log'[r] = [log[r] EXCEPT !.status = "SUCCESS"]
      BY <1>4, ConfirmLog
    <3> QED BY <3>1 DEF Row
  <2>4. log'[r] = log[r]
    BY <1>4, <2>2, <2>3, ConfirmLog
  <2> QED BY <1>0, <2>2, <2>4
<1>5. ASSUME NEW s \in Sessions, s # Worker, NEW b, Submit(s, b) PROVE Voiding(t)
  BY <1>0, <1>5, SubmitFacts, SessionFacts
<1>6. ASSUME NEW s \in Sessions, EngineStep(s) PROVE Voiding(t)
  <2>1. /\ batch' = batch
        /\ stage'[Worker] \in {"sent", "open"} => stage[Worker] \in {"sent", "open"}
    BY <1>6, EngineLog, SessionFacts
  <2>2. CASE log'[r] = log[r]
    BY <1>0, <2>1, <2>2
  <2>3. CASE \E c \in Charges : CommitsCredit(s, c) /\ r = c.ref
    <3>1. log'[r].gateway = NoGateway
      BY <2>3, RowKinds DEF CommitsCredit
    <3> QED BY <1>0, <3>1, StoreAssumption
  <2>4. CASE s \in Withdrawers /\ CommitsDebit(s) /\ r = RowOf[s]
    <3>1. log[r] = NoRow /\ log'[r].status = "PENDING"
      BY <2>4, RowKinds DEF CommitsDebit
    <3>2. stage[Worker] \in {"sent", "open"} /\ r \in batch[Worker].fail
      BY <1>0, <2>1, <3>1
    <3> QED BY <3>1, <3>2 DEF Known, RefundFits
  <2>5. CASE s = Worker /\ CommitsRefund(r)
    <3>1. stage[Worker] \in {"sent", "open"} /\ r \in batch[Worker].fail
      BY <1>6, <2>5, EngineLog DEF CommitsRefund, Refund
    <3>2. log[r] # NoRow /\ log'[r] = [log[r] EXCEPT !.status = "FAILED"]
      BY <2>5 DEF CommitsRefund
    <3>3. log[r] \in Row
      BY <3>2 DEF StoreTypeOK
    <3>4. log[r].gateway = t
      BY <1>0, <3>2, <3>3 DEF Row
    <3> QED BY <3>1, <3>2, <3>4
  <2>6. \/ UNCHANGED log
        \/ \E c \in Charges : CommitsCredit(s, c)
        \/ s \in Withdrawers /\ CommitsDebit(s)
        \/ s = Worker /\ \E q \in Refs : CommitsRefund(q)
    BY <1>6, EngineLog
  <2> QED BY <2>2, <2>3, <2>4, <2>5, <2>6 DEF CommitsCredit, CommitsDebit, CommitsRefund
<1> QED BY <1>1, <1>2, <1>3, <1>4, <1>5, <1>6, Submits, SessionFacts DEF StoreStep

\* While locks hold, a confirmation sets out only for a transfer whose lock
\* was free.
LEMMA PendingStep ==
  ASSUME QueueTypeOK, LockHeld, [QueueNext]_queueVars, LocksHold',
         NEW t \in References, t \in locks
  PROVE  t \in locks' /\ (SuccessPending(t)' => SuccessPending(t))
<1>0. faults' = faults /\ LocksHold
  BY DEF QueueNext, Delivery, Hook, Notify, HookLock, HookIgnore, Enqueue,
         EnqueueFails, HookUnlock, HookExpire, Pop, Work, Complete, handleFailure,
         QueueCrash, QueueShutdown, Quiet, queueVars, LocksHold
<1>a. "redis" \notin faults /\ "expiry" \notin faults
  BY <1>0 DEF LocksHold
<1> USE DEF SuccessPending, Ref, Answer, delivery
<1>1. ASSUME NEW h \in Requests, HookIgnore(h) \/ \E e \in Events : Notify(h, e)
      PROVE  t \in locks' /\ (SuccessPending(t)' => SuccessPending(t))
  BY <1>a, <1>1 DEF HookIgnore, Notify, QueueTypeOK
<1>2. ASSUME NEW h \in Requests, HookLock(h)
      PROVE  t \in locks' /\ (SuccessPending(t)' => SuccessPending(t))
  BY <1>2 DEF HookLock, QueueTypeOK
<1>3. ASSUME NEW h \in Requests, Enqueue(h)
      PROVE  t \in locks' /\ (SuccessPending(t)' => SuccessPending(t))
  <2>1. /\ UNCHANGED <<sent, locks, job>>
        /\ hook[h] = "push" /\ hook'[h] = "queued"
        /\ \A g \in Requests : g # h => hook'[g] = hook[g]
        /\ queue' = Append(queue, HookJob(h))
    BY <1>a, <1>3 DEF Enqueue, QueueTypeOK
  <2>2. HookJob(h) \in Job /\ HookJob(h).event = sent[h]
    BY <1>3, HookJobType DEF Enqueue, QueueTypeOK
  <2>3. \A i \in DOMAIN queue' :
          \/ i \in DOMAIN queue /\ queue'[i] = queue[i]
          \/ queue'[i] = HookJob(h)
    BY <2>1, <2>2, AppendFacts DEF QueueTypeOK
  <2> QED BY <2>1, <2>2, <2>3
<1>4. CASE Pop
  <2>1. /\ UNCHANGED <<hook, sent, locks>>
        /\ job = NoJob /\ (job' = NoJob \/ job' = queue[1]) /\ 1 \in DOMAIN queue
        /\ \A i \in DOMAIN queue' : i + 1 \in DOMAIN queue /\ queue'[i] = queue[i + 1]
    BY <1>4, PopFacts DEF Pop
  <2> QED BY <2>1
<1>5. CASE Complete
  BY <1>5 DEF Complete
<1>6. CASE handleFailure
  <2> DEFINE k == [job EXCEPT !.retries = @ + 1]
  <2>1. /\ UNCHANGED <<hook, sent, locks>>
        /\ job # NoJob /\ job \in Job /\ job' = NoJob /\ k.event = job.event
        /\ (queue' = Append(queue, k) /\ k \in Job) \/ queue' = queue
    BY <1>6, RetryType DEF handleFailure, QueueTypeOK, Job, maxRetries
  <2> HIDE DEF k
  <2>2. \A i \in DOMAIN queue' :
          (i \in DOMAIN queue /\ queue'[i] = queue[i]) \/ queue'[i] = k
    BY <2>1, AppendFacts DEF QueueTypeOK
  <2> QED BY <2>1, <2>2
<1>7. CASE QueueCrash \/ QueueShutdown
  BY <1>7 DEF QueueCrash, QueueShutdown, Busy
<1>8. CASE UNCHANGED queueVars
  BY <1>8 DEF queueVars
<1>9. ASSUME NEW h \in Requests, HookUnlock(h) \/ EnqueueFails(h) PROVE FALSE
  BY <1>0, <1>a, <1>9 DEF HookUnlock, EnqueueFails, LockHeld
<1>10. ASSUME NEW r \in References, HookExpire(r) PROVE FALSE
  BY <1>a, <1>10 DEF HookExpire
<1> QED BY <1>1, <1>2, <1>3, <1>4, <1>5, <1>6, <1>7, <1>8, <1>9, <1>10
        DEF QueueNext, Delivery, Hook, Work, Quiet
LEMMA NoLateStep ==
  TypeOK /\ Known /\ LockHeld /\ NoLateSuccess /\ [Next]_vars => NoLateSuccess'
<1> SUFFICES ASSUME TypeOK, Known, LockHeld, NoLateSuccess, [Next]_vars, LocksHold',
                    NEW t \in References \cap GatewayRefs, Voiding(t)'
             PROVE  t \in locks' /\ ~ SuccessPending(t)'
  BY DEF NoLateSuccess
<1>1. [QueueNext]_queueVars /\ StoreStep /\ QueueTypeOK /\ StoreTypeOK
  BY QueueStep, StoreSteps DEF TypeOK
<1>2. LocksHold
  BY <1>1 DEF QueueNext, Delivery, Hook, Notify, HookLock, HookIgnore, Enqueue,
              EnqueueFails, HookUnlock, HookExpire, Pop, Work, Complete, handleFailure,
              QueueCrash, QueueShutdown, Quiet, queueVars, LocksHold
<1>3. t \in locks /\ ~ SuccessPending(t)
  <2>1. CASE Voiding(t)
    BY <1>2, <2>1 DEF NoLateSuccess
  <2>2. CASE ProcessRefund /\ t = job.event.ref
    <3>1. IsHeld(t) /\ job.event.kind # "success"
      BY <2>2 DEF ProcessRefund, Processing, IsHeld
    <3>2. t \in locks /\ Single(t) /\ \A h \in Requests : ~ Pushing(h, t)
      BY <1>2, <3>1 DEF LockHeld, Occupied
    <3>3. ~ IsWaiting(t)
      BY <3>1, <3>2 DEF Single
    <3> QED BY <3>1, <3>2, <3>3 DEF SuccessPending, IsWaiting, Pushing
  <2> QED BY <1>1, <2>1, <2>2, VoidingStep
<1> QED BY <1>1, <1>3, PendingStep

LEMMA NoLateInit == Init => NoLateSuccess
BY SessionFacts DEF Init, StoreInit, NoLateSuccess, Voiding

\* When the worker confirms a transfer none of its rows is FAILED.
LEMMA ConfirmSafe ==
  ASSUME PayoutsInOrder, TypeOK, NoLateSuccess, Confirm, NEW r \in RowsOf(job.event.ref)
  PROVE  log[r].status # "FAILED"
<1> DEFINE e == job.event
<1>1. job # NoJob /\ e \in Events /\ e.kind = "success"
  BY DEF Confirm, Processing, TypeOK, QueueTypeOK, Job
<1>2. e.ref \in GatewayRefs /\ e.ref \in References /\ e \notin Charges
  BY <1>1, EventFacts DEF References
<1>3. LocksHold
  BY <1>1, <1>2 DEF PayoutsInOrder
<1>4. SuccessPending(e.ref)
  BY <1>1 DEF SuccessPending
<1>5. ~ Voiding(e.ref)
  BY <1>2, <1>3, <1>4 DEF NoLateSuccess
<1>6. r \in Refs /\ log[r] # NoRow /\ log[r].gateway = e.ref
  BY DEF RowsOf
<1> QED BY <1>5, <1>6 DEF Voiding

-----------------------------------------------------------------------------
(* Balances and the log.                                                   *)

\* The debit of a withdrawal moves what its row says.
LEMMA DebitBalances ==
  ASSUME StoreTypeOK, StoreTypeOK', NEW w \in Withdrawers, Commit(w), CommitsDebit(w)
  PROVE  Explained
<1> DEFINE row == WithdrawalRow(w, "PENDING")
           r == RowOf[w]
           d == WantOf[w].asset
           x == WantOf[w].amount
<1>1. row # NoRow /\ \A a : Effect(row, a) = IF d # a THEN 0 ELSE - x
  BY WithdrawalRowType DEF Effect, Signed, WithdrawalRow
<1>2. \A a \in Assets : /\ batch[w].debit[a] = (IF a = d THEN x ELSE 0)
                        /\ batch[w].credit[a] = 0
  BY DEF CommitsDebit, DebitForWithdrawal, Amount, NoAmount
<1>3. r \in Refs /\ d \in Assets /\ x \in Nat /\ w \in Sessions
  BY WantFacts, SessionFacts
<1>4. log[r] = NoRow /\ log'[r] = row /\ \A q \in Refs : q # r => log'[q] = log[q]
  BY DEF CommitsDebit
<1> HIDE DEF row, r, d, x
<1>5. \A a \in Assets : Net(a)' = Net(a) - Effect(log[r], a) + Effect(log'[r], a)
  BY <1>3, <1>4, NetOne
<1>6. ASSUME NEW a \in Assets
      PROVE  Net(a)' = Net(a) - batch[w].debit[a] + batch[w].credit[a]
  <2>1. Net(a)' = Net(a) - 0 + Effect(row, a)
    BY <1>4, <1>5, NoRowEffect
  <2>2. Effect(row, a) = - batch[w].debit[a] /\ batch[w].credit[a] = 0
    BY <1>1, <1>2
  <2>3. batch[w].debit[a] \in Nat /\ Net(a) \in Int
    BY <1>2, <1>3, NetType
  <2> QED BY <2>1, <2>2, <2>3
<1> QED BY <1>3, <1>6, CommitExplained

\* A refund gives back what the row it fails has taken.
LEMMA RefundBalances ==
  ASSUME StoreTypeOK, StoreTypeOK', NEW r \in Refs, Commit(Worker), CommitsRefund(r)
  PROVE  Explained
<1> DEFINE row == log[r]
           failed == [row EXCEPT !.status = "FAILED"]
           d == row.asset
           x == row.amount
<1>1. row \in Row /\ row # NoRow
  BY DEF StoreTypeOK, CommitsRefund
<1>2. d \in Assets /\ x \in Nat
  BY <1>1 DEF Row
<1>3. \A a : Effect(row, a) = IF d # a THEN 0 ELSE - x
  BY <1>1 DEF Effect, Signed, CommitsRefund
<1>4. \A a : Effect(failed, a) = 0
  BY <1>1 DEF Effect, Row
<1>5. \A a \in Assets : /\ batch[Worker].debit[a] = 0
                        /\ batch[Worker].credit[a] = (IF a = d THEN x ELSE 0)
  BY DEF CommitsRefund, Refund, Amount, NoAmount
<1>6. log'[r] = failed /\ \A q \in Refs : q # r => log'[q] = log[q]
  BY DEF CommitsRefund
<1>7. \A a \in Assets : Net(a)' = Net(a) - Effect(row, a) + Effect(log'[r], a)
  BY <1>6, NetOne
<1> HIDE DEF row, failed, d, x
<1>8. ASSUME NEW a \in Assets
      PROVE  Net(a)' = Net(a) - batch[Worker].debit[a] + batch[Worker].credit[a]
  <2>1. Net(a)' = Net(a) - Effect(row, a) + 0
    BY <1>4, <1>6, <1>7
  <2>2. Effect(row, a) = - batch[Worker].credit[a] /\ batch[Worker].debit[a] = 0
    BY <1>3, <1>5
  <2>3. batch[Worker].credit[a] \in Nat /\ Net(a) \in Int
    BY <1>2, <1>5, NetType
  <2> QED BY <2>1, <2>2, <2>3
<1> QED BY <1>8, CommitExplained, SessionFacts

\* A confirmation moves nothing and changes the effect of no row but a FAILED
\* one.
LEMMA ConfirmEffects ==
  ASSUME StoreTypeOK, Confirm, NEW a \in Assets, NEW r \in Refs,
         r \in RowsOf(job.event.ref) => log[r].status # "FAILED"
  PROVE  Effect(log'[r], a) = Effect(log[r], a)
<1>1. CASE r \in RowsOf(job.event.ref)
  <2>1. /\ log[r] \in Row /\ log[r].status # "FAILED" /\ log[r] # NoRow
        /\ log'[r] = [log[r] EXCEPT !.status = "SUCCESS"]
    BY <1>1, ConfirmLog DEF RowsOf
  <2>2. log'[r] # NoRow
    BY <2>1, StoreAssumption DEF Row
  <2> QED BY <2>1, <2>2 DEF Effect, Signed, Row
<1>2. CASE r \notin RowsOf(job.event.ref)
  BY <1>2, ConfirmLog
<1> QED BY <1>1, <1>2

\* The confirmation of a withdrawal that was refunded.
Reopens == Confirm /\ \E r \in RowsOf(job.event.ref) : log[r].status = "FAILED"

LEMMA ConfirmBalances ==
  ASSUME StoreTypeOK, Confirm, ~ Reopens
  PROVE  Explained
<1>1. balance' = balance /\ balance \in [Assets -> Int]
  BY ConfirmLog DEF StoreTypeOK
<1>2. ASSUME NEW a \in Assets PROVE balance'[a] = balance[a] + (Net(a)' - Net(a))
  <2> DEFINE n == Net(a)
  <2>1. \A r \in Refs : Effect(log'[r], a) = Effect(log[r], a)
    BY ConfirmEffects DEF Reopens
  <2>2. Net(a)' = n
    BY <2>1, NetSame
  <2>3. n \in Int
    BY NetType
  <2> HIDE DEF n
  <2>4. balance'[a] = balance[a] + (n - n)
    BY <1>1, <2>3
  <2> QED BY <2>2, <2>4 DEF n
<1> QED BY <1>2 DEF Explained

\* Every step that moves money is explained by the log it leaves; the only
\* step that changes what the log says and moves nothing is a late
\* confirmation.
LEMMA ExplainedStep ==
  TypeOK /\ TypeOK' /\ Known /\ [Next]_vars => Explained \/ Reopens
<1> SUFFICES ASSUME TypeOK, TypeOK', Known, StoreStep, ~ Reopens
             PROVE  Explained
  BY StoreSteps
<1>0. StoreTypeOK /\ StoreTypeOK' /\ QueueTypeOK
  BY DEF TypeOK
<1>1. CASE UNCHANGED <<balance, log>>
  BY <1>0, <1>1, Unmoved
<1>2. CASE Confirm
  BY <1>0, <1>2, ConfirmBalances
<1>3. ASSUME NEW s \in Sessions, EngineStep(s), ~ UNCHANGED <<balance, log>>
      PROVE  Explained
  <2>1. Commit(s)
    BY <1>0, <1>3, EngineLog
  <2>2. ASSUME NEW c \in Charges, CommitsCredit(s, c) PROVE Explained
    <3>1. batch[s] = Deposit(c.asset, c.amount, c.ref)
      BY <2>2 DEF CommitsCredit, CreditWalletByEmail
    <3> QED BY <1>0, <2>1, <3>1, ChargeFacts, DepositBalances
  <2>3. ASSUME s \in Withdrawers, CommitsDebit(s) PROVE Explained
    BY <1>0, <2>1, <2>3, DebitBalances
  <2>4. ASSUME s = Worker, NEW r \in Refs, CommitsRefund(r) PROVE Explained
    BY <1>0, <2>1, <2>4, RefundBalances
  <2> QED BY <1>0, <1>3, <2>2, <2>3, <2>4, EngineLog
<1> QED BY <1>0, <1>1, <1>2, <1>3, Submits DEF StoreStep, store, Submit

LEMMA NoReopening ==
  TypeOK /\ Known /\ NoLateSuccess /\ PayoutsInOrder => ~ Reopens
BY ConfirmSafe DEF Reopens

LEMMA NoLateInvariant == Spec => [](TypeOK /\ Known /\ NoLateSuccess)
<1>1. Init => LockHeld
  BY LockHeldInit DEF Init
<1>2. TypeOK /\ LockHeld /\ [Next]_vars => LockHeld'
  BY QueueStep, LockHeldStep DEF TypeOK
<1> QED BY <1>1, <1>2, TypeInit, TypeStep, KnownInit, KnownStep, NoLateInit, NoLateStep,
           PTL DEF Spec

\* What the balance column says is what the transaction log adds up to, if no
\* confirmation of a payout can follow its refund: the worker and the verify
\* endpoint race, refunds are retried, the process dies between a batch and
\* its answer, and money and rows stay together (BalanceMatchesLedger).
THEOREM BalanceAgrees == Spec => [](PayoutsInOrder => BalanceMatchesLedger)
<1>1. Init => BalanceMatchesLedger
  BY BalanceInit DEF Init
<1>2. /\ TypeOK /\ TypeOK' /\ Known /\ NoLateSuccess /\ [Next]_vars
      /\ (PayoutsInOrder => BalanceMatchesLedger)
      => (PayoutsInOrder => BalanceMatchesLedger)'
  <2> SUFFICES ASSUME TypeOK, TypeOK', Known, NoLateSuccess, [Next]_vars,
                      PayoutsInOrder', PayoutsInOrder => BalanceMatchesLedger
               PROVE  BalanceMatchesLedger'
    OBVIOUS
  <2>1. PayoutsInOrder /\ BalanceMatchesLedger
    BY PayoutsInOrderKept
  <2>2. Explained
    BY <2>1, ExplainedStep, NoReopening
  <2>3. StoreTypeOK /\ StoreTypeOK'
    BY DEF TypeOK
  <2> QED BY <2>1, <2>2, <2>3, BalanceKept
<1> QED BY <1>1, <1>2, NoLateInvariant, PTL DEF Spec
-----------------------------------------------------------------------------
(* Payments implement the ledger.                                          *)

LEMMA CreditPosts ==
  ASSUME TypeOK, NonNegative', NEW s \in Sessions, Commit(s),
         NEW c \in Charges, CommitsCredit(s, c)
  PROVE  Book!PostOne(c.ref)
<1> DEFINE r == c.ref
           a == c.asset
           x == c.amount
<1>1. r \in Refs /\ a \in Assets /\ x \in Nat
  BY ChargeFacts
<1>2. /\ CreditRow(c) # NoRow
      /\ CreditRow(c) = [asset |-> a, amount |-> x, leg |-> "DEPOSIT",
                         status |-> "SUCCESS", gateway |-> NoGateway]
  BY <1>1, SuccessRowFacts DEF CreditRow, SuccessRow, Legs
<1>3. log[r] = NoRow /\ log'[r] = CreditRow(c) /\ \A q \in Refs : q # r => log'[q] = log[q]
  BY DEF CommitsCredit
<1>4. \A d \in Assets : batch[s].debit[d] = 0 /\ batch[s].credit[d] = (IF a = d THEN x ELSE 0)
  BY DEF CommitsCredit, CreditWalletByEmail, Deposit, Amount, NoAmount
<1> HIDE DEF r, a, x
<1>5. Posted[r] = NoRow
  BY <1>1, <1>3 DEF Posted
<1>6. Posted'[r] = [account |-> a, delta |-> x, state |-> "settled"]
  BY <1>1, <1>2, <1>3 DEF Posted, Signed, StateOf
<1>7. Posted' = [Posted EXCEPT ![r] = Posted'[r]]
  BY <1>1, <1>3 DEF Posted
<1>8. balance' = [d \in Assets |-> balance[d] + Book!Share(Posted'[r], d)]
  <2>1. \A d \in Assets : balance[d] - batch[s].debit[d] + batch[s].credit[d]
                            = balance[d] + Book!Share(Posted'[r], d)
    BY <1>1, <1>4, <1>6 DEF Book!Share, TypeOK, StoreTypeOK
  <2> QED BY <2>1 DEF Commit
<1> QED BY <1>1, <1>5, <1>6, <1>7, <1>8
        DEF Book!PostOne, Book!Unposted, Book!Solvent, NonNegative, r

LEMMA DebitPosts ==
  ASSUME TypeOK, NonNegative', NEW w \in Withdrawers, Commit(w), CommitsDebit(w)
  PROVE  Book!PostOne(RowOf[w])
<1> DEFINE r == RowOf[w]
           a == WantOf[w].asset
           x == WantOf[w].amount
<1>1. r \in Refs /\ a \in Assets /\ x \in Nat
  BY WantFacts
<1>2. /\ WithdrawalRow(w, "PENDING") # NoRow
      /\ WithdrawalRow(w, "PENDING") = [asset |-> a, amount |-> x, leg |-> "WITHDRAWAL",
                                        status |-> "PENDING", gateway |-> TransferOf[<<w, 2>>]]
  BY WithdrawalRowType DEF WithdrawalRow
<1>3. /\ log[r] = NoRow /\ log'[r] = WithdrawalRow(w, "PENDING")
      /\ \A q \in Refs : q # r => log'[q] = log[q]
  BY DEF CommitsDebit
<1>4. \A d \in Assets : batch[w].debit[d] = (IF a = d THEN x ELSE 0) /\ batch[w].credit[d] = 0
  BY DEF CommitsDebit, DebitForWithdrawal, Amount, NoAmount
<1> HIDE DEF r, a, x
<1>5. Posted[r] = NoRow
  BY <1>1, <1>3 DEF Posted
<1>6. Posted'[r] = [account |-> a, delta |-> - x, state |-> "open"]
  BY <1>1, <1>2, <1>3 DEF Posted, Signed, StateOf
<1>7. Posted' = [Posted EXCEPT ![r] = Posted'[r]]
  BY <1>1, <1>3 DEF Posted
<1>8. balance' = [d \in Assets |-> balance[d] + Book!Share(Posted'[r], d)]
  <2>1. \A d \in Assets : balance[d] - batch[w].debit[d] + batch[w].credit[d]
                            = balance[d] + Book!Share(Posted'[r], d)
    BY <1>1, <1>4, <1>6 DEF Book!Share, TypeOK, StoreTypeOK
  <2> QED BY <2>1 DEF Commit
<1> QED BY <1>1, <1>5, <1>6, <1>7, <1>8
        DEF Book!PostOne, Book!Unposted, Book!Solvent, NonNegative, r

LEMMA RefundVoids ==
  ASSUME TypeOK, NonNegative', NEW r \in Refs, Commit(Worker), CommitsRefund(r)
  PROVE  Book!Void(r)
<1> DEFINE row == log[r]
           a == row.asset
           x == row.amount
<1>1. row \in Row /\ row # NoRow
  BY DEF TypeOK, StoreTypeOK, CommitsRefund
<1>2. a \in Assets /\ x \in Nat /\ row.status \in {"PENDING", "SUCCESS"}
  BY <1>1 DEF Row, CommitsRefund
<1>3. /\ log'[r] # NoRow /\ log'[r].status = "FAILED" /\ log'[r].leg = row.leg
      /\ log'[r].asset = a /\ log'[r].amount = x
      /\ row.leg = "WITHDRAWAL"
      /\ \A q \in Refs : q # r => log'[q] = log[q]
  <2>1. log'[r] = [row EXCEPT !.status = "FAILED"] /\ log'[r] \in Row
    BY <1>1 DEF CommitsRefund, Row
  <2> QED BY <1>1, <2>1, StoreAssumption DEF CommitsRefund, Row
<1>4. \A d \in Assets : /\ batch[Worker].debit[d] = 0
                        /\ batch[Worker].credit[d] = (IF a = d THEN x ELSE 0)
  BY DEF CommitsRefund, Refund, Amount, NoAmount
<1>5. Posted[r] = [account |-> a, delta |-> - x, state |-> StateOf(row.status)]
  BY <1>1, <1>3 DEF Posted, Signed
<1> HIDE DEF row, a, x
<1>6. StateOf(row.status) # "void"
  BY <1>2 DEF StateOf
<1>7. Posted[r] # NoRow
  <2>1. Posted[r] \in Book!Entry
    BY <1>2, <1>5 DEF Book!Entry, Book!State, StateOf
  <2> QED BY <2>1, PostingAssumption
<1>8. Posted'[r] = [account |-> a, delta |-> - x, state |-> "void"]
  BY <1>3 DEF Posted, Signed, StateOf
<1>9. Posted' = [Posted EXCEPT ![r].state = "void"]
  <2>1. \A q \in Refs : q # r => Posted'[q] = Posted[q]
    BY <1>3 DEF Posted
  <2>2. Posted'[r] = [Posted[r] EXCEPT !.state = "void"]
    BY <1>5, <1>8
  <2>3. Posted = [q \in Refs |-> Posted[q]] /\ Posted' = [q \in Refs |-> Posted'[q]]
    BY DEF Posted
  <2> QED BY <2>1, <2>2, <2>3
<1>10. balance' = [d \in Assets |-> balance[d] - Book!Share(Posted[r], d)]
  <2>1. \A d \in Assets : balance[d] - batch[Worker].debit[d] + batch[Worker].credit[d]
                            = balance[d] - Book!Share(Posted[r], d)
    BY <1>2, <1>4, <1>5 DEF Book!Share, TypeOK, StoreTypeOK
  <2> QED BY <2>1 DEF Commit
<1>11. Posted[r].state # "void"
  BY <1>5, <1>6
<1> QED BY <1>7, <1>9, <1>10, <1>11
        DEF Book!Void, Book!Unposted, Book!Solvent, NonNegative

\* At most one row has a payout's code.
LEMMA OneRowPerPayout ==
  ASSUME KnownRows, NEW t \in GatewayRefs, NEW q \in RowsOf(t), NEW r \in RowsOf(t)
  PROVE  q = r
<1>1. q \in Refs /\ r \in Refs /\ log[q].gateway = t /\ log[r].gateway = t
      /\ log[q] # NoRow /\ log[r] # NoRow
  BY DEF RowsOf
<1>2. PICK w \in Withdrawers : q = RowOf[w] /\ log[q] = WithdrawalRow(w, log[q].status)
  BY <1>1, WithdrawalRows
<1>3. PICK x \in Withdrawers : r = RowOf[x] /\ log[r] = WithdrawalRow(x, log[r].status)
  BY <1>1, WithdrawalRows
<1>4. TransferOf[<<w, 2>>] = TransferOf[<<x, 2>>]
  BY <1>1, <1>2, <1>3, RowKinds
<1>5. <<w, 2>> = <<x, 2>>
  BY <1>4, WantFacts, PaymentAssumption
<1> QED BY <1>2, <1>3, <1>5

LEMMA ConfirmSettles ==
  ASSUME TypeOK, KnownRows, Confirm,
         \A r \in RowsOf(job.event.ref) : log[r].status # "FAILED"
  PROVE  [Book!Next]_(Book!ledgerVars)
<1> DEFINE t == job.event.ref
<1>1. t \in GatewayRefs
  BY EventFacts DEF Confirm, Processing, TypeOK, QueueTypeOK, Job
<1>2. UNCHANGED balance
  BY ConfirmLog DEF TypeOK
<1>3. CASE RowsOf(t) = {}
  <2>1. \A r \in Refs : log'[r] = log[r]
    BY <1>3, ConfirmLog DEF TypeOK
  <2>2. Posted' = Posted
    BY <2>1 DEF Posted
  <2> QED BY <1>2, <2>2 DEF Book!ledgerVars
<1>4. ASSUME NEW r \in RowsOf(t) PROVE [Book!Next]_(Book!ledgerVars)
  <2>1. /\ r \in Refs /\ log[r] \in Row /\ log[r] # NoRow
        /\ log[r].status \in {"PENDING", "SUCCESS"}
        /\ log'[r] = [log[r] EXCEPT !.status = "SUCCESS"]
    BY ConfirmLog DEF TypeOK, RowsOf, Row
  <2>2. /\ log'[r] # NoRow /\ log'[r].status = "SUCCESS" /\ log'[r].leg = log[r].leg
        /\ log'[r].asset = log[r].asset /\ log'[r].amount = log[r].amount
    <3>1. log'[r] \in Row
      BY <2>1 DEF Row
    <3> QED BY <2>1, <3>1, StoreAssumption DEF Row
  <2>3. \A q \in Refs : q # r => log'[q] = log[q]
    <3>1. \A q \in Refs : q # r => q \notin RowsOf(t)
      BY <1>1, OneRowPerPayout
    <3> QED BY <3>1, ConfirmLog DEF TypeOK
  <2>4. \A q \in Refs : q # r => Posted'[q] = Posted[q]
    BY <2>3 DEF Posted
  <2>5. /\ Posted[r] = [account |-> log[r].asset, delta |-> Signed(log[r]),
                        state |-> StateOf(log[r].status)]
        /\ Posted'[r] = [account |-> log[r].asset, delta |-> Signed(log[r]),
                         state |-> "settled"]
    BY <2>1, <2>2 DEF Posted, Signed, StateOf
  <2>6. Posted = [q \in Refs |-> Posted[q]] /\ Posted' = [q \in Refs |-> Posted'[q]]
    BY DEF Posted
  <2>7. CASE log[r].status = "SUCCESS"
    <3>1. Posted'[r] = Posted[r]
      BY <2>5, <2>7 DEF StateOf
    <3>2. Posted' = Posted
      BY <2>4, <2>6, <3>1
    <3> QED BY <1>2, <3>2 DEF Book!ledgerVars
  <2>8. CASE log[r].status = "PENDING"
    <3>1. Posted[r].state = "open" /\ Posted'[r] = [Posted[r] EXCEPT !.state = "settled"]
      BY <2>5, <2>8 DEF StateOf
    <3>2. Posted' = [Posted EXCEPT ![r].state = "settled"]
      BY <2>4, <2>6, <3>1
    <3>3. Posted[r] # NoRow
      <4>1. log[r].asset \in Assets /\ Signed(log[r]) \in Int
        BY <2>1 DEF Row, Signed
      <4>2. Posted[r] \in Book!Entry
        BY <2>5, <2>8, <4>1 DEF Book!Entry, Book!State, StateOf
      <4> QED BY <4>2, PostingAssumption
    <3> QED BY <1>2, <2>1, <3>1, <3>2, <3>3 DEF Book!Next, Book!Settle, Book!Unposted
  <2> QED BY <2>1, <2>7, <2>8
<1> QED BY <1>3, <1>4

LEMMA LedgerInit == Init => Book!Init
BY StoreAssumption DEF Init, StoreInit, Posted, Book!Init

LEMMA LedgerStep ==
  TypeOK /\ Known /\ NonNegative' /\ [Next]_vars /\ ~ Reopens
    => [Book!Next]_(Book!ledgerVars)
<1> SUFFICES ASSUME TypeOK, Known, NonNegative', StoreStep, ~ Reopens
             PROVE  [Book!Next]_(Book!ledgerVars)
  BY StoreSteps
<1>0. StoreTypeOK /\ QueueTypeOK
  BY DEF TypeOK
<1>1. CASE UNCHANGED <<balance, log>>
  BY <1>1 DEF Posted, Book!ledgerVars
<1>2. CASE Confirm
  BY <1>2, ConfirmSettles DEF Known, Reopens
<1>3. ASSUME NEW s \in Sessions, EngineStep(s), ~ UNCHANGED <<balance, log>>
      PROVE  Book!Next
  <2>1. Commit(s)
    BY <1>0, <1>3, EngineLog
  <2>2. ASSUME NEW c \in Charges, CommitsCredit(s, c) PROVE Book!Next
    BY <2>1, <2>2, CreditPosts, ChargeFacts DEF Book!Next
  <2>3. ASSUME s \in Withdrawers, CommitsDebit(s) PROVE Book!Next
    BY <2>1, <2>3, DebitPosts, WantFacts DEF Book!Next
  <2>4. ASSUME s = Worker, NEW r \in Refs, CommitsRefund(r) PROVE Book!Next
    BY <2>1, <2>4, RefundVoids DEF Book!Next
  <2> QED BY <1>0, <1>3, <2>2, <2>3, <2>4, EngineLog
<1> QED BY <1>0, <1>1, <1>2, <1>3, Submits DEF StoreStep, store, Submit

\* Deposits, debits, confirmations and refunds are steps of the abstract
\* ledger, each reference posted and refunded at most once, for any number of
\* payments, verifiers and withdrawals (LedgerImplemented).
THEOREM ImplementsLedger ==
  CheckConstraint => (PayoutsInOrder /\ Spec => LedgerImplemented)
<1> SUFFICES ASSUME CheckConstraint PROVE PayoutsInOrder /\ Spec => LedgerImplemented
  OBVIOUS
<1>1. Init => Book!Init
  BY LedgerInit
<1>2. Spec => []NonNegative
  BY NoOverdraft
<1>3. PayoutsInOrder /\ [Next]_vars => PayoutsInOrder'
  BY PayoutsInOrderKept
<1>4. /\ TypeOK /\ Known /\ NoLateSuccess /\ PayoutsInOrder /\ NonNegative'
      /\ [Next]_vars
      => [Book!Next]_(Book!ledgerVars)
  BY LedgerStep, NoReopening
<1> QED BY <1>1, <1>2, <1>3, <1>4, NoLateInvariant, PTL
        DEF Spec, LedgerImplemented, Book!Spec
-----------------------------------------------------------------------------
(* Success means recorded.                                                 *)

\* A row never disappears.
LEMMA RowsStay ==
  ASSUME TypeOK, Known, [Next]_vars, NEW r \in Refs, log[r] # NoRow
  PROVE  log'[r] # NoRow
<1>1. StoreStep /\ StoreTypeOK /\ QueueTypeOK /\ log[r] \in Row
  BY StoreSteps DEF TypeOK, StoreTypeOK
<1>2. CASE UNCHANGED log
  BY <1>2
<1>3. CASE Confirm
  <2>1. log'[r] = log[r] \/ log'[r] = [log[r] EXCEPT !.status = "SUCCESS"]
    BY <1>1, <1>3, ConfirmLog
  <2>2. log'[r] \in Row
    BY <1>1, <2>1 DEF Row
  <2> QED BY <2>2, StoreAssumption
<1>4. ASSUME NEW s \in Sessions, EngineStep(s) PROVE log'[r] # NoRow
  <2>1. log'[r] = log[r] \/ log'[r] = [log[r] EXCEPT !.status = "FAILED"]
    BY <1>1, <1>4, EngineLog DEF CommitsCredit, CommitsDebit, CommitsRefund
  <2>2. log'[r] \in Row
    BY <1>1, <2>1 DEF Row
  <2> QED BY <2>2, StoreAssumption
<1> QED BY <1>1, <1>2, <1>3, <1>4, Submits DEF StoreStep, store, Submit

\* How far a request of the verify endpoint can get in a step.
LEMMA VerifierSteps ==
  ASSUME TypeOK, [Next]_vars, NEW v \in Verifiers
  PROVE  \/ pc'[v] = pc[v] \/ pc'[v] \in {"failed", "dead"}
         \/ Verify(v) /\ pc'[v] = "wait"
         \/ VerifyReply(v) /\ pc[v] = "wait" /\ pc'[v] \in {"fetch", "failed"}
         \/ VerifyFetch(v) /\ pc[v] = "fetch" /\ pc'[v] = "success"
<1> USE SessionFacts DEF TypeOK
<1>1. Webhooks => pc' = pc
  BY DEF Webhooks
<1>2. ProcessPaystackEvent => pc'[v] = pc[v]
  BY DEF ProcessPaystackEvent, ProcessCharge, ProcessSuccess, ProcessRefund,
         ProcessNoRefund, ProcessFails, ProcessReply, ProcessReplyLost
<1>3. ASSUME NEW u \in Verifiers, VerifyAndCredit(u), u # v PROVE pc'[v] = pc[v]
  BY <1>3 DEF VerifyAndCredit, Verify, VerifyReply, VerifyFetch, VerifyFails
<1>4. ASSUME VerifyAndCredit(v)
      PROVE  \/ pc'[v] = "failed"
             \/ Verify(v) /\ pc'[v] = "wait"
             \/ VerifyReply(v) /\ pc[v] = "wait" /\ pc'[v] \in {"fetch", "failed"}
             \/ VerifyFetch(v) /\ pc[v] = "fetch" /\ pc'[v] = "success"
  BY <1>4 DEF VerifyAndCredit, Verify, VerifyReply, VerifyFetch, VerifyFails
<1>5. ASSUME NEW w \in Withdrawers, WithdrawFunds(w) PROVE pc'[v] = pc[v]
  BY <1>5 DEF WithdrawFunds, Withdraw, CreateTransferRecipient, InitiateTransfer,
              WithdrawDebit, WithdrawReply, WithdrawFails
<1>6. ASSUME NEW t \in GatewayRefs, Payout(t) PROVE pc' = pc
  BY <1>6 DEF Payout
<1>7. ASSUME NEW s \in Sessions, EngineStep(s) PROVE pc' = pc
  BY <1>7 DEF EngineStep
<1>8. Crash => pc'[v] = pc[v] \/ pc'[v] = "dead"
  BY DEF Crash
<1>9. Shutdown => pc'[v] = pc[v]
  BY DEF Shutdown
<1>10. Rest \/ UNCHANGED vars => pc' = pc
  BY DEF Rest, vars
<1> QED BY <1>1, <1>2, <1>3, <1>4, <1>5, <1>6, <1>7, <1>8, <1>9, <1>10 DEF Next

Asked ==
  \A v \in Verifiers :
    /\ pc[v] \in {"wait", "fetch", "success"} => ChargeOf[v] \in Charges
    /\ pc[v] = "success" => log[ChargeOf[v].ref] # NoRow

LEMMA AskedStep == TypeOK /\ Known /\ Asked /\ [Next]_vars => Asked'
<1> SUFFICES ASSUME TypeOK, Known, Asked, [Next]_vars, NEW v \in Verifiers
             PROVE  /\ pc'[v] \in {"wait", "fetch", "success"} => ChargeOf[v] \in Charges
                    /\ pc'[v] = "success" => log'[ChargeOf[v].ref] # NoRow
  BY DEF Asked
<1>1. log[ChargeOf[v].ref] # NoRow => log'[ChargeOf[v].ref] # NoRow
  BY RowsStay, ChargeFacts
<1>2. Verify(v) => ChargeOf[v] \in Charges
  BY Submits DEF TypeOK
<1>3. VerifyFetch(v) => log[ChargeOf[v].ref] # NoRow
  BY DEF VerifyFetch, Found
<1> QED BY <1>1, <1>2, <1>3, VerifierSteps DEF Asked

\* "Payment verified successfully" is only ever said of a payment that was
\* made, and whose deposit is in the log (VerifiedIsCredited).
THEOREM VerifiedMeansCredited == Spec => []VerifiedIsCredited
<1>1. Init => Asked
  BY SessionFacts DEF Init, Asked
<1>2. Known /\ Asked => VerifiedIsCredited
  <2> SUFFICES ASSUME Known, Asked, NEW v \in Verifiers, pc[v] = "success"
               PROVE  log[ChargeOf[v].ref]
                        = CreditWalletByEmail(ChargeOf[v]).rows[ChargeOf[v].ref]
    BY DEF VerifiedIsCredited
  <2> DEFINE c == ChargeOf[v]
  <2>1. c \in Charges /\ c.ref \in Refs /\ log[c.ref] # NoRow
    BY ChargeFacts DEF Asked
  <2>2. \A w \in Withdrawers : c.ref # RowOf[w]
    BY <2>1, PaymentAssumption
  <2>3. PICK d \in Charges : c.ref = d.ref /\ log[c.ref] = CreditRow(d)
    BY <2>1, <2>2 DEF Known, KnownRows
  <2>4. c = d
    BY <2>1, <2>3, PaymentAssumption
  <2>5. CreditWalletByEmail(c).rows[c.ref] = CreditRow(c)
    BY <2>1 DEF CreditWalletByEmail, Deposit, NoRows, CreditRow
  <2> QED BY <2>3, <2>4, <2>5
<1> QED BY <1>1, <1>2, TypeInit, TypeStep, KnownInit, KnownStep, AskedStep, PTL DEF Spec

-----------------------------------------------------------------------------
(* Withdrawals and their payouts.                                          *)

\* A payout is ordered only before its request reaches the debit.
Ordered ==
  \A w \in Withdrawers :
    /\ payout[TransferOf[<<w, 1>>]] # "none" =>
         pc[w] \notin {"idle", "recipient1", "transfer1"}
    /\ payout[TransferOf[<<w, 2>>]] # "none" =>
         pc[w] \notin {"idle", "recipient1", "transfer1", "recipient2", "transfer2"}

Over == {"failed", "reversed"}

Carried == {"paid", "reversed"}

\* How far a withdrawal can get in a step that orders nothing.
LEMMA OrderedStep ==
  ASSUME TypeOK, Ordered, [Next]_vars
  PROVE  /\ Ordered'
         /\ \A t \in GatewayRefs : /\ payout[t] \in Over => payout'[t] = payout[t]
                                   /\ payout[t] \in Carried => payout'[t] \in Carried
         /\ \A w \in Withdrawers :
              pc'[w] = "success" => pc[w] = "success" \/ stage[w] = "ok"
<1> USE SessionFacts DEF TypeOK, Ordered, Over, Carried
<1>a. \A w \in Withdrawers : TransferOf[<<w, 1>>] \in GatewayRefs
                             /\ TransferOf[<<w, 2>>] \in GatewayRefs
  BY WantFacts
<1> DEFINE Goal == /\ Ordered'
                   /\ \A t \in GatewayRefs :
                        /\ payout[t] \in Over => payout'[t] = payout[t]
                        /\ payout[t] \in Carried => payout'[t] \in Carried
                   /\ \A w \in Withdrawers :
                        pc'[w] = "success" => pc[w] = "success" \/ stage[w] = "ok"
<1>1. Webhooks => Goal
  BY DEF Webhooks
<1>2. CASE ProcessPaystackEvent
  <2>1. payout' = payout /\ \A w \in Withdrawers : pc'[w] = pc[w]
    BY <1>2 DEF ProcessPaystackEvent, ProcessCharge, ProcessSuccess, ProcessRefund,
                ProcessNoRefund, ProcessFails, ProcessReply, ProcessReplyLost
  <2> QED BY <2>1
<1>3. ASSUME NEW v \in Verifiers, VerifyAndCredit(v) PROVE Goal
  <2>1. payout' = payout /\ \A w \in Withdrawers : pc'[w] = pc[w]
    BY <1>3 DEF VerifyAndCredit, Verify, VerifyReply, VerifyFetch, VerifyFails
  <2> QED BY <2>1
<1>4. ASSUME NEW w \in Withdrawers, WithdrawFunds(w) PROVE Goal
  <2>1. CASE InitiateTransfer(w, 1, "transfer1", "recipient2")
               \/ InitiateTransfer(w, 1, "transfer1", "failed")
    <3>1. /\ pc[w] = "transfer1" /\ pc'[w] \in {"recipient2", "failed"}
          /\ \A x \in Withdrawers : x # w => pc'[x] = pc[x]
          /\ payout' = [payout EXCEPT ![TransferOf[<<w, 1>>]] = "started"]
      BY <2>1 DEF InitiateTransfer
    <3>2. payout[TransferOf[<<w, 1>>]] = "none"
      BY <3>1
    <3>3. /\ \A x \in Withdrawers : TransferOf[<<x, 2>>] # TransferOf[<<w, 1>>]
          /\ \A x \in Withdrawers : x # w => TransferOf[<<x, 1>>] # TransferOf[<<w, 1>>]
      BY WantFacts, PaymentAssumption
    <3>4. /\ \A x \in Withdrawers : payout'[TransferOf[<<x, 2>>]] = payout[TransferOf[<<x, 2>>]]
          /\ \A x \in Withdrawers : x # w =>
               payout'[TransferOf[<<x, 1>>]] = payout[TransferOf[<<x, 1>>]]
      BY <1>a, <3>1, <3>3
    <3>5. Ordered'
      BY <3>1, <3>4
    <3>6. \A t \in GatewayRefs : /\ payout[t] \in Over => payout'[t] = payout[t]
                                 /\ payout[t] \in Carried => payout'[t] \in Carried
      BY <3>1, <3>2
    <3> QED BY <3>1, <3>5, <3>6
  <2>2. CASE InitiateTransfer(w, 2, "transfer2", "debit")
               \/ InitiateTransfer(w, 2, "transfer2", "failed")
    <3>1. /\ pc[w] = "transfer2" /\ pc'[w] \in {"debit", "failed"}
          /\ \A x \in Withdrawers : x # w => pc'[x] = pc[x]
          /\ payout' = [payout EXCEPT ![TransferOf[<<w, 2>>]] = "started"]
      BY <2>2 DEF InitiateTransfer
    <3>2. payout[TransferOf[<<w, 2>>]] = "none"
      BY <3>1
    <3>3. /\ \A x \in Withdrawers : TransferOf[<<x, 1>>] # TransferOf[<<w, 2>>]
          /\ \A x \in Withdrawers : x # w => TransferOf[<<x, 2>>] # TransferOf[<<w, 2>>]
      BY WantFacts, PaymentAssumption
    <3>4. /\ \A x \in Withdrawers : payout'[TransferOf[<<x, 1>>]] = payout[TransferOf[<<x, 1>>]]
          /\ \A x \in Withdrawers : x # w =>
               payout'[TransferOf[<<x, 2>>]] = payout[TransferOf[<<x, 2>>]]
      BY <1>a, <3>1, <3>3
    <3>5. Ordered'
      BY <3>1, <3>4
    <3>6. \A t \in GatewayRefs : /\ payout[t] \in Over => payout'[t] = payout[t]
                                 /\ payout[t] \in Carried => payout'[t] \in Carried
      BY <3>1, <3>2
    <3> QED BY <3>1, <3>5, <3>6
  <2>3. CASE Withdraw(w) \/ CreateTransferRecipient(w, "recipient1", "transfer1")
               \/ CreateTransferRecipient(w, "recipient2", "transfer2")
    <3>1. /\ payout' = payout /\ \A x \in Withdrawers : x # w => pc'[x] = pc[x]
          /\ \/ pc[w] = "idle" /\ pc'[w] = "recipient1"
             \/ pc[w] = "recipient1" /\ pc'[w] = "transfer1"
             \/ pc[w] = "recipient2" /\ pc'[w] = "transfer2"
      BY <2>3 DEF Withdraw, CreateTransferRecipient
    <3> QED BY <3>1
  <2>4. CASE WithdrawDebit(w) \/ WithdrawReply(w) \/ WithdrawFails(w)
    <3>1. /\ payout' = payout /\ \A x \in Withdrawers : x # w => pc'[x] = pc[x]
          /\ pc'[w] \in {"wait", "success", "failed"}
          /\ pc'[w] = "success" => stage[w] = "ok"
      BY <2>4 DEF WithdrawDebit, WithdrawReply, WithdrawFails
    <3> QED BY <3>1
  <2> QED BY <1>4, <2>1, <2>2, <2>3, <2>4 DEF WithdrawFunds
<1>5. ASSUME NEW t \in GatewayRefs, Payout(t) PROVE Goal
  <2>1. /\ pc' = pc /\ payout[t] \in {"started", "paid"}
        /\ payout[t] = "paid" => payout'[t] = "reversed"
        /\ \A u \in GatewayRefs : u # t => payout'[u] = payout[u]
    BY <1>5 DEF Payout
  <2> QED BY <1>a, <2>1
<1>6. ASSUME NEW s \in Sessions, EngineStep(s) PROVE Goal
  BY <1>6 DEF EngineStep
<1>7. CASE Crash
  <2>1. payout' = payout /\ \A w \in Withdrawers : pc'[w] = pc[w] \/ pc'[w] = "dead"
    BY <1>7 DEF Crash
  <2> QED BY <2>1
<1>8. CASE Shutdown
  <2>1. payout' = payout /\ \A w \in Withdrawers : pc'[w] = pc[w]
    BY <1>8 DEF Shutdown
  <2> QED BY <2>1
<1>9. Rest \/ UNCHANGED vars => Goal
  BY DEF Rest, vars
<1> QED BY <1>1, <1>2, <1>3, <1>4, <1>5, <1>6, <1>7, <1>8, <1>9 DEF Next

\* An event that is on its way, or was.
Around(e) == (\E h \in Requests : sent[h] = e) \/ InQueue(e) \/ InHand(e)

\* A webhook brings an event that happened, and nothing else brings one.
LEMMA AroundStep ==
  ASSUME QueueTypeOK, [Next]_vars, NEW e \in Events, Around(e)'
  PROVE  Around(e) \/ Happened(e)
<1> USE DEF Around, InQueue, InHand, Answer, delivery
<1>1. ASSUME UNCHANGED <<sent, queue>>, job' = job \/ job' = NoJob PROVE Around(e)
  BY <1>1
<1>2. ASSUME NEW h \in Requests, NEW d \in Events, Happened(d), Notify(h, d)
      PROVE  Around(e) \/ Happened(e)
  BY <1>2 DEF Notify, QueueTypeOK
<1>3. ASSUME NEW h \in Requests, Enqueue(h) \/ EnqueueFails(h) PROVE Around(e)
  <2>1. sent[h] \in Events
    BY <1>3 DEF Enqueue, EnqueueFails, QueueTypeOK
  <2>2. HookJob(h) \in Job /\ HookJob(h).event = sent[h]
    BY <2>1, HookJobType
  <2>3. \/ queue' = queue
        \/ queue' = Append(queue, HookJob(h))
        \/ queue' = Append(Append(queue, HookJob(h)), HookJob(h))
    BY <1>3 DEF Enqueue, EnqueueFails
  <2>4. InQueue(e)' => InQueue(e) \/ e = sent[h]
    BY <2>2, <2>3, AppendKeeps, RepeatKeeps
  <2>5. UNCHANGED <<sent, job>>
    BY <1>3 DEF Enqueue, EnqueueFails
  <2> QED BY <2>4, <2>5
<1>4. CASE Pop
  <2>1. /\ UNCHANGED sent /\ queue # <<>> /\ queue' = Tail(queue)
        /\ job' = Head(queue) \/ job' = job
    BY <1>4 DEF Pop
  <2>2. (InQueue(e)' => InQueue(e)) /\ (InHand(e)' => InQueue(e) \/ InHand(e))
    BY <2>1, PopFacts
  <2> QED BY <2>1, <2>2
<1>5. ASSUME handleFailure PROVE Around(e)
  <2> DEFINE k == [job EXCEPT !.retries = @ + 1]
  <2>1. UNCHANGED sent /\ job' = NoJob /\ job \in Job /\ job # NoJob
    BY <1>5 DEF handleFailure, QueueTypeOK
  <2>2. k.event = job.event
    BY <2>1, RetryType
  <2>3. queue' = queue \/ (queue' = Append(queue, k) /\ k.retries < maxRetries)
    BY <1>5 DEF handleFailure
  <2>4. k.retries < maxRetries => k \in Job
    BY <2>1, RetryType DEF Job, maxRetries
  <2> HIDE DEF k
  <2>5. InQueue(e)' => InQueue(e) \/ e = job.event
    BY <2>2, <2>3, <2>4, AppendKeeps
  <2> QED BY <2>1, <2>5
<1>6. ASSUME Webhooks PROVE Around(e) \/ Happened(e)
  <2>1. CASE Pop
    BY <1>4, <2>1
  <2>2. ASSUME NEW h \in Requests, HookLock(h) \/ HookIgnore(h) \/ HookUnlock(h) PROVE Around(e)
    BY <2>2 DEF HookLock, HookIgnore, HookUnlock
  <2>3. ASSUME NEW r \in References, HookExpire(r) PROVE Around(e)
    BY <2>3 DEF HookExpire
  <2> QED BY <1>2, <1>3, <1>6, <2>1, <2>2, <2>3 DEF Webhooks, Hook
<1>7. ASSUME [Next]_vars, ~ Webhooks PROVE Around(e)
  <2>1. ProcessPaystackEvent => handleFailure \/ Around(e)
    BY DEF ProcessPaystackEvent, ProcessCharge, ProcessSuccess, ProcessRefund,
         ProcessNoRefund, ProcessFails, ProcessReply, ProcessReplyLost, queueVars, Complete
  <2>2. ASSUME NEW v \in Verifiers, VerifyAndCredit(v) PROVE Around(e)
    BY <2>2 DEF VerifyAndCredit, Verify, VerifyReply, VerifyFetch, VerifyFails, queueVars
  <2>3. ASSUME NEW w \in Withdrawers, WithdrawFunds(w) PROVE Around(e)
    BY <2>3 DEF WithdrawFunds, Withdraw, CreateTransferRecipient, InitiateTransfer,
              WithdrawDebit, WithdrawReply, WithdrawFails, queueVars
  <2>4. ASSUME NEW t \in GatewayRefs, Payout(t) PROVE Around(e)
    BY <2>4 DEF Payout, queueVars
  <2>5. ASSUME NEW s \in Sessions, EngineStep(s) PROVE Around(e)
    BY <2>5 DEF EngineStep, queueVars
  <2>6. CASE Crash \/ Shutdown
    BY <2>6 DEF Crash, Shutdown, QueueCrash, QueueShutdown
  <2>7. CASE Rest \/ UNCHANGED vars
    BY <2>7 DEF Rest, vars, queueVars
  <2> HIDE DEF Around
  <2> QED BY <1>5, <1>7, <2>1, <2>2, <2>3, <2>4, <2>5, <2>6, <2>7 DEF Next
<1> QED BY <1>6, <1>7

\* What is reported of a payout has happened: a failure stays as it is, and a
\* success can only be reversed.
Reported ==
  \A e \in Events : Around(e) =>
    /\ e.kind \in Over => payout[e.ref] = e.kind
    /\ e.kind = "success" => payout[e.ref] \in Carried

LEMMA ReportedStep == TypeOK /\ Ordered /\ Reported /\ [Next]_vars => Reported'
<1> SUFFICES ASSUME TypeOK, Ordered, Reported, [Next]_vars, NEW e \in Events,
                    Around(e)', e.kind \in Over \cup {"success"}
             PROVE  /\ e.kind \in Over => payout'[e.ref] = e.kind
                    /\ e.kind = "success" => payout'[e.ref] \in Carried
  BY DEF Reported
<1>1. Around(e) \/ Happened(e)
  BY AroundStep DEF TypeOK
<1>2. e.ref \in GatewayRefs /\ e \notin Charges
  BY EventFacts DEF Over
<1>3. /\ e.kind \in Over => payout[e.ref] = e.kind
      /\ e.kind = "success" => payout[e.ref] \in Carried
  BY <1>1, <1>2 DEF Reported, Happened, Over, Carried
<1> QED BY <1>2, <1>3, OrderedStep

\* Money is given back only for a payout that Paystack has not carried out ...
VoidedIsOver == \A t \in GatewayRefs : Voiding(t) => payout[t] \in Over

LEMMA VoidedStep ==
  TypeOK /\ Known /\ Ordered /\ Reported /\ VoidedIsOver /\ [Next]_vars => VoidedIsOver'
<1> SUFFICES ASSUME TypeOK, Known, Ordered, Reported, VoidedIsOver, [Next]_vars,
                    NEW t \in GatewayRefs, Voiding(t)'
             PROVE  payout'[t] \in Over
  BY DEF VoidedIsOver
<1>1. Voiding(t) \/ (ProcessRefund /\ t = job.event.ref)
  BY StoreSteps, VoidingStep DEF TypeOK
<1>2. ASSUME ProcessRefund, t = job.event.ref PROVE payout[t] \in Over
  <2>1. job.event \in Events /\ job.event.kind \in Over /\ job # NoJob
    BY <1>2, Submits DEF TypeOK, Over, ProcessRefund, Processing
  <2>2. Around(job.event)
    BY <2>1 DEF Around, InHand
  <2> QED BY <1>2, <2>1, <2>2 DEF Reported
<1>3. payout[t] \in Over
  BY <1>1, <1>2 DEF VoidedIsOver
<1> QED BY <1>3, OrderedStep

\* ... and a withdrawal that succeeded has its row.
Recorded ==
  \A w \in Withdrawers : stage[w] = "ok" \/ pc[w] = "success" => log[RowOf[w]] # NoRow

LEMMA RecordedStep == TypeOK /\ Known /\ Ordered /\ Recorded /\ [Next]_vars => Recorded'
<1> SUFFICES ASSUME TypeOK, Known, Ordered, Recorded, [Next]_vars, NEW w \in Withdrawers,
                    stage'[w] = "ok" \/ pc'[w] = "success"
             PROVE  log'[RowOf[w]] # NoRow
  BY DEF Recorded
<1>0. /\ StoreStep /\ StoreTypeOK /\ QueueTypeOK /\ RowOf[w] \in Refs
      /\ w \in Sessions /\ w # Worker
  BY StoreSteps, WantFacts, SessionFacts DEF TypeOK
<1>1. ASSUME stage[w] = "ok" \/ pc[w] = "success" PROVE log'[RowOf[w]] # NoRow
  BY <1>0, <1>1, RowsStay DEF Recorded
<1>2. ASSUME stage'[w] = "ok", stage[w] # "ok" PROVE log'[RowOf[w]] # NoRow
  <2>1. ASSUME NEW s \in Sessions, NEW b, Submit(s, b) PROVE FALSE
    BY <1>0, <1>2, <2>1, SubmitFacts
  <2>2. \E s \in Sessions : EngineStep(s)
    BY <1>0, <1>2, <2>1, Submits, SessionFacts, ConfirmLog DEF StoreStep, store
  <2>3. PICK s \in Sessions : EngineStep(s)
    BY <2>2
  <2>4. s = w /\ CommitsDebit(w)
    BY <1>0, <1>2, <2>3, EngineLog, SessionFacts
  <2> QED BY <2>4, WithdrawalRowType DEF CommitsDebit
<1> QED BY <1>1, <1>2, OrderedStep

LEMMA PayoutInit == Init => Ordered /\ Reported /\ VoidedIsOver /\ Recorded
<1> SUFFICES ASSUME Init PROVE Ordered /\ Reported /\ VoidedIsOver /\ Recorded
  OBVIOUS
<1>1. Ordered
  BY WantFacts DEF Init, Ordered
<1>2. Reported
  BY QueueAssumption DEF Init, QueueInit, Reported, Around, InQueue, InHand
<1>3. VoidedIsOver
  BY DEF Init, StoreInit, VoidedIsOver, Voiding
<1>4. Recorded
  BY SessionFacts DEF Init, StoreInit, Recorded
<1> QED BY <1>1, <1>2, <1>3, <1>4

LEMMA PayoutInvariant ==
  Spec => [](TypeOK /\ Known /\ Ordered /\ Reported /\ VoidedIsOver /\ Recorded)
BY PayoutInit, TypeInit, TypeStep, KnownInit, KnownStep, OrderedStep, ReportedStep,
   VoidedStep, RecordedStep, PTL DEF Spec

\* A client that is told "Withdrawal processing" has been debited by the row
\* that names its payout, and the row is FAILED only if Paystack did not carry
\* this payout out: no report of another one, repeated, late or retried, can
\* give the money back (WithdrawalRecorded).
THEOREM SuccessMeansRecorded == Spec => []WithdrawalRecorded
<1>1. TypeOK /\ Known /\ VoidedIsOver /\ Recorded => WithdrawalRecorded
  <2> SUFFICES ASSUME TypeOK, Known, VoidedIsOver, Recorded,
                      NEW w \in Withdrawers, pc[w] = "success"
               PROVE  \E row \in {log[RowOf[w]]} :
                        /\ row # NoRow
                        /\ row.gateway = TransferOf[<<w, 2>>]
                        /\ row.status = "FAILED" => payout[row.gateway] \in {"failed", "reversed"}
    BY DEF WithdrawalRecorded
  <2> DEFINE row == log[RowOf[w]]
  <2>1. row # NoRow /\ RowOf[w] \in Refs /\ TransferOf[<<w, 2>>] \in GatewayRefs
    BY WantFacts DEF Recorded
  <2>2. \A c \in Charges : RowOf[w] # c.ref
    BY PaymentAssumption
  <2>3. row = WithdrawalRow(w, row.status)
    BY <2>1, <2>2, PaymentAssumption DEF Known, KnownRows
  <2>4. row.gateway = TransferOf[<<w, 2>>]
    BY <2>3, RowKinds
  <2>5. row.status = "FAILED" => payout[row.gateway] \in Over
    BY <2>1, <2>4 DEF VoidedIsOver, Voiding
  <2> QED BY <2>1, <2>4, <2>5 DEF Over
<1> QED BY <1>1, PayoutInvariant, PTL

-----------------------------------------------------------------------------
(* What holds when a confirmation does follow the refund.                  *)

\* A step the ledger does not have: the entry of a reversed payout, cancelled
\* and paid back, is settled.
Reopen(r) ==
  /\ log[r] # NoRow /\ log[r].gateway \in GatewayRefs
  /\ payout[log[r].gateway] = "reversed"
  /\ Posted[r].state = "void"
  /\ Posted' = [Posted EXCEPT ![r].state = "settled"]
  /\ UNCHANGED balance

\* A late confirmation is of one row, which was FAILED, and of a payout that
\* was carried out and taken back.
ConfirmsLate(r) ==
  /\ log[r] \in Row /\ log[r] # NoRow /\ log[r].status = "FAILED"
  /\ log[r].leg = "WITHDRAWAL"
  /\ log[r].gateway \in GatewayRefs /\ payout[log[r].gateway] = "reversed"
  /\ log'[r] \in Row /\ log'[r] # NoRow
  /\ log'[r] = [log[r] EXCEPT !.status = "SUCCESS"]
  /\ \A q \in Refs : q # r => log'[q] = log[q]
  /\ UNCHANGED balance

LEMMA ReopenFacts ==
  ASSUME TypeOK, Known, Reported, VoidedIsOver, Reopens
  PROVE  \E r \in Refs : ConfirmsLate(r)
<1> DEFINE e == job.event
           t == job.event.ref
<1>1. e \in Events /\ e.kind = "success" /\ job # NoJob /\ Confirm
  BY DEF Reopens, Confirm, Processing, TypeOK, QueueTypeOK, Job
<1>2. t \in GatewayRefs
  BY <1>1, EventFacts
<1>3. PICK r \in RowsOf(t) : log[r].status = "FAILED"
  BY DEF Reopens
<1>4. r \in Refs /\ log[r] # NoRow /\ log[r].gateway = t
  BY DEF RowsOf
<1>5. payout[t] = "reversed"
  <2>1. payout[t] \in Over
    BY <1>2, <1>3, <1>4 DEF VoidedIsOver, Voiding
  <2>2. Around(e)
    BY <1>1 DEF Around, InHand
  <2>3. payout[t] \in Carried
    BY <1>1, <2>2 DEF Reported
  <2> QED BY <2>1, <2>3 DEF Over, Carried
<1>6. /\ log[r] \in Row /\ log'[r] = [log[r] EXCEPT !.status = "SUCCESS"]
      /\ UNCHANGED balance
  BY <1>1, ConfirmLog DEF TypeOK
<1>7. log'[r] \in Row
  BY <1>6 DEF Row
<1>8. log'[r] # NoRow
  BY <1>7, StoreAssumption
<1>9. \A q \in Refs : q # r => log'[q] = log[q]
  <2>1. \A q \in Refs : q # r => q \notin RowsOf(t)
    BY <1>2, OneRowPerPayout DEF Known
  <2> QED BY <1>1, <2>1, ConfirmLog DEF TypeOK
<1>10. log[r].leg = "WITHDRAWAL"
  <2>1. PICK w \in Withdrawers : log[r] = WithdrawalRow(w, log[r].status)
    BY <1>2, <1>4, WithdrawalRows DEF Known
  <2> QED BY <2>1, RowKinds
<1> QED BY <1>2, <1>3, <1>4, <1>5, <1>6, <1>7, <1>8, <1>9, <1>10 DEF ConfirmsLate

LEMMA ReopenPosts ==
  ASSUME TypeOK, Known, Reported, VoidedIsOver, Reopens
  PROVE  \E r \in Refs : Reopen(r)
<1>1. PICK r \in Refs : ConfirmsLate(r)
  BY ReopenFacts
<1>2. /\ log'[r].status = "SUCCESS" /\ log'[r].leg = log[r].leg
      /\ log'[r].asset = log[r].asset /\ log'[r].amount = log[r].amount
  BY <1>1 DEF ConfirmsLate, Row
<1>3. /\ Posted[r] = [account |-> log[r].asset, delta |-> Signed(log[r]), state |-> "void"]
      /\ Posted'[r] = [account |-> log[r].asset, delta |-> Signed(log[r]),
                       state |-> "settled"]
  BY <1>1, <1>2 DEF ConfirmsLate, Posted, Signed, StateOf
<1>4. \A q \in Refs : q # r => Posted'[q] = Posted[q]
  BY <1>1 DEF ConfirmsLate, Posted
<1>5. Posted = [q \in Refs |-> Posted[q]] /\ Posted' = [q \in Refs |-> Posted'[q]]
  BY DEF Posted
<1>6. Posted'[r] = [Posted[r] EXCEPT !.state = "settled"] /\ Posted[r].state = "void"
  BY <1>3
<1>7. Posted' = [Posted EXCEPT ![r].state = "settled"]
  BY <1>4, <1>5, <1>6
<1> QED BY <1>1, <1>6, <1>7 DEF ConfirmsLate, Reopen

\* Under every fault, lost and lapsed locks included, the only thing payments
\* do that the ledger does not know is to settle the entry of a payout that
\* was reversed and paid back: UpdateTransactionStatus overwrites FAILED.  All
\* other steps, before and after it, are the ledger's.
THEOREM LedgerUpToReopening ==
  CheckConstraint =>
    (Spec => Book!Init /\ [][Book!Next \/ \E r \in Refs : Reopen(r)]_(Book!ledgerVars))
<1> SUFFICES ASSUME CheckConstraint
             PROVE  Spec => /\ Book!Init
                            /\ [][Book!Next \/ \E r \in Refs : Reopen(r)]_(Book!ledgerVars)
  OBVIOUS
<1>1. Init => Book!Init
  BY LedgerInit
<1>2. Spec => []NonNegative
  BY NoOverdraft
<1>3. /\ TypeOK /\ Known /\ Reported /\ VoidedIsOver /\ NonNegative' /\ [Next]_vars
      => [Book!Next \/ \E r \in Refs : Reopen(r)]_(Book!ledgerVars)
  BY LedgerStep, ReopenPosts
<1> QED BY <1>1, <1>2, <1>3, PayoutInvariant, PTL DEF Spec

LEMMA ReopenBalances ==
  ASSUME TypeOK, TypeOK', Known, Reported, VoidedIsOver, Reopens, NEW a \in Assets
  PROVE  balance'[a] = balance[a] /\ Net(a)' <= Net(a)
<1>1. PICK r \in Refs : ConfirmsLate(r)
  BY ReopenFacts
<1>2. Effect(log[r], a) = 0
  BY <1>1 DEF ConfirmsLate, Effect
<1>3. Effect(log'[r], a) \in Int /\ Effect(log'[r], a) <= 0
  BY <1>1 DEF ConfirmsLate, Effect, Signed, Row
<1>4. Net(a)' = Net(a) - Effect(log[r], a) + Effect(log'[r], a)
  BY <1>1, NetOne DEF ConfirmsLate, TypeOK
<1>5. Net(a) \in Int
  BY NetType DEF TypeOK
<1> QED BY <1>1, <1>2, <1>3, <1>4, <1>5 DEF ConfirmsLate

\* Whatever is lost, repeated or late, no wallet holds less than the
\* transaction log says: where the balances and the rows that wallet_repo.go
\* writes part, a refunded withdrawal has become SUCCESS again, and the user
\* has its money, or has it twice once it is refunded again.
THEOREM WalletCoversLog == Spec => [](\A a \in Assets : balance[a] >= Opening[a] + Net(a))
<1> DEFINE Covers == \A a \in Assets : balance[a] >= Opening[a] + Net(a)
<1>1. Init => Covers
  <2> SUFFICES ASSUME Init, NEW a \in Assets PROVE balance[a] >= Opening[a] + Net(a)
    OBVIOUS
  <2>1. balance[a] = Opening[a] + Net(a) /\ balance[a] \in Int
    BY BalanceInit, StoreAssumption DEF Init, StoreInit, BalanceMatchesLedger
  <2> QED BY <2>1
<1>2. /\ TypeOK /\ TypeOK' /\ Known /\ Reported /\ VoidedIsOver /\ Covers /\ [Next]_vars
      => Covers'
  <2> SUFFICES ASSUME TypeOK, TypeOK', Known, Reported, VoidedIsOver, Covers,
                      [Next]_vars, NEW a \in Assets
               PROVE  balance'[a] >= Opening[a] + Net(a)'
    OBVIOUS
  <2> DEFINE m == Net(a)'
             n == Net(a)
  <2>1. /\ balance[a] \in Int /\ balance'[a] \in Int /\ Opening[a] \in Int
        /\ m \in Int /\ n \in Int
    BY NetType, NetTypeAfter, StoreAssumption DEF TypeOK, StoreTypeOK
  <2>2. balance[a] >= Opening[a] + n
    OBVIOUS
  <2>3. balance'[a] = balance[a] + (m - n) \/ (balance'[a] = balance[a] /\ m <= n)
    BY ExplainedStep, ReopenBalances DEF Explained
  <2> HIDE DEF m, n
  <2>4. balance'[a] >= Opening[a] + m
    BY <2>1, <2>2, <2>3
  <2> QED BY <2>4 DEF m
<1> HIDE DEF Covers
<1>3. Spec => []Covers
  BY <1>1, <1>2, PayoutInvariant, PTL DEF Spec
<1> QED BY <1>3 DEF Covers

-----------------------------------------------------------------------------
(* What the transaction log says of payments and payouts.                  *)

\* The status of a withdrawal's row tells what Paystack has done.
StatusFits(row) ==
  /\ row.status = "SUCCESS" => payout[row.gateway] \in Carried
  /\ row.status = "FAILED"  => payout[row.gateway] \in Over

Settled ==
  \A r \in Refs : log[r] # NoRow /\ log[r].gateway \in GatewayRefs => StatusFits(log[r])

LEMMA SettledStep ==
  ASSUME TypeOK, Known, Ordered, Reported, VoidedIsOver, Settled, [Next]_vars
  PROVE  Settled'
<1> SUFFICES ASSUME NEW r \in Refs, log'[r] # NoRow, log'[r].gateway \in GatewayRefs
             PROVE  /\ log'[r].status = "SUCCESS" => payout'[log'[r].gateway] \in Carried
                    /\ log'[r].status = "FAILED"  => payout'[log'[r].gateway] \in Over
  BY DEF Settled, StatusFits
<1> DEFINE t == log'[r].gateway
<1>0. StoreStep /\ StoreTypeOK /\ QueueTypeOK
  BY StoreSteps DEF TypeOK
<1>1. /\ payout[t] \in Over => payout'[t] \in Over
      /\ payout[t] \in Carried => payout'[t] \in Carried
  BY OrderedStep
<1>2. CASE log'[r] = log[r]
  BY <1>1, <1>2 DEF Settled, StatusFits
<1>3. CASE Confirm
  <2> DEFINE e == job.event
  <2>1. e \in Events /\ e.kind = "success" /\ job # NoJob
    BY <1>0, <1>3 DEF Confirm, Processing, QueueTypeOK, Job
  <2>2. Around(e)
    BY <2>1 DEF Around, InHand
  <2>3. payout[e.ref] \in Carried
    BY <2>1, <2>2 DEF Reported
  <2>4. CASE r \in RowsOf(e.ref)
    <3>1. log[r] \in Row /\ log'[r] = [log[r] EXCEPT !.status = "SUCCESS"]
          /\ log[r].gateway = e.ref
      BY <1>0, <1>3, <2>4, ConfirmLog DEF RowsOf
    <3>2. t = e.ref /\ log'[r].status = "SUCCESS"
      BY <3>1 DEF Row
    <3> QED BY <1>1, <2>3, <3>2
  <2> QED BY <1>0, <1>2, <1>3, <2>4, ConfirmLog
<1>4. ASSUME NEW s \in Sessions, EngineStep(s), log'[r] # log[r]
      PROVE  log'[r].status = "PENDING" \/ (log'[r].status = "FAILED" /\ payout[t] \in Over)
  <2>1. ASSUME NEW c \in Charges, CommitsCredit(s, c) PROVE FALSE
    <3>1. log'[r].gateway = NoGateway
      BY <1>4, <2>1, RowKinds DEF CommitsCredit
    <3> QED BY <3>1, StoreAssumption
  <2>2. ASSUME s \in Withdrawers, CommitsDebit(s) PROVE log'[r].status = "PENDING"
    BY <1>4, <2>2, RowKinds DEF CommitsDebit
  <2>3. ASSUME s = Worker, NEW q \in Refs, CommitsRefund(q)
        PROVE  log'[r].status = "FAILED" /\ payout[t] \in Over
    <3>1. r = q /\ log[r] # NoRow /\ log'[r] = [log[r] EXCEPT !.status = "FAILED"]
      BY <1>4, <2>3 DEF CommitsRefund
    <3>2. log[r] \in Row
      BY <1>0, <3>1 DEF StoreTypeOK
    <3>3. log[r].gateway = t /\ log'[r].status = "FAILED"
      BY <3>1, <3>2 DEF Row
    <3>4. stage[Worker] \in {"sent", "open"} /\ r \in batch[Worker].fail
      BY <1>0, <1>4, <2>3, <3>1, EngineLog DEF CommitsRefund, Refund
    <3>5. Voiding(t)
      BY <3>1, <3>3, <3>4 DEF Voiding
    <3> QED BY <3>3, <3>5 DEF VoidedIsOver
  <2> QED BY <1>0, <1>4, <2>1, <2>2, <2>3, EngineLog
<1>5. \/ log' = log \/ Confirm
      \/ \E s \in Sessions : EngineStep(s)
  BY <1>0, Submits DEF StoreStep, store, Submit
<1> QED BY <1>1, <1>2, <1>3, <1>4, <1>5

LEMMA SettledInvariant == Spec => []Settled
<1>1. Init => Settled
  BY DEF Init, StoreInit, Settled
<1>2. TypeOK /\ Known /\ Ordered /\ Reported /\ VoidedIsOver /\ Settled /\ [Next]_vars
      => Settled'
  BY SettledStep
<1> QED BY <1>1, <1>2, PayoutInvariant, PTL DEF Spec

\* A withdrawal is SUCCESS only if Paystack has carried its payout out, and
\* FAILED, its money given back, only if Paystack has not, or took it back:
\* under every fault, and however webhooks race, repeat and come late.
THEOREM StatusIsTrue ==
  Spec => [](\A t \in GatewayRefs : \A r \in RowsOf(t) :
               /\ log[r].status = "SUCCESS" => payout[t] \in Carried
               /\ log[r].status = "FAILED"  => payout[t] \in Over)
<1> DEFINE True == \A t \in GatewayRefs : \A r \in RowsOf(t) :
                     /\ log[r].status = "SUCCESS" => payout[t] \in Carried
                     /\ log[r].status = "FAILED"  => payout[t] \in Over
<1>1. Settled => True
  BY DEF Settled, StatusFits, RowsOf
<1> HIDE DEF True
<1>2. Spec => []True
  BY <1>1, SettledInvariant, PTL
<1> QED BY <1>2 DEF True

LEMMA ChangesFit ==
  ASSUME TypeOK, Known, Reported, VoidedIsOver, Settled, NoLateSuccess, [Next]_vars,
         NEW r \in Refs, log[r] # NoRow, log'[r] # log[r]
  PROVE  /\ log'[r] # NoRow
         /\ log'[r] = [log[r] EXCEPT !.status = log'[r].status]
         /\ log'[r].status # "PENDING"
         /\ log[r].status # "PENDING" => payout[log[r].gateway] = "reversed"
         /\ log[r].status = "FAILED" => ~ PayoutsInOrder
<1> DEFINE t == log[r].gateway
<1>0. StoreStep /\ StoreTypeOK /\ QueueTypeOK /\ log[r] \in Row
  BY StoreSteps DEF TypeOK, StoreTypeOK
<1>a. log[r].status \in {"PENDING", "SUCCESS", "FAILED"}
  BY <1>0 DEF Row
<1>b. \A y \in {"SUCCESS", "FAILED"} :
        /\ [log[r] EXCEPT !.status = y].status = y
        /\ [log[r] EXCEPT !.status = y] # NoRow
  <2> SUFFICES ASSUME NEW y \in {"SUCCESS", "FAILED"}
               PROVE  /\ [log[r] EXCEPT !.status = y].status = y
                      /\ [log[r] EXCEPT !.status = y] # NoRow
    OBVIOUS
  <2>1. [log[r] EXCEPT !.status = y] \in Row /\ [log[r] EXCEPT !.status = y].status = y
    BY <1>0 DEF Row
  <2> QED BY <2>1, StoreAssumption
<1>c. t \in GatewayRefs => StatusFits(log[r])
  BY DEF Settled
<1>1. CASE Confirm
  <2> DEFINE e == job.event
  <2>1. e \in Events /\ e.kind = "success" /\ job # NoJob
    BY <1>0, <1>1 DEF Confirm, Processing, QueueTypeOK, Job
  <2>2. r \in RowsOf(e.ref) /\ t = e.ref /\ t \in GatewayRefs
    BY <1>0, <1>1, <2>1, ConfirmLog, EventFacts DEF RowsOf
  <2>3. log'[r] = [log[r] EXCEPT !.status = "SUCCESS"]
    BY <1>0, <1>1, <2>2, ConfirmLog
  <2>4. log[r].status # "SUCCESS"
    BY <1>0, <2>3 DEF Row
  <2>5. ASSUME log[r].status = "FAILED" PROVE payout[t] = "reversed" /\ ~ PayoutsInOrder
    <3>1. Reopens
      BY <1>1, <2>2, <2>5 DEF Reopens
    <3>2. Around(e)
      BY <2>1 DEF Around, InHand
    <3>3. payout[t] \in Carried /\ payout[t] \in Over
      BY <1>c, <2>1, <2>2, <2>5, <3>2 DEF Reported, StatusFits
    <3> QED BY <3>1, <3>3, NoReopening DEF Carried, Over
  <2> QED BY <1>a, <1>b, <2>3, <2>4, <2>5
<1>2. ASSUME NEW s \in Sessions, EngineStep(s), NEW q \in Refs, s = Worker, CommitsRefund(q)
      PROVE  /\ log'[r] = [log[r] EXCEPT !.status = "FAILED"]
             /\ log[r].status # "FAILED"
             /\ log[r].status = "SUCCESS" => payout[t] = "reversed"
  <2>1. r = q /\ log[r].status # "FAILED" /\ log[r].leg = "WITHDRAWAL"
        /\ log'[r] = [log[r] EXCEPT !.status = "FAILED"]
    BY <1>2 DEF CommitsRefund
  <2>2. t \in GatewayRefs
    <3>1. PICK w \in Withdrawers : log[r] = WithdrawalRow(w, log[r].status)
      BY <2>1, WithdrawalRows DEF Known
    <3>2. t = TransferOf[<<w, 2>>]
      BY <3>1, RowKinds
    <3> QED BY <3>2, WantFacts
  <2>3. stage[Worker] \in {"sent", "open"} /\ r \in batch[Worker].fail
    BY <1>0, <1>2, <2>1, EngineLog DEF CommitsRefund, Refund
  <2>4. payout[t] \in Over
    BY <2>2, <2>3 DEF VoidedIsOver, Voiding
  <2>5. log[r].status = "SUCCESS" => payout[t] \in Carried
    BY <1>c, <2>2 DEF StatusFits
  <2> QED BY <2>1, <2>4, <2>5 DEF Carried, Over
<1>3. \/ Confirm
      \/ \E s \in Sessions, q \in Refs : EngineStep(s) /\ s = Worker /\ CommitsRefund(q)
  <2>1. \/ log' = log \/ Confirm
        \/ \E s \in Sessions : EngineStep(s)
    BY <1>0, Submits DEF StoreStep, store, Submit
  <2>2. ASSUME NEW s \in Sessions, EngineStep(s)
        PROVE  s = Worker /\ \E q \in Refs : CommitsRefund(q)
    <3>1. ASSUME NEW c \in Charges, CommitsCredit(s, c) PROVE FALSE
      BY <3>1 DEF CommitsCredit
    <3>2. ASSUME CommitsDebit(s) PROVE FALSE
      BY <3>2 DEF CommitsDebit
    <3> QED BY <1>0, <2>2, <3>1, <3>2, EngineLog
  <2> QED BY <2>1, <2>2
<1> QED BY <1>a, <1>b, <1>1, <1>2, <1>3

\* A transaction is never taken out of the log and keeps all it says but its
\* status.  One that is SUCCESS or FAILED is touched again only when Paystack
\* has taken its payout back, and a FAILED one, which has been refunded, not
\* even then while payouts are reported in order: no retry and no second
\* webhook changes it.
THEOREM StatusIsFinal ==
  Spec => [][\A r \in Refs : log[r] # NoRow /\ log'[r] # log[r] =>
               /\ log'[r] # NoRow
               /\ log'[r] = [log[r] EXCEPT !.status = log'[r].status]
               /\ log'[r].status # "PENDING"
               /\ log[r].status # "PENDING" => payout[log[r].gateway] = "reversed"
               /\ log[r].status = "FAILED" => ~ PayoutsInOrder]_vars
<1>1. TypeOK /\ Known /\ Reported /\ VoidedIsOver /\ Settled /\ NoLateSuccess /\ [Next]_vars
      => [\A r \in Refs : log[r] # NoRow /\ log'[r] # log[r] =>
            /\ log'[r] # NoRow
            /\ log'[r] = [log[r] EXCEPT !.status = log'[r].status]
            /\ log'[r].status # "PENDING"
            /\ log[r].status # "PENDING" => payout[log[r].gateway] = "reversed"
            /\ log[r].status = "FAILED" => ~ PayoutsInOrder]_vars
  BY ChangesFit
<1> QED BY <1>1, PayoutInvariant, SettledInvariant, NoLateInvariant, PTL DEF Spec

LEMMA KnownInvariant == Spec => [](TypeOK /\ Known)
BY TypeInit, TypeStep, KnownInit, KnownStep, PTL DEF Spec

\* Every row was written by the credit of one of the payments made or by the
\* debit of one of the withdrawals, and has kept what was written but for its
\* status: nothing else, and nothing twice, reaches the log.
THEOREM LogIsExplained ==
  Spec => [](\A r \in Refs : log[r] # NoRow =>
               \/ \E c \in Charges : r = c.ref /\ log[r] = CreditRow(c)
               \/ \E w \in Withdrawers :
                    r = RowOf[w] /\ log[r] = WithdrawalRow(w, log[r].status))
<1>1. Spec => []KnownRows
  BY KnownInvariant, PTL DEF Known
<1> QED BY <1>1 DEF KnownRows

\* WithdrawalHandler orders a payout before WithdrawFunds orders its own, and
\* no transaction ever names that first one: it is paid out without a debit,
\* and no webhook about it can find a row to confirm or to refund.
THEOREM FirstPayoutUnrecorded ==
  Spec => [](\A w \in Withdrawers : RowsOf(TransferOf[<<w, 1>>]) = {})
<1> DEFINE Unrecorded == \A w \in Withdrawers : RowsOf(TransferOf[<<w, 1>>]) = {}
<1>1. KnownRows => Unrecorded
  <2> SUFFICES ASSUME KnownRows, NEW w \in Withdrawers,
                      NEW r \in RowsOf(TransferOf[<<w, 1>>])
               PROVE  FALSE
    OBVIOUS
  <2>1. /\ r \in Refs /\ log[r] # NoRow /\ log[r].gateway = TransferOf[<<w, 1>>]
        /\ TransferOf[<<w, 1>>] \in GatewayRefs
    BY WantFacts DEF RowsOf
  <2>2. PICK x \in Withdrawers : log[r] = WithdrawalRow(x, log[r].status)
    BY <2>1, WithdrawalRows
  <2>3. TransferOf[<<w, 1>>] = TransferOf[<<x, 2>>]
    BY <2>1, <2>2, RowKinds
  <2>4. <<w, 1>> = <<x, 2>>
    BY <2>3, WantFacts, PaymentAssumption
  <2> QED BY <2>4
<1> HIDE DEF Unrecorded
<1>2. Spec => []Unrecorded
  BY <1>1, KnownInvariant, PTL DEF Known
<1> QED BY <1>2 DEF Unrecorded

\* What has been paid for asset a by card, counting each payment once.
Paid(a) ==
  [r \in Refs |-> IF \E c \in Charges : c.ref = r /\ c.asset = a
                  THEN (CHOOSE c \in Charges : c.ref = r /\ c.asset = a).amount
                  ELSE 0]

PaidIn(a) == SumFunctionOnSet(Paid(a), Refs)

LEMMA NetIsPaid ==
  ASSUME TypeOK, KnownRows, NEW a \in Assets
  PROVE  Net(a) <= PaidIn(a) /\ PaidIn(a) \in Int
<1> DEFINE f == Effects(a)
           g == Paid(a)
<1>1. ASSUME NEW r \in Refs, NEW c \in Charges, c.ref = r, c.asset = a
      PROVE  g[r] = c.amount /\ c.amount \in Nat
  BY <1>1, ChargeFacts, PaymentAssumption DEF Paid
<1>2. ASSUME NEW r \in Refs, ~ \E c \in Charges : c.ref = r /\ c.asset = a
      PROVE  g[r] = 0
  BY <1>2 DEF Paid
<1>3. \A r \in Refs : g[r] \in Nat
  BY <1>1, <1>2
<1>4. ASSUME NEW r \in Refs PROVE f[r] \in Int /\ f[r] <= g[r]
  <2>1. f[r] = Effect(log[r], a)
    BY DEF Effects
  <2>2. CASE log[r] = NoRow
    BY <1>3, <2>1, <2>2, NoRowEffect
  <2>3. ASSUME NEW c \in Charges, r = c.ref, log[r] = CreditRow(c)
        PROVE  f[r] \in Int /\ f[r] <= g[r]
    <3>1. f[r] = IF c.asset # a THEN 0 ELSE c.amount
      BY <2>1, <2>3, ChargeFacts, SuccessRowFacts DEF CreditRow, Legs
    <3>2. CASE c.asset = a
      BY <1>1, <2>3, <3>1, <3>2
    <3>3. CASE c.asset # a
      BY <1>3, <3>1, <3>3
    <3> QED BY <3>2, <3>3
  <2>4. ASSUME log[r] # NoRow,
               NEW w \in Withdrawers, log[r] = WithdrawalRow(w, log[r].status)
        PROVE  f[r] \in Int /\ f[r] <= g[r]
    <3>1. log[r].leg = "WITHDRAWAL"
      BY <2>4, RowKinds
    <3>2. log[r].amount \in Nat
      BY <2>4 DEF TypeOK, StoreTypeOK, Row
    <3>3. f[r] \in Int /\ f[r] <= 0
      BY <2>1, <3>1, <3>2 DEF Effect, Signed
    <3> QED BY <1>3, <3>3
  <2> QED BY <2>2, <2>3, <2>4 DEF KnownRows
<1>5. Net(a) = SumFunctionOnSet(f, Refs) /\ PaidIn(a) = SumFunctionOnSet(g, Refs)
  BY DEF Net, PaidIn
<1> HIDE DEF f, g
<1>6. IsFiniteSet(Refs)
  BY StoreAssumption
<1>7. SumFunctionOnSet(f, Refs) <= SumFunctionOnSet(g, Refs)
  BY <1>3, <1>4, <1>6, SumMonotone
<1>8. SumFunctionOnSet(g, Refs) \in Int
  BY <1>3, <1>6, SumIsInt
<1> QED BY <1>5, <1>7, <1>8

\* No money from nothing: what the log adds up to is at most what was paid by
\* card, each payment counted once however often its webhook comes and its
\* endpoint is asked, and while payouts are reported in order no wallet holds
\* more than it opened with and was paid for, refunds included.
THEOREM NoMoneyFromNothing ==
  Spec => [](\A a \in Assets :
               /\ Net(a) <= PaidIn(a)
               /\ PayoutsInOrder => balance[a] <= Opening[a] + PaidIn(a))
<1> DEFINE Bound == \A a \in Assets :
                      /\ Net(a) <= PaidIn(a)
                      /\ PayoutsInOrder => balance[a] <= Opening[a] + PaidIn(a)
<1>1. TypeOK /\ Known /\ (PayoutsInOrder => BalanceMatchesLedger) => Bound
  <2> SUFFICES ASSUME TypeOK, KnownRows, PayoutsInOrder => BalanceMatchesLedger,
                      NEW a \in Assets
               PROVE  /\ Net(a) <= PaidIn(a)
                      /\ PayoutsInOrder => balance[a] <= Opening[a] + PaidIn(a)
    BY DEF Known
  <2> DEFINE n == Net(a)
             x == PaidIn(a)
  <2>1. n <= x /\ n \in Int /\ x \in Int /\ Opening[a] \in Int
    BY NetIsPaid, NetType, StoreAssumption DEF TypeOK
  <2>2. PayoutsInOrder => balance[a] = Opening[a] + n
    BY DEF BalanceMatchesLedger
  <2> HIDE DEF n, x
  <2>3. n <= x /\ (PayoutsInOrder => balance[a] <= Opening[a] + x)
    BY <2>1, <2>2
  <2> QED BY <2>3 DEF n, x
<1> HIDE DEF Bound
<1>2. Spec => []Bound
  BY <1>1, KnownInvariant, BalanceAgrees, PTL
<1> QED BY <1>2 DEF Bound
=============================================================================
