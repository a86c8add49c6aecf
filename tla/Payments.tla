------------------------------ MODULE Payments ------------------------------
(***************************************************************************)
(* Money in and out through Paystack.  A card payment is credited by the   *)
(* worker, when its webhook comes through the queue, and by the verify     *)
(* endpoint, whichever is first.  A withdrawal orders a bank payout at     *)
(* Paystack and then debits the wallet with a PENDING row; the webhooks of *)
(* the payout confirm the row or refund it.  The handlers, the worker,     *)
(* Paystack and the database interleave at every call.                     *)
(***************************************************************************)
EXTENDS WalletStore, WebhookQueue

CONSTANTS Worker,       \* the worker, as a session of the database
          Verifiers,    \* requests to the verify endpoint
          Withdrawers,  \* withdrawal requests
          Charges,      \* the card payments that succeeded: events
          ChargeOf,     \* ChargeOf[v]: the payment v asks about, made or not
          WantOf,       \* WantOf[w]: the asset and amount w wants paid out
          TransferOf,   \* TransferOf[<<w, n>>]: the code of w's n-th payout
          RowOf         \* RowOf[w]: the reference of w's transaction

ChargeEvent == [kind : {"charge"}, ref : Refs, asset : Assets, amount : Nat \ {0}]

\* The events of a payout carry its code and its reference; codes stand for
\* both.
PayoutEvent == [kind : {"success", "failed", "reversed"}, ref : GatewayRefs]

Want == [asset : Assets, amount : Nat \ {0}]

ASSUME PaymentAssumption ==
  /\ Sessions = {Worker} \cup Verifiers \cup Withdrawers
  /\ Worker \notin Verifiers \cup Withdrawers
  /\ Verifiers \cap Withdrawers = {}
  /\ Charges \subseteq ChargeEvent
  /\ Events \ Charges \subseteq PayoutEvent
  /\ ChargeOf \in [Verifiers -> ChargeEvent]
  /\ WantOf \in [Withdrawers -> Want]
  /\ TransferOf \in [Withdrawers \X {1, 2} -> GatewayRefs]
  /\ RowOf \in [Withdrawers -> Refs]
  \* Payments and withdrawals have references and codes of their own.
  /\ \A c, d \in Charges : c.ref = d.ref => c = d
  /\ \A w \in Withdrawers : \A c \in Charges : RowOf[w] # c.ref
  /\ \A w, x \in Withdrawers : RowOf[w] = RowOf[x] => w = x
  /\ \A a, b \in DOMAIN TransferOf : TransferOf[a] = TransferOf[b] => a = b

VARIABLES pc,      \* pc[s]: where session s is
          payout   \* payout[t]: what Paystack has done about transfer t

vars == <<store, queueVars, pc, payout>>

Underway == {"recipient1", "transfer1", "recipient2", "transfer2", "debit",
             "wait", "fetch"}
Pc    == {"idle", "success", "failed", "dead"} \cup Underway

TypeOK ==
  /\ StoreTypeOK
  /\ QueueTypeOK
  /\ pc \in [Sessions -> Pc]
  /\ payout \in [GatewayRefs -> {"none", "started", "paid", "failed", "reversed"}]

Init ==
  /\ StoreInit
  /\ QueueInit
  /\ pc = [s \in Sessions |-> "idle"]
  /\ payout = [t \in GatewayRefs |-> "none"]

Goto(s, from, to) == pc[s] = from /\ pc' = [pc EXCEPT ![s] = to]

-----------------------------------------------------------------------------
(* The repository.                                                         *)

CreditWalletByEmail(e) == Deposit(e.asset, e.amount, e.ref)

DebitForWithdrawal(w) ==
  LET want == WantOf[w] IN
  [debit |-> Amount(want.asset, want.amount), credit |-> NoAmount,
   rows |-> [NoRows EXCEPT ![RowOf[w]] =
               [asset |-> want.asset, amount |-> want.amount,
                leg |-> "WITHDRAWAL", status |-> "PENDING",
                gateway |-> TransferOf[<<w, 2>>]]],
   fail |-> {}]

RowsOf(t) == {r \in Refs : log[r] # NoRow /\ log[r].gateway = t}

RefundableAlways(t) == {r \in RowsOf(t) : log[r].leg = "WITHDRAWAL"}

Refundable(t) ==
  {r \in RowsOf(t) : log[r].leg = "WITHDRAWAL" /\ log[r].status # "FAILED"}

RefundWithoutStatus(r) ==
  [debit |-> NoAmount, credit |-> Amount(log[r].asset, log[r].amount),
   rows |-> NoRows, fail |-> {}]

RefundWithdrawal(r) ==
  [debit |-> NoAmount, credit |-> Amount(log[r].asset, log[r].amount),
   rows |-> NoRows, fail |-> {r}]

\* One UPDATE statement: it has no guard on the status it overwrites.
UpdateTransactionStatus(t, status) ==
  /\ log' = [r \in Refs |->
               IF r \in RowsOf(t) THEN [log[r] EXCEPT !.status = status]
               ELSE log[r]]
  /\ UNCHANGED <<balance, assets, batch, stage, creating>>

-----------------------------------------------------------------------------
(* The worker: ProcessPaystackEvent.                                       *)

Processing(kinds) == job # NoJob /\ job.event.kind \in kinds

\* A new worker submits nothing before the engine is through with what the
\* one before it left behind.
EngineFree == stage[Worker] \notin {"sent", "open"}

\* charge.success: the user is found and the credit submitted.
ProcessCharge ==
  /\ Processing({"charge"})
  /\ Goto(Worker, "idle", "wait")
  /\ EngineFree
  /\ Submit(Worker, CreditWalletByEmail(job.event))
  /\ UNCHANGED <<queueVars, payout>>

\* transfer.success.
ProcessSuccess ==
  /\ Processing({"success"})
  /\ pc[Worker] = "idle" /\ EngineFree
  /\ UpdateTransactionStatus(job.event.ref, "SUCCESS")
  /\ Complete
  /\ UNCHANGED <<pc, payout>>

\* transfer.failed, transfer.reversed: the row is found and the refund
\* submitted.
ProcessRefund ==
  /\ Processing({"failed", "reversed"})
  /\ Goto(Worker, "idle", "wait")
  /\ EngineFree
  /\ \E r \in Refundable(job.event.ref) : Submit(Worker, RefundWithdrawal(r))
  /\ UNCHANGED <<queueVars, payout>>

\* No row, a row that is FAILED already, or an error of the lookup: the event
\* counts as processed.
ProcessNoRefund ==
  /\ Processing({"failed", "reversed"})
  /\ pc[Worker] = "idle"
  /\ Complete
  /\ UNCHANGED <<store, pc, payout>>

\* A lookup of the user or a single statement fails, before or after it took
\* effect.
ProcessFails ==
  /\ Processing({"charge", "success"})
  /\ pc[Worker] = "idle" /\ EngineFree
  /\ \/ UNCHANGED store
     \/ Processing({"success"}) /\ UpdateTransactionStatus(job.event.ref, "SUCCESS")
  /\ handleFailure
  /\ UNCHANGED <<pc, payout>>

\* Only the credit asks whether the batch violated a unique index.
Processed(outcome) ==
  \/ outcome = "ok"
  \/ Processing({"charge"}) /\ isUniqueConstraintError(BatchError(outcome))

ProcessReply ==
  /\ stage[Worker] \in Outcome
  /\ Goto(Worker, "wait", "idle")
  /\ IF Processed(stage[Worker]) THEN Complete ELSE handleFailure
  /\ UNCHANGED <<store, payout>>

\* The engine is through with the batch, but its answer is lost.
ProcessReplyLost ==
  /\ stage[Worker] \in Outcome
  /\ Goto(Worker, "wait", "idle")
  /\ handleFailure
  /\ UNCHANGED <<store, payout>>

ProcessPaystackEvent ==
  \/ ProcessCharge \/ ProcessSuccess \/ ProcessRefund \/ ProcessNoRefund
  \/ ProcessFails \/ ProcessReply \/ ProcessReplyLost

-----------------------------------------------------------------------------
(* The verify endpoint: VerifyAndCredit.                                   *)

\* What Paystack may answer with status "success".
VerifyTransaction(e) == {e} \cap Charges

\* Paystack confirms the payment, and the user is found.
Verify(v) ==
  /\ Goto(v, "idle", "wait")
  /\ \E e \in VerifyTransaction(ChargeOf[v]) : Submit(v, CreditWalletByEmail(e))
  /\ UNCHANGED <<queueVars, payout>>

\* Credited now, or the reference was taken: the answer is the row.
AsIfCredited(outcome) ==
  outcome = "ok" \/ isUniqueConstraintError(BatchError(outcome))

VerifyReply(v) ==
  /\ stage[v] \in Outcome
  /\ Goto(v, "wait", IF AsIfCredited(stage[v]) THEN "fetch" ELSE "failed")
  /\ UNCHANGED <<store, queueVars, payout>>

FoundAlways(v) == TRUE

Found(v) == log[ChargeOf[v].ref] # NoRow

VerifyFetch(v) ==
  /\ Found(v)
  /\ Goto(v, "fetch", "success")
  /\ UNCHANGED <<store, queueVars, payout>>

\* The payment was not made, a call fails, the client is gone, or there is no
\* row.
VerifyFails(v) ==
  /\ pc[v] \in {"idle", "wait", "fetch"}
  /\ pc' = [pc EXCEPT ![v] = "failed"]
  /\ UNCHANGED <<store, queueVars, payout>>

VerifyAndCredit(v) ==
  Verify(v) \/ VerifyReply(v) \/ VerifyFetch(v) \/ VerifyFails(v)

-----------------------------------------------------------------------------
(* WithdrawalHandler, and WithdrawFunds, which it calls.                   *)

\* The PIN is right.
Withdraw(w) ==
  /\ Goto(w, "idle", "recipient1")
  /\ UNCHANGED <<store, queueVars, payout>>

\* The bank account is registered with Paystack, which changes nothing here:
\* by the handler, then once more by WithdrawFunds.
CreateTransferRecipient(w, from, to) ==
  /\ Goto(w, from, to)
  /\ UNCHANGED <<store, queueVars, payout>>

\* A payout is ordered, likewise twice.
InitiateTransfer(w, n, from, to) ==
  /\ Goto(w, from, to)
  /\ payout' = [payout EXCEPT ![TransferOf[<<w, n>>]] = "started"]
  /\ UNCHANGED <<store, queueVars>>

WithdrawDebit(w) ==
  LET want == WantOf[w] IN
  /\ Goto(w, "debit", "wait")
  /\ want.asset \in assets /\ balance[want.asset] >= want.amount
  /\ Submit(w, DebitForWithdrawal(w))
  /\ UNCHANGED <<queueVars, payout>>

WithdrawReplyIgnored(w) ==
  /\ Goto(w, "wait", "success")
  /\ UNCHANGED <<store, queueVars, payout>>

WithdrawReply(w) ==
  /\ stage[w] \in Outcome
  /\ Goto(w, "wait", IF stage[w] = "ok" THEN "success" ELSE "failed")
  /\ UNCHANGED <<store, queueVars, payout>>

\* The PIN is wrong, a call fails, the client is gone, or the balance is too
\* small: whatever has been ordered stays ordered.
WithdrawFails(w) ==
  /\ pc[w] \in {"idle"} \cup Underway
  /\ pc' = [pc EXCEPT ![w] = "failed"]
  /\ UNCHANGED <<store, queueVars, payout>>

WithdrawFunds(w) ==
  \/ Withdraw(w)
  \/ CreateTransferRecipient(w, "recipient1", "transfer1")
  \/ CreateTransferRecipient(w, "recipient2", "transfer2")
  \/ InitiateTransfer(w, 1, "transfer1", "recipient2")
  \/ InitiateTransfer(w, 2, "transfer2", "debit")
  \/ InitiateTransfer(w, 1, "transfer1", "failed")
  \/ InitiateTransfer(w, 2, "transfer2", "failed")
  \/ WithdrawDebit(w) \/ WithdrawReply(w) \/ WithdrawFails(w)

-----------------------------------------------------------------------------
(* Paystack and the process.                                               *)

\* Paystack carries a payout out, gives it up, or takes it back later.
Payout(t) ==
  /\ \/ payout[t] = "started" /\ payout' = [payout EXCEPT ![t] = "paid"]
     \/ payout[t] = "started" /\ payout' = [payout EXCEPT ![t] = "failed"]
     \/ payout[t] = "paid" /\ payout' = [payout EXCEPT ![t] = "reversed"]
  /\ UNCHANGED <<store, queueVars, pc>>

\* What Paystack may send webhooks about.
Happened(e) ==
  \/ e \in Charges
  \/ e.kind = "success" /\ payout[e.ref] \in {"paid", "reversed"}
  \/ e.kind \in {"failed", "reversed"} /\ payout[e.ref] = e.kind

Webhooks ==
  /\ \/ \E h \in Requests : \/ \E e \in Events : Happened(e) /\ Notify(h, e)
                            \/ Hook(h)
     \/ \E r \in References : HookExpire(r)
     \/ Pop
  /\ UNCHANGED <<store, pc, payout>>

EngineStep(s) == Engine(s) /\ UNCHANGED <<queueVars, pc, payout>>

\* The process dies; what the engine has been sent may still be committed.
Crash ==
  /\ QueueCrash
  /\ pc' = [s \in Sessions |->
              IF s = Worker THEN "idle"
              ELSE IF pc[s] \in Underway THEN "dead" ELSE pc[s]]
  /\ UNCHANGED <<store, payout>>

Shutdown ==
  /\ QueueShutdown
  /\ \A s \in Sessions \ {Worker} : pc[s] \notin Underway
  /\ pc' = [pc EXCEPT ![Worker] = "idle"]
  /\ UNCHANGED <<store, payout>>

\* Everybody has an answer and there is no work left.
Rest ==
  /\ \A h \in Requests : ~ Busy(h)
  /\ queue = <<>> /\ job = NoJob
  /\ \A s \in Sessions \ {Worker} : pc[s] \in {"success", "failed", "dead"}
  /\ UNCHANGED vars

Next ==
  \/ Webhooks
  \/ ProcessPaystackEvent
  \/ \E v \in Verifiers : VerifyAndCredit(v)
  \/ \E w \in Withdrawers : WithdrawFunds(w)
  \/ \E t \in GatewayRefs : Payout(t)
  \/ \E s \in Sessions : EngineStep(s)
  \/ Crash \/ Shutdown \/ Rest

Spec == Init /\ [][Next]_vars

-----------------------------------------------------------------------------
(* Properties.                                                             *)

\* A client that is told "Payment verified successfully" has been credited
\* with what was paid, whether by its own request, by another or by the
\* worker.
VerifiedIsCredited ==
  \A v \in Verifiers : pc[v] = "success" =>
    log[ChargeOf[v].ref] = CreditWalletByEmail(ChargeOf[v]).rows[ChargeOf[v].ref]

\* A client that is told "Withdrawal processing" has been debited, and the
\* row names the payout that WithdrawFunds ordered; once the row is FAILED,
\* Paystack has not carried this payout out.
WithdrawalRecorded ==
  \A w \in Withdrawers : pc[w] = "success" =>
    \E row \in {log[RowOf[w]]} :
      /\ row # NoRow
      /\ row.gateway = TransferOf[<<w, 2>>]
      /\ row.status = "FAILED" => payout[row.gateway] \in {"failed", "reversed"}

\* The transaction log as the entries of the abstract ledger.
StateOf(status) ==
  CASE status = "PENDING" -> "open"
    [] status = "SUCCESS" -> "settled"
    [] status = "FAILED"  -> "void"

Posted ==
  [r \in Refs |->
     IF log[r] = NoRow THEN NoRow
     ELSE [account |-> log[r].asset, delta |-> Signed(log[r]),
           state |-> StateOf(log[r].status)]]

Book == INSTANCE Ledger WITH
  Accounts <- Assets, NoEntry <- NoRow, bal <- balance, entry <- Posted

ASSUME PostingAssumption == NoRow \notin Book!Entry

\* Deposits, debits, confirmations and refunds are steps of the abstract
\* ledger: a payment is credited once although the worker and the verify
\* endpoint race and retry, and a withdrawal is refunded at most once.
LedgerImplemented == Book!Spec

\* What the log line "Job processed successfully" says of a payment: once its
\* webhook is processed the wallet has been credited.
ProcessedIsCredited == \A e \in done \cap Charges : log[e.ref] # NoRow

\* What it says of a payout that failed or was reversed: once its webhook is
\* processed its withdrawal is not open or successful any more.
ProcessedIsRefunded ==
  \A e \in done : e.kind \in {"failed", "reversed"} => Refundable(e.ref) = {}

\* What is paid out for a request that is told "Withdrawal processing" has been
\* debited: there is a transaction that names the payout.
PayoutIsDebited ==
  \A w \in Withdrawers, n \in {1, 2} :
    pc[w] = "success" /\ payout[TransferOf[<<w, n>>]] = "paid" =>
      RowsOf(TransferOf[<<w, n>>]) # {}
=============================================================================
