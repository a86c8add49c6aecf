----------------------------- MODULE WalletStore -----------------------------
(***************************************************************************)
(* The PostgreSQL tables behind the repositories and the Prisma query      *)
(* engine that runs their batches (Prisma.Transaction(...).Exec).  A batch *)
(* is not one instant: its first statement debits an asset row and keeps   *)
(* the row locked, its upsert looks for the credited row before writing    *)
(* it, and only the commit makes anything visible.  The modules that       *)
(* EXTEND this one add the handlers that submit the batches.               *)
(*                                                                         *)
(* Amounts are whole units; the float64 arithmetic of the code is not      *)
(* modelled.                                                               *)
(***************************************************************************)
EXTENDS Integers, FiniteSets, Functions

CONSTANTS Wallets, Currencies,
          Refs,             \* values of the column Transaction.reference
          GatewayRefs,      \* values of the column Transaction.gatewayRef
          Sessions,         \* the goroutines that use the database
          CheckConstraint,  \* is non_negative_balance installed?
          Opening,          \* the balances at the start
          OpenAssets,       \* the asset rows at the start
          NoRow, NoGateway, NoBatch

Assets == Wallets \X Currencies

Legs == {"DEPOSIT", "WITHDRAWAL", "OUT", "IN", "DEBIT", "CREDIT"}

\* A row of the table Transaction.  leg stands for the columns type and, for
\* the two rows of a swap or transfer, the suffix of the reference.
Row == [asset : Assets, amount : Nat, leg : Legs,
        status : {"PENDING", "SUCCESS", "FAILED"},
        gateway : GatewayRefs \cup {NoGateway}]

Batch == [debit : [Assets -> Nat], credit : [Assets -> Nat],
          rows : [Refs -> Row \cup {NoRow}], fail : SUBSET Refs]

ASSUME StoreAssumption ==
  /\ CheckConstraint \in BOOLEAN
  /\ OpenAssets \subseteq Assets
  /\ Opening \in [Assets -> Nat]
  /\ \A a \in Assets \ OpenAssets : Opening[a] = 0
  /\ NoRow \notin Row
  /\ NoGateway \notin GatewayRefs
  /\ NoBatch \notin Batch
  /\ IsFiniteSet(Refs)

VARIABLES balance,   \* balance[a]: WalletAsset.balance, 0 while there is no row
          assets,    \* the rows of the table WalletAsset
          log,       \* log[r]: the row of the table Transaction with reference r
          batch,     \* batch[s]: the last batch session s submitted
          stage,     \* stage[s]: how far the engine is with it
          creating   \* creating[s]: the asset rows its upsert found missing

tables == <<balance, assets, log>>
store  == <<balance, assets, log, batch, stage, creating>>

Outcome == {"ok", "unique", "check", "aborted"}
Stage   == {"none", "sent", "open"} \cup Outcome

StoreTypeOK ==
  /\ balance \in [Assets -> Int]
  /\ assets \subseteq Assets
  /\ log \in [Refs -> Row \cup {NoRow}]
  /\ batch \in [Sessions -> Batch \cup {NoBatch}]
  /\ stage \in [Sessions -> Stage]
  /\ creating \in [Sessions -> SUBSET Assets]
  /\ \A s \in Sessions : stage[s] # "none" => batch[s] \in Batch

StoreInit ==
  /\ balance = Opening
  /\ assets = OpenAssets
  /\ log = [r \in Refs |-> NoRow]
  /\ batch = [s \in Sessions |-> NoBatch]
  /\ stage = [s \in Sessions |-> "none"]
  /\ creating = [s \in Sessions |-> {}]

-----------------------------------------------------------------------------
(* How the repositories put a batch together.                              *)

NoAmount == [a \in Assets |-> 0]
NoRows   == [r \in Refs |-> NoRow]

Amount(a, x) == [NoAmount EXCEPT ![a] = x]

SuccessRow(a, x, leg) ==
  [asset |-> a, amount |-> x, leg |-> leg, status |-> "SUCCESS",
   gateway |-> NoGateway]

\* One credit and its row.
Deposit(a, x, r) ==
  [debit |-> NoAmount, credit |-> Amount(a, x),
   rows |-> [NoRows EXCEPT ![r] = SuccessRow(a, x, "DEPOSIT")],
   fail |-> {}]

\* A debit, a credit and the two rows that record them.
Exchange(a, x, r, leg, a2, x2, r2, leg2) ==
  [debit |-> Amount(a, x), credit |-> Amount(a2, x2),
   rows |-> [NoRows EXCEPT ![r] = SuccessRow(a, x, leg),
                           ![r2] = SuccessRow(a2, x2, leg2)],
   fail |-> {}]

-----------------------------------------------------------------------------
(* The engine.                                                             *)

Debited(b)  == {a \in Assets : b.debit[a] > 0}
Credited(b) == {a \in Assets : b.credit[a] > 0}
Written(b)  == {r \in Refs : b.rows[r] # NoRow}

\* The asset rows an open batch has updated and keeps locked.
Locked(s) == IF stage[s] = "open" THEN Debited(batch[s]) ELSE {}

\* No other session has a row of A locked.
Free(s, A) == \A o \in Sessions \ {s} : Locked(o) \cap A = {}

CheckViolationNever(b) == FALSE

\* The CHECK is evaluated by the debit, which every batch runs first.
CheckViolation(b) ==
  CheckConstraint /\ \E a \in Debited(b) : balance[a] < b.debit[a]

UniqueViolationOfAsset(s) == creating[s] \cap assets # {}

\* A row whose reference is taken, or an asset row the upsert found missing
\* and somebody else inserted meanwhile.
UniqueViolation(s) ==
  \/ \E r \in Written(batch[s]) : log[r] # NoRow
  \/ creating[s] \cap assets # {}

SubmitUnsent(s, b) ==
  /\ stage' = [stage EXCEPT ![s] = "sent"]
  /\ UNCHANGED <<balance, assets, log, batch, creating>>

Submit(s, b) ==
  /\ batch' = [batch EXCEPT ![s] = b]
  /\ stage' = [stage EXCEPT ![s] = "sent"]
  /\ UNCHANGED <<balance, assets, log, creating>>

Refuse(s) ==
  /\ stage[s] = "sent"
  /\ Free(s, Debited(batch[s]))
  /\ CheckViolation(batch[s])
  /\ stage' = [stage EXCEPT ![s] = "check"]
  /\ UNCHANGED <<balance, assets, log, batch, creating>>

Begin(s) ==
  /\ stage[s] = "sent"
  /\ Free(s, Debited(batch[s]))
  /\ ~ CheckViolation(batch[s])
  /\ stage' = [stage EXCEPT ![s] = "open"]
  /\ creating' = [creating EXCEPT ![s] = Credited(batch[s]) \ assets]
  /\ UNCHANGED <<balance, assets, log, batch>>

Reject(s) ==
  /\ stage[s] = "open"
  /\ Free(s, Credited(batch[s]))
  /\ UniqueViolation(s)
  /\ stage' = [stage EXCEPT ![s] = "unique"]
  /\ UNCHANGED <<balance, assets, log, batch, creating>>

Commit(s) ==
  LET b == batch[s] IN
  /\ stage[s] = "open"
  /\ Free(s, Credited(b))
  /\ ~ UniqueViolation(s)
  /\ balance' = [a \in Assets |-> balance[a] - b.debit[a] + b.credit[a]]
  /\ assets' = assets \cup Credited(b)
  /\ log' = [r \in Refs |->
               IF b.rows[r] # NoRow THEN b.rows[r]
               ELSE IF r \in b.fail /\ log[r] # NoRow THEN [log[r] EXCEPT !.status = "FAILED"]
               ELSE log[r]]
  /\ stage' = [stage EXCEPT ![s] = "ok"]
  /\ UNCHANGED <<batch, creating>>

\* The connection breaks, or the session is a deadlock victim.
Abort(s) ==
  /\ stage[s] \in {"sent", "open"}
  /\ stage' = [stage EXCEPT ![s] = "aborted"]
  /\ UNCHANGED <<balance, assets, log, batch, creating>>

Engine(s) == Refuse(s) \/ Begin(s) \/ Reject(s) \/ Commit(s) \/ Abort(s)

\* The error a failed batch returns.  The runtime's TX.Exec formats the
\* engine's answer into a plain string, so the typed test never succeeds on
\* a batch; the test on the text does.
BatchError(outcome) == [kind |-> outcome, typed |-> FALSE]

IsErrUniqueConstraint(err)   == err.typed /\ err.kind = "unique"
isUniqueConstraintError(err) == err.kind = "unique"

-----------------------------------------------------------------------------
(* Reading the tables.                                                     *)

Signed(row) == IF row.leg \in {"WITHDRAWAL", "OUT", "DEBIT"}
               THEN - row.amount ELSE row.amount

\* What a row says its asset has gained; a FAILED one says nothing.
Effect(row, a) ==
  IF row # NoRow /\ row.asset = a /\ row.status # "FAILED" THEN Signed(row) ELSE 0

Effects(a) == [r \in Refs |-> Effect(log[r], a)]

\* What the log says an asset has gained since the start.
Net(a) == SumFunctionOnSet(Effects(a), Refs)

\* Whatever was interleaved, retried or lost, the balance column agrees with
\* the transaction log: the batches of wallet_repo.go move money and record
\* it together, or neither.
BalanceMatchesLedger ==
  \A a \in Assets : balance[a] = Opening[a] + Net(a)

\* The database refuses to overdraw an asset: the debits of SwapFunds,
\* TransferFunds and DebitForWithdrawal race with each other after their
\* balance checks (TransferFunds has none).
NonNegative == \A a \in Assets : balance[a] >= 0
=============================================================================
