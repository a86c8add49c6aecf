--------------------------- MODULE WalletStoreProofs ---------------------------
(***************************************************************************)
(* What TLAPS proves of the store and its engine, whatever handlers submit *)
(* batches to it: the modules about WalletService and Payments cite it.    *)
(***************************************************************************)
EXTENDS WalletStore, Sums

-----------------------------------------------------------------------------
(* The batches the repositories build.                                     *)

\* FundWallet's credit and its row form a batch.
LEMMA DepositType ==
  ASSUME NEW a \in Assets, NEW x \in Nat, NEW r \in Refs
  PROVE  Deposit(a, x, r) \in Batch
<1>1. Amount(a, x) \in [Assets -> Nat] /\ NoAmount \in [Assets -> Nat]
  BY DEF Amount, NoAmount
<1>2. SuccessRow(a, x, "DEPOSIT") \in Row
  BY DEF SuccessRow, Row, Legs
<1> QED BY <1>1, <1>2 DEF Deposit, Batch, NoRows

\* So do the debit, the credit and the two rows of a swap or a transfer.
LEMMA ExchangeType ==
  ASSUME NEW a \in Assets, NEW x \in Nat, NEW r \in Refs, NEW leg \in Legs,
         NEW a2 \in Assets, NEW x2 \in Nat, NEW r2 \in Refs, NEW leg2 \in Legs
  PROVE  Exchange(a, x, r, leg, a2, x2, r2, leg2) \in Batch
<1>1. Amount(a, x) \in [Assets -> Nat] /\ Amount(a2, x2) \in [Assets -> Nat]
  BY DEF Amount, NoAmount
<1>2. SuccessRow(a, x, leg) \in Row /\ SuccessRow(a2, x2, leg2) \in Row
  BY DEF SuccessRow, Row
<1> QED BY <1>1, <1>2 DEF Exchange, Batch, NoRows

-----------------------------------------------------------------------------
(* Type correctness.                                                       *)

LEMMA StoreTypeInit == StoreInit => StoreTypeOK
BY StoreAssumption DEF StoreInit, StoreTypeOK, Stage, Outcome

LEMMA SubmitType ==
  ASSUME StoreTypeOK, NEW s \in Sessions, NEW b \in Batch, Submit(s, b)
  PROVE  StoreTypeOK'
BY DEF Submit, StoreTypeOK, Stage

\* A step of the engine keeps the tables and the batches well typed.
LEMMA EngineType ==
  ASSUME StoreTypeOK, NEW s \in Sessions, Engine(s)
  PROVE  StoreTypeOK'
<1> USE DEF StoreTypeOK, Stage, Outcome
<1>1. CASE Refuse(s) BY <1>1 DEF Refuse
<1>2. CASE Begin(s)
  <2>1. Credited(batch[s]) \ assets \subseteq Assets BY DEF Credited
  <2> QED BY <1>2, <2>1 DEF Begin
<1>3. CASE Reject(s) BY <1>3 DEF Reject
<1>4. CASE Commit(s)
  <2> DEFINE b == batch[s]
  <2>1. b \in Batch BY <1>4 DEF Commit
  <2>2. balance' \in [Assets -> Int]
    <3>1. \A a \in Assets : b.debit[a] \in Nat /\ b.credit[a] \in Nat
      BY <2>1 DEF Batch
    <3>2. \A a \in Assets : balance[a] - b.debit[a] + b.credit[a] \in Int
      BY <3>1
    <3> QED BY <1>4, <3>2 DEF Commit
  <2>3. assets' \subseteq Assets BY <1>4 DEF Commit, Credited
  <2>4. log' \in [Refs -> Row \cup {NoRow}]
    <3> SUFFICES ASSUME NEW r \in Refs PROVE log'[r] \in Row \cup {NoRow}
      BY <1>4 DEF Commit
    <3>1. CASE b.rows[r] # NoRow
      BY <1>4, <2>1, <3>1 DEF Commit, Batch
    <3>2. CASE b.rows[r] = NoRow /\ (r \notin b.fail \/ log[r] = NoRow)
      BY <1>4, <3>2 DEF Commit
    <3>3. CASE b.rows[r] = NoRow /\ r \in b.fail /\ log[r] # NoRow
      BY <1>4, <3>3 DEF Commit, Row
    <3> QED BY <3>1, <3>2, <3>3
  <2> QED BY <1>4, <2>2, <2>3, <2>4 DEF Commit
<1>5. CASE Abort(s) BY <1>5 DEF Abort
<1> QED BY <1>1, <1>2, <1>3, <1>4, <1>5 DEF Engine

-----------------------------------------------------------------------------
(* No overdraft.                                                           *)

\* Two open batches never hold the same asset row, and an open batch's debit
\* is still covered by the balance it was checked against.
RowLocks ==
  \A s, o \in Sessions : s # o => Locked(s) \cap Locked(o) = {}

Covered ==
  \A s \in Sessions : \A a \in Locked(s) : balance[a] >= batch[s].debit[a]

LEMMA SolventInit == StoreInit => NonNegative /\ RowLocks /\ Covered
BY StoreAssumption DEF StoreInit, NonNegative, RowLocks, Covered, Locked

\* A batch that is only submitted has nothing locked.
LEMMA SubmitSolvent ==
  ASSUME StoreTypeOK, NonNegative, RowLocks, Covered,
         NEW s \in Sessions, NEW b, Submit(s, b)
  PROVE  NonNegative' /\ RowLocks' /\ Covered'
<1>1. Locked(s)' = {} /\ \A o \in Sessions : o # s => Locked(o)' = Locked(o)
  BY DEF Submit, Locked, StoreTypeOK
<1>2. UNCHANGED balance /\ \A o \in Sessions : o # s => batch'[o] = batch[o]
  BY DEF Submit, StoreTypeOK
<1> QED BY <1>1, <1>2 DEF NonNegative, RowLocks, Covered

\* The engine keeps the accounts solvent when the CHECK is installed: the
\* locks of the open batches keep their debits covered until they commit.
LEMMA EngineSolvent ==
  ASSUME CheckConstraint, StoreTypeOK, NonNegative, RowLocks, Covered,
         NEW s \in Sessions, Engine(s)
  PROVE  NonNegative' /\ RowLocks' /\ Covered'
<1> USE DEF NonNegative, RowLocks, Covered, Locked
<1>1. CASE Refuse(s) \/ Reject(s) \/ Abort(s)
  BY <1>1 DEF Refuse, Reject, Abort, StoreTypeOK
<1>2. CASE Begin(s)
  <2>1. \A o \in Sessions : o # s => Locked(o)' = Locked(o)
    BY <1>2 DEF Begin, StoreTypeOK
  <2>2. Locked(s)' = Debited(batch[s])
    BY <1>2 DEF Begin, StoreTypeOK, Debited
  <2>3. \A a \in Debited(batch[s]) : ~ (balance[a] < batch[s].debit[a])
    BY <1>2 DEF Begin, CheckViolation
  <2>4. batch[s] \in Batch
    BY <1>2 DEF Begin, StoreTypeOK
  <2>5. \A a \in Debited(batch[s]) : balance[a] >= batch[s].debit[a]
    BY <2>3, <2>4 DEF Batch, Debited, StoreTypeOK
  <2>6. \A o \in Sessions \ {s} : Locked(o) \cap Debited(batch[s]) = {}
    BY <1>2 DEF Begin, Free
  <2>7. UNCHANGED <<balance, batch>>
    BY <1>2 DEF Begin
  <2> HIDE DEF Locked
  <2>8. RowLocks' BY <2>1, <2>2, <2>6
  <2>9. Covered' BY <2>1, <2>2, <2>5, <2>7
  <2> QED BY <2>7, <2>8, <2>9
<1>3. CASE Commit(s)
  <2> DEFINE b == batch[s]
  <2>1. b \in Batch /\ stage[s] = "open"
    BY <1>3 DEF Commit, StoreTypeOK
  <2>2. \A a \in Assets : b.debit[a] \in Nat /\ b.credit[a] \in Nat
    BY <2>1 DEF Batch
  <2>3. \A a \in Assets : balance'[a] = balance[a] - b.debit[a] + b.credit[a]
    BY <1>3 DEF Commit
  <2>4. Locked(s) = Debited(b) /\ Locked(s)' = {}
    BY <1>3 DEF Commit, StoreTypeOK
  <2>5. \A o \in Sessions : o # s => Locked(o)' = Locked(o)
    BY <1>3 DEF Commit, StoreTypeOK
  <2>6. \A a \in Assets : b.debit[a] > 0 => balance[a] >= b.debit[a]
    BY <2>4 DEF Debited
  <2>7. batch' = batch
    BY <1>3 DEF Commit
  <2> HIDE DEF Locked
  <2>8. NonNegative'
    <3> SUFFICES ASSUME NEW a \in Assets PROVE balance'[a] >= 0
      OBVIOUS
    <3>1. balance[a] \in Int /\ balance[a] >= 0 BY DEF StoreTypeOK
    <3>2. b.debit[a] = 0 \/ b.debit[a] > 0 BY <2>2
    <3> QED BY <2>2, <2>3, <2>6, <3>1, <3>2
  <2>9. RowLocks' BY <2>4, <2>5
  <2>10. Covered'
    <3> SUFFICES ASSUME NEW o \in Sessions, o # s, NEW a \in Locked(o)
                 PROVE  balance'[a] >= batch[o].debit[a]
      BY <2>4, <2>5, <2>7
    <3>1. a \in Assets /\ stage[o] = "open"
      BY DEF Locked, Debited
    <3>2. batch[o] \in Batch /\ batch[o].debit[a] \in Nat /\ balance[a] \in Int
      BY <3>1 DEF StoreTypeOK, Batch
    <3>3. a \notin Debited(b)
      BY <2>4
    <3>4. b.debit[a] = 0
      BY <2>2, <3>1, <3>3 DEF Debited
    <3>5. balance[a] >= batch[o].debit[a]
      OBVIOUS
    <3> QED BY <2>2, <2>3, <3>1, <3>2, <3>4, <3>5
  <2> QED BY <2>8, <2>9, <2>10
<1> QED BY <1>1, <1>2, <1>3 DEF Engine

-----------------------------------------------------------------------------
(* Balances and the log.                                                   *)

LEMMA EffectType ==
  ASSUME NEW row \in Row \cup {NoRow}, NEW a
  PROVE  Effect(row, a) \in Int
BY DEF Effect, Signed, Row

\* One row of the log changes.
LEMMA NetOne ==
  ASSUME StoreTypeOK, StoreTypeOK', NEW a, NEW r \in Refs,
         \A q \in Refs : q # r => log'[q] = log[q]
  PROVE  Net(a)' = Net(a) - Effect(log[r], a) + Effect(log'[r], a)
<1> DEFINE f == Effects(a)
           g == Effects(a)'
<1>1. \A q \in Refs : f[q] = Effect(log[q], a) /\ g[q] = Effect(log'[q], a)
  BY DEF Effects
<1>2. \A q \in Refs : f[q] \in Int /\ g[q] \in Int
  <2>1. \A q \in Refs : log[q] \in Row \cup {NoRow} /\ log'[q] \in Row \cup {NoRow}
    BY DEF StoreTypeOK
  <2> HIDE DEF f, g
  <2> QED BY <1>1, <2>1, EffectType
<1>3. \A q \in Refs : q # r => g[q] = f[q]
  BY <1>1
<1> HIDE DEF f, g
<1>4. SumFunctionOnSet(g, Refs) = SumFunctionOnSet(f, Refs) - f[r] + g[r]
  BY <1>2, <1>3, SumChange, StoreAssumption
<1> QED BY <1>1, <1>4 DEF Net, f, g

\* Two rows of the log change.
LEMMA NetTwo ==
  ASSUME StoreTypeOK, StoreTypeOK', NEW a, NEW r \in Refs, NEW r2 \in Refs, r # r2,
         \A q \in Refs : q # r /\ q # r2 => log'[q] = log[q]
  PROVE  Net(a)' = Net(a) - Effect(log[r], a) + Effect(log'[r], a)
                          - Effect(log[r2], a) + Effect(log'[r2], a)
<1> DEFINE f == Effects(a)
           g == Effects(a)'
<1>1. \A q \in Refs : f[q] = Effect(log[q], a) /\ g[q] = Effect(log'[q], a)
  BY DEF Effects
<1>2. \A q \in Refs : f[q] \in Int /\ g[q] \in Int
  <2>1. \A q \in Refs : log[q] \in Row \cup {NoRow} /\ log'[q] \in Row \cup {NoRow}
    BY DEF StoreTypeOK
  <2> HIDE DEF f, g
  <2> QED BY <1>1, <2>1, EffectType
<1>3. \A q \in Refs : q # r /\ q # r2 => g[q] = f[q]
  BY <1>1
<1> HIDE DEF f, g
<1>4. SumFunctionOnSet(g, Refs)
        = SumFunctionOnSet(f, Refs) - f[r] + g[r] - f[r2] + g[r2]
  BY <1>2, <1>3, SumChangeTwo, StoreAssumption
<1> QED BY <1>1, <1>4 DEF Net, f, g

\* No row says anything else than before.
LEMMA NetSame ==
  ASSUME NEW a, \A q \in Refs : Effect(log'[q], a) = Effect(log[q], a)
  PROVE  Net(a)' = Net(a)
<1> DEFINE f == Effects(a)
           g == Effects(a)'
<1>1. \A q \in Refs : f[q] = g[q]
  BY DEF Effects
<1> HIDE DEF f, g
<1>2. SumFunctionOnSet(f, Refs) = SumFunctionOnSet(g, Refs)
  BY <1>1, SumSame, StoreAssumption
<1> QED BY <1>2 DEF Net, f, g

LEMMA NetType ==
  ASSUME StoreTypeOK, NEW a
  PROVE  Net(a) \in Int
<1> DEFINE f == Effects(a)
<1>1. \A q \in Refs : f[q] = Effect(log[q], a) /\ log[q] \in Row \cup {NoRow}
  BY DEF Effects, StoreTypeOK
<1> HIDE DEF f
<1>2. \A q \in Refs : f[q] \in Int
  BY <1>1, EffectType
<1> QED BY <1>2, SumIsInt, StoreAssumption DEF Net, f

LEMMA NetTypeAfter ==
  ASSUME StoreTypeOK', NEW a
  PROVE  Net(a)' \in Int
<1> DEFINE f == Effects(a)'
<1>1. \A q \in Refs : f[q] = Effect(log'[q], a) /\ log'[q] \in Row \cup {NoRow}
  BY DEF Effects, StoreTypeOK
<1> HIDE DEF f
<1>2. \A q \in Refs : f[q] \in Int
  BY <1>1, EffectType
<1> QED BY <1>2, SumIsInt, StoreAssumption DEF Net, f

LEMMA BalanceInit == StoreInit => BalanceMatchesLedger
<1> SUFFICES ASSUME StoreInit, NEW a \in Assets PROVE balance[a] = Opening[a] + Net(a)
  BY DEF BalanceMatchesLedger
<1> DEFINE f == Effects(a)
<1>1. \A q \in Refs : f[q] = 0
  BY DEF Effects, Effect, StoreInit
<1> HIDE DEF f
<1>2. SumFunctionOnSet(f, Refs) = 0
  BY <1>1, SumZero, StoreAssumption
<1> QED BY <1>2, StoreAssumption DEF StoreInit, Net, f

\* The balances change by what the log says they do.
Explained == \A a \in Assets : balance'[a] = balance[a] + (Net(a)' - Net(a))

LEMMA Unmoved ==
  ASSUME StoreTypeOK, UNCHANGED <<balance, log>>
  PROVE  Explained
<1> SUFFICES ASSUME NEW a \in Assets
             PROVE  balance'[a] = balance[a] + (Net(a)' - Net(a))
  BY DEF Explained
<1> DEFINE n == Net(a)
<1>1. Net(a)' = n
  BY NetSame
<1>2. n \in Int /\ balance[a] \in Int
  BY NetType DEF StoreTypeOK
<1> HIDE DEF n
<1>3. balance'[a] = balance[a] + (n - n)
  BY <1>2
<1> QED BY <1>1, <1>3 DEF n

\* A step that the log explains keeps them together.
LEMMA BalanceKept ==
  ASSUME StoreTypeOK, StoreTypeOK', BalanceMatchesLedger, Explained
  PROVE  BalanceMatchesLedger'
<1> SUFFICES ASSUME NEW a \in Assets PROVE balance'[a] = Opening[a] + Net(a)'
  BY DEF BalanceMatchesLedger
<1> DEFINE m == Net(a)'
           n == Net(a)
<1>1. balance[a] = Opening[a] + n /\ Opening[a] \in Int
  BY StoreAssumption DEF BalanceMatchesLedger
<1>2. balance'[a] = balance[a] + (m - n)
  BY DEF Explained
<1>3. n \in Int
  BY NetType
<1>4. m \in Int
  BY NetTypeAfter
<1> HIDE DEF m, n
<1>5. balance'[a] = Opening[a] + m
  BY <1>1, <1>2, <1>3, <1>4
<1> QED BY <1>5 DEF m

\* A batch that moves as much as the log's change says is explained by it.
LEMMA CommitExplained ==
  ASSUME StoreTypeOK, NEW s \in Sessions, Commit(s),
         \A a \in Assets :
           Net(a)' = Net(a) - batch[s].debit[a] + batch[s].credit[a]
  PROVE  Explained
<1> SUFFICES ASSUME NEW a \in Assets
             PROVE  balance'[a] = balance[a] + (Net(a)' - Net(a))
  BY DEF Explained
<1> DEFINE d == batch[s].debit[a]
           c == batch[s].credit[a]
           n == Net(a)
<1>1. d \in Nat /\ c \in Nat
  BY DEF Commit, StoreTypeOK, Batch
<1>2. balance[a] \in Int
  BY DEF StoreTypeOK
<1>3. balance'[a] = balance[a] - d + c
  BY DEF Commit
<1>4. Net(a)' = n - d + c
  OBVIOUS
<1>5. n \in Int
  BY NetType
<1> HIDE DEF d, c, n
<1>6. balance'[a] = balance[a] + ((n - d + c) - n)
  BY <1>1, <1>2, <1>3, <1>5
<1> QED BY <1>4, <1>6 DEF n

LEMMA SuccessRowFacts ==
  ASSUME NEW a \in Assets, NEW x \in Nat, NEW leg \in Legs
  PROVE  /\ SuccessRow(a, x, leg) # NoRow
         /\ \A d : Effect(SuccessRow(a, x, leg), d) =
              IF a # d THEN 0
              ELSE IF leg \in {"WITHDRAWAL", "OUT", "DEBIT"} THEN - x ELSE x
<1>1. SuccessRow(a, x, leg) # NoRow
  BY StoreAssumption DEF SuccessRow, Row
<1> QED BY <1>1 DEF Effect, Signed, SuccessRow

LEMMA NoRowEffect == \A a : Effect(NoRow, a) = 0
BY DEF Effect

\* A committed deposit credits what its row says.
LEMMA DepositBalances ==
  ASSUME StoreTypeOK, StoreTypeOK', NEW s \in Sessions, Commit(s),
         NEW d \in Assets, NEW x \in Nat, NEW r \in Refs, batch[s] = Deposit(d, x, r)
  PROVE  Explained
<1> DEFINE row == SuccessRow(d, x, "DEPOSIT")
<1>1. row # NoRow /\ \A a : Effect(row, a) = IF d # a THEN 0 ELSE x
  BY SuccessRowFacts DEF Legs
<1>2. /\ batch[s].rows = [NoRows EXCEPT ![r] = row]
      /\ batch[s].fail = {}
      /\ \A a \in Assets : /\ batch[s].debit[a] = 0
                           /\ batch[s].credit[a] = IF a = d THEN x ELSE 0
  BY DEF Deposit, Amount, NoAmount
<1> HIDE DEF row
<1>3. log[r] = NoRow
  BY <1>1, <1>2 DEF Commit, UniqueViolation, Written, NoRows
<1>4. log'[r] = row /\ \A q \in Refs : q # r => log'[q] = log[q]
  BY <1>1, <1>2 DEF Commit, NoRows
<1>5. \A a \in Assets : Net(a)' = Net(a) - Effect(log[r], a) + Effect(log'[r], a)
  BY <1>4, NetOne
<1>6. ASSUME NEW a \in Assets
      PROVE  Net(a)' = Net(a) - batch[s].debit[a] + batch[s].credit[a]
  <2>1. Net(a)' = Net(a) - 0 + Effect(row, a)
    BY <1>3, <1>4, <1>5, NoRowEffect
  <2>2. batch[s].debit[a] = 0 /\ batch[s].credit[a] = Effect(row, a)
    BY <1>1, <1>2
  <2> QED BY <2>1, <2>2
<1> QED BY <1>6, CommitExplained

\* A committed exchange debits and credits what its two rows say.
LEMMA ExchangeBalances ==
  ASSUME StoreTypeOK, StoreTypeOK', NEW s \in Sessions, Commit(s),
         NEW d \in Assets, NEW x \in Nat, NEW r \in Refs, NEW leg \in {"OUT", "DEBIT"},
         NEW d2 \in Assets, NEW x2 \in Nat, NEW r2 \in Refs,
         NEW leg2 \in {"IN", "CREDIT"}, r # r2,
         batch[s] = Exchange(d, x, r, leg, d2, x2, r2, leg2)
  PROVE  Explained
<1> DEFINE row == SuccessRow(d, x, leg)
           row2 == SuccessRow(d2, x2, leg2)
<1>1. /\ row # NoRow /\ \A a : Effect(row, a) = IF d # a THEN 0 ELSE - x
      /\ row2 # NoRow /\ \A a : Effect(row2, a) = IF d2 # a THEN 0 ELSE x2
  BY SuccessRowFacts DEF Legs
<1>2. /\ batch[s].rows = [NoRows EXCEPT ![r] = row, ![r2] = row2]
      /\ batch[s].fail = {}
      /\ \A a \in Assets : /\ batch[s].debit[a] = (IF a = d THEN x ELSE 0)
                           /\ batch[s].credit[a] = (IF a = d2 THEN x2 ELSE 0)
  BY DEF Exchange, Amount, NoAmount
<1> HIDE DEF row, row2
<1>3. log[r] = NoRow /\ log[r2] = NoRow
  BY <1>1, <1>2 DEF Commit, UniqueViolation, Written, NoRows
<1>4. /\ log'[r] = row /\ log'[r2] = row2
      /\ \A q \in Refs : q # r /\ q # r2 => log'[q] = log[q]
  BY <1>1, <1>2 DEF Commit, NoRows
<1>5. \A a \in Assets :
        Net(a)' = Net(a) - Effect(log[r], a) + Effect(log'[r], a)
                         - Effect(log[r2], a) + Effect(log'[r2], a)
  BY <1>4, NetTwo
<1>6. ASSUME NEW a \in Assets
      PROVE  Net(a)' = Net(a) - batch[s].debit[a] + batch[s].credit[a]
  <2>1. Net(a)' = Net(a) - 0 + Effect(row, a) - 0 + Effect(row2, a)
    BY <1>3, <1>4, <1>5, NoRowEffect
  <2>2. Effect(row, a) = - batch[s].debit[a] /\ Effect(row2, a) = batch[s].credit[a]
    BY <1>1, <1>2
  <2>3. batch[s].debit[a] \in Nat /\ batch[s].credit[a] \in Nat
    BY <1>2
  <2>4. Net(a) \in Int
    BY NetType
  <2> QED BY <2>1, <2>2, <2>3, <2>4
<1> QED BY <1>6, CommitExplained
=============================================================================
