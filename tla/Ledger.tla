------------------------------- MODULE Ledger -------------------------------
(***************************************************************************)
(* What the payment API promises about money, whatever handler, queue or   *)
(* retry moves it: every change of a balance is explained by entries of    *)
(* the transaction log, a reference is posted at most once, and no account *)
(* is ever overdrawn.  The component modules are shown to implement this   *)
(* specification; nothing here is specific to Redis, Prisma or HTTP.       *)
(***************************************************************************)
EXTENDS Integers

CONSTANTS Accounts,   \* (wallet, currency) pairs
          Refs,       \* values of Transaction.reference
          NoEntry     \* a reference nothing was posted under

VARIABLES bal,        \* bal[a]: the balance of account a
          entry       \* entry[r]: what was posted under reference r

ledgerVars == <<bal, entry>>

State == {"open", "settled", "void"}

Entry == [account : Accounts, delta : Int, state : State]

LedgerTypeOK == /\ bal \in [Accounts -> Nat]
                /\ entry \in [Refs -> Entry \cup {NoEntry}]

Init == /\ bal \in [Accounts -> Nat]
        /\ entry = [r \in Refs |-> NoEntry]

\* What entry e contributes to account a.
Share(e, a) == IF e.account = a THEN e.delta ELSE 0

Solvent == \A a \in Accounts : bal'[a] >= 0

Unposted(r) == entry[r] = NoEntry

\* A single movement: a deposit, or a withdrawal that is still open.
PostOne(r) ==
  /\ Unposted(r)
  /\ entry'[r] \in [account : Accounts, delta : Int, state : {"open", "settled"}]
  /\ entry' = [entry EXCEPT ![r] = entry'[r]]
  /\ bal' = [a \in Accounts |-> bal[a] + Share(entry'[r], a)]
  /\ Solvent

\* A double entry: one debit leg and one credit leg, in one step.
PostPair(r, s) ==
  /\ r # s
  /\ Unposted(r) /\ Unposted(s)
  /\ {entry'[r], entry'[s]} \subseteq
        [account : Accounts, delta : Int, state : {"settled"}]
  /\ entry'[r].delta <= 0 /\ 0 <= entry'[s].delta
  /\ entry' = [entry EXCEPT ![r] = entry'[r], ![s] = entry'[s]]
  /\ bal' = [a \in Accounts |->
               bal[a] + Share(entry'[r], a) + Share(entry'[s], a)]
  /\ Solvent

\* An open entry is confirmed.
Settle(r) ==
  /\ ~ Unposted(r) /\ entry[r].state = "open"
  /\ entry' = [entry EXCEPT ![r].state = "settled"]
  /\ UNCHANGED bal

\* An entry is cancelled and its amount goes back, once.
Void(r) ==
  /\ ~ Unposted(r) /\ entry[r].state # "void"
  /\ entry' = [entry EXCEPT ![r].state = "void"]
  /\ bal' = [a \in Accounts |-> bal[a] - Share(entry[r], a)]
  /\ Solvent

Next == \E r \in Refs : \/ PostOne(r)
                        \/ Settle(r)
                        \/ Void(r)
                        \/ \E s \in Refs : PostPair(r, s)

Spec == Init /\ [][Next]_ledgerVars
=============================================================================
