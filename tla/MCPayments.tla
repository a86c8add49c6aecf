----------------------------- MODULE MCPayments -----------------------------
(***************************************************************************)
(* Instances of Payments for TLC.                                          *)
(***************************************************************************)
EXTENDS Payments

NGN == <<"alice", "NGN">>

Charge(r, x) == [kind |-> "charge", ref |-> r, asset |-> NGN, amount |-> x]

PayoutEvents(t) ==
  {[kind |-> k, ref |-> t] : k \in {"success", "failed", "reversed"}}

Charge1 == Charge("charge1", 1)
Charge2 == Charge("charge2", 2)

\* The codes of a withdrawal's two payouts; the reference of its transaction
\* is its name.
Code(w, n) == CASE w = "w1" /\ n = 1 -> "w1-1" [] w = "w1" /\ n = 2 -> "w1-2"
                [] w = "w2" /\ n = 1 -> "w2-1" [] w = "w2" /\ n = 2 -> "w2-2"
Moves   == [a \in Withdrawers \X {1, 2} |-> Code(a[1], a[2])]
WdrRows == [w \in Withdrawers |-> w]

Nothing == [a \in Wallets \X Currencies |-> 0]
Three   == [a \in Wallets \X Currencies |-> 3]
All     == Wallets \X Currencies
OneCharge  == {Charge1}
TwoCharges == {Charge1, Charge2}

\* Two card payments into a currency the wallet does not hold yet.
AskOne == [v \in Verifiers |-> Charge1]
AskTwo == [v \in Verifiers |-> IF v = "v1" THEN Charge1 ELSE Charge2]

\* Withdrawals; the webhooks are those of the first request's recorded payout.
WantTwo == [w \in Withdrawers |-> [asset |-> NGN, amount |-> 2]]
NoCodes == {}
GateOne == {"w1-1", "w1-2"}
GateTwo == GateOne \cup {"w2-1", "w2-2"}

WdrEvents == PayoutEvents("w1-2")

NoFaults      == {{}}
Restarts      == {{"crash", "shutdown"}}
HandlerFaults == {{"redis", "expiry"}}
=============================================================================
