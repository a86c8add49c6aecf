--------------------------- MODULE MCWebhookQueue ---------------------------
(***************************************************************************)
(* Instances of WebhookQueue for TLC.  A charge has a reference of its     *)
(* own; the events of one payout all carry the payout's reference.         *)
(***************************************************************************)
EXTENDS WebhookQueue

Charge(r) == [name |-> "charge", ref |-> r]
PayoutEvent(name) == [name |-> name, ref |-> "payout"]

TwoCharges == {Charge("charge1"), Charge("charge2")}
OnePayout  == {PayoutEvent("success"), PayoutEvent("reversed")}

HandlerFaults == {{"redis", "expiry"}}
Restarts      == {{"worker", "crash", "shutdown"}}
EitherFaults  == HandlerFaults \cup Restarts
NoFaults      == {{}}
=============================================================================
