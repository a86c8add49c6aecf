--------------------------- MODULE MCWalletService ---------------------------
(***************************************************************************)
(* Small instances of WalletService.  Two wallets; both have naira, nobody *)
(* has dollars yet, so that a swap to dollars inserts the asset row.  The  *)
(* key k2 is the key k1 followed by "-OUT": the deposit under k2 and the   *)
(* debit leg of the swap under k1 want the same reference.                 *)
(***************************************************************************)
EXTENDS WalletService

CONSTANTS alice, bob, naira, dollars, k1, k2, p1, p2

MCRefs == Keys \X KeyLegs

MCRefOf ==
  [x \in Keys \X KeyLegs |->
     IF x = <<k2, "DEPOSIT">> THEN <<k1, "OUT">> ELSE x]

MCOpenAssets == {<<alice, naira>>, <<bob, naira>>}

MCOpening ==
  [a \in {alice, bob} \X {naira, dollars} |->
     CASE a = <<alice, naira>> -> 2
       [] a = <<bob, naira>> -> 1
       [] OTHER -> 0]

Fund(k, w, x) ==
  [op |-> "fund", key |-> k, from |-> <<w, naira>>, to |-> <<w, naira>>,
   amount |-> x]

Swap(k, w, x) ==
  [op |-> "swap", key |-> k, from |-> <<w, naira>>, to |-> <<w, dollars>>,
   amount |-> x]

Transfer(k, w, v, x) ==
  [op |-> "transfer", key |-> k, from |-> <<w, naira>>, to |-> <<v, naira>>,
   amount |-> x]

\* Every operation, under both keys where the keys matter, among them two
\* transfers in opposite directions.
AllCalls ==
  {Fund(k2, alice, 1), Swap(k1, alice, 1), Swap(k2, alice, 2),
   Transfer(k1, alice, bob, 2), Transfer(k2, bob, alice, 1),
   Transfer(k1, alice, alice, 1)}
=============================================================================
