------------------------------ MODULE MCCaches ------------------------------
(***************************************************************************)
(* Instances of Caches for TLC.  No operation touches the entries of two   *)
(* menus, so that they can be looked at one at a time.                     *)
(***************************************************************************)
EXTENDS Caches

\* Ada's wallet and history while she moves money and the worker does.
Money ==
  {Read("ada", Wallet("ada")), Read("ada", History("ada")),
   FundWallet("ada"), SwapFunds("ada"), WithdrawFunds("ada"),
   VerifyAndCredit("ada"),
   ChargeSuccess("ada"), TransferSuccess("ada"), TransferFailed("ada")}

\* Both sides of a transfer.
Exchanges ==
  {Read("ada", Wallet("ada")), Read("ada", History("ada")),
   Read("ben", Wallet("ben")), Read("ben", History("ben")),
   TransferFunds("ada", "ben")}

Profiles == {Read("ada", Profile("ada")), SetTransactionPin("ada")}

\* Two clients read the rates, or the banks, which change elsewhere.
ReadRates == {Read(u, Rates) : u \in Users} \cup {Elsewhere(Rates)}
ReadBanks == {Read(u, Banks) : u \in Users} \cup {Elsewhere(Banks)}

EachMenu == {Money, Exchanges, Profiles, ReadRates, ReadBanks}
=============================================================================
