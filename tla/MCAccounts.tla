----------------------------- MODULE MCAccounts -----------------------------
(***************************************************************************)
(* An instance of Accounts for TLC: ada is registered and signed in, ben   *)
(* registers, and the two may draw the same account number.  Two requests  *)
(* are tabs of ada's browser, a third one comes from another browser.      *)
(***************************************************************************)
EXTENDS Accounts

Tabs == [s \in Sessions |-> IF s = "s3" THEN "phone" ELSE "laptop"]

AdaOnly == [e \in Emails |-> IF e = "ada" THEN 1 ELSE NoNumber]

AdaSignedIn ==
  [b \in Browsers |->
     IF b = "laptop" THEN [user |-> "ada", issued |-> 0] ELSE NoToken]
=============================================================================
