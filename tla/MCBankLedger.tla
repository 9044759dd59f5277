---------------------------- MODULE MCBankLedger ----------------------------
(* Instances of BankLedger for TLC. *)
EXTENDS BankLedger, TLC

CONSTANTS checking, omnibus

MCAccounts == {checking, omnibus}
MCSeedCurrent == checking :> 4 @@ omnibus :> 3
MCSeedAvailable == checking :> 3 @@ omnibus :> 3
=============================================================================
