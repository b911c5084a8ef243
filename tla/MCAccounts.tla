------------------------------ MODULE MCAccounts ------------------------------
(* Instances of Accounts for TLC.                                          *)
EXTENDS Accounts, TLC

CONSTANTS root, ana, s1   \* two emails, and the account of Entra ID with one

MCEmailOf == s1 :> ana
=============================================================================
