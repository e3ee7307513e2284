----------------------------- MODULE MCBankServer -----------------------------
(***************************************************************************)
(* An instance of BankServer for TLC: three connections.                   *)
(***************************************************************************)
EXTENDS BankServer

CONSTANTS a, b, c
===============================================================================
