----------------------------- MODULE MCAccounts -----------------------------
(***************************************************************************)
(* A small instance of Accounts for TLC; the configuration gives every     *)
(* constant its value.                                                     *)
(***************************************************************************)
EXTENDS Accounts
=============================================================================
