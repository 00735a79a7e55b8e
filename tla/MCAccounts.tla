----------------------------- MODULE MCAccounts -----------------------------
(***************************************************************************)
(* Accounts for TLC: usernames are interchangeable, and so are passwords   *)
(* that are no usernames.                                                  *)
(***************************************************************************)
EXTENDS Accounts, TLC

Symmetry == Permutations(Usernames) \cup Permutations(Passwords)
=============================================================================
