----------------------------- MODULE MCSpending ------------------------------
(***************************************************************************)
(* Small instances of PQSpending.                                          *)
(***************************************************************************)
EXTENDS PQSpending, TLC

CoinSymmetry == Permutations(Coins)
=============================================================================
