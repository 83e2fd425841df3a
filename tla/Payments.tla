------------------------------- MODULE Payments --------------------------------
(***************************************************************************)
(* How both wallets make payments, and what the three computations promise *)
(* together: the choice of coins of the shipped wallet, createTransaction  *)
(* of the legacy wallet, and the addresses the legacy wallet gives out.    *)
(***************************************************************************)
EXTENDS PQCoinSelect, TransactionCreation, AddressIndices

PaymentsSpec == Spec /\ CreationSpec /\ AddressesSpec

\* A payment of either wallet is exact: a transaction of the legacy wallet pays
\* the fee of its final size, and what arrives is what was asked for, less the fee
\* that was to be taken; the page says that funds do not suffice only when no
\* choice of coins would have paid.  And the legacy wallet recognises what is paid
\* to an address it gave out, but for what GivenAreRecognised excepts.
PaymentsAreExact ==
  FeeIsPaid /\ AmountsArrive /\ InsufficientIsTrue /\ GivenAreRecognised
=============================================================================
