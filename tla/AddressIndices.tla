---------------------------- MODULE AddressIndices -----------------------------
(***************************************************************************)
(* The addresses of the legacy wallet of scripts/wallet.js, on one of the  *)
(* chains of an account: which of them it gives out, and which it has      *)
(* derived and so would recognise in a transaction.                        *)
(*                                                                         *)
(* Reloads build the wallet anew and read the transactions again in the    *)
(* order of their blocks, which is taken to be the order they arrived in.  *)
(* An account with a single key has a single address and is left out.      *)
(***************************************************************************)
EXTENDS Integers, Sequences

CONSTANTS
  MAX_ACCOUNT_GAP,             \* 20
  MaxPayments, MaxReloads      \* bounds

\* The gap is an address at least.
ASSUME GapAssumption == MAX_ACCOUNT_GAP \in Nat \ {0}

VARIABLES
  addressIndex,    \* the address that is shown
  highestUsed,     \* the highest one a transaction paid
  loadedIndex,     \* how far addresses are thought to be derived
  ownAddresses,    \* those that are
  synced,
  given,           \* history: addresses that were shown to someone
  payments,        \* the addresses that were paid, in order
  handled,         \* how many of the payments the wallet has handled
  missed,          \* history: payments not recognised, and loadedIndex then
  reloads

addressVars ==
  <<addressIndex, highestUsed, loadedIndex, ownAddresses, synced, given, payments, handled,
    missed, reloads>>

\* The constructor: setMasterKey() derives the first addresses and notes how many;
\* the indices are then set to zero, but the addresses are there.
New ==
  /\ addressIndex' = 0 /\ highestUsed' = 0 /\ loadedIndex' = 0
  /\ ownAddresses' = 0 .. MAX_ACCOUNT_GAP
  /\ synced' = FALSE /\ handled' = 0 /\ missed' = {}

AddressesInit ==
  /\ addressIndex = 0 /\ highestUsed = 0 /\ loadedIndex = 0
  /\ ownAddresses = 0 .. MAX_ACCOUNT_GAP
  /\ synced = FALSE /\ handled = 0 /\ missed = {}
  /\ given = {} /\ payments = <<>> /\ reloads = 0

Larger(m, n) == IF m > n THEN m ELSE n

\* Mistake: one address more than the gap is given out.
NextIndexPastGap ==
  LET next == Larger(addressIndex, highestUsed) + 1 IN
  IF next - highestUsed > MAX_ACCOUNT_GAP + 1 THEN highestUsed ELSE next
\* getNewAddress: after too many unused ones, the last used one again.
NextIndex ==
  LET next == Larger(addressIndex, highestUsed) + 1 IN
  IF next - highestUsed > MAX_ACCOUNT_GAP THEN highestUsed ELSE next

GetNewAddress ==
  /\ addressIndex' = NextIndex /\ given' = given \cup {addressIndex'}
  /\ UNCHANGED <<highestUsed, loadedIndex, ownAddresses, synced, payments, handled, missed, reloads>>
GetCurrentAddress ==
  /\ given' = given \cup {addressIndex}
  /\ UNCHANGED <<addressIndex, highestUsed, loadedIndex, ownAddresses, synced, payments, handled,
                 missed, reloads>>

\* Somebody pays an address that was given out (external).
Pay ==
  /\ Len(payments) < MaxPayments
  /\ \E a \in given : payments' = Append(payments, a)
  /\ UNCHANGED <<addressIndex, highestUsed, loadedIndex, ownAddresses, synced, given, handled,
                 missed, reloads>>

IsOwnAddress(a) == a \in ownAddresses

\* #loadAddresses: from the last one loaded on.
LoadAddresses ==
  /\ ownAddresses' = ownAddresses \cup loadedIndex .. loadedIndex + MAX_ACCOUNT_GAP
  /\ loadedIndex' = loadedIndex + MAX_ACCOUNT_GAP

\* #updateHighestUsedIndex: an address of ours moves the window.
UpdateHighestUsedIndex(a) ==
  IF ~IsOwnAddress(a) THEN UNCHANGED <<highestUsed, loadedIndex, ownAddresses>>
  ELSE /\ highestUsed' = Larger(a, highestUsed)
       /\ IF highestUsed' + MAX_ACCOUNT_GAP >= loadedIndex THEN LoadAddresses
          ELSE UNCHANGED <<loadedIndex, ownAddresses>>

UpdateCurrentAddress(index, used) == IF index <= used THEN used + 1 ELSE index

\* addTransaction: the output is ours if it is known once the indices moved.
AddTransaction ==
  /\ handled < Len(payments) /\ handled' = handled + 1
  /\ LET a == payments[handled + 1] IN
     /\ UpdateHighestUsedIndex(a)
     /\ missed' = IF a \in ownAddresses' THEN missed
                  ELSE missed \cup {[address |-> a, loaded |-> loadedIndex]}
  /\ addressIndex' = IF synced THEN UpdateCurrentAddress(addressIndex, highestUsed') ELSE addressIndex
  /\ UNCHANGED <<synced, given, payments, reloads>>

\* The end of sync().
Synced ==
  /\ ~synced /\ handled = Len(payments) /\ synced' = TRUE
  /\ addressIndex' = UpdateCurrentAddress(addressIndex, highestUsed)
  /\ UNCHANGED <<highestUsed, loadedIndex, ownAddresses, given, payments, handled, missed, reloads>>

ReloadAccount ==
  /\ reloads < MaxReloads /\ reloads' = reloads + 1
  /\ New /\ UNCHANGED <<given, payments>>

AddressesNext ==
  GetNewAddress \/ GetCurrentAddress \/ Pay \/ AddTransaction \/ Synced \/ ReloadAccount
AddressesSpec == AddressesInit /\ [][AddressesNext]_addressVars

-----------------------------------------------------------------------------
\* Properties

\* A payment to an address that was given out is recognised, now and after every
\* reload.  The one exception is while a wallet knows of one payment only: that one
\* loads the addresses the constructor had derived and then forgotten about.
GivenAreRecognised == \A m \in missed : m.loaded = MAX_ACCOUNT_GAP
=============================================================================
