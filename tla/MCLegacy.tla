-------------------------------- MODULE MCLegacy -------------------------------
(***************************************************************************)
(* Small instances of the legacy wallet: its synchronisation, its balances, *)
(* the networks it asks, the accounts it stores, its promos.  One part      *)
(* takes steps, the others rest.                                           *)
(***************************************************************************)
EXTENDS WalletSync, FiniteSetsExt

CONSTANTS Parts
\* Of the balances
CONSTANTS Coins, Worth, Kind, Rewards, coinbaseMaturity, MaxBlock, MaxRefreshes
ASSUME CoinsAssumption == IsFiniteSet(Coins) /\ Worth \in [Coins -> Nat]

\* Of the networks
CONSTANTS Explorers, Nodes, MaxCalls, maxTrials, MaxSwitches
ASSUME NetworksAssumption ==
  /\ Explorers \in Seq(STRING) /\ Nodes \in Seq(STRING)
  /\ IsInjective(Explorers) /\ IsInjective(Nodes)

\* Of the accounts
CONSTANTS Keys, Labels, Pubkeys, NoAccount, MaxEdits
\* Of the promos
CONSTANTS PromoCodes, CodeAmount, PROMO_FEE, hardwareConcurrency, Savings, Creations, Typed, Ticks, MaxMoves,
  StoredCodes, NoPromo, MaxListings, Gifts, NoGift, Taps, MaxRedeems
ASSUME PromosAssumption ==
  /\ Typed \subseteq [Creations -> PromoCodes]
  /\ NoPromo \notin [fLock : BOOLEAN, fSynced : BOOLEAN, utxos : Int]
  /\ NoGift \notin Gifts

VARIABLES
  part,
  pool, chainHeight, settling, display, refreshes,
  networks, current, explorerUrl, stored, writes, calls, filling, switches,
  accounts, active, lists, requests, dialog, edits,
  creation, creating, promosDB, paid, savings, locked, ticks, promoTimer, deleting, orderly, moves,
  funds, promoThread, cPromoWallet, checks, sweeps, box, results, timers, redeems,
  chain, aged, arrPromoCodes, flights, heard, rows, listings

Balance == INSTANCE Balances
Net == INSTANCE Networks
Records == INSTANCE AccountRecords
Promo == INSTANCE Promos
Gift == INSTANCE PromoRedeem
List == INSTANCE PromoList

balanceVars == <<pool, chainHeight, settling, display, refreshes>>
netVars == <<networks, current, explorerUrl, stored, writes, calls, filling, switches>>
promoVars ==
  <<creation, creating, promosDB, paid, savings, locked, ticks, promoTimer, deleting, orderly, moves>>
listVars == <<chain, aged, arrPromoCodes, flights, heard, rows, listings>>
giftVars == <<funds, promoThread, cPromoWallet, checks, sweeps, box, results, timers, redeems>>
accountVars == <<accounts, active, lists, requests, dialog, edits>>

-----------------------------------------------------------------------------
\* One transaction pays the wallet, another, which it may send itself, spends
\* what the first paid.
MCTxs == {"a", "b"}
MCSpends == [a |-> {}, b |-> {<<"a", 1>>}]
MCOutputs == [a |-> <<{"ours", "p2pkh"}>>, b |-> <<{}>>]
MCSendable == {"b"}

\* Two transactions that only pay the wallet.
MCIncome == [a |-> {}, b |-> {}]
MCPayments == [a |-> <<{"ours", "p2pkh"}>>, b |-> <<{"ours", "p2pkh"}>>]

\* A coin that anyone paid and a delegated one from a coinstake.
MCCoins == {"c", "d"}
MCWorth == [c |-> 1, d |-> 2]
MCKind == [c |-> "p2pkh", d |-> "p2cs"]

\* The same code twice, or two codes.
MCTyped == {<<"p", "p">>, <<"p", "q">>}

MCExplorers == <<"e1", "e2">>
MCNodes == <<"n1">>

-----------------------------------------------------------------------------
\* The accounts that are stored to begin with, when they take no part.
RestingAccounts ==
  Records!AccountsInit /\
    (part # "accounts" => active = (CHOOSE k \in Keys : TRUE) /\ \A k \in Keys : accounts[k] = NoAccount)

RestingPromos ==
  /\ Promo!PromosInit /\ (part # "promos" => locked = FALSE /\ creation[1].code = creation[2].code)
  /\ Gift!RedeemInit /\ (part # "redeem" => funds = {})
  /\ List!ListInit

LegacyInit ==
  /\ part \in Parts
  /\ Init /\ Balance!BalancesInit /\ Net!NetInit /\ RestingAccounts /\ RestingPromos

\* One part takes a step; the variables of the others.
Others(ofPart) ==
  /\ part = ofPart
  /\ UNCHANGED part
  /\ ofPart # "sync" => UNCHANGED vars
  /\ ofPart # "balances" => UNCHANGED balanceVars
  /\ ofPart # "networks" => UNCHANGED netVars
  /\ ofPart # "accounts" => UNCHANGED accountVars
  /\ ofPart # "promos" => UNCHANGED promoVars
  /\ ofPart # "redeem" => UNCHANGED giftVars
  /\ ofPart # "list" => UNCHANGED listVars

LegacyNext ==
  \/ Others("sync") /\ Next
  \/ Others("balances") /\ Balance!BalancesNext
  \/ Others("networks") /\ Net!NetNext
  \/ Others("accounts") /\ Records!AccountsNext
  \/ Others("promos") /\ Promo!PromosNext
  \/ Others("redeem") /\ Gift!RedeemNext
  \/ Others("list") /\ List!ListNext

LegacySpec ==
  LegacyInit /\ [][LegacyNext]_<<part, vars, balanceVars, netVars, accountVars, promoVars, giftVars, listVars>>

-----------------------------------------------------------------------------
CachedIsTrue == part = "balances" => Balance!CachedIsTrue
FailsOnlyAfterAll == part = "networks" => Net!FailsOnlyAfterAll
NamesAreUnique == part = "accounts" => Records!NamesAreUnique
SecretIsKept == Records!SecretIsKept
PromosAreKept ==
  /\ (part = "promos" => Promo!PromosAreKept)
  /\ (part = "redeem" => Gift!BoxReturns)
  /\ (part = "list" => List!ListIsLatest)
=============================================================================
