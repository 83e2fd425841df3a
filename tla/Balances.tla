------------------------------- MODULE Balances -------------------------------
(***************************************************************************)
(* The balances of the mempool of scripts/mempool.js, with its caches, and *)
(* the copy that scripts/composables/use_wallet.js shows.                  *)
(*                                                                         *)
(* A balance is computed when it is asked for and cached until a status    *)
(* changes.  Coins of coinbase and coinstake transactions mature with the  *)
(* height of the chain, which is not part of the mempool.  refreshBalances *)
(* reads some balances before and one after it awaits the shield library.  *)
(***************************************************************************)
EXTENDS Integers, Sequences, FiniteSets, FiniteSetsExt

CONSTANTS
  Coins,           \* outputs of this wallet
  Worth, Kind,     \* what each is worth, and "p2pkh" or "p2cs"
  Rewards,         \* the coins that must mature
  coinbaseMaturity,
  MaxBlock, MaxRefreshes   \* bounds

VARIABLES
  pool,        \* the mempool: coins with their heights and states, and caches
  chainHeight, \* blockCount of global.js
  settling,    \* the wallet's listener of 'new-block' awaits the blocks
  display,       \* the balances the interface shows
  refreshes    \* the calls of refreshBalances that await, oldest first

balanceVars == <<pool, chainHeight, settling, display, refreshes>>

Invalid == -1
Names == {"balance", "coldBalance", "immatureBalance", "immatureColdBalance"}

BalancesTypeOK ==
  /\ pool.height \in [Coins -> Invalid .. MaxBlock]
  /\ pool.state \in [Coins -> SUBSET {"spent", "locked"}]
  /\ DOMAIN pool.cache = Names /\ DOMAIN display = Names
  /\ \A n \in Names : pool.cache[n] \in Int /\ display[n] \in Nat
  /\ chainHeight \in 0 .. MaxBlock /\ settling \in BOOLEAN
  /\ Len(refreshes) <= MaxRefreshes

BalancesInit ==
  /\ pool = [height |-> [c \in Coins |-> Invalid],
             state |-> [c \in Coins |-> {}],
             cache |-> [n \in Names |-> Invalid]]
  /\ chainHeight = 0 /\ settling = FALSE
  /\ display = [n \in Names |-> 0] /\ refreshes = <<>>

-----------------------------------------------------------------------------
\* The mempool m at height h of the chain.

IsImmature(m, h, c) == c \in Rewards /\ h - m.height[c] < coinbaseMaturity
Unspent(m) == {c \in Coins : m.height[c] # Invalid /\ m.state[c] = {}}

TotalWorth(coins) == MapThenSumSet(LAMBDA c : Worth[c], coins)

BalanceInternal(m, h, kinds, includeImmature) ==
  TotalWorth({c \in Unspent(m) : Kind[c] \in kinds
                                 /\ (includeImmature \/ ~IsImmature(m, h, c))})

\* Mistake: the balance of delegated coins is forgotten.
InvalidatedWithoutCold(m) ==
  [m EXCEPT !.cache.balance = Invalid, !.cache.immatureBalance = Invalid]

\* invalidateBalanceCache: the immature delegated coins are not among them.
Invalidated(m) ==
  [m EXCEPT !.cache.balance = Invalid, !.cache.coldBalance = Invalid,
            !.cache.immatureBalance = Invalid]

\* getOrUpdateInvalid
GetBalance(m, h) ==
  IF m.cache.balance # Invalid THEN m
  ELSE [m EXCEPT !.cache.balance = BalanceInternal(m, h, {"p2pkh"}, FALSE)]
GetColdBalance(m, h) ==
  IF m.cache.coldBalance # Invalid THEN m
  ELSE [m EXCEPT !.cache.coldBalance = BalanceInternal(m, h, {"p2cs"}, FALSE)]

\* What is left of the total: the two others are read through their caches.
GetImmatureBalance(m, h) ==
  IF m.cache.immatureBalance # Invalid THEN m
  ELSE LET n == GetColdBalance(GetBalance(m, h), h)
       IN  [n EXCEPT !.cache.immatureBalance =
              BalanceInternal(n, h, {"p2pkh", "p2cs"}, TRUE)
                - n.cache.balance - n.cache.coldBalance]

\* The delegated balance is asked for without a height: nothing is immature.
GetImmatureColdBalance(m, h) ==
  IF m.cache.immatureColdBalance # Invalid THEN m
  ELSE LET n == IF m.cache.coldBalance # Invalid THEN m
                ELSE [m EXCEPT !.cache.coldBalance =
                        BalanceInternal(m, h, {"p2cs"}, TRUE)]
       IN  [n EXCEPT !.cache.immatureColdBalance =
              BalanceInternal(n, h, {"p2cs"}, TRUE) - n.cache.coldBalance]

-----------------------------------------------------------------------------
\* refreshBalances: three balances are read at once.

ReadThree(m, h) == GetImmatureColdBalance(GetImmatureBalance(GetBalance(m, h), h), h)

Refresh(m, h) ==
  /\ Len(refreshes) < MaxRefreshes
  /\ pool' = ReadThree(m, h)
  /\ refreshes' = Append(refreshes, ReadThree(m, h).cache)

\* The shield library answers in the order it was asked; the delegated
\* balance is read now.
Publish ==
  /\ refreshes # <<>>
  /\ pool' = GetColdBalance(pool, chainHeight)
  /\ display' = [Head(refreshes) EXCEPT !.coldBalance = pool'.cache.coldBalance]
  /\ refreshes' = Tail(refreshes)
  /\ UNCHANGED <<chainHeight, settling>>

-----------------------------------------------------------------------------
\* A transaction is added: it announces the balances.

Receive(c) ==
  /\ pool.height[c] = Invalid
  /\ Refresh(Invalidated([pool EXCEPT !.height[c] = chainHeight]), chainHeight)
  /\ UNCHANGED <<chainHeight, settling, display>>

Spend(c) ==
  /\ c \in Unspent(pool) /\ ~IsImmature(pool, chainHeight, c)
  /\ Refresh(Invalidated([pool EXCEPT !.state[c] = @ \cup {"spent"}]), chainHeight)
  /\ UNCHANGED <<chainHeight, settling, display>>

\* lockCoin and unlockCoin: the emitter they call is that of a mempool that
\* reset() has replaced by one with none.
LockCoin(c) ==
  /\ c \in Unspent(pool)
  /\ pool' = Invalidated([pool EXCEPT !.state[c] = @ \cup {"locked"}])
  /\ UNCHANGED <<chainHeight, settling, display, refreshes>>
UnlockCoin(c) ==
  /\ "locked" \in pool.state[c]
  /\ pool' = Invalidated([pool EXCEPT !.state[c] = @ \ {"locked"}])
  /\ UNCHANGED <<chainHeight, settling, display, refreshes>>

\* 'new-block': the wallet's listener awaits the blocks, and the interface
\* refreshes its copy before that has ended.
NewBlock ==
  /\ chainHeight < MaxBlock /\ ~settling
  /\ chainHeight' = chainHeight + 1 /\ settling' = TRUE
  /\ Refresh(pool, chainHeight')
  /\ UNCHANGED display

\* The blocks are handled: invalidateBalanceCache, and 'new-tx'.
Settle ==
  /\ settling /\ settling' = FALSE
  /\ pool' = Invalidated(pool)
  /\ UNCHANGED <<chainHeight, display, refreshes>>

BalancesNext ==
  \/ \E c \in Coins : Receive(c) \/ Spend(c) \/ LockCoin(c) \/ UnlockCoin(c)
  \/ Publish \/ NewBlock \/ Settle
BalancesSpec == BalancesInit /\ [][BalancesNext]_balanceVars

-----------------------------------------------------------------------------
\* Properties

\* Whatever was received, spent, locked and read, and however blocks and reads
\* alternate, a balance in the cache is the one a new count would give, once
\* the listener of 'new-block' is done: no step leaves an old count behind.
CachedIsTrue ==
  ~settling =>
    LET Total(kinds, immature) == BalanceInternal(pool, chainHeight, kinds, immature)
    IN  /\ pool.cache.balance \in {Invalid, Total({"p2pkh"}, FALSE)}
        /\ pool.cache.coldBalance \in {Invalid, Total({"p2cs"}, FALSE)}
        /\ pool.cache.immatureBalance \in
             {Invalid, Total({"p2pkh", "p2cs"}, TRUE)
                         - Total({"p2pkh"}, FALSE) - Total({"p2cs"}, FALSE)}

=============================================================================
