------------------------------- MODULE PromoRedeem -----------------------------
(***************************************************************************)
(* The redeeming of a promo code, scripts/promos.js: a worker derives the  *)
(* key, the balance is checked, a tap on the gift sweeps the coins.  Taps  *)
(* and checks overlap, and share one wallet, cPromoWallet.                 *)
(***************************************************************************)
EXTENDS Integers, FiniteSets

CONSTANTS
  Gifts,       \* the codes that are redeemed
  NoGift,
  Taps,        \* bound: the taps on the gift
  MaxRedeems   \* bound: the calls of redeemPromoCode

VARIABLES
  funds,       \* the codes whose address still holds coins
  promoThread, \* the code the worker derives
  cPromoWallet,  \* the wallet of the last code that was derived
  checks,      \* codes whose balance is awaited
  sweeps,      \* the taps: where each sweep is, and the code it sweeps
  box,         \* the input box and the button are shown
  results,     \* what is told of which code
  timers,      \* resets that are due
  redeems      \* codes entered

NoResult == <<"none", NoGift>>
NoSweep == [pc |-> "idle", code |-> NoGift]

RedeemInit ==
  /\ funds \in SUBSET Gifts
  /\ promoThread = NoGift /\ cPromoWallet = NoGift
  /\ checks = {} /\ sweeps = [t \in Taps |-> NoSweep]
  /\ box = TRUE /\ results = NoResult /\ timers = 0 /\ redeems = 0

resetRedeemPromo == cPromoWallet' = NoGift /\ timers' = timers + 1

-----------------------------------------------------------------------------
redeemPromoCode(code) ==
  /\ box /\ promoThread = NoGift
  /\ redeems < MaxRedeems /\ redeems' = redeems + 1
  /\ promoThread' = code
  /\ box' = FALSE
  /\ UNCHANGED <<funds, cPromoWallet, checks, sweeps, results, timers>>

\* The key is derived: the wallet is made, and its balance is asked for.
Unwrapped ==
  /\ promoThread # NoGift /\ promoThread' = NoGift
  /\ cPromoWallet' = promoThread
  /\ checks' = checks \cup {promoThread}
  /\ UNCHANGED <<funds, sweeps, box, results, timers, redeems>>

\* The balance is here, or its request failed and nothing is told.
Verified(code) ==
  /\ code \in checks /\ checks' = checks \ {code}
  /\ \/ /\ code \in funds
        /\ results' = <<"verified", code>>
        /\ UNCHANGED <<cPromoWallet, timers>>
     \/ /\ code \notin funds
        /\ results' = <<"no balance", code>>
        /\ resetRedeemPromo
     \/ UNCHANGED <<results, cPromoWallet, timers>>
  /\ UNCHANGED <<funds, promoThread, sweeps, box, redeems>>

-----------------------------------------------------------------------------
\* A tap on the gift: the coins are asked for, past the lock of other requests.
sweepPromoCode(t) ==
  /\ ~box /\ sweeps[t].pc = "idle" /\ cPromoWallet # NoGift
  /\ sweeps' = [sweeps EXCEPT ![t] = [pc |-> "coins", code |-> cPromoWallet]]
  /\ UNCHANGED <<funds, promoThread, cPromoWallet, checks, box, results, timers, redeems>>

\* getUTXOs(true) ends: the sweep is signed and sent, or the request fails.
Swept(t) ==
  /\ sweeps[t].pc = "coins"
  /\ sweeps' = [sweeps EXCEPT ![t].pc = "sending"] \/ sweeps' = [sweeps EXCEPT ![t].pc = "ended"]
  /\ UNCHANGED <<funds, promoThread, cPromoWallet, checks, box, results, timers, redeems>>

\* Telling of a success needs the balance of cPromoWallet: it throws when
\* another call has reset it meanwhile.
Told(result, code) ==
  IF result = "redeemed" /\ cPromoWallet = NoGift
  THEN UNCHANGED <<results, cPromoWallet, timers>>
  ELSE results' = <<result, code>> /\ resetRedeemPromo

\* sweepAddress ends: the network took the sweep and said so, took it and its
\* answer was lost, or refused it.
SweepEnds(t) ==
  LET code == sweeps[t].code
  IN /\ sweeps[t].pc = "sending"
     /\ sweeps' = [sweeps EXCEPT ![t].pc = "ended"]
     /\ \/ /\ code \in funds
           /\ funds' = funds \ {code}
           /\ \E result \in {"redeemed", "claimed"} : Told(result, code)
        \/ Told("claimed", code) /\ UNCHANGED funds
     /\ UNCHANGED <<promoThread, checks, box, redeems>>

\* The timeout of resetRedeemPromo.
ResetFires ==
  /\ timers > 0 /\ timers' = timers - 1
  /\ box' = TRUE /\ results' = NoResult
  /\ UNCHANGED <<funds, promoThread, cPromoWallet, checks, sweeps, redeems>>

\* Someone else redeems a code.
Claimed ==
  /\ \E code \in funds : funds' = funds \ {code}
  /\ UNCHANGED <<promoThread, cPromoWallet, checks, sweeps, box, results, timers, redeems>>

RedeemNext ==
  \/ \E code \in Gifts : redeemPromoCode(code) \/ Verified(code)
  \/ Unwrapped \/ ResetFires \/ Claimed
  \/ \E t \in Taps : sweepPromoCode(t) \/ Swept(t) \/ SweepEnds(t)

-----------------------------------------------------------------------------
\* Whenever the input box is hidden something is under way that shows it again,
\* or a wallet is loaded that can be swept: whatever fails, redeeming goes on.
BoxReturns == ~box => promoThread # NoGift \/ cPromoWallet # NoGift \/ timers > 0
=============================================================================
