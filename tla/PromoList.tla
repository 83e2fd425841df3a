-------------------------------- MODULE PromoList ------------------------------
(***************************************************************************)
(* The list of the stored promo codes, scripts/promos.js: each rendering   *)
(* asks for the coins of every code without awaiting them, and shows what  *)
(* the last answers said.  fLock keeps the requests of one code apart.     *)
(*                                                                         *)
(* What a code holds is a version: nothing known, funded, swept.  The      *)
(* explorer is external; its answers are true when it makes them.          *)
(***************************************************************************)
EXTENDS Integers, FiniteSets

CONSTANTS
  StoredCodes,    \* the codes of the object store
  NoPromo,
  MaxListings     \* bound: renderings of the list

VARIABLES
  chain,          \* external: the version of each code
  aged,           \* codes older than three minutes
  arrPromoCodes,  \* the codes in memory
  flights,        \* requests: each with its answer once the explorer made it
  heard,          \* history: the latest version an answer told of each code
  rows,           \* the list as it is shown: the version, and whether it can be deleted
  listings        \* renderings so far

listVars == <<chain, aged, arrPromoCodes, flights, heard, rows, listings>>

Nothing == 0
Funded == 1
Emptied == 2
Unmade == -1

ListInit ==
  /\ chain = [c \in StoredCodes |-> Nothing] /\ aged = {}
  /\ arrPromoCodes = [c \in StoredCodes |-> NoPromo]
  /\ flights = {} /\ heard = [c \in StoredCodes |-> Nothing]
  /\ rows = [c \in StoredCodes |-> NoPromo] /\ listings = 0

InMemory == {c \in StoredCodes : arrPromoCodes[c] # NoPromo}
Promo(c) == IF c \in InMemory THEN arrPromoCodes[c] ELSE [fLock |-> FALSE, fSynced |-> FALSE, utxos |-> Nothing]

\* getBalance(true): of the coins of the last answer.
getBalance(promo) == promo.utxos

\* getUTXOs(false) does nothing while another one awaits its answer.
MaySync(promo) == ~promo.fLock

\* fCannotDelete
fCannotDelete(c) == ~Promo(c).fSynced \/ c \notin aged \/ getBalance(Promo(c)) = Funded

\* renderSavedPromos
renderSavedPromos ==
  /\ listings < MaxListings /\ listings' = listings + 1
  /\ arrPromoCodes' = [c \in StoredCodes |-> IF MaySync(Promo(c)) THEN [Promo(c) EXCEPT !.fLock = TRUE] ELSE Promo(c)]
  /\ flights' = flights \cup {[code |-> c, number |-> listings, answer |-> Unmade] : c \in {d \in StoredCodes : MaySync(Promo(d))}}
  /\ rows' = [c \in StoredCodes |-> [balance |-> getBalance(Promo(c)), deletable |-> ~fCannotDelete(c)]]
  /\ UNCHANGED <<chain, aged, heard>>

\* The explorer makes its answer.
Answers(f) ==
  /\ f.answer = Unmade
  /\ flights' = (flights \ {f}) \cup {[f EXCEPT !.answer = chain[f.code]]}
  /\ UNCHANGED <<chain, aged, arrPromoCodes, heard, rows, listings>>

\* It arrives: getUTXOs ends.
Synced(f) ==
  /\ f.answer # Unmade /\ flights' = flights \ {f}
  /\ arrPromoCodes' = [arrPromoCodes EXCEPT ![f.code] = [fLock |-> FALSE, fSynced |-> TRUE, utxos |-> f.answer]]
  /\ heard' = [heard EXCEPT ![f.code] = IF f.answer > @ THEN f.answer ELSE @]
  /\ UNCHANGED <<chain, aged, rows, listings>>

\* The request fails, and nothing releases fLock.
Fails(f) ==
  /\ flights' = flights \ {f}
  /\ UNCHANGED <<chain, aged, arrPromoCodes, heard, rows, listings>>

\* The explorer hears of the funding and of the sweep of a code; it grows old.
World ==
  /\ \/ \E c \in StoredCodes : chain[c] < Emptied /\ chain' = [chain EXCEPT ![c] = @ + 1] /\ UNCHANGED aged
     \/ \E c \in StoredCodes \ aged : aged' = aged \cup {c} /\ UNCHANGED chain
  /\ UNCHANGED <<arrPromoCodes, flights, heard, rows, listings>>

ListNext ==
  \/ renderSavedPromos \/ World
  \/ \E f \in flights : Answers(f) \/ Synced(f) \/ Fails(f)

-----------------------------------------------------------------------------
\* promosToCSV
promosToCSV == {[code |-> c, remaining |-> getBalance(arrPromoCodes[c])] : c \in InMemory}

\* What is exported never goes back to what an earlier request was told: "a lock
\* to prevent this Promo from synchronisation races" (promos.js:58), however
\* requests fail and the renderings follow each other.
ListIsLatest == \A row \in promosToCSV : row.remaining = heard[row.code]
=============================================================================
