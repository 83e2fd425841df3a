--------------------------------- MODULE Promos --------------------------------
(***************************************************************************)
(* The creation of promo codes, scripts/promos.js, with the promos of      *)
(* scripts/database.js.  A thread derives the key of a code; a tick, which *)
(* the timer and the handlers call, shows the list, pays the codes that    *)
(* are derived and stores those that are paid.  Ticks overlap at their     *)
(* awaits, and the list they walk over changes under them.                 *)
(***************************************************************************)
EXTENDS Integers, Sequences, FiniteSetsExt, SequencesExt

CONSTANTS
  PromoCodes,           \* codes long enough to get no random part
  CodeAmount, PROMO_FEE,
  hardwareConcurrency,
  Savings,              \* the balance to begin with
  Creations,            \* bound: the calls of createPromoCode
  Typed,                \* the codes that may be typed for them
  Ticks,                \* bound: the ticks that overlap
  MaxMoves              \* bound: deletions, locks, lost requests, visits of the list

VARIABLES
  creation,    \* the calls of createPromoCode, with the thread each one made
  creating,    \* arrPromoCreationThreads
  promosDB,    \* the codes of the object store
  paid,        \* payments to the address of each code
  savings,     \* the balance of the wallet
  locked,      \* activeWallet.isViewOnly()
  ticks,
  promoTimer,  \* the timeout of the recurring tick, and whether it was ever started
  deleting,    \* the calls of deletePromoCode that await the database
  orderly,     \* history: no two ticks overlapped, nothing was deleted
  moves        \* deletions, locks, lost requests and visits of the list so far

promoVars == <<creation, creating, promosDB, paid, savings, locked, ticks,
               promoTimer, deleting, orderly, moves>>

Thread(id) == creation[id]
CodesOf(ids) == {Thread(id).code : id \in ids}
Idle == [pc |-> "idle", from |-> "call", i |-> 0, id |-> 0]

PromosInit ==
  /\ \E typed \in Typed :
       creation = [id \in Creations |-> [pc |-> "idle", code |-> typed[id], key |-> FALSE, end_state |-> ""]]
  /\ creating = <<>> /\ promosDB = {}
  /\ paid = [c \in PromoCodes |-> 0] /\ savings = Savings
  /\ locked \in BOOLEAN
  /\ ticks = [t \in Ticks |-> Idle] /\ promoTimer = "never"
  /\ deleting = {} /\ orderly = TRUE /\ moves = 0

-----------------------------------------------------------------------------
\* Ticks begin

Moves == moves < MaxMoves /\ moves' = moves + 1
FreeTick(t) == ticks[t].pc = "idle"

\* updatePromoCreationTick and setPromoMode(false) first await renderSavedPromos.
BeginTick(t, from) ==
  /\ FreeTick(t)
  /\ ticks' = [ticks EXCEPT ![t] = [Idle EXCEPT !.pc = "rendering", !.from = from]]
  /\ orderly' = (orderly /\ \A u \in Ticks : FreeTick(u))

setPromoMode(t) ==
  /\ Moves /\ FreeTick(t) /\ \A u \in Ticks : ticks[u].from # "mode"
  /\ ticks' = [ticks EXCEPT ![t] = [Idle EXCEPT !.pc = "listing", !.from = "mode"]]
  /\ UNCHANGED <<creation, creating, promosDB, paid, savings, locked, promoTimer,
                 deleting, orderly>>

TimerFires(t) ==
  /\ promoTimer = "due" /\ promoTimer' = "started"
  /\ BeginTick(t, "timer")
  /\ UNCHANGED <<creation, creating, promosDB, paid, savings, locked, deleting, moves>>

-----------------------------------------------------------------------------
\* createPromoCode and deletePromoCode

\* What the codes that are being made will take; not their fees.
nReservedBalance == Len(creating) * CodeAmount

createPromoCode(id) ==
  /\ creation[id].pc = "idle"
  /\ Len(creating) < hardwareConcurrency
  /\ savings - nReservedBalance >= CodeAmount + 2 * PROMO_FEE
  /\ creation' = [creation EXCEPT ![id].pc = "checking"]
  /\ UNCHANGED <<creating, promosDB, paid, savings, locked, ticks, promoTimer,
                 deleting, orderly, moves>>

AlreadyStored(id) == Thread(id).code \in promosDB
AlreadyCreated(id) == AlreadyStored(id) \/ Thread(id).code \in CodesOf(Range(creating))

\* The codes of the database are here: the threads are read with them.
Checked(id, t) ==
  /\ creation[id].pc = "checking"
  /\ \/ /\ AlreadyCreated(id)
        /\ creation' = [creation EXCEPT ![id].pc = "refused"]
        /\ UNCHANGED <<creating, ticks, orderly>>
     \/ /\ ~AlreadyCreated(id)
        /\ creation' = [creation EXCEPT ![id].pc = "deriving"]
        /\ creating' = Append(creating, id)
        /\ BeginTick(t, "call")
  /\ UNCHANGED <<promosDB, paid, savings, locked, promoTimer, deleting, moves>>

\* The worker posts the key.
Derived(id) ==
  /\ creation[id].pc = "deriving"
  /\ creation' = [creation EXCEPT ![id].pc = "derived", ![id].key = TRUE]
  /\ UNCHANGED <<creating, promosDB, paid, savings, locked, ticks, promoTimer,
                 deleting, orderly, moves>>

\* splice(findIndex(...), 1): the last element goes when none is found.
SpliceCode(code) ==
  LET found == {i \in DOMAIN creating : Thread(creating[i]).code = code}
  IN IF creating = <<>> THEN creating
     ELSE RemoveAt(creating, IF found = {} THEN Len(creating) ELSE Min(found))

\* The worker of a thread is terminated: it posts no key.
Terminated(id) ==
  creation' = [creation EXCEPT ![id].pc = IF @ = "deriving" THEN "terminated" ELSE @]

\* The list has a button for every code that is being made, and for the stored
\* ones PromoList tells.
MayDelete(c) == c \in promosDB \cup CodesOf(Range(creating))

deletePromoCode(code) ==
  /\ MayDelete(code) /\ code \notin deleting /\ Moves
  /\ deleting' = deleting \cup {code}
  /\ orderly' = FALSE
  /\ LET threads == {id \in Range(creating) : Thread(id).code = code}
     IN IF threads = {} THEN UNCHANGED <<creation, creating>>
        ELSE /\ Terminated(CHOOSE id \in threads : TRUE)
             /\ creating' = SpliceCode(code)
  /\ UNCHANGED <<promosDB, paid, savings, locked, ticks, promoTimer>>

\* The database entry is gone.
Deleted(code, t) ==
  /\ code \in deleting /\ deleting' = deleting \ {code}
  /\ promosDB' = promosDB \ {code}
  /\ BeginTick(t, "call")
  /\ UNCHANGED <<creation, creating, paid, savings, locked, promoTimer, moves>>

-----------------------------------------------------------------------------
\* The walk over the threads

Unpaid(id) == Thread(id).key /\ Thread(id).end_state = ""
Done(id) == Thread(id).end_state = "Done"
From(i, threads, ids) == {j \in i .. Len(threads) : threads[j] \in ids}

\* The tick goes on at index i, to the next code to pay, or it shows the list.
PayFrom(t, i) ==
  LET js == From(i, creating, {id \in Creations : Unpaid(id)})
  IN ticks' = IF js = {} THEN [ticks EXCEPT ![t].pc = "drawn", ![t].i = 0, ![t].id = 0]
              ELSE [ticks EXCEPT ![t].pc = IF locked' THEN "unlocking" ELSE "sending",
                                 ![t].i = Min(js), ![t].id = creating[Min(js)]]

\* It goes on to the next code to store, or it ends.
StoreFrom(t, i, threads) ==
  LET js == From(i, threads, {id \in Creations : Done(id)})
      recurs == ticks[t].from = "timer" \/ promoTimer = "never"
  IN /\ ticks' = IF js = {} THEN [ticks EXCEPT ![t] = Idle]
                 ELSE [ticks EXCEPT ![t].pc = "saving", ![t].i = Min(js), ![t].id = threads[Min(js)]]
     /\ promoTimer' = IF js = {} /\ recurs THEN "due" ELSE promoTimer

-----------------------------------------------------------------------------
\* Steps of a tick

\* renderSavedPromos ends: the mode goes on to a tick, a tick to the threads.
Rendered(t) ==
  /\ UNCHANGED locked
  /\ \/ ticks[t].pc = "rendering" /\ PayFrom(t, 1) /\ UNCHANGED orderly
     \/ /\ ticks[t].pc = "listing" /\ creating = <<>> /\ promosDB = {}
        /\ ticks' = [ticks EXCEPT ![t] = Idle]
        /\ UNCHANGED orderly
     \/ /\ ticks[t].pc = "listing" /\ ~(creating = <<>> /\ promosDB = {})
        /\ ticks' = [ticks EXCEPT ![t].pc = "rendering"]
        /\ orderly' = (orderly /\ \A u \in Ticks \ {t} : FreeTick(u))
  /\ UNCHANGED <<creation, creating, promosDB, paid, savings, promoTimer, deleting, moves>>

\* The user is asked to unlock the wallet; a refusal cancels the code.
UnlockAnswered(t) ==
  LET id == ticks[t].id
  IN /\ ticks[t].pc = "unlocking"
     /\ \E unlocks \in BOOLEAN :
          /\ locked' = (locked /\ ~unlocks)
          /\ creation' = IF unlocks THEN creation ELSE [creation EXCEPT ![id].end_state = "Cancelled"]
          /\ IF locked' THEN PayFrom(t, ticks[t].i + 1)
             ELSE ticks' = [ticks EXCEPT ![t].pc = "sending"]
     /\ UNCHANGED <<creating, promosDB, paid, savings, promoTimer, deleting, orderly, moves>>

EndStateAlways(succeeded) == "Done"
\* A payment that did not succeed: "Errored" is overwritten.
EndState(succeeded) == IF succeeded THEN "Done" ELSE "Cancelled"

\* createAndSendTransaction ends: the payment is made and answered, made and
\* not answered, or not made, for want of coins or of an unlocked wallet.
PaymentAnswered(t) ==
  LET id == ticks[t].id
  IN /\ ticks[t].pc = "sending"
     /\ \E made, answered \in BOOLEAN :
          /\ answered => made
          /\ made => savings >= CodeAmount + PROMO_FEE /\ ~locked
          /\ paid' = [paid EXCEPT ![Thread(id).code] = @ + IF made THEN 1 ELSE 0]
          /\ savings' = savings - IF made THEN CodeAmount + PROMO_FEE ELSE 0
          /\ creation' = [creation EXCEPT ![id].end_state = EndState(answered)]
     /\ UNCHANGED locked
     /\ PayFrom(t, ticks[t].i + 1)
     /\ UNCHANGED <<creating, promosDB, promoTimer, deleting, orderly, moves>>

\* The database is here.
Drawn(t) ==
  /\ ticks[t].pc = "drawn"
  /\ StoreFrom(t, 1, creating)
  /\ UNCHANGED <<creation, creating, promosDB, paid, savings, locked, deleting, orderly, moves>>

\* addPromo is done: the thread is terminated and leaves the list.
Saved(t) ==
  LET code == Thread(ticks[t].id).code
  IN /\ ticks[t].pc = "saving"
     /\ promosDB' = promosDB \cup {code}
     /\ creating' = SpliceCode(code)
     /\ StoreFrom(t, ticks[t].i + 1, creating')
     /\ UNCHANGED <<creation, paid, savings, locked, deleting, orderly, moves>>

-----------------------------------------------------------------------------
\* The rest of the world

\* The user locks the wallet.
LockWallet ==
  /\ ~locked /\ locked' = TRUE /\ Moves
  /\ UNCHANGED <<creation, creating, promosDB, paid, savings, ticks, promoTimer, deleting, orderly>>

PromosNext ==
  \/ \E t \in Ticks :
       \/ setPromoMode(t) \/ TimerFires(t) \/ Rendered(t) \/ UnlockAnswered(t)
       \/ PaymentAnswered(t) \/ Drawn(t) \/ Saved(t)
       \/ \E id \in Creations : Checked(id, t)
       \/ \E c \in PromoCodes : Deleted(c, t)
  \/ \E id \in Creations : createPromoCode(id) \/ Derived(id)
  \/ \E c \in PromoCodes : deletePromoCode(c)
  \/ LockWallet

-----------------------------------------------------------------------------
\* "each thread works on a unique code" (promos.js:215), however the calls that
\* create codes overlap with deletions and ticks.
ThreadsAreUnique == \A i, j \in DOMAIN creating : Thread(creating[i]).code = Thread(creating[j]).code => i = j

\* A code is only stored once it was paid for.
StoredIsPaid == \A c \in promosDB : paid[c] > 0

\* As long as ticks did not overlap and nothing was deleted, a code is paid for
\* once, even when its answer is lost, and a code that was paid for is listed.
PaidIsListed ==
  orderly => \A c \in PromoCodes :
               /\ paid[c] <= 1
               /\ paid[c] = 1 => c \in promosDB \cup CodesOf(Range(creating))

PromosAreKept == ThreadsAreUnique /\ StoredIsPaid /\ PaidIsListed
=============================================================================
