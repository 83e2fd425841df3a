----------------------------- MODULE PQWalletPage ----------------------------
(***************************************************************************)
(* The life of one page of the wallet (PQWallet.vue): starting up, setting *)
(* a wallet up, unlocking, locking, being hidden or reloaded, and the      *)
(* revealing of a seed or of the recovery phrase.                          *)
(*                                                                         *)
(* Every handler of the page that awaits is a task, its place the await it *)
(* is suspended in.  Tasks overlap: the flag busy, which guards some of    *)
(* the handlers, is set and cleared by all of them, and pressing Enter in  *)
(* a reveal's password field does not look at it.                          *)
(***************************************************************************)
EXTENDS Naturals, FiniteSets

CONSTANTS
  MaxTasks,       \* bound: handlers suspended at the same time
  Kinds,          \* what can be revealed: "seed", "mnemonic"
  MaxGeneration,  \* bound: generations of reveals explored
  MayHide         \* whether the page may be hidden and shown again

VARIABLES
  stored,   \* IndexedDB holds a wallet
  open,     \* the store holds decrypted seeds: isUnlocked()
  view, tab, busy,
  task,     \* the suspended handlers
  stale,    \* history: tasks that started before the last lock
  gen,      \* revealGeneration, recoveryRevealGeneration
  shown,    \* the generation whose secret is revealed, or 0
  handle,   \* revealTimer, recoveryTimer: the last generation armed, or 0
  armed     \* generations whose hiding timeout is armed in the event loop

reveals == <<gen, shown, handle, armed>>
vars == <<stored, open, view, tab, busy, task, stale, reveals>>

Tasks  == 1 .. MaxTasks
Gens   == 0 .. MaxGeneration
Places == {"none", "check", "store", "open", "addresses", "load", "balance",
           "receive", "export", "decrypt"}
Ops    == {"none", "start", "setup", "unlock", "refresh", "backup"} \cup Kinds
NoTask == [op |-> "none", at |-> "none", gen |-> 0]

TypeOK ==
  /\ stored \in BOOLEAN /\ open \in BOOLEAN /\ busy \in BOOLEAN
  /\ view \in {"loading", "error", "none", "locked", "unlocked"}
  /\ tab \in {"overview", "backup", "other"}
  /\ task \in [Tasks -> [op : Ops, at : Places, gen : Gens]]
  /\ stale \subseteq Tasks
  /\ gen \in [Kinds -> Gens] /\ shown \in [Kinds -> Gens]
  /\ handle \in [Kinds -> Gens] /\ armed \in [Kinds -> SUBSET Gens]
  /\ \A k \in Kinds : armed[k] \subseteq {handle[k]}

-----------------------------------------------------------------------------
Run(t, op, at, g) ==
  /\ task[t] = NoTask
  /\ task' = [task EXCEPT ![t] = [op |-> op, at |-> at, gen |-> g]]
  /\ stale' = stale \ {t}
Proceed(t, at) == task' = [task EXCEPT ![t].at = at] /\ UNCHANGED stale
End(t)         == task' = [task EXCEPT ![t] = NoTask] /\ UNCHANGED stale

\* A handler's finally clause.  initialize() has none.
Release(t) == busy' = IF task[t].op = "start" THEN busy ELSE FALSE

\* Counting a generation up matters only if something remembers the old one.
InUse(k, g) == g \in armed[k] \/ \E t \in Tasks : task[t].op = k /\ task[t].gen = g
Bumped(k) == IF InUse(k, gen[k]) THEN gen[k] + 1 ELSE gen[k]

\* Mistake: the revealed secret itself is not cleared.
ClearRevealsButSecrets(ks) ==
  /\ gen' = [k \in Kinds |-> IF k \in ks THEN Bumped(k) ELSE gen[k]]
  /\ shown' = shown
  /\ armed' = [k \in Kinds |-> IF k \in ks THEN armed[k] \ {handle[k]} ELSE armed[k]]
  /\ handle' = [k \in Kinds |-> IF k \in ks THEN 0 ELSE handle[k]]

\* clearReveal() and clearRecoveryMnemonic(), for the kinds ks.
ClearReveals(ks) ==
  /\ gen' = [k \in Kinds |-> IF k \in ks THEN Bumped(k) ELSE gen[k]]
  /\ shown' = [k \in Kinds |-> IF k \in ks THEN 0 ELSE shown[k]]
  /\ armed' = [k \in Kinds |-> IF k \in ks THEN armed[k] \ {handle[k]} ELSE armed[k]]
  /\ handle' = [k \in Kinds |-> IF k \in ks THEN 0 ELSE handle[k]]

NoReveals ==
  /\ gen = [k \in Kinds |-> 0] /\ shown = gen /\ handle = gen
  /\ armed = [k \in Kinds |-> {}]

\* The page is loaded: it runs initialize().
Loaded ==
  /\ open = FALSE /\ view = "loading" /\ tab = "overview" /\ busy = FALSE
  /\ task = [t \in Tasks |->
               IF t = 1 THEN [op |-> "start", at |-> "check", gen |-> 0] ELSE NoTask]
  /\ stale = {} /\ NoReveals

Init == stored \in BOOLEAN /\ Loaded

-----------------------------------------------------------------------------
\* initialize() knows whether there is a wallet.
StartChecks(t) ==
  /\ task[t].at = "check"
  /\ \/ /\ stored /\ open /\ Proceed(t, "addresses") /\ UNCHANGED view
     \/ /\ ~(stored /\ open) /\ End(t)
        /\ view' = IF stored THEN "locked" ELSE "none"
  /\ UNCHANGED <<stored, open, tab, busy, reveals>>

StartFails(t) ==
  /\ task[t].op = "start" /\ task[t].at \in {"check", "addresses", "load"}
  /\ End(t)
  /\ view' = "error"
  /\ UNCHANGED <<stored, open, tab, busy, reveals>>

\* handleCreate(), handleRestoreMnemonic(), handleRestoreBackup().
Setup(t) ==
  /\ view = "none" /\ ~busy
  /\ Run(t, "setup", "store", 0)
  /\ busy' = TRUE
  /\ UNCHANGED <<stored, open, view, tab, reveals>>

\* The store writes the wallet, unless there is one by now.
SetupStores(t) ==
  /\ task[t].at = "store"
  /\ ~stored
  /\ stored' = TRUE
  /\ Proceed(t, "open")
  /\ UNCHANGED <<open, view, tab, busy, reveals>>

\* The lock screen: its button wants a password; Enter calls the handler too.
UnlockOffered == view = "locked"

\* handleUnlock()
Unlock(t) ==
  /\ UnlockOffered /\ ~busy
  /\ Run(t, "unlock", "open", 0)
  /\ busy' = TRUE
  /\ UNCHANGED <<stored, open, view, tab, reveals>>

\* unlockWallet() put the decrypted seeds in memory.
Opens(t) ==
  /\ task[t].at = "open"
  /\ open' = TRUE
  /\ Proceed(t, "addresses")
  /\ UNCHANGED <<stored, view, tab, busy, reveals>>

\* enterUnlocked() read the addresses.
Enters(t) ==
  /\ task[t].at = "addresses"
  /\ view' = "unlocked" /\ tab' = "overview"
  /\ Proceed(t, "load")
  /\ UNCHANGED <<stored, open, busy, reveals>>

\* Masternodes and fee rate were read; refreshWalletData() is next.
Loads(t) ==
  /\ task[t].at = "load"
  /\ IF view = "unlocked"
     THEN busy' = TRUE /\ Proceed(t, "balance")
     ELSE Proceed(t, "receive") /\ UNCHANGED busy
  /\ UNCHANGED <<stored, open, view, tab, reveals>>

\* The button that refreshes the balance, beside the one that locks.
RefreshOffered == view = "unlocked" /\ ~busy
Refresh(t) ==
  /\ RefreshOffered
  /\ Run(t, "refresh", "balance", 0)
  /\ busy' = TRUE
  /\ UNCHANGED <<stored, open, view, tab, reveals>>

BalanceArrives(t) ==
  /\ task[t].at = "balance"
  /\ busy' = FALSE
  /\ IF task[t].op = "refresh" THEN End(t) ELSE Proceed(t, "receive")
  /\ UNCHANGED <<stored, open, view, tab, reveals>>

\* ensureReceiveAddress(), and the end of the handler.
Receives(t) ==
  /\ task[t].at = "receive"
  /\ End(t) /\ Release(t)
  /\ UNCHANGED <<stored, open, view, tab, reveals>>

\* The first part of the tab for backups.
BackupOffered == view = "unlocked" /\ tab = "backup" /\ ~busy
\* downloadBackup()
Backup(t) ==
  /\ BackupOffered
  /\ Run(t, "backup", "export", 0)
  /\ busy' = TRUE
  /\ UNCHANGED <<stored, open, view, tab, reveals>>

BackupEnds(t) ==
  /\ task[t].at = "export"
  /\ End(t) /\ Release(t)
  /\ UNCHANGED <<stored, open, view, tab, reveals>>

\* Mistake: there is a catch clause and no finally.
FailsBusy(t) ==
  /\ task[t].op \in {"setup", "unlock"}
  /\ task[t].at \in {"store", "open", "addresses", "load"}
  /\ End(t) /\ UNCHANGED busy
  /\ view' = IF task[t].op = "setup" /\ task[t].at = "open" THEN "locked" ELSE view
  /\ UNCHANGED <<stored, open, tab, reveals>>

\* The catch clauses: a wallet already stored, a wrong password, a failing read.
\* unlockAfterSetup() shows the lock screen when the new wallet does not unlock.
Fails(t) ==
  /\ task[t].op \in {"setup", "unlock"}
  /\ task[t].at \in {"store", "open", "addresses", "load"}
  /\ End(t) /\ Release(t)
  /\ view' = IF task[t].op = "setup" /\ task[t].at = "open" THEN "locked" ELSE view
  /\ UNCHANGED <<stored, open, tab, reveals>>

-----------------------------------------------------------------------------
\* revealSeed() and revealRecoveryMnemonic()

\* The rest of the tab.  The buttons are disabled while something runs, but
\* Enter in the field of the password calls the handler, which does not look.
RevealOffered == view = "unlocked" /\ tab = "backup"
Reveal(t, k) ==
  /\ RevealOffered
  /\ gen[k] + 2 <= MaxGeneration
  /\ gen' = [gen EXCEPT ![k] = @ + 1]
  /\ shown' = [shown EXCEPT ![k] = 0]
  /\ Run(t, k, "decrypt", gen'[k])
  /\ busy' = TRUE
  /\ UNCHANGED <<stored, open, view, tab, handle, armed>>

MayShow(k, g) == g = gen[k] /\ view = "unlocked" /\ tab = "backup"

\* Mistake: the timeout of an earlier reveal is left to do the work, but it will
\* find that its generation has passed.
ArmUnlessArmed(k, g) ==
  IF handle[k] # 0
  THEN UNCHANGED <<handle, armed>>
  ELSE /\ handle' = [handle EXCEPT ![k] = g]
       /\ armed' = [armed EXCEPT ![k] = @ \cup {g}]

\* scheduleRevealTimeout(), scheduleRecoveryTimeout()
Arm(k, g) ==
  /\ handle' = [handle EXCEPT ![k] = g]
  /\ armed' = [armed EXCEPT ![k] = (@ \ {handle[k]}) \cup {g}]

RevealAnswers(t, k) ==
  /\ task[t].op = k
  /\ LET g == task[t].gen
     IN IF MayShow(k, g)
        THEN shown' = [shown EXCEPT ![k] = g] /\ Arm(k, g)
        ELSE UNCHANGED <<shown, handle, armed>>
  /\ End(t) /\ Release(t)
  /\ UNCHANGED <<stored, open, view, tab, gen>>

RevealFails(t, k) ==
  /\ task[t].op = k
  /\ shown' = IF task[t].gen = gen[k] THEN [shown EXCEPT ![k] = 0] ELSE shown
  /\ End(t) /\ Release(t)
  /\ UNCHANGED <<stored, open, view, tab, gen, handle, armed>>

\* The timeout armed for generation g.
HideTimeout(k, g) ==
  /\ g \in armed[k]
  /\ armed' = [armed EXCEPT ![k] = @ \ {g}]
  /\ IF g = gen[k]
     THEN /\ shown' = [shown EXCEPT ![k] = 0]
          /\ handle' = [handle EXCEPT ![k] = 0]
          /\ gen' = [gen EXCEPT ![k] = @ + 1]
     ELSE UNCHANGED <<shown, handle, gen>>
  /\ UNCHANGED <<stored, open, view, tab, busy, task, stale>>

\* The Hide buttons.
HideReveal(k) ==
  /\ RevealOffered /\ shown[k] # 0
  /\ ClearReveals({k})
  /\ UNCHANGED <<stored, open, view, tab, busy, task, stale>>

SelectTab(id) ==
  /\ view = "unlocked"
  /\ tab' = id
  /\ ClearReveals(Kinds)
  /\ UNCHANGED <<stored, open, view, busy, task, stale>>

-----------------------------------------------------------------------------
Running == {t \in Tasks : task[t] # NoTask}

\* clearWalletState() leaves the suspended handlers and busy as they are.
LockWallet ==
  /\ open' = FALSE
  /\ ClearReveals(Kinds)
  /\ stale' = Running
  /\ UNCHANGED <<stored, tab, busy, task>>

\* handleLock()
Lock ==
  /\ view = "unlocked"
  /\ view' = "locked"
  /\ LockWallet

\* handleUnload(), of a page that is then shown again.
Hide ==
  /\ MayHide
  /\ view' = IF view = "unlocked" THEN "locked" ELSE view
  /\ LockWallet

\* The page is left, reloaded or crashes: only IndexedDB remains.
Reload ==
  /\ open' = FALSE /\ view' = "loading" /\ tab' = "overview" /\ busy' = FALSE
  /\ task' = [t \in Tasks |->
               IF t = 1 THEN [op |-> "start", at |-> "check", gen |-> 0] ELSE NoTask]
  /\ stale' = {}
  /\ gen' = [k \in Kinds |-> 0] /\ shown' = gen' /\ handle' = gen'
  /\ armed' = [k \in Kinds |-> {}]
  /\ UNCHANGED stored

\* Another tab creates a wallet.
StoredElsewhere ==
  /\ ~stored /\ stored' = TRUE
  /\ UNCHANGED <<open, view, tab, busy, task, stale, reveals>>

-----------------------------------------------------------------------------
Resume(t) ==
  \/ StartChecks(t) \/ StartFails(t) \/ SetupStores(t) \/ Opens(t) \/ Enters(t)
  \/ Loads(t) \/ BalanceArrives(t) \/ Receives(t) \/ BackupEnds(t) \/ Fails(t)
  \/ \E k \in Kinds : RevealAnswers(t, k) \/ RevealFails(t, k)

Next ==
  \/ \E t \in Tasks :
       \/ Resume(t)
       \/ Setup(t) \/ Unlock(t) \/ Refresh(t) \/ Backup(t)
       \/ \E k \in Kinds : Reveal(t, k)
  \/ \E k \in Kinds : HideReveal(k) \/ \E g \in Gens : HideTimeout(k, g)
  \/ \E id \in {"overview", "backup", "other"} : SelectTab(id)
  \/ Lock \/ Hide \/ Reload \/ StoredElsewhere

\* Requests settle and timeouts fire; the user, and other tabs, owe nothing.
Fairness ==
  /\ \A t \in Tasks : WF_vars(Resume(t))
  /\ \A k \in Kinds, g \in Gens : WF_vars(HideTimeout(k, g))

Spec == Init /\ [][Next]_vars
FairSpec == Spec /\ Fairness

-----------------------------------------------------------------------------
\* No revealed secret survives a lock, a hidden page or a change of tab by the
\* user, whatever decryptions end later and whatever unlocks overlap.  (An
\* overlapping unlock that enters moves the page to the overview by itself.)
RevealsDieWithTheView ==
  \A k \in Kinds : shown[k] # 0 => view = "unlocked" /\ tab # "other"

\* What is revealed is the latest request's, and the timeout that will hide it
\* is armed: a timeout of an earlier reveal neither hides it nor replaces it.
RevealedIsTimed ==
  \A k \in Kinds : shown[k] # 0 =>
    shown[k] = gen[k] /\ handle[k] = gen[k] /\ gen[k] \in armed[k]

\* Every revealed secret is hidden again, by its timeout if by nothing else.
RevealsEnd == \A k \in Kinds : shown[k] # 0 ~> shown[k] = 0

\* The page is busy only while a handler that will release it runs.
BusyIsBacked == busy => \E t \in Running : task[t].op # "start" \/ task[t].at = "balance"

\* pqwallet-ui.spec.js:400 tests that a page that was hidden is consistently
\* locked, seeds and view: the unlocked view always has its seeds.
UnlockedViewHoldsSeeds == view = "unlocked" => open

\* pqwallet-ui.spec.js:384 tests that locking clears the seeds in memory: they
\* come back only by an unlock submitted after the lock.
LockSticks ==
  [][~open /\ open' =>
       \E t \in Tasks \ stale : task[t].at = "open" /\ task'[t].at = "addresses"]_vars
=============================================================================
