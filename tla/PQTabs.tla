-------------------------------- MODULE PQTabs --------------------------------
(***************************************************************************)
(* The tabs of the unlocked PQWallet.vue: the check of the staking service,*)
(* the address to receive at with its QR code, the list of transactions.   *)
(* Each is loaded when its tab is opened, and its answers come when they   *)
(* come, to the page as it is then.                                        *)
(***************************************************************************)
EXTENDS Naturals, Sequences

CONSTANTS
  MaxChecks,     \* bound: checks of the staking service
  MaxLoads,      \* bound: loads of the transactions in flight
  Addresses      \* number of addresses of the wallet

VARIABLES
  opened,        \* view is "unlocked"
  activeTab,
  checkGeneration, checks, stakingReady, stakingChecking, lastCheck,
  receiveAddress, receiveCursor, asking, qr, drawing,
  loads, activityLoading, activityLoaded, activity

checkVars == <<checkGeneration, checks, stakingReady, stakingChecking, lastCheck>>
receiveVars == <<receiveAddress, receiveCursor, asking, qr, drawing>>
activityVars == <<loads, activityLoading, activityLoaded, activity>>

TabNames == {"overview", "receive", "send", "activity", "staking", "masternodes", "backup"}

TabsInit ==
  /\ opened = FALSE /\ activeTab = "overview"
  /\ checkGeneration = 0 /\ checks = {} /\ stakingReady = FALSE
  /\ stakingChecking = FALSE /\ lastCheck = FALSE
  /\ receiveAddress = 0 /\ receiveCursor = 0 /\ asking = 0 /\ qr = 0 /\ drawing = FALSE
  /\ loads = 0 /\ activityLoading = FALSE /\ activityLoaded = FALSE /\ activity = "none"

-----------------------------------------------------------------------------
\* checkStakingService()
Check ==
  /\ checkGeneration < MaxChecks
  /\ checkGeneration' = checkGeneration + 1
  /\ checks' = checks \cup {checkGeneration'}
  /\ stakingChecking' = TRUE
  /\ UNCHANGED <<stakingReady, lastCheck>>

LatestCheck(generation) == generation = checkGeneration

\* The service answers that it is enabled, or not, or does not answer.
CheckAnswers(generation) ==
  /\ generation \in checks /\ checks' = checks \ {generation}
  /\ \E enabled \in BOOLEAN :
       /\ IF LatestCheck(generation)
          THEN stakingReady' = enabled /\ stakingChecking' = FALSE
          ELSE UNCHANGED <<stakingReady, stakingChecking>>
       /\ lastCheck' = IF generation = checkGeneration THEN enabled ELSE lastCheck
  /\ UNCHANGED <<checkGeneration, opened, activeTab, receiveVars, activityVars>>

-----------------------------------------------------------------------------
\* ensureReceiveAddress(), which reads the addresses of the wallet first.
Ensure == asking' = IF receiveAddress' = 0 THEN asking + 1 ELSE asking

\* The watcher of tab and address draws the code after the next rendering.
Draws == drawing' = (activeTab' = "receive")

\* newReceiveAddress(): the button stays enabled.
NewReceiveAddress ==
  /\ opened /\ activeTab = "receive" /\ asking < 2
  /\ receiveAddress' = 0
  /\ Ensure
  /\ drawing' = (drawing \/ receiveAddress # 0)
  /\ UNCHANGED <<opened, activeTab, receiveCursor, qr, checkVars, activityVars>>

\* getNextReceiveAddress() answers, or fails.
ReceiveAnswers ==
  /\ asking > 0 /\ asking' = asking - 1
  /\ \/ /\ receiveAddress' = (receiveCursor % Addresses) + 1
        /\ receiveCursor' = (receiveCursor + 1) % Addresses
        /\ IF receiveAddress' # receiveAddress
           THEN drawing' = (drawing \/ activeTab = "receive") ELSE UNCHANGED drawing
     \/ /\ receiveAddress' = 0 /\ UNCHANGED receiveCursor
        /\ drawing' = (drawing \/ (receiveAddress # 0 /\ activeTab = "receive"))
  /\ UNCHANGED <<opened, activeTab, qr, checkVars, activityVars>>

\* Without an address, or without the element, the code stays as it was.  The
\* library may fail, and the code is removed.
DrawQR ==
  /\ drawing /\ drawing' = FALSE
  /\ IF opened /\ receiveAddress # 0 THEN qr' \in {0, receiveAddress} ELSE qr' = qr
  /\ UNCHANGED <<opened, activeTab, receiveAddress, receiveCursor, asking, checkVars,
                 activityVars>>

-----------------------------------------------------------------------------
\* loadActivity()
StartsLoad == loads' = loads + 1 /\ activityLoading' = TRUE

Reload ==
  /\ opened /\ activeTab \in {"activity", "overview", "staking"} /\ ~activityLoading
  /\ loads < MaxLoads /\ StartsLoad
  /\ UNCHANGED <<activityLoaded, activity, opened, activeTab, checkVars, receiveVars>>

\* It is summed up with the addresses of the page, which has none when locked.
LoadAnswers ==
  /\ loads > 0 /\ loads' = loads - 1 /\ activityLoading' = FALSE
  /\ \/ /\ activityLoaded' = TRUE
        /\ activity' = IF opened THEN "mine" ELSE "nobody's"
     \/ UNCHANGED <<activityLoaded, activity>>
  /\ UNCHANGED <<opened, activeTab, checkVars, receiveVars>>

\* A transfer was sent: the list is read again when its tab is opened.
ActivityIsOld ==
  /\ opened /\ activeTab = "send" /\ activityLoaded /\ activityLoaded' = FALSE
  /\ UNCHANGED <<loads, activityLoading, activity, opened, activeTab, checkVars, receiveVars>>

-----------------------------------------------------------------------------
\* selectTab(), from the bar of tabs, the actions and the links between tabs.
\* The element of the code is made anew with its tab.
OpenTab(id) ==
  /\ opened
  /\ activeTab' = id
  /\ IF id = "receive" THEN UNCHANGED receiveAddress /\ Ensure
     ELSE UNCHANGED <<receiveAddress, asking>>
  /\ asking' <= 2
  /\ IF id # activeTab THEN Draws ELSE UNCHANGED drawing
  /\ qr' = IF id = activeTab THEN qr ELSE 0
  /\ IF id \in {"activity", "overview", "staking"} /\ ~activityLoaded
     THEN loads < MaxLoads /\ StartsLoad ELSE UNCHANGED <<loads, activityLoading>>
  /\ IF id = "staking" THEN Check ELSE UNCHANGED checkVars
  /\ UNCHANGED <<opened, receiveCursor, activityLoaded, activity>>

\* enterUnlocked()
OpenWallet ==
  /\ ~opened /\ opened' = TRUE /\ activeTab' = "overview"
  /\ UNCHANGED receiveAddress /\ asking < 2 /\ Ensure
  /\ loads < MaxLoads /\ StartsLoad
  /\ qr' = 0 /\ drawing' = FALSE
  /\ UNCHANGED <<receiveCursor, activityLoaded, activity, checkVars>>

\* clearWalletState()
LockTabs ==
  /\ opened /\ opened' = FALSE
  /\ checkGeneration < MaxChecks /\ checkGeneration' = checkGeneration + 1
  /\ stakingReady' = FALSE /\ stakingChecking' = FALSE
  /\ lastCheck' = FALSE
  /\ activity' = "none" /\ activityLoaded' = FALSE
  /\ receiveAddress' = 0 /\ qr' = 0
  /\ UNCHANGED <<activeTab, checks, receiveCursor, asking, drawing, loads, activityLoading>>

TabsNext ==
  \/ \E id \in TabNames : OpenTab(id)
  \/ \E generation \in checks : CheckAnswers(generation)
  \/ NewReceiveAddress \/ ReceiveAnswers \/ DrawQR
  \/ Reload \/ LoadAnswers \/ ActivityIsOld
  \/ OpenWallet \/ LockTabs

-----------------------------------------------------------------------------
\* Staking is offered when the last check since the wallet was opened said so,
\* "checking" is shown while that check is under way and no longer, and the code
\* on the screen is that of the address above it, in whatever order checks are
\* answered, addresses arrive and the wallet is locked and opened again.
LatestIsShown ==
  /\ stakingReady => opened /\ lastCheck
  /\ stakingChecking <=> opened /\ checkGeneration \in checks
  /\ activeTab = "receive" /\ qr # 0 /\ receiveAddress # 0 /\ ~drawing
       => qr = receiveAddress

=============================================================================
