------------------------------ MODULE MCStore -------------------------------
(***************************************************************************)
(* Small instances of a page and of the store under it: four calls of the  *)
(* store, two in each of two tabs, the life of one page, its set-up, its   *)
(* send form and its tabs.  One part takes steps, the others rest.         *)
(***************************************************************************)
EXTENDS PQWalletStore

CONSTANTS x1, x2, x3, x4, t1, t2, Parts
\* Of the page
CONSTANTS MaxTasks, Kinds, MaxGeneration, MayHide
\* Of its set-up, its form and its tabs
CONSTANTS MaxPhrases, MaxTyped, MaxPreviews, MaxPool, MaxChecks, MaxLoads, Addresses

ASSUME KindsAssumption ==
  Kinds \cap {"none", "start", "setup", "unlock", "refresh", "backup"} = {}
ASSUME PhrasesAssumption == MaxPhrases \in Nat

VARIABLES part, stored, open, view, tab, busy, task, stale, gen, shown, handle, armed
VARIABLES screen, setupMode, restoreMode, form, pending, saved, job, kept,
          phrases, typed, ticked, repeated
VARIABLES seen, to, amount, pool, rateKnown, selection, refusal,
          previewTimer, previews, previewing, transfer
VARIABLES opened, activeTab, checkGeneration, checks, stakingReady, stakingChecking,
          lastCheck, receiveAddress, receiveCursor, asking, qr, drawing,
          loads, activityLoading, activityLoaded, activity

Page == INSTANCE PQWalletPage
Setup == INSTANCE PQSetup
SendForm == INSTANCE PQSendForm
TabBar == INSTANCE PQTabs
setupVars == <<screen, setupMode, restoreMode, form, pending, saved, job, kept,
               phrases, typed, ticked, repeated>>
formVars == <<seen, to, amount, pool, rateKnown, selection, refusal,
              previewTimer, previews, previewing, transfer>>
tabVars == <<opened, activeTab, checkGeneration, checks, stakingReady, stakingChecking,
             lastCheck, receiveAddress, receiveCursor, asking, qr, drawing,
             loads, activityLoading, activityLoaded, activity>>
pageVars == <<stored, open, view, tab, busy, task, stale, gen, shown, handle, armed>>

FourCalls  == {x1, x2, x3, x4}
TwoTabs    == {t1, t2}
\* A record in order, one whose service is no address, one without a payout.
GoodTerms  == {[service |-> TRUE, payout |-> TRUE]}
AllTerms   == GoodTerms \cup {[service |-> FALSE, payout |-> TRUE],
                              [service |-> TRUE, payout |-> FALSE]}
TwoByTwo   == [c \in FourCalls |-> IF c \in {x1, x2} THEN t1 ELSE t2]

StoreInit ==
  /\ part \in Parts /\ Init /\ Page!Init /\ (part # "page" => ~stored)
  /\ Setup!SetupInit /\ SendForm!SendFormInit /\ TabBar!TabsInit
StoreNext ==
  /\ \/ part = "store" /\ Next /\ UNCHANGED <<pageVars, setupVars, formVars, tabVars>>
     \/ part = "page" /\ Page!Next /\ UNCHANGED <<vars, setupVars, formVars, tabVars>>
     \/ part = "setup" /\ Setup!SetupNext /\ UNCHANGED <<vars, pageVars, formVars, tabVars>>
     \/ part = "form" /\ SendForm!SendFormNext /\ UNCHANGED <<vars, pageVars, setupVars, tabVars>>
     \/ part = "tabs" /\ TabBar!TabsNext /\ UNCHANGED <<vars, pageVars, setupVars, formVars>>
  /\ UNCHANGED part

\* The timeouts of the page fire, where it is the page that takes steps.
PageFairness ==
  \A k \in Kinds, g \in Page!Gens : WF_pageVars(part = "page" /\ Page!HideTimeout(k, g))
StoreSpec ==
  StoreInit /\ [][StoreNext]_<<part, vars, pageVars, setupVars, formVars, tabVars>>
FairStoreSpec == StoreSpec /\ PageFairness

-----------------------------------------------------------------------------
RevealsDieWithTheView == Page!RevealsDieWithTheView
BusyIsBacked == Page!BusyIsBacked
RevealsEnd == Page!RevealsEnd
\* A new wallet is the one that was shown and confirmed.
SetupIsConfirmed == Setup!SetupIsConfirmed
\* What was typed does not outlive its screen.
FormsAreCleared == Setup!FormsAreCleared
\* What the page shows of the form, of the service and of the address is what was
\* typed, answered and read last.
LatestIsShown == SendForm!PreviewIsCurrent /\ TabBar!LatestIsShown
=============================================================================
