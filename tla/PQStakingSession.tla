-------------------------- MODULE PQStakingSession --------------------------
(***************************************************************************)
(* The browser staking session of scripts/pqwallet/pqstaking-session.js:   *)
(* one cancellable loop that lists the wallet's coins, asks the staking    *)
(* service to prepare a block on a bounded batch of them, reads the chain  *)
(* tip again, signs and submits.  Every await of the loop is a phase in    *)
(* which the user can stop and restart the session, the wallet can lock,   *)
(* and the answer can be anything or never be good.                        *)
(*                                                                         *)
(* A tick is named by the generation that started it; a tick of an older   *)
(* generation may still be waiting for its answer when a newer one runs.   *)
(* The service and the explorer are not trusted: an answer is any value of *)
(* its type, a failure (error, timeout or abort) included.                 *)
(***************************************************************************)
EXTENDS Integers, FiniteSets

CONSTANTS
  Coins,          \* positions of the wallet's coins in the explorer's list
  Listings,       \* answers of candidates(): records [confirmed, reserved]
  BatchSize,      \* coins of one prepare request (128 in the code)
  Tips,           \* best-block hashes
  MaxGeneration   \* bound: generations explored

ASSUME CoinsAssumption == Coins \subseteq Nat /\ IsFiniteSet(Coins)
ASSUME ListingsAssumption ==
  Listings \subseteq [confirmed : SUBSET Coins, reserved : SUBSET Coins]
ASSUME BoundAssumption == BatchSize \in Nat \ {0} /\ MaxGeneration \in Nat

VARIABLES
  canSign,     \* what canSign() answers: view unlocked, seeds held, testnet
  active, generation, offset,
  timer,       \* the handle kept in the variable timer (0: never armed)
  timers,      \* generations whose timeout is armed in the event loop
  tick,        \* each generation's suspended tick: its await and its locals
               \* batch, held (reservedOutpoints), template (of result) and
               \* signed, as long as a later statement reads them
  published    \* the last state handed to onState

vars == <<canSign, active, generation, offset, timer, timers, tick, published>>
session == <<active, generation, timer, timers, published>>

Ids == 1 .. MaxGeneration
Awaits == {"candidates", "prepare", "tip", "submit"}
Phases == {"idle", "checking", "waiting", "submitting", "accepted", "error"}
Templates == [coin : Coins, tip : Tips]
Blocks == [session : Ids, coin : Coins, parent : Tips, tip : Tips]
Ticks == [at : Awaits \cup {"none"}, batch : SUBSET Coins, held : SUBSET Coins,
          template : SUBSET Templates, signed : SUBSET Blocks]
NoTick == [at |-> "none", batch |-> {}, held |-> {}, template |-> {}, signed |-> {}]

TypeOK ==
  /\ canSign \in BOOLEAN /\ active \in BOOLEAN
  /\ generation \in 0 .. MaxGeneration
  /\ active => generation \in 1 .. MaxGeneration - 1
  /\ offset \in Nat
  /\ timer \in 0 .. MaxGeneration
  /\ timers \subseteq Ids
  /\ tick \in [Ids -> Ticks]
  /\ published \in [active : BOOLEAN, phase : Phases]

-----------------------------------------------------------------------------
\* The synchronous pieces of the session object.

Live(i) == active /\ generation = i

\* Mistake: a tick does not ask again whether it may sign.
CurrentWithoutPermission(i) == Live(i)

Current(i) == Live(i) /\ canSign

Publish(running, phase) == published' = [active |-> running, phase |-> phase]

\* Mistake: stop() leaves its timeout armed.
StopForgetsTimer(phase) ==
  /\ active' = FALSE
  /\ generation' = generation + 1
  /\ UNCHANGED <<timers, timer>>
  /\ Publish(FALSE, phase)

\* stop(), leaving the phase its caller publishes last.
Stop(phase) ==
  /\ active' = FALSE
  /\ generation' = generation + 1
  /\ timers' = timers \ {timer}
  /\ timer' = timer
  /\ Publish(FALSE, phase)

\* The tick returns; its locals die with it.
EndTick(i) == tick' = [tick EXCEPT ![i] = NoTick]

\* The first statements of tick(id): check, publish, call candidates().
BeginTick(i) ==
  /\ tick' = [tick EXCEPT ![i].at = "candidates"]
  /\ Publish(TRUE, "checking")

\* The coins a tick may offer, and the batch of them that starts at from.
Allowed(listing) == listing.confirmed \ listing.reserved
Rank(c, allowed) == Cardinality({d \in allowed : d < c})
\* Mistake: the window does not wrap at the end of the list.
NextOffsetWithoutWrap(allowed) == offset
NextOffset(allowed) == IF offset >= Cardinality(allowed) THEN 0 ELSE offset
BatchFrom(from, allowed) ==
  {c \in allowed : Rank(c, allowed) \in from .. (from + BatchSize - 1)}

\* The tail of tick(): arm the next one.  Its caller has checked Current(i).
Sleep(i, phase) ==
  /\ EndTick(i)
  /\ timer' = i
  /\ timers' = timers \cup {i}
  /\ Publish(TRUE, phase)
  /\ UNCHANGED <<active, generation>>

\* The catch block: a tick of an older generation is silent.
Fail(i) ==
  /\ EndTick(i)
  /\ IF generation = i THEN Stop("error") ELSE UNCHANGED session

-----------------------------------------------------------------------------
Init ==
  /\ canSign \in BOOLEAN
  /\ active = FALSE /\ generation = 0 /\ offset = 0
  /\ timer = 0 /\ timers = {}
  /\ tick = [i \in Ids |-> NoTick]
  /\ published = [active |-> FALSE, phase |-> "idle"]

\* The user starts the session; the code ignores it while one is active.
UserStart ==
  /\ ~active /\ canSign
  /\ generation + 2 <= MaxGeneration
  /\ active' = TRUE
  /\ generation' = generation + 1
  /\ offset' = 0
  /\ BeginTick(generation')
  /\ UNCHANGED <<canSign, timer, timers>>

\* The user stops it, or opens the Send or Masternodes tab, or locks.
UserStop ==
  /\ generation < MaxGeneration
  /\ Stop("idle")
  /\ UNCHANGED <<canSign, offset, tick>>

\* The wallet locks or unlocks, or leaves testnet, beside the session.
PermissionChange ==
  /\ canSign' = ~canSign
  /\ UNCHANGED <<active, generation, offset, timer, timers, tick,
                 published>>

\* A timeout fires: tick(id) runs, or finds that it may not.
TimerFires(i) ==
  /\ i \in timers
  /\ IF Current(i)
     THEN /\ timers' = timers \ {i}
          /\ BeginTick(i)
          /\ UNCHANGED <<active, generation, timer>>
     ELSE /\ UNCHANGED tick
          /\ IF Live(i)
             THEN /\ active' = FALSE
                  /\ generation' = generation + 1
                  /\ timers' = timers \ {i, timer}
                  /\ Publish(FALSE, "idle")
                  /\ UNCHANGED timer
             ELSE /\ timers' = timers \ {i}
                  /\ UNCHANGED <<active, generation, timer, published>>
  /\ UNCHANGED <<canSign, offset>>

\* Mistake: a tick that may not go on returns without stopping its session.
AbandonWithoutStop(i) ==
  /\ tick[i].at \in Awaits
  /\ ~Current(i)
  /\ EndTick(i)
  /\ UNCHANGED <<session, canSign, offset>>

\* An answer finds the tick no longer current: current(id) stops a session
\* that lost the permission, and leaves a newer one alone.
Abandon(i) ==
  /\ tick[i].at \in Awaits
  /\ ~Current(i)
  /\ EndTick(i)
  /\ IF Live(i) THEN Stop("idle") ELSE UNCHANGED session
  /\ UNCHANGED <<canSign, offset>>

\* A request fails, times out, is aborted, or its answer has the wrong form.
RequestFails(i) ==
  /\ tick[i].at \in Awaits
  /\ Fail(i)
  /\ UNCHANGED <<canSign, offset>>

\* candidates() answered with a list: the next batch of confirmed, unreserved
\* coins, if there are any.
Offer(i, listing) ==
  LET allowed == Allowed(listing)
      chosen  == BatchFrom(NextOffset(allowed), allowed)
  IN  /\ offset' = NextOffset(allowed) + Cardinality(chosen)
      /\ IF chosen = {}
         THEN Sleep(i, "waiting")
         ELSE /\ tick' = [tick EXCEPT ![i].at = "prepare",
                                     ![i].batch = chosen,
                                     ![i].held = listing.reserved]
              /\ UNCHANGED session

CandidatesAnswer(i) ==
  /\ tick[i].at = "candidates" /\ Current(i)
  /\ \E listing \in Listings : Offer(i, listing)
  /\ UNCHANGED canSign

\* prepare() answered: no kernel yet, or a block template on some coin.
PrepareAnswer(i) ==
  /\ tick[i].at = "prepare" /\ Current(i)
  /\ \/ Sleep(i, "waiting")
     \/ \E t \in Templates :
          /\ tick' = [tick EXCEPT ![i].at = "tip", ![i].template = {t}]
          /\ Publish(TRUE, "waiting")
          /\ UNCHANGED <<active, generation, timer, timers>>
  /\ UNCHANGED <<canSign, offset>>

\* Mistake: sign() trusts the template's coin.
SignableAlways(i, t) == TRUE

\* sign() accepts only a template on a coin of the batch that is not reserved.
Signable(i, t) == t.coin \in tick[i].batch \ tick[i].held

\* The tick that submits a block reads no other local after it.
Submitting(block) ==
  [at |-> "submit", batch |-> {}, held |-> {}, template |-> {}, signed |-> {block}]

\* The tip answered: sign and submit only a template built on that very tip.
TipAnswer(i) ==
  /\ tick[i].at = "tip" /\ Current(i)
  /\ \E t \in tick[i].template, expectedTip \in Tips :
       IF t.tip # expectedTip
       THEN Sleep(i, "waiting")
       ELSE IF Signable(i, t)
       THEN /\ tick' = [tick EXCEPT ![i] =
                 Submitting([session |-> i, coin |-> t.coin,
                             parent |-> t.tip, tip |-> expectedTip])]
            /\ Publish(TRUE, "submitting")
            /\ UNCHANGED <<active, generation, timer, timers>>
       ELSE Fail(i)
  /\ UNCHANGED <<canSign, offset>>

\* The submission answered with the hash of the signed block.
SubmitAnswer(i) ==
  /\ tick[i].at = "submit" /\ Current(i)
  /\ Sleep(i, "accepted")
  /\ UNCHANGED <<canSign, offset>>

Answer(i) ==
  \/ CandidatesAnswer(i) \/ PrepareAnswer(i) \/ TipAnswer(i) \/ SubmitAnswer(i)

Next ==
  \/ UserStart \/ UserStop \/ PermissionChange
  \/ \E i \in Ids :
       TimerFires(i) \/ Abandon(i) \/ RequestFails(i) \/ Answer(i)

\* Every request settles (fetchWithTimeout aborts it otherwise) and an armed
\* timeout fires; nothing is assumed of the user, the lock or the servers.
Fairness ==
  \A i \in Ids : /\ WF_vars(TimerFires(i))
                 /\ WF_vars(Abandon(i) \/ RequestFails(i) \/ Answer(i))

Spec == Init /\ [][Next]_vars
FairSpec == Spec /\ Fairness

-----------------------------------------------------------------------------
\* At most one loop is alive: an active session has exactly one thing that
\* will continue it - its own tick or its own timeout, never both, never
\* none - and a stopped one leaves no timeout armed (stop, start, tick).
OneContinuation ==
  /\ active => (tick[generation].at \in Awaits) # (generation \in timers)
  /\ timers \subseteq {i \in Ids : Live(i)}

\* What makes OneContinuation inductive: the handle stop() clears is the only
\* one armed, and no tick waits for a generation that is stopped or to come.
IInv ==
  /\ TypeOK /\ OneContinuation
  /\ timers \subseteq {timer}
  /\ \A i \in Ids : tick[i].at \in Awaits
       => i <= generation /\ (i = generation => active)

\* What the page shows is the session it runs: an old tick's answer never
\* repaints a newer session, and no error is shown beside a running loop.
PublishedIsTrue ==
  /\ published.active = active
  /\ ~active <=> published.phase \in {"idle", "error"}
  /\ active /\ published.phase = "submitting" => tick[generation].at = "submit"
  /\ active /\ tick[generation].at = "candidates" => published.phase = "checking"

\* The blocks that are signed and whose submission is not answered.
Signed == UNION {tick[i].signed : i \in Ids}

\* A block is signed only by the running session, while signing is permitted,
\* with a coin this very tick was allowed to offer, on the tip just read: a
\* template that arrives late, from a stopped session or after a lock signs
\* nothing.
SignsOnlyWhileCurrent ==
  [][\A b \in Signed' \ Signed :
       /\ Current(b.session) /\ Live(b.session)'
       /\ b.coin \in tick[b.session].batch \ tick[b.session].held
       /\ b.parent = b.tip]_vars

\* Only the current tick sends a request: once stopped, an old tick that
\* wakes up asks for nothing more.
RequestsOnlyWhileCurrent ==
  [][\A i \in Ids : tick'[i].at # tick[i].at /\ tick'[i].at \in Awaits
                      => active' /\ generation' = i /\ canSign]_vars

\* A session that lost its permission is stopped at its next answer or
\* timeout, even if nobody calls stop().
PermissionLossStops == (active /\ ~canSign) ~> (~active \/ canSign)

\* From now on every list holds the coin: at this place, or as one of so few
\* that they fit in a batch.
ListsAt(c, r) ==
  [][\A i \in Ids : CandidatesAnswer(i) =>
       \E listing \in Listings :
         Offer(i, listing) /\ c \in Allowed(listing) /\ Rank(c, Allowed(listing)) = r]_vars
ListsAmongFew(c) ==
  [][\A i \in Ids : CandidatesAnswer(i) =>
       \E listing \in Listings :
         /\ Offer(i, listing) /\ c \in Allowed(listing)
         /\ Cardinality(Allowed(listing)) <= BatchSize]_vars

\* The rotating window (batch and offset of tick) comes back to a coin that
\* keeps its place in the list, however the rest of the list grows, shrinks
\* and is reserved; and to every coin of a list that fits in a batch, whatever
\* its place.  It is not true of a coin whose place shifts in a longer list.
SteadyCoinsAreOffered ==
  \A c \in Coins :
    <>[]active /\ (<>ListsAmongFew(c) \/ \E r \in 0 .. Cardinality(Coins) - 1 : <>ListsAt(c, r))
      => []<>(active => c \in tick[generation].batch)

\* The session implements the signing authority: stop() revokes for good, and a
\* restart is a new authority that the answers of the old one cannot use.
Holder == IF active THEN generation ELSE 0
Spent  == {i \in Ids : i <= generation /\ ~Live(i)}
Authority == INSTANCE SigningAuthority WITH
  Sessions <- Ids, NoSession <- 0,
  Blocks <- Blocks, permitted <- canSign, holder <- Holder, spent <- Spent,
  signed <- Signed
ImplementsAuthority == Authority!Spec
=============================================================================
