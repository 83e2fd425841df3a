------------------------- MODULE MCStaking_proofs -------------------------
(***************************************************************************)
(* Theorems about the staking session, for every number of generations,    *)
(* every set of coins and every answer of the service; and what            *)
(* PQDatabase_proofs shows of a page's connection, for the specification   *)
(* that composes it with the session.                                      *)
(***************************************************************************)
EXTENDS MCStaking, FiniteSetTheorems, TLAPS

\* The batch is a set of coins, and its size a natural number.
LEMMA BatchType ==
  ASSUME NEW listing \in Listings, NEW from \in Nat
  PROVE  /\ Allowed(listing) \subseteq Coins
         /\ BatchFrom(from, Allowed(listing)) \subseteq Coins
         /\ Cardinality(Allowed(listing)) \in Nat
         /\ Cardinality(BatchFrom(from, Allowed(listing))) \in Nat
<1>1. Allowed(listing) \subseteq Coins
  BY ListingsAssumption DEF Allowed
<1>2. BatchFrom(from, Allowed(listing)) \subseteq Coins
  BY <1>1 DEF BatchFrom
<1>3. /\ IsFiniteSet(Allowed(listing))
      /\ IsFiniteSet(BatchFrom(from, Allowed(listing)))
  BY <1>1, <1>2, CoinsAssumption, FS_Subset
<1>4. QED
  BY <1>1, <1>2, <1>3, FS_CardinalityType

LEMMA PublishedType ==
  ASSUME NEW running \in BOOLEAN, NEW phase \in Phases
  PROVE  [active |-> running, phase |-> phase]
           \in [active : BOOLEAN, phase : Phases]
BY Zenon

LEMMA InitIInv == Init => IInv
<1> SUFFICES ASSUME Init PROVE IInv
  OBVIOUS
<1> USE BoundAssumption DEF Init, Ids
<1>1. published \in [active : BOOLEAN, phase : Phases]
  BY PublishedType DEF Phases
<1>2. NoTick \in Ticks /\ NoTick.at \notin Awaits
  BY DEF NoTick, Ticks, Awaits
<1>3. TypeOK
  <2>1. active => generation \in 1 .. MaxGeneration - 1
    BY Zenon
  <2>2. /\ tick \in [Ids -> Ticks]
        /\ timers \subseteq Ids /\ generation \in 0 .. MaxGeneration
        /\ timer \in 0 .. MaxGeneration /\ offset \in Nat
    BY <1>2
  <2>3. canSign \in BOOLEAN /\ active \in BOOLEAN
    BY Zenon
  <2>4. QED
    BY <1>1, <2>1, <2>2, <2>3 DEF TypeOK
<1>4. QED
  BY <1>2, <1>3 DEF IInv, OneContinuation

\* Stopping the running session leaves no timeout and no current tick.
LEMMA StopKeepsIInv ==
  ASSUME IInv, NEW phase \in Phases, generation < MaxGeneration, Stop(phase),
         tick' \in [Ids -> Ticks],
         \A i \in Ids : tick'[i].at \in Awaits => tick[i].at \in Awaits,
         offset' \in Nat, canSign' \in BOOLEAN
  PROVE  IInv'
<1> USE BoundAssumption DEF IInv, TypeOK, Stop, Publish, Ids, Live
<1>1. timers' = {}
  OBVIOUS
<1>2. TypeOK'
  <2>1. published' \in [active : BOOLEAN, phase : Phases]
    BY PublishedType
  <2>2. active' \in BOOLEAN /\ ~active'
    BY Zenon
  <2>3. /\ generation' \in 0 .. MaxGeneration
        /\ timer' \in 0 .. MaxGeneration /\ timers' \subseteq Ids
    BY <1>1
  <2>4. QED
    BY <2>1, <2>2, <2>3
<1>3. OneContinuation'
  BY <1>1 DEF OneContinuation
<1>4. \A i \in Ids : tick'[i].at \in Awaits
        => i <= generation' /\ (i = generation' => active')
  OBVIOUS
<1>5. QED
  BY <1>1, <1>2, <1>3, <1>4

\* The running session's tick returns and arms its next timeout.
LEMMA SleepKeepsIInv ==
  ASSUME IInv, NEW i \in Ids, NEW phase \in Phases, Live(i),
         tick[i].at \in Awaits, Sleep(i, phase),
         offset' \in Nat, canSign' \in BOOLEAN
  PROVE  IInv'
<1> USE BoundAssumption DEF IInv, TypeOK, Sleep, EndTick, Publish, Ids, Live
<1>1. tick'[i] = NoTick /\ tick' \in [Ids -> Ticks]
  BY DEF NoTick, Ticks
<1>2. tick'[i].at \notin Awaits
  BY <1>1 DEF NoTick, Awaits
<1>3. timers = {} /\ timers' = {i}
  BY DEF OneContinuation
<1>4. TypeOK'
  <2>1. published' \in [active : BOOLEAN, phase : Phases]
    BY PublishedType
  <2>2. QED
    BY <1>1, <1>3, <2>1
<1>5. OneContinuation'
  BY <1>2, <1>3 DEF OneContinuation
<1>6. \A j \in Ids : tick'[j].at \in Awaits
        => j <= generation' /\ (j = generation' => active')
  BY <1>2
<1>7. QED
  BY <1>3, <1>4, <1>5, <1>6

\* The running session's tick moves on to its next await.
LEMMA AdvanceKeepsIInv ==
  ASSUME IInv, NEW i \in Ids, Live(i), tick[i].at \in Awaits,
         tick' \in [Ids -> Ticks], tick'[i].at \in Awaits,
         \A j \in Ids \ {i} : tick'[j] = tick[j],
         UNCHANGED <<active, generation, timer, timers>>,
         published' \in [active : BOOLEAN, phase : Phases],
         offset' \in Nat, canSign' \in BOOLEAN
  PROVE  IInv'
<1> USE DEF IInv, TypeOK, Live
<1>1. TypeOK'
  OBVIOUS
<1>2. OneContinuation'
  BY DEF OneContinuation, Ids
<1>3. \A j \in Ids : tick'[j].at \in Awaits
        => j <= generation' /\ (j = generation' => active')
  OBVIOUS
<1>4. QED
  BY <1>1, <1>2, <1>3

\* An old tick's failure or answer ends that tick and touches nothing else.
LEMMA OldTickKeepsIInv ==
  ASSUME IInv, NEW i \in Ids, ~Live(i), EndTick(i), UNCHANGED session,
         UNCHANGED <<canSign, offset>>
  PROVE  IInv'
<1> USE DEF IInv, TypeOK, EndTick, session
<1>1. /\ tick'[i] = NoTick /\ tick' \in [Ids -> Ticks]
      /\ NoTick.at \notin Awaits
      /\ \A j \in Ids \ {i} : tick'[j] = tick[j]
  BY DEF NoTick, Ticks, Awaits
<1>2. TypeOK'
  BY <1>1
<1>3. OneContinuation'
  BY <1>1 DEF OneContinuation, Live, Ids
<1>4. \A j \in Ids : tick'[j].at \in Awaits
        => j <= generation' /\ (j = generation' => active')
  BY <1>1
<1>5. QED
  BY <1>2, <1>3, <1>4

\* Ending any tick creates no waiting tick.
LEMMA EndTickFacts ==
  ASSUME TypeOK, NEW i \in Ids, EndTick(i)
  PROVE  /\ tick' \in [Ids -> Ticks] /\ tick'[i].at = "none"
         /\ \A j \in Ids : tick'[j].at \in Awaits => tick[j].at \in Awaits
BY DEF TypeOK, EndTick, NoTick, Ticks, Awaits

LEMMA FailKeepsIInv ==
  ASSUME IInv, NEW i \in Ids, tick[i].at \in Awaits, Fail(i),
         UNCHANGED <<canSign, offset>>
  PROVE  IInv'
<1>1. CASE generation = i
  <2>1. active /\ generation < MaxGeneration
    BY <1>1, BoundAssumption DEF IInv, TypeOK, Ids
  <2>2. Stop("error") /\ EndTick(i)
    BY <1>1 DEF Fail
  <2>3. offset' \in Nat /\ canSign' \in BOOLEAN
    BY DEF IInv, TypeOK
  <2>4. QED
    BY <2>1, <2>2, <2>3, StopKeepsIInv, EndTickFacts DEF IInv, Phases
<1>2. CASE generation # i
  BY <1>2, OldTickKeepsIInv DEF Fail, Live
<1>3. QED
  BY <1>1, <1>2

LEMMA NextIInv == IInv /\ [Next]_vars => IInv'
<1> SUFFICES ASSUME IInv, [Next]_vars PROVE IInv'
  OBVIOUS
<1> USE BoundAssumption
<1>1. CASE UserStart
  <2>1. /\ generation' = generation + 1 /\ generation' \in Ids
        /\ generation' < MaxGeneration /\ offset' = 0
        /\ UNCHANGED <<canSign, timer, timers>> /\ active'
    BY <1>1 DEF UserStart, IInv, TypeOK, Ids
  <2>2. timers = {}
    BY <1>1 DEF UserStart, IInv, OneContinuation, Live
  <2>3. /\ tick' \in [Ids -> Ticks] /\ tick'[generation'].at \in Awaits
        /\ \A j \in Ids \ {generation'} : tick'[j] = tick[j]
    BY <1>1, <2>1 DEF UserStart, BeginTick, IInv, TypeOK, Ticks, Awaits
  <2>4. published' \in [active : BOOLEAN, phase : Phases]
    BY <1>1, PublishedType DEF UserStart, BeginTick, Publish, Phases
  <2>5. active' \in BOOLEAN /\ canSign' \in BOOLEAN
    BY <1>1 DEF UserStart, IInv, TypeOK
  <2>6. TypeOK'
    BY <2>1, <2>2, <2>3, <2>4, <2>5 DEF IInv, TypeOK, Ids
  <2>7. OneContinuation'
    BY <2>1, <2>2, <2>3 DEF OneContinuation
  <2>8. \A j \in Ids : tick'[j].at \in Awaits
          => j <= generation' /\ (j = generation' => active')
    BY <2>1, <2>3 DEF IInv, TypeOK, Ids
  <2>9. QED
    BY <2>1, <2>2, <2>6, <2>7, <2>8 DEF IInv
<1>2. CASE UserStop
  <2>1. /\ generation < MaxGeneration /\ Stop("idle") /\ tick' = tick
        /\ offset' \in Nat /\ canSign' \in BOOLEAN
    BY <1>2 DEF UserStop, IInv, TypeOK
  <2>2. tick' \in [Ids -> Ticks]
    BY <2>1 DEF IInv, TypeOK
  <2>3. QED
    BY <2>1, <2>2, StopKeepsIInv DEF Phases
<1>3. CASE PermissionChange
  <2>1. canSign' \in BOOLEAN
    BY <1>3 DEF PermissionChange, IInv, TypeOK
  <2>2. TypeOK'
    BY <1>3, <2>1 DEF PermissionChange, IInv, TypeOK
  <2>3. QED
    BY <1>3, <2>2 DEF PermissionChange, IInv, OneContinuation, Live
<1>4. ASSUME NEW i \in Ids, TimerFires(i) PROVE IInv'
  <2>1. Live(i) /\ timers = {i} /\ timer = i /\ tick[i].at \notin Awaits
    BY <1>4 DEF TimerFires, IInv, OneContinuation, Live
  <2>2. CASE Current(i)
    <3>1. /\ timers' = {} /\ BeginTick(i)
          /\ UNCHANGED <<active, generation, timer, canSign, offset>>
      BY <1>4, <2>1, <2>2 DEF TimerFires
    <3>2. /\ tick' \in [Ids -> Ticks] /\ tick'[i].at \in Awaits
          /\ \A j \in Ids \ {i} : tick'[j] = tick[j]
      BY <3>1 DEF BeginTick, IInv, TypeOK, Ticks, Awaits
    <3>3. published' \in [active : BOOLEAN, phase : Phases]
      BY <3>1, PublishedType DEF BeginTick, Publish, Phases
    <3>4. TypeOK'
      BY <3>1, <3>2, <3>3 DEF IInv, TypeOK
    <3>5. OneContinuation'
      BY <2>1, <3>1, <3>2 DEF OneContinuation, Live
    <3>6. \A j \in Ids : tick'[j].at \in Awaits
            => j <= generation' /\ (j = generation' => active')
      BY <2>1, <3>1, <3>2 DEF IInv, TypeOK, Ids, Live
    <3>7. QED
      BY <3>1, <3>4, <3>5, <3>6 DEF IInv
  <2>3. CASE ~Current(i)
    <3>1. Stop("idle") /\ tick' = tick
      BY <1>4, <2>1, <2>3 DEF TimerFires, Stop
    <3>2. generation < MaxGeneration
      BY <2>1 DEF IInv, TypeOK, Live
    <3>3. /\ tick' \in [Ids -> Ticks] /\ offset' \in Nat
          /\ canSign' \in BOOLEAN
      BY <1>4, <3>1 DEF TimerFires, IInv, TypeOK
    <3>4. QED
      BY <3>1, <3>2, <3>3, StopKeepsIInv DEF Phases
  <2>4. QED
    BY <2>2, <2>3
<1>5. ASSUME NEW i \in Ids, Abandon(i) PROVE IInv'
  <2>1. /\ EndTick(i) /\ UNCHANGED <<canSign, offset>>
    BY <1>5 DEF Abandon
  <2>2. CASE Live(i)
    <3>1. Stop("idle") /\ generation < MaxGeneration
      BY <1>5, <2>2 DEF Abandon, IInv, TypeOK, Live
    <3>2. offset' \in Nat /\ canSign' \in BOOLEAN
      BY <2>1 DEF IInv, TypeOK
    <3>3. QED
      BY <2>1, <3>1, <3>2, StopKeepsIInv, EndTickFacts DEF IInv, Phases
  <2>3. CASE ~Live(i)
    BY <1>5, <2>1, <2>3, OldTickKeepsIInv DEF Abandon
  <2>4. QED
    BY <2>2, <2>3
<1>6. ASSUME NEW i \in Ids, RequestFails(i) PROVE IInv'
  BY <1>6, FailKeepsIInv DEF RequestFails
<1>7. ASSUME NEW i \in Ids, CandidatesAnswer(i) PROVE IInv'
  <2>1. /\ Live(i) /\ tick[i].at \in Awaits
        /\ canSign' \in BOOLEAN /\ UNCHANGED canSign
    BY <1>7 DEF CandidatesAnswer, Current, Awaits, IInv, TypeOK
  <2> DEFINE allowed(l) == Allowed(l)
             chosen(l)  == BatchFrom(NextOffset(allowed(l)), allowed(l))
  <2>2. PICK listing \in Listings :
          /\ offset' = NextOffset(allowed(listing)) + Cardinality(chosen(listing))
          /\ IF chosen(listing) = {}
             THEN Sleep(i, "waiting")
             ELSE /\ tick' = [tick EXCEPT ![i].at = "prepare",
                                         ![i].batch = chosen(listing),
                                         ![i].held = listing.reserved]
                  /\ UNCHANGED session
    BY <1>7 DEF CandidatesAnswer, Offer
  <2>3. NextOffset(allowed(listing)) \in Nat
    BY DEF NextOffset, IInv, TypeOK
  <2>4. /\ chosen(listing) \in SUBSET Coins /\ offset' \in Nat
        /\ listing.reserved \in SUBSET Coins
    <3>1. /\ chosen(listing) \subseteq Coins
          /\ Cardinality(chosen(listing)) \in Nat
      BY <2>3, BatchType
    <3>2. QED
      BY <2>2, <2>3, <3>1, ListingsAssumption
  <2>5. CASE chosen(listing) = {}
    BY <2>1, <2>2, <2>4, <2>5, SleepKeepsIInv DEF Phases
  <2>6. CASE chosen(listing) # {}
    <3> HIDE DEF chosen
    <3>1. /\ tick' \in [Ids -> Ticks] /\ tick'[i].at \in Awaits
          /\ \A j \in Ids \ {i} : tick'[j] = tick[j]
      BY <2>2, <2>4, <2>6 DEF IInv, TypeOK, Ticks, Awaits
    <3>2. QED
      BY <2>1, <2>2, <2>4, <2>6, <3>1, AdvanceKeepsIInv
         DEF session, IInv, TypeOK
  <2>7. QED
    BY <2>5, <2>6
<1>8. ASSUME NEW i \in Ids, PrepareAnswer(i) PROVE IInv'
  <2>1. /\ Live(i) /\ tick[i].at \in Awaits
        /\ canSign' \in BOOLEAN /\ offset' \in Nat
        /\ UNCHANGED <<canSign, offset>>
    BY <1>8 DEF PrepareAnswer, Current, Awaits, IInv, TypeOK
  <2>2. CASE Sleep(i, "waiting")
    BY <2>1, <2>2, SleepKeepsIInv DEF Phases
  <2>3. ASSUME NEW t \in Templates,
               tick' = [tick EXCEPT ![i].at = "tip", ![i].template = {t}],
               Publish(TRUE, "waiting"),
               UNCHANGED <<active, generation, timer, timers>>
        PROVE  IInv'
    <3>1. /\ tick' \in [Ids -> Ticks] /\ tick'[i].at \in Awaits
          /\ \A j \in Ids \ {i} : tick'[j] = tick[j]
      <4> DEFINE next == [tick[i] EXCEPT !.at = "tip", !.template = {t}]
      <4>1. tick \in [Ids -> Ticks]
        BY DEF IInv, TypeOK
      <4>2. next \in Ticks /\ next.at \in Awaits
        BY <4>1, <2>3 DEF Ticks, Awaits
      <4>3. tick' = [tick EXCEPT ![i] = next]
        BY <2>3
      <4>4. QED
        BY <4>1, <4>2, <4>3
    <3>2. published' \in [active : BOOLEAN, phase : Phases]
      BY <2>3, PublishedType DEF Publish, Phases
    <3>3. QED
      BY <2>1, <2>3, <3>1, <3>2, AdvanceKeepsIInv DEF IInv, TypeOK
  <2>4. QED
    BY <1>8, <2>2, <2>3 DEF PrepareAnswer
<1>9. ASSUME NEW i \in Ids, TipAnswer(i) PROVE IInv'
  <2>1. /\ Live(i) /\ tick[i].at \in Awaits
        /\ canSign' \in BOOLEAN /\ offset' \in Nat
        /\ UNCHANGED <<canSign, offset>>
    BY <1>9 DEF TipAnswer, Current, Awaits, IInv, TypeOK
  <2>2. PICK t \in tick[i].template, expectedTip \in Tips :
          IF t.tip # expectedTip
          THEN Sleep(i, "waiting")
          ELSE IF Signable(i, t)
          THEN /\ tick' = [tick EXCEPT ![i] = Submitting([session |-> i, coin |-> t.coin,
                                             parent |-> t.tip, tip |-> expectedTip])]
               /\ Publish(TRUE, "submitting")
               /\ UNCHANGED <<active, generation, timer, timers>>
          ELSE Fail(i)
    BY <1>9 DEF TipAnswer
  <2>3. t \in Templates
    BY DEF IInv, TypeOK, Ticks
  <2>4. CASE t.tip # expectedTip
    BY <2>1, <2>2, <2>4, SleepKeepsIInv DEF Phases
  <2>5. CASE t.tip = expectedTip /\ Signable(i, t)
    <3> DEFINE b == [session |-> i, coin |-> t.coin, parent |-> t.tip, tip |-> expectedTip]
    <3>0. Submitting(b) \in Ticks /\ Submitting(b).at \in Awaits
      <4>1. b \in Blocks
        BY <2>3 DEF Templates, Blocks
      <4>2. {b} \in SUBSET Blocks
        BY <4>1
      <4> HIDE DEF b
      <4>3. Submitting(b) = [at |-> "submit", batch |-> {}, held |-> {}, template |-> {},
                             signed |-> {b}]
        BY DEF Submitting
      <4>4. QED
        BY <4>2, <4>3 DEF Ticks, Awaits
    <3>1. /\ tick' \in [Ids -> Ticks] /\ tick'[i].at \in Awaits
          /\ \A j \in Ids \ {i} : tick'[j] = tick[j]
      BY <2>2, <2>5, <3>0 DEF IInv, TypeOK
    <3>2. published' \in [active : BOOLEAN, phase : Phases]
      <4>1. published' = [active |-> TRUE, phase |-> "submitting"]
        BY <2>2, <2>5 DEF Publish
      <4>2. QED
        BY <4>1, PublishedType DEF Phases
    <3>3. QED
      BY <2>1, <2>2, <2>5, <3>1, <3>2, AdvanceKeepsIInv
  <2>6. CASE t.tip = expectedTip /\ ~Signable(i, t)
    BY <2>1, <2>2, <2>6, FailKeepsIInv
  <2>7. QED
    BY <2>4, <2>5, <2>6
<1>10. ASSUME NEW i \in Ids, SubmitAnswer(i) PROVE IInv'
  <2>1. /\ Live(i) /\ tick[i].at \in Awaits /\ Sleep(i, "accepted")
        /\ canSign' \in BOOLEAN /\ offset' \in Nat
    BY <1>10 DEF SubmitAnswer, Current, Awaits, IInv, TypeOK
  <2>2. QED
    BY <2>1, SleepKeepsIInv DEF Phases
<1>11. CASE UNCHANGED vars
  BY <1>11 DEF vars, IInv, TypeOK, OneContinuation, Live
<1>12. QED
  BY <1>1, <1>2, <1>3, <1>4, <1>5, <1>6, <1>7, <1>8, <1>9, <1>10, <1>11
     DEF Next, Answer

LEMMA IInvHolds == Spec => []IInv
<1>1. QED
  BY InitIInv, NextIInv, PTL DEF Spec

\* Every variable of the session keeps its type, whatever the service answers.
THEOREM TypeCorrect == Spec => []TypeOK
<1>1. IInv => TypeOK
  BY DEF IInv
<1>2. QED
  BY <1>1, IInvHolds, PTL

\* stop(), start() and the tick's tail never leave an active session with two
\* continuations or with none, nor a stopped one with an armed timeout.
THEOREM OneContinuationHolds == Spec => []OneContinuation
<1>1. IInv => OneContinuation
  BY DEF IInv
<1>2. QED
  BY <1>1, IInvHolds, PTL

\* What the page shows follows the session: an answer to a tick that was stopped
\* paints nothing, and no phase of a running session outlives its await.
LEMMA StopKeepsPublished ==
  ASSUME NEW phase \in {"idle", "error"}, ~active', Publish(FALSE, phase)
  PROVE  PublishedIsTrue'
<1>1. published'.active = FALSE /\ published'.phase = phase
  BY DEF Publish
<1>2. active' = FALSE => PublishedIsTrue'
  BY <1>1 DEF PublishedIsTrue
<1>3. QED
  BY <1>2

LEMMA SleepKeepsPublished ==
  ASSUME IInv, NEW i \in Ids, Live(i), NEW phase \in {"waiting", "accepted"},
         Sleep(i, phase)
  PROVE  PublishedIsTrue'
<1>1. tick'[i].at = "none"
  BY EndTickFacts DEF Sleep, IInv
<1>2. QED
  BY <1>1 DEF Sleep, Live, Publish, PublishedIsTrue

\* A tick of an older generation ends in silence.
LEMMA OldTickKeepsPublished ==
  ASSUME IInv, PublishedIsTrue, NEW i \in Ids, EndTick(i), ~Live(i), UNCHANGED session
  PROVE  PublishedIsTrue'
<1>1. active => tick'[generation] = tick[generation]
  BY DEF IInv, TypeOK, EndTick, Live, Ids
<1>2. QED
  BY <1>1 DEF session, PublishedIsTrue

LEMMA FailKeepsPublished ==
  ASSUME IInv, PublishedIsTrue, NEW i \in Ids, tick[i].at \in Awaits, Fail(i)
  PROVE  PublishedIsTrue'
<1>1. CASE generation = i
  BY <1>1, StopKeepsPublished DEF Fail, Stop
<1>2. CASE generation # i
  BY <1>2, OldTickKeepsPublished DEF Fail, Live
<1>3. QED
  BY <1>1, <1>2

LEMMA BeginTickFacts ==
  ASSUME TypeOK, NEW i \in Ids, BeginTick(i)
  PROVE  tick'[i].at = "candidates" /\ Publish(TRUE, "checking")
<1>1. tick[i] \in Ticks /\ i \in DOMAIN tick
  BY DEF TypeOK
<1>2. tick'[i] = [tick[i] EXCEPT !.at = "candidates"]
  BY <1>1 DEF BeginTick
<1>3. tick'[i].at = "candidates"
  BY <1>1, <1>2 DEF Ticks
<1>4. QED
  BY <1>3 DEF BeginTick

\* The page shows as running what runs, and the phase that it is in.
THEOREM PublishedIsTrueHolds == Spec => []PublishedIsTrue
<1>1. Init => PublishedIsTrue
  <2> SUFFICES ASSUME Init PROVE PublishedIsTrue
    OBVIOUS
  <2>1. active = FALSE /\ published.active = FALSE /\ published.phase = "idle"
    BY DEF Init
  <2>2. QED
    BY <2>1 DEF PublishedIsTrue
<1>2. ASSUME IInv, PublishedIsTrue, [Next]_vars PROVE PublishedIsTrue'
  <2> USE BoundAssumption
  <2>1. CASE UserStart
    <3>0. TypeOK /\ generation' \in Ids /\ BeginTick(generation')
      BY <1>2, <2>1 DEF UserStart, IInv, TypeOK, Ids
    <3>1. tick'[generation'].at = "candidates"
      BY <3>0, BeginTickFacts
    <3>2. QED
      BY <2>1, <3>1 DEF UserStart, BeginTick, Publish, PublishedIsTrue
  <2>2. CASE UserStop
    BY <2>2, StopKeepsPublished DEF UserStop, Stop
  <2>3. CASE PermissionChange
    BY <1>2, <2>3 DEF PermissionChange, PublishedIsTrue
  <2>4. ASSUME NEW i \in Ids, TimerFires(i) PROVE PublishedIsTrue'
    <3>1. Live(i)
      BY <1>2, <2>4 DEF TimerFires, IInv, OneContinuation
    <3>2. CASE Current(i)
      <4>1. tick'[i].at = "candidates" /\ Publish(TRUE, "checking")
            /\ UNCHANGED <<active, generation>>
        BY <1>2, <2>4, <3>2, BeginTickFacts DEF TimerFires, IInv
      <4>2. QED
        BY <3>1, <4>1 DEF Live, Publish, PublishedIsTrue
    <3>3. CASE ~Current(i)
      BY <2>4, <3>1, <3>3, StopKeepsPublished DEF TimerFires
    <3>4. QED
      BY <3>2, <3>3
  <2>5. ASSUME NEW i \in Ids, Abandon(i) PROVE PublishedIsTrue'
    <3>1. CASE Live(i)
      BY <2>5, <3>1, StopKeepsPublished DEF Abandon, Stop
    <3>2. CASE ~Live(i)
      BY <1>2, <2>5, <3>2, OldTickKeepsPublished DEF Abandon
    <3>3. QED
      BY <3>1, <3>2
  <2>6. ASSUME NEW i \in Ids, RequestFails(i) PROVE PublishedIsTrue'
    BY <1>2, <2>6, FailKeepsPublished DEF RequestFails
  <2>7. ASSUME NEW i \in Ids, CandidatesAnswer(i) PROVE PublishedIsTrue'
    <3>1. Live(i) /\ tick[i].at = "candidates"
      BY <2>7 DEF CandidatesAnswer, Current
    <3>2. Sleep(i, "waiting") \/ (tick'[i].at = "prepare" /\ UNCHANGED session)
      BY <1>2, <2>7 DEF CandidatesAnswer, Offer, IInv, TypeOK, Ticks
    <3>3. CASE Sleep(i, "waiting")
      BY <1>2, <3>1, <3>3, SleepKeepsPublished
    <3>4. CASE tick'[i].at = "prepare" /\ UNCHANGED session
      BY <1>2, <3>1, <3>4 DEF session, Live, PublishedIsTrue
    <3>5. QED
      BY <3>2, <3>3, <3>4
  <2>8. ASSUME NEW i \in Ids, PrepareAnswer(i) PROVE PublishedIsTrue'
    <3>1. Live(i)
      BY <2>8 DEF PrepareAnswer, Current
    <3>2. \/ Sleep(i, "waiting")
          \/ /\ tick'[i].at = "tip" /\ Publish(TRUE, "waiting")
             /\ UNCHANGED <<active, generation>>
      <4>1. tick \in [Ids -> Ticks]
        BY <1>2 DEF IInv, TypeOK
      <4>2. ASSUME NEW t \in Templates,
                   tick' = [tick EXCEPT ![i].at = "tip", ![i].template = {t}]
            PROVE  tick'[i].at = "tip"
        BY <4>1, <4>2 DEF Ticks
      <4>3. QED
        BY <2>8, <4>2 DEF PrepareAnswer
    <3>3. CASE Sleep(i, "waiting")
      BY <1>2, <3>1, <3>3, SleepKeepsPublished
    <3>4. CASE /\ tick'[i].at = "tip" /\ Publish(TRUE, "waiting")
               /\ UNCHANGED <<active, generation>>
      BY <3>1, <3>4 DEF Live, Publish, PublishedIsTrue
    <3>5. QED
      BY <3>2, <3>3, <3>4
  <2>9. ASSUME NEW i \in Ids, TipAnswer(i) PROVE PublishedIsTrue'
    <3>1. Live(i) /\ tick[i].at \in Awaits
      BY <2>9 DEF TipAnswer, Current, Awaits
    <3>2. \/ Sleep(i, "waiting") \/ Fail(i)
          \/ /\ tick'[i].at = "submit" /\ Publish(TRUE, "submitting")
             /\ UNCHANGED <<active, generation>>
      <4>1. tick \in [Ids -> Ticks]
        BY <1>2 DEF IInv, TypeOK
      <4>2. ASSUME NEW b, tick' = [tick EXCEPT ![i] = Submitting(b)]
            PROVE  tick'[i].at = "submit"
        BY <4>1, <4>2 DEF Submitting, NoTick
      <4>3. QED
        BY <2>9, <4>2 DEF TipAnswer
    <3>3. CASE Sleep(i, "waiting")
      BY <1>2, <3>1, <3>3, SleepKeepsPublished
    <3>4. CASE Fail(i)
      BY <1>2, <3>1, <3>4, FailKeepsPublished
    <3>5. CASE /\ tick'[i].at = "submit" /\ Publish(TRUE, "submitting")
               /\ UNCHANGED <<active, generation>>
      BY <3>1, <3>5 DEF Live, Publish, PublishedIsTrue
    <3>6. QED
      BY <3>2, <3>3, <3>4, <3>5
  <2>10. ASSUME NEW i \in Ids, SubmitAnswer(i) PROVE PublishedIsTrue'
    BY <1>2, <2>10, SleepKeepsPublished DEF SubmitAnswer, Current
  <2>11. CASE UNCHANGED vars
    BY <1>2, <2>11 DEF vars, PublishedIsTrue
  <2>12. QED
    BY <1>2, <2>1, <2>2, <2>3, <2>4, <2>5, <2>6, <2>7, <2>8, <2>9, <2>10, <2>11
       DEF Next, Answer
<1>3. QED
  BY <1>1, <1>2, IInvHolds, PTL DEF Spec

\* What a step does to the signed blocks of the ticks.
LEMMA EndTickSigned ==
  ASSUME TypeOK, NEW i \in Ids, EndTick(i)
  PROVE  \A j \in Ids : tick'[j].signed \subseteq tick[j].signed
<1>1. tick' = [tick EXCEPT ![i] = NoTick] /\ tick \in [Ids -> Ticks] /\ NoTick.signed = {}
  BY DEF EndTick, NoTick, TypeOK
<1>2. tick'[i] = NoTick /\ \A j \in Ids \ {i} : tick'[j] = tick[j]
  BY <1>1
<1>3. QED
  BY <1>1, <1>2

LEMMA BeginTickSigned ==
  ASSUME TypeOK, NEW i \in Ids, BeginTick(i)
  PROVE  \A j \in Ids : tick'[j].signed = tick[j].signed
BY DEF BeginTick, TypeOK, Ticks

LEMMA OfferSigned ==
  ASSUME TypeOK, NEW i \in Ids, NEW listing \in Listings, Offer(i, listing)
  PROVE  \A j \in Ids : tick'[j].signed \subseteq tick[j].signed
<1> DEFINE chosen == BatchFrom(NextOffset(Allowed(listing)), Allowed(listing))
<1>1. CASE chosen = {}
  BY <1>1, EndTickSigned DEF Offer, Sleep
<1>2. CASE chosen # {}
  <2>1. tick' = [tick EXCEPT ![i].at = "prepare", ![i].batch = chosen,
                             ![i].held = listing.reserved]
    BY <1>2 DEF Offer
  <2> HIDE DEF chosen
  <2>2. QED
    BY <2>1 DEF TypeOK, Ticks
<1>3. QED
  BY <1>1, <1>2

LEMMA PrepareSigned ==
  ASSUME TypeOK, NEW i \in Ids, PrepareAnswer(i)
  PROVE  \A j \in Ids : tick'[j].signed \subseteq tick[j].signed
<1>1. CASE Sleep(i, "waiting")
  BY <1>1, EndTickSigned DEF Sleep
<1>2. ASSUME NEW t \in Templates, tick' = [tick EXCEPT ![i].at = "tip", ![i].template = {t}]
      PROVE  \A j \in Ids : tick'[j].signed \subseteq tick[j].signed
  BY <1>2 DEF TypeOK, Ticks
<1>3. QED
  BY <1>1, <1>2 DEF PrepareAnswer

\* A tick's answer signs at most one block, of a coin that the tick may sign.
LEMMA TipSigned ==
  ASSUME TypeOK, NEW i \in Ids, TipAnswer(i)
  PROVE  \/ \A j \in Ids : tick'[j].signed \subseteq tick[j].signed
         \/ \E t \in tick[i].template, expectedTip \in Tips :
              /\ t.tip = expectedTip /\ Signable(i, t)
              /\ UNCHANGED <<active, generation>>
              /\ tick' = [tick EXCEPT ![i] =
                            Submitting([session |-> i, coin |-> t.coin,
                                        parent |-> t.tip, tip |-> expectedTip])]
<1>1. PICK t \in tick[i].template, expectedTip \in Tips :
        IF t.tip # expectedTip
        THEN EndTick(i)
        ELSE IF Signable(i, t)
        THEN /\ tick' = [tick EXCEPT ![i] = Submitting([session |-> i, coin |-> t.coin,
                                          parent |-> t.tip, tip |-> expectedTip])]
             /\ UNCHANGED <<active, generation>>
        ELSE EndTick(i)
  BY DEF TipAnswer, Sleep, Fail
<1>2. CASE t.tip = expectedTip /\ Signable(i, t)
  BY <1>1, <1>2
<1>3. CASE ~(t.tip = expectedTip /\ Signable(i, t))
  BY <1>1, <1>3, EndTickSigned
<1>4. QED
  BY <1>2, <1>3

LEMMA NextSigned ==
  ASSUME IInv, Next
  PROVE  \/ Signed' \subseteq Signed
         \/ \E i \in Ids, t \in UNION {tick[k].template : k \in Ids}, expectedTip \in Tips :
              /\ TipAnswer(i) /\ t \in tick[i].template
              /\ t.tip = expectedTip /\ Signable(i, t)
              /\ UNCHANGED <<active, generation>>
              /\ tick' = [tick EXCEPT ![i] =
                            Submitting([session |-> i, coin |-> t.coin,
                                        parent |-> t.tip, tip |-> expectedTip])]
<1> DEFINE Fewer == \A j \in Ids : tick'[j].signed \subseteq tick[j].signed
<1>0. TypeOK
  BY DEF IInv
<1>1. Fewer => Signed' \subseteq Signed
  BY DEF Signed, Ids
<1>2. CASE UserStart
  <2>1. generation' \in Ids /\ BeginTick(generation')
    BY <1>0, <1>2, BoundAssumption DEF UserStart, TypeOK, Ids
  <2>2. QED
    BY <1>0, <1>1, <2>1, BeginTickSigned
<1>3. CASE UserStop \/ PermissionChange
  BY <1>1, <1>3 DEF UserStop, PermissionChange
<1>4. ASSUME NEW i \in Ids, TimerFires(i) PROVE Signed' \subseteq Signed
  BY <1>0, <1>1, <1>4, BeginTickSigned DEF TimerFires
<1>5. ASSUME NEW i \in Ids, Abandon(i) \/ RequestFails(i) \/ SubmitAnswer(i)
      PROVE  Signed' \subseteq Signed
  BY <1>0, <1>1, <1>5, EndTickSigned DEF Abandon, RequestFails, SubmitAnswer, Fail, Sleep
<1>6. ASSUME NEW i \in Ids, CandidatesAnswer(i) \/ PrepareAnswer(i) PROVE Signed' \subseteq Signed
  BY <1>0, <1>1, <1>6, OfferSigned, PrepareSigned DEF CandidatesAnswer
<1>7. ASSUME NEW i \in Ids, TipAnswer(i), ~(Signed' \subseteq Signed)
      PROVE  \E t \in UNION {tick[k].template : k \in Ids}, expectedTip \in Tips :
              /\ t \in tick[i].template
              /\ t.tip = expectedTip /\ Signable(i, t)
              /\ UNCHANGED <<active, generation>>
              /\ tick' = [tick EXCEPT ![i] =
                            Submitting([session |-> i, coin |-> t.coin,
                                        parent |-> t.tip, tip |-> expectedTip])]
  <2>1. PICK t \in tick[i].template, expectedTip \in Tips :
          /\ t.tip = expectedTip /\ Signable(i, t)
          /\ UNCHANGED <<active, generation>>
          /\ tick' = [tick EXCEPT ![i] =
                        Submitting([session |-> i, coin |-> t.coin,
                                    parent |-> t.tip, tip |-> expectedTip])]
    BY <1>0, <1>1, <1>7, TipSigned
  <2>2. t \in UNION {tick[k].template : k \in Ids}
    OBVIOUS
  <2>3. QED
    BY <2>1, <2>2
<1>8. SUFFICES ASSUME ~(Signed' \subseteq Signed)
      PROVE \E i \in Ids, t \in UNION {tick[k].template : k \in Ids}, expectedTip \in Tips :
              /\ TipAnswer(i) /\ t \in tick[i].template
              /\ t.tip = expectedTip /\ Signable(i, t)
              /\ UNCHANGED <<active, generation>>
              /\ tick' = [tick EXCEPT ![i] =
                            Submitting([session |-> i, coin |-> t.coin,
                                        parent |-> t.tip, tip |-> expectedTip])]
  OBVIOUS
<1>9. PICK i \in Ids : TipAnswer(i)
  BY <1>2, <1>3, <1>4, <1>5, <1>6, <1>8 DEF Next, Answer
<1>10. QED
  BY <1>7, <1>8, <1>9

\* The blocks signed by a step that submits one.
LEMMA SubmittingSigned ==
  ASSUME TypeOK, NEW i \in Ids, NEW b, tick' = [tick EXCEPT ![i] = Submitting(b)]
  PROVE  Signed' \subseteq Signed \cup {b}
<1>1. Submitting(b).signed = {b}
  BY DEF Submitting
<1>2. tick'[i].signed = {b} /\ \A j \in Ids \ {i} : tick'[j].signed = tick[j].signed
  BY <1>1 DEF TypeOK
<1>3. QED
  BY <1>2 DEF Signed, Ids

\* Whoever signs is the running session, permitted, in the tick that offered
\* the coin, on the tip it read last.
THEOREM SignsOnlyWhileCurrentHolds == Spec => SignsOnlyWhileCurrent
<1> DEFINE Signing ==
      \A b \in Signed' \ Signed :
        /\ Current(b.session) /\ Live(b.session)'
        /\ b.coin \in tick[b.session].batch \ tick[b.session].held
        /\ b.parent = b.tip
<1>1. IInv /\ [Next]_vars => [Signing]_vars
  <2> SUFFICES ASSUME IInv, Next, ~(Signed' \subseteq Signed) PROVE Signing
    OBVIOUS
  <2>1. PICK i \in Ids, t \in UNION {tick[k].template : k \in Ids}, expectedTip \in Tips :
          /\ TipAnswer(i) /\ t.tip = expectedTip /\ Signable(i, t)
          /\ UNCHANGED <<active, generation>>
          /\ tick' = [tick EXCEPT ![i] =
                        Submitting([session |-> i, coin |-> t.coin,
                                    parent |-> t.tip, tip |-> expectedTip])]
    BY NextSigned
  <2>2. Current(i)
    BY <2>1 DEF TipAnswer
  <2>3. ASSUME NEW b \in Signed' \ Signed
        PROVE  /\ b.session = i /\ b.parent = b.tip
               /\ b.coin \in tick[i].batch \ tick[i].held
    <3> DEFINE c == [session |-> i, coin |-> t.coin, parent |-> t.tip, tip |-> expectedTip]
    <3>1. TypeOK /\ tick' = [tick EXCEPT ![i] = Submitting(c)]
      BY <2>1 DEF IInv
    <3>2. Signed' \subseteq Signed \cup {c}
      <4> HIDE DEF c
      <4>1. QED
        BY <3>1, SubmittingSigned
    <3>3. b = c
      BY <2>3, <3>2
    <3>4. QED
      BY <2>1, <3>3 DEF Signable
  <2>4. QED
    BY <2>1, <2>2, <2>3 DEF Live, Current
<1>2. QED
  BY <1>1, IInvHolds, PTL DEF Spec, SignsOnlyWhileCurrent

\* An old tick that wakes up asks for nothing more: whoever sends a request is
\* the running session, and permitted.
THEOREM RequestsOnlyWhileCurrentHolds == Spec => RequestsOnlyWhileCurrent
<1> DEFINE Asks(i) == tick'[i].at # tick[i].at /\ tick'[i].at \in Awaits
           Requesting == \A i \in Ids : Asks(i) => active' /\ generation' = i /\ canSign
<1>1. IInv /\ [Next]_vars => [Requesting]_vars
  <2> SUFFICES ASSUME IInv, Next, NEW i \in Ids, Asks(i)
               PROVE  active' /\ generation' = i /\ canSign
    OBVIOUS
  <2> USE BoundAssumption
  <2>1. ASSUME NEW j \in Ids, EndTick(j) PROVE FALSE
    BY <2>1, EndTickFacts DEF EndTick, IInv, TypeOK, Awaits, NoTick
  <2>2. CASE UserStart
    BY <2>2 DEF UserStart, BeginTick, IInv, TypeOK, Ids
  <2>3. CASE UserStop \/ PermissionChange
    BY <2>3 DEF UserStop, PermissionChange
  <2>4. ASSUME NEW j \in Ids, TimerFires(j) PROVE active' /\ generation' = i /\ canSign
    BY <2>4 DEF TimerFires, BeginTick, Current, Live, IInv, TypeOK
  <2>5. ASSUME NEW j \in Ids, Abandon(j) \/ RequestFails(j) \/ SubmitAnswer(j) PROVE FALSE
    BY <2>1, <2>5 DEF Abandon, RequestFails, Fail, SubmitAnswer, Sleep
  <2>6. ASSUME NEW j \in Ids, CandidatesAnswer(j) \/ PrepareAnswer(j) \/ TipAnswer(j)
        PROVE  active' /\ generation' = i /\ canSign
    <3>1. Live(j) /\ canSign
      BY <2>6 DEF CandidatesAnswer, PrepareAnswer, TipAnswer, Current
    <3>2. ~Sleep(j, "waiting") /\ ~Fail(j)
      BY <2>1 DEF Sleep, Fail
    <3>3. UNCHANGED <<active, generation>> /\ \A k \in Ids \ {j} : tick'[k] = tick[k]
      <4>1. CASE CandidatesAnswer(j)
        BY <3>2, <4>1 DEF CandidatesAnswer, Offer, session, IInv, TypeOK
      <4>2. CASE PrepareAnswer(j)
        BY <3>2, <4>2 DEF PrepareAnswer, IInv, TypeOK
      <4>3. CASE TipAnswer(j)
        BY <3>2, <4>3 DEF TipAnswer, IInv, TypeOK
      <4>4. QED
        BY <2>6, <4>1, <4>2, <4>3
    <3>4. QED
      BY <3>1, <3>3 DEF Live
  <2>7. QED
    BY <2>2, <2>3, <2>4, <2>5, <2>6 DEF Next, Answer
<1>2. QED
  BY <1>1, IInvHolds, PTL DEF Spec, RequestsOnlyWhileCurrent

\* The session refines the signing authority: every step grants, revokes, signs
\* or leaves the authority alone, and a revoked generation never holds it again.
THEOREM RefinesAuthority == Spec => ImplementsAuthority
<1> USE DEF Authority!Init, Authority!Next, Authority!avars
<1>1. Init => Authority!Init
  <2>1. Init => Signed = {}
    BY DEF Init, Signed, NoTick
  <2>2. QED
    BY <2>1, BoundAssumption DEF Init, Holder, Spent, Ids
<1>2. ASSUME IInv, [Next]_vars PROVE [Authority!Next]_(Authority!avars)
  <2> USE BoundAssumption
  <2>1. ASSUME NEW phase, Stop(phase), UNCHANGED canSign, Signed' \subseteq Signed
        PROVE  Authority!Revoke
    BY <1>2, <2>1 DEF Authority!Revoke, Stop, Holder, Spent, Live, Ids, IInv, TypeOK
  <2>2. ASSUME UNCHANGED <<canSign, active, generation>>, Signed' \subseteq Signed
        PROVE  Authority!Settle
    BY <2>2 DEF Authority!Settle, Holder, Spent, Live
  <2>3. CASE UserStart
    <3>1. /\ canSign /\ ~active /\ active' /\ generation' = generation + 1
          /\ generation' \in Ids /\ UNCHANGED canSign /\ BeginTick(generation')
      BY <1>2, <2>3 DEF UserStart, IInv, TypeOK, Ids
    <3>2. Holder = 0 /\ Holder' = generation' /\ Spent' = Spent
          /\ generation' \notin Spent
      BY <1>2, <3>1 DEF Holder, Spent, Live, IInv, TypeOK, Ids
    <3>3. Signed' = Signed
      BY <1>2, <3>1, BeginTickSigned DEF IInv, Signed, Ids
    <3>4. QED
      BY <3>1, <3>2, <3>3 DEF Authority!Grant
  <2>4. CASE PermissionChange
    <3>1. Signed' = Signed /\ Holder' = Holder /\ Spent' = Spent
      BY <2>4 DEF PermissionChange, Signed, Holder, Spent, Live
    <3>2. QED
      BY <1>2, <2>4, <3>1 DEF PermissionChange, Authority!Permit, IInv, TypeOK
  <2>5. CASE UNCHANGED vars
    BY <2>5 DEF vars, Signed, Holder, Spent, Live
  <2>6. CASE Next /\ Signed' \subseteq Signed
    <3>1. CASE UserStop
      BY <2>1, <2>6, <3>1 DEF UserStop
    <3>2. ASSUME NEW i \in Ids, TimerFires(i) PROVE [Authority!Next]_(Authority!avars)
      <4>1. Live(i) /\ timers = {i} /\ timer = i
        BY <1>2, <3>2 DEF TimerFires, IInv, OneContinuation, Live
      <4>2. CASE Current(i)
        BY <2>2, <2>6, <3>2, <4>2 DEF TimerFires
      <4>3. CASE ~Current(i)
        <5>1. Stop("idle") /\ UNCHANGED canSign
          BY <3>2, <4>1, <4>3 DEF TimerFires, Stop
        <5>2. QED
          BY <2>1, <2>6, <5>1
      <4>4. QED
        BY <4>2, <4>3
    <3>3. ASSUME NEW i \in Ids, Abandon(i) PROVE [Authority!Next]_(Authority!avars)
      BY <2>1, <2>2, <2>6, <3>3 DEF Abandon, session
    <3>4. ASSUME NEW i \in Ids, Fail(i), UNCHANGED canSign
          PROVE  [Authority!Next]_(Authority!avars)
      BY <2>1, <2>2, <2>6, <3>4 DEF Fail, session
    <3>5. ASSUME NEW i \in Ids, CandidatesAnswer(i) \/ PrepareAnswer(i) \/ SubmitAnswer(i)
          PROVE  [Authority!Next]_(Authority!avars)
      BY <2>2, <2>6, <3>5 DEF CandidatesAnswer, Offer, PrepareAnswer, SubmitAnswer, Sleep,
                              session
    <3>6. ASSUME NEW i \in Ids, TipAnswer(i) PROVE [Authority!Next]_(Authority!avars)
      <4>1. UNCHANGED canSign /\ (Fail(i) \/ UNCHANGED <<active, generation>>)
        BY <3>6 DEF TipAnswer, Sleep
      <4>2. QED
        BY <2>2, <2>6, <3>4, <4>1
    <3>7. QED
      BY <2>3, <2>4, <2>6, <3>1, <3>2, <3>3, <3>4, <3>5, <3>6 DEF Next, Answer, RequestFails
  <2>7. CASE Next /\ ~(Signed' \subseteq Signed)
    <3>1. PICK i \in Ids, t \in UNION {tick[k].template : k \in Ids}, expectedTip \in Tips :
            /\ TipAnswer(i) /\ t \in tick[i].template
            /\ UNCHANGED <<active, generation>>
            /\ tick' = [tick EXCEPT ![i] =
                          Submitting([session |-> i, coin |-> t.coin,
                                      parent |-> t.tip, tip |-> expectedTip])]
      BY <1>2, <2>7, NextSigned
    <3>2. /\ Live(i) /\ canSign /\ UNCHANGED canSign /\ i # 0 /\ t \in Templates
      BY <1>2, <3>1 DEF TipAnswer, Current, IInv, TypeOK, Ticks, Ids
    <3> DEFINE b == [session |-> i, coin |-> t.coin, parent |-> t.tip, tip |-> expectedTip]
    <3>3. b \in Blocks /\ b.session = i
      BY <3>1, <3>2 DEF Templates, Blocks
    <3>4. Holder = i /\ Holder' = Holder /\ Spent' = Spent
      BY <3>1, <3>2 DEF Holder, Spent, Live
    <3>5. Signed' \subseteq Signed \cup {b}
      <4>1. TypeOK /\ tick' = [tick EXCEPT ![i] = Submitting(b)]
        BY <1>2, <3>1 DEF IInv
      <4> HIDE DEF b
      <4>2. QED
        BY <4>1, SubmittingSigned
    <3>6. QED
      BY <3>2, <3>3, <3>4, <3>5 DEF Authority!Sign
  <2>8. QED
    BY <1>2, <2>5, <2>6, <2>7
<1>3. QED
  BY <1>1, <1>2, IInvHolds, PTL DEF Spec, ImplementsAuthority, Authority!Spec

-----------------------------------------------------------------------------
\* The connection

Proofs == INSTANCE PQDatabase_proofs

LEMMA InitConnection == StakingInit => Proofs!Init
BY DEF StakingInit, Database!Init, Proofs!Init,
       Database!Attempts, Proofs!Attempts, Database!Unused, Proofs!Unused,
       Database!PQ_WALLET_DB_VERSION, Proofs!PQ_WALLET_DB_VERSION,
       Database!OldVersion, Proofs!OldVersion

\* The two instances of PQDatabase are the same: a step of one is a step of the other.
LEMMA SameSteps == Database!Next => Proofs!Next
BY DEF Database!Next, Proofs!Next,
       Database!Call, Proofs!Call, Database!Answered, Proofs!Answered,
       Database!Race, Proofs!Race, Database!Refuse, Proofs!Refuse,
       Database!TimerFires, Proofs!TimerFires, Database!Blocked, Proofs!Blocked,
       Database!Opened, Proofs!Opened, Database!OpenFails, Proofs!OpenFails,
       Database!Disconnect, Proofs!Disconnect, Database!Blocking, Proofs!Blocking,
       Database!Terminated, Proofs!Terminated, Database!Reload, Proofs!Reload,
       Database!OlderConnects, Proofs!OlderConnects, Database!OlderCloses,
       Proofs!OlderCloses, Database!NewerAsks, Proofs!NewerAsks,
       Database!NewerConnects, Proofs!NewerConnects, Database!NewerGivesUp,
       Proofs!NewerGivesUp, Database!Queued, Proofs!Queued, Database!First,
       Proofs!First, Database!Connected, Proofs!Connected, Database!Attempts,
       Proofs!Attempts, Database!Unused, Proofs!Unused,
       Database!PQ_WALLET_DB_VERSION, Proofs!PQ_WALLET_DB_VERSION,
       Database!OldVersion, Proofs!OldVersion, Database!NewVersion,
       Proofs!NewVersion, Database!Newer, Proofs!Newer

\* A step of the composition is a step of the connection, or leaves it alone.
LEMMA StepOfConnection == [StakingNext]_<<part, vars, dbVars>> => [Proofs!Next]_(Proofs!vars)
BY SameSteps DEF StakingNext, dbVars, Proofs!vars

\* The page has at most one connection, the one its calls get, and none that
\* opened after its calls were told to close other tabs.
THEOREM ConnectionIsCachedHolds == StakingSpec => []ConnectionIsCached
<1>1. Proofs!Init => Proofs!IInv
  BY Proofs!InitIInv
<1>2. Proofs!IInv /\ [Proofs!Next]_(Proofs!vars) => Proofs!IInv'
  BY Proofs!NextIInv
<1>3. Proofs!IInv => ConnectionIsCached
  BY DEF Proofs!IInv, ConnectionIsCached, Proofs!ConnectionIsCached, Database!ConnectionIsCached,
    Proofs!Connected, Database!Connected, Database!Attempts, Proofs!Attempts
<1>4. QED
  BY <1>1, <1>2, <1>3, InitConnection, StepOfConnection, PTL DEF StakingSpec
=============================================================================
