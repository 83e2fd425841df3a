--------------------------- MODULE PQDatabase_proofs --------------------------
(***************************************************************************)
(* Theorems about PQDatabase, for any number of attempts and callers.      *)
(***************************************************************************)
EXTENDS PQDatabase, TLAPS

\* IndexedDB has each request once, and a request in its queue is one the page
\* has not seen the end of.
QueueInv ==
  /\ \A m, n \in 1 .. Len(queue) : queue[m] = queue[n] => m = n
  /\ \A n \in 1 .. Len(queue) :
       queue[n] # Newer => attempt[queue[n]].connection = "opening"

\* The attempt that may still succeed is the cached one, and its deadline is
\* not for anything but its request.
AttemptInv ==
  \A i \in Attempts :
    /\ attempt[i].connection = "opening" /\ ~attempt[i].upgradeWasBlocked
         => attempt[i].promise = "pending" /\ dbPromise = i
    /\ attempt[i].blockedTimer => attempt[i].connection = "opening"
    /\ attempt[i].upgradeWasBlocked <=> attempt[i].promise = "refused"

IInv == TypeOK /\ QueueInv /\ AttemptInv /\ ConnectionIsCached /\ FailureIsRetried

-----------------------------------------------------------------------------
LEMMA InitIInv == Init => IInv
<1> SUFFICES ASSUME Init PROVE IInv
  OBVIOUS
<1>1. Unused \in AttemptType
  BY Zenon DEF Unused, AttemptType
<1>2. TypeOK
  BY <1>1 DEF Init, TypeOK, NewVersion, PQ_WALLET_DB_VERSION, Unused
<1>3. QueueInv
  BY DEF Init, QueueInv
<1>4. \A i \in Attempts : attempt[i] = Unused
  BY DEF Init
<1>5. AttemptInv /\ ConnectionIsCached /\ FailureIsRetried
  BY <1>4 DEF Init, Unused, AttemptInv, ConnectionIsCached, FailureIsRetried,
              Connected
<1>6. QED
  BY <1>2, <1>3, <1>5 DEF IInv

\* The requests behind the first one.
LEMMA TailKeepsQueueInv ==
  ASSUME TypeOK, QueueInv, queue # <<>>, queue' = Tail(queue),
         \A i \in Attempts : i # Head(queue) =>
           attempt'[i].connection = attempt[i].connection
  PROVE  QueueInv' /\ queue' \in Seq(Attempts \cup {Newer})
<1> USE DEF TypeOK, QueueInv
<1>1. /\ Len(queue) \in Nat \ {0} /\ Len(queue') = Len(queue) - 1
      /\ \A n \in 1 .. Len(queue') : queue'[n] = queue[n + 1]
      /\ \A n \in 1 .. Len(queue) : queue[n] \in Attempts \cup {Newer}
      /\ Head(queue) = queue[1]
  OBVIOUS
<1>2. \A n \in 1 .. Len(queue') : n + 1 \in 2 .. Len(queue) /\ queue'[n] # Head(queue)
  BY <1>1
<1>3. QED
  BY <1>1, <1>2

\* An attempt that is refused stays queued.
LEMMA RefuseKeepsIInv ==
  ASSUME IInv, NEW i \in Attempts, attempt[i].connection = "opening", Refuse(i)
  PROVE  IInv'
<1> USE DEF IInv, Refuse
<1> DEFINE new == [attempt[i] EXCEPT !.promise = Race(i, "refused"),
                     !.upgradeWasBlocked = TRUE, !.blockedTimer = FALSE]
<1>1. attempt[i] \in AttemptType
  BY DEF TypeOK
<1>2. Race(i, "refused") = "refused"
  BY <1>1 DEF AttemptInv, AttemptType, Race
<1>3. new \in AttemptType
  BY <1>1, <1>2, Zenon DEF AttemptType
<1>4. attempt' = [attempt EXCEPT ![i] = new]
  BY DEF TypeOK
<1>5. TypeOK'
  BY <1>3, <1>4 DEF TypeOK
<1> HIDE DEF Refuse
<1>6. /\ new.promise = "refused" /\ new.upgradeWasBlocked /\ ~new.blockedTimer
      /\ new.connection = "opening"
  BY <1>1, <1>2 DEF AttemptType
<1>7. UNCHANGED <<dbPromise, call, queue, disk, older>>
  BY DEF Refuse
<1>8. \A j \in Attempts : attempt'[j] = IF j = i THEN new ELSE attempt[j]
  BY <1>4 DEF TypeOK
<1> HIDE DEF new
<1>9. QueueInv'
  BY <1>6, <1>7, <1>8 DEF QueueInv, TypeOK, Newer, Attempts
<1>10. AttemptInv'
  BY <1>6, <1>7, <1>8 DEF AttemptInv
<1>11. ConnectionIsCached' /\ FailureIsRetried'
  BY <1>6, <1>7, <1>8 DEF ConnectionIsCached, FailureIsRetried, Connected, TypeOK
<1>12. QED
  BY <1>5, <1>9, <1>10, <1>11

\* A request is answered: with a connection, if it was not refused, or not.
LEMMA AnswerKeepsIInv ==
  ASSUME IInv, NEW i \in Attempts, Opened(i) \/ OpenFails(i)
  PROVE  IInv'
<1> DEFINE opens == Opened(i) /\ ~attempt[i].upgradeWasBlocked
<1> DEFINE new == [attempt[i] EXCEPT
                     !.promise = Race(i, IF Opened(i) THEN "connected" ELSE "failed"),
                     !.blockedTimer = FALSE,
                     !.connection = IF opens THEN "open" ELSE "closed"]
<1> USE DEF IInv
<1>1. attempt[i] \in AttemptType
  BY DEF TypeOK
<1>2. /\ First(i) /\ queue # <<>> /\ Head(queue) = i
      /\ queue' = Tail(queue) /\ UNCHANGED <<call, older>>
      /\ disk' \in 0 .. NewVersion
  BY DEF Opened, OpenFails, First, TypeOK, NewVersion, PQ_WALLET_DB_VERSION
<1>3. attempt[i].connection = "opening"
  <2>1. Len(queue) \in Nat \ {0} /\ queue[1] = i
    BY <1>2 DEF TypeOK
  <2>2. QED
    BY <2>1 DEF QueueInv, Attempts, Newer
<1>4. IF attempt[i].upgradeWasBlocked
      THEN attempt[i].promise = "refused"
      ELSE attempt[i].promise = "pending" /\ dbPromise = i
  BY <1>3 DEF AttemptInv
<1>5. attempt' = [attempt EXCEPT ![i] = new]
  BY DEF Opened, OpenFails, TypeOK
<1>6. new \in AttemptType
  <2>1. Race(i, IF Opened(i) THEN "connected" ELSE "failed")
          \in {"none", "pending", "connected", "failed", "refused"}
    BY <1>1, Zenon DEF Race, AttemptType
  <2>2. QED
    BY <1>1, <2>1, Zenon DEF AttemptType
<1>7. /\ new.upgradeWasBlocked = attempt[i].upgradeWasBlocked /\ ~new.blockedTimer
      /\ new.connection = IF opens THEN "open" ELSE "closed"
      /\ new.promise = IF attempt[i].upgradeWasBlocked THEN "refused"
                       ELSE IF Opened(i) THEN "connected" ELSE "failed"
  BY <1>1, <1>4 DEF Race, AttemptType
<1>8. IF opens \/ attempt[i].upgradeWasBlocked
      THEN dbPromise' = dbPromise ELSE dbPromise' = 0
  BY <1>4 DEF Opened, OpenFails
<1>9. \A j \in Attempts : attempt'[j] = IF j = i THEN new ELSE attempt[j]
  BY <1>5 DEF TypeOK
<1>10. QueueInv' /\ queue' \in Seq(Attempts \cup {Newer})
  BY <1>2, <1>9, TailKeepsQueueInv
<1>11. TypeOK'
  BY <1>2, <1>5, <1>6, <1>8, <1>10 DEF TypeOK
<1>12. opens => ~attempt[i].upgradeWasBlocked /\ Opened(i)
  OBVIOUS
<1>13. ~opens /\ ~attempt[i].upgradeWasBlocked => ~Opened(i)
  OBVIOUS
<1> HIDE DEF new, opens
<1>14. AttemptInv'
  BY <1>4, <1>7, <1>8, <1>9, <1>12, <1>13 DEF AttemptInv, Attempts
<1>15. ConnectionIsCached'
  BY <1>4, <1>7, <1>8, <1>9, <1>12, <1>13
  DEF ConnectionIsCached, Connected, Attempts
<1>16. FailureIsRetried'
  BY <1>4, <1>7, <1>8, <1>9, <1>12, <1>13 DEF FailureIsRetried, TypeOK
<1>17. QED
  BY <1>10, <1>11, <1>14, <1>15, <1>16

\* A connection is closed, by the page or by the browser.
LEMMA DisconnectKeepsIInv ==
  ASSUME IInv, NEW i \in Attempts, Disconnect(i)
  PROVE  IInv'
<1> DEFINE new == [attempt[i] EXCEPT !.connection = "closed"]
<1> USE DEF IInv
<1>1. attempt[i] \in AttemptType /\ Connected(i)
  BY DEF TypeOK, Disconnect
<1>2. dbPromise = i /\ ~attempt[i].upgradeWasBlocked /\ ~attempt[i].blockedTimer
  BY <1>1 DEF ConnectionIsCached, AttemptInv, Connected
<1>3. /\ attempt' = [attempt EXCEPT ![i] = new] /\ dbPromise' = 0
      /\ UNCHANGED <<call, queue, disk, older>>
  BY DEF Disconnect, TypeOK
<1>4. new \in AttemptType
  BY <1>1, Zenon DEF AttemptType
<1>5. /\ new.promise = attempt[i].promise /\ new.connection = "closed"
      /\ new.upgradeWasBlocked = attempt[i].upgradeWasBlocked
      /\ new.blockedTimer = attempt[i].blockedTimer
  BY <1>1 DEF AttemptType
<1>6. \A j \in Attempts : attempt'[j] = IF j = i THEN new ELSE attempt[j]
  BY <1>3 DEF TypeOK
<1>7. TypeOK'
  BY <1>3, <1>4 DEF TypeOK
<1> HIDE DEF new
<1>8. QueueInv'
  BY <1>1, <1>3, <1>6 DEF QueueInv, TypeOK, Connected, Attempts, Newer
<1>9. AttemptInv'
  BY <1>2, <1>3, <1>5, <1>6 DEF AttemptInv
<1>10. ConnectionIsCached' /\ FailureIsRetried'
  BY <1>2, <1>3, <1>5, <1>6 DEF ConnectionIsCached, FailureIsRetried, Connected
<1>11. QED
  BY <1>7, <1>8, <1>9, <1>10

\* A call gets the cached promise, or starts the only attempt that may succeed.
LEMMA CallKeepsIInv ==
  ASSUME IInv, NEW c \in Callers, Call(c)
  PROVE  IInv'
<1> USE DEF IInv
<1>1. CASE dbPromise # 0
  <2>1. UNCHANGED <<dbPromise, attempt, queue, disk, older>>
    BY <1>1 DEF Call
  <2>2. call' \in [Callers -> Attempts \cup {0}]
    BY <1>1 DEF Call, TypeOK
  <2>3. QED
    BY <2>1, <2>2 DEF TypeOK, QueueInv, AttemptInv, ConnectionIsCached,
                      FailureIsRetried, Connected
<1>2. CASE dbPromise = 0
  <2> DEFINE new == [promise |-> "pending", upgradeWasBlocked |-> FALSE,
                     blockedTimer |-> TRUE, connection |-> "opening"]
  <2>1. PICK i \in Attempts :
          /\ attempt[i] = Unused /\ attempt' = [attempt EXCEPT ![i] = new]
          /\ dbPromise' = i /\ queue' = Append(queue, i)
          /\ call' = [call EXCEPT ![c] = i] /\ UNCHANGED <<disk, older>>
    BY <1>2 DEF Call
  <2>2. new \in AttemptType
    BY Zenon DEF AttemptType
  <2>3. \A j \in Attempts : attempt'[j] = IF j = i THEN new ELSE attempt[j]
    BY <2>1 DEF TypeOK
  <2>4. TypeOK'
    BY <2>1, <2>2 DEF TypeOK
  <2>5. \A j \in Attempts : /\ ~Connected(j)
                            /\ attempt[j].connection = "opening"
                                 => attempt[j].upgradeWasBlocked
    BY <1>2 DEF ConnectionIsCached, AttemptInv, Attempts
  <2>6. /\ new.promise = "pending" /\ ~new.upgradeWasBlocked
        /\ new.blockedTimer /\ new.connection = "opening"
    OBVIOUS
  <2> HIDE DEF new
  <2>7. QueueInv'
    <3>1. /\ Len(queue') = Len(queue) + 1 /\ Len(queue) \in Nat
          /\ queue'[Len(queue) + 1] = i
          /\ \A n \in 1 .. Len(queue) :
               queue'[n] = queue[n] /\ queue[n] \in Attempts \cup {Newer}
      BY <2>1 DEF TypeOK
    <3>2. \A n \in 1 .. Len(queue) : queue[n] # i
      BY <2>1, <3>1 DEF QueueInv, Unused, Attempts, Newer
    <3>3. QED
      BY <2>3, <2>6, <3>1, <3>2 DEF QueueInv
  <2>8. AttemptInv'
    BY <2>1, <2>3, <2>5, <2>6 DEF AttemptInv
  <2>9. ConnectionIsCached' /\ FailureIsRetried'
    BY <2>1, <2>3, <2>5, <2>6 DEF ConnectionIsCached, FailureIsRetried, Connected
  <2>10. QED
    BY <2>4, <2>7, <2>8, <2>9
<1>3. QED
  BY <1>1, <1>2

LEMMA Singleton ==
  ASSUME NEW S, NEW x \in S
  PROVE  <<x>> \in Seq(S) /\ Len(<<x>>) = 1 /\ <<x>>[1] = x
OBVIOUS

LEMMA ReloadKeepsIInv == IInv /\ Reload => IInv'
<1> SUFFICES ASSUME IInv, Reload PROVE IInv'
  OBVIOUS
<1> USE DEF IInv, Reload
<1>1. Unused \in AttemptType
  BY Zenon DEF Unused, AttemptType
<1>2. queue' = <<Newer>> \/ queue' = <<>>
  OBVIOUS
<1>3. queue' \in Seq(Attempts \cup {Newer}) /\ QueueInv'
  <2>1. CASE queue' = <<>>
    BY <2>1 DEF QueueInv
  <2>2. CASE queue' = <<Newer>>
    <3>1. Len(queue') = 1 /\ queue'[1] = Newer
      BY <2>2, Singleton
    <3>2. queue' \in Seq(Attempts \cup {Newer})
      BY <2>2, Singleton
    <3>3. \A n \in 1 .. Len(queue') : n = 1
      BY <3>1
    <3>4. QED
      BY <3>1, <3>2, <3>3 DEF QueueInv
  <2>3. QED
    BY <1>2, <2>1, <2>2
<1>4. TypeOK'
  <2>1. \A i \in Attempts : ~attempt'[i].blockedTimer
    BY DEF Unused
  <2>2. QED
    BY <1>1, <1>3, <2>1 DEF TypeOK
<1>5. \A i \in Attempts : attempt'[i] = Unused
  OBVIOUS
<1>6. AttemptInv' /\ ConnectionIsCached' /\ FailureIsRetried'
  BY <1>5 DEF AttemptInv, ConnectionIsCached, FailureIsRetried, Connected, Unused
<1>7. QED
  BY <1>3, <1>4, <1>6

\* The other tabs change the queue only by a request of the newer one.
LEMMA OthersKeepIInv ==
  ASSUME IInv,
         \/ OlderConnects \/ OlderCloses \/ NewerAsks \/ NewerConnects
         \/ NewerGivesUp
  PROVE  IInv'
<1> USE DEF IInv
<1>1. /\ UNCHANGED <<dbPromise, attempt, call>>
      /\ disk' \in 0 .. NewVersion /\ older' \in BOOLEAN
  <2> USE DEF OlderConnects, OlderCloses, NewerAsks, NewerConnects, NewerGivesUp
  <2>1. UNCHANGED <<dbPromise, attempt, call>>
    OBVIOUS
  <2>2. disk' \in {disk, OldVersion, NewVersion}
    OBVIOUS
  <2>3. disk' \in 0 .. NewVersion
    BY <2>2 DEF TypeOK, NewVersion, OldVersion
  <2>4. older' \in BOOLEAN
    BY Zenon DEF TypeOK
  <2>5. QED
    BY <2>1, <2>3, <2>4
<1>2. AttemptInv' /\ ConnectionIsCached' /\ FailureIsRetried'
  BY <1>1 DEF AttemptInv, ConnectionIsCached, FailureIsRetried, Connected
<1>3. QueueInv' /\ queue' \in Seq(Attempts \cup {Newer})
  <2>1. CASE UNCHANGED queue
    BY <1>1, <2>1 DEF QueueInv, TypeOK
  <2>2. CASE NewerAsks
    <3>1. queue' = Append(queue, Newer) /\ ~Queued(Newer)
      BY <2>2 DEF NewerAsks
    <3>2. /\ Len(queue') = Len(queue) + 1 /\ Len(queue) \in Nat
          /\ queue'[Len(queue) + 1] = Newer
          /\ \A n \in 1 .. Len(queue) : queue'[n] = queue[n] /\ queue[n] # Newer
      BY <3>1 DEF TypeOK, Queued
    <3>3. queue' \in Seq(Attempts \cup {Newer})
      BY <3>1 DEF TypeOK
    <3>4. QED
      BY <1>1, <3>2, <3>3 DEF QueueInv
  <2>3. CASE queue # <<>> /\ queue' = Tail(queue)
    <3>1. TypeOK /\ QueueInv
      OBVIOUS
    <3>2. \A i \in Attempts : attempt'[i].connection = attempt[i].connection
      BY <1>1
    <3>3. QED
      BY <2>3, <3>1, <3>2, TailKeepsQueueInv
  <2>4. QED
    BY <2>1, <2>2, <2>3
    DEF OlderConnects, OlderCloses, NewerConnects, NewerGivesUp, First
<1>4. QED
  BY <1>1, <1>2, <1>3 DEF TypeOK

LEMMA NextIInv == IInv /\ [Next]_vars => IInv'
<1> SUFFICES ASSUME IInv, [Next]_vars PROVE IInv'
  OBVIOUS
<1>1. ASSUME NEW c \in Callers, Call(c) PROVE IInv'
  BY <1>1, CallKeepsIInv
<1>2. ASSUME NEW c \in Callers, Answered(c) PROVE IInv'
  <2>1. /\ UNCHANGED <<dbPromise, attempt, queue, disk, older>>
        /\ call' \in [Callers -> Attempts \cup {0}]
    BY <1>2 DEF Answered, IInv, TypeOK
  <2>2. QED
    BY <2>1 DEF IInv, TypeOK, QueueInv, AttemptInv, ConnectionIsCached,
                FailureIsRetried, Connected
<1>3. ASSUME NEW i \in Attempts, TimerFires(i) PROVE IInv'
  <2>1. attempt[i].connection = "opening" /\ Refuse(i)
    BY <1>3 DEF TimerFires, IInv, AttemptInv
  <2>2. QED
    BY <2>1, RefuseKeepsIInv
<1>4. ASSUME NEW i \in Attempts, Blocked(i) PROVE IInv'
  <2>1. Len(queue) \in Nat \ {0} /\ queue[1] = i /\ i # Newer
    BY <1>4 DEF Blocked, First, IInv, TypeOK, Attempts, Newer
  <2>2. attempt[i].connection = "opening" /\ Refuse(i)
    BY <1>4, <2>1 DEF Blocked, IInv, QueueInv
  <2>3. QED
    BY <2>2, RefuseKeepsIInv
<1>5. ASSUME NEW i \in Attempts, Opened(i) \/ OpenFails(i) PROVE IInv'
  BY <1>5, AnswerKeepsIInv
<1>6. ASSUME NEW i \in Attempts, Blocking(i) \/ Terminated(i) PROVE IInv'
  BY <1>6, DisconnectKeepsIInv DEF Blocking, Terminated
<1>7. CASE Reload
  BY <1>7, ReloadKeepsIInv
<1>8. CASE \/ OlderConnects \/ OlderCloses \/ NewerAsks \/ NewerConnects
           \/ NewerGivesUp
  BY <1>8, OthersKeepIInv
<1>9. CASE UNCHANGED vars
  BY <1>9 DEF vars, IInv, TypeOK, QueueInv, AttemptInv, ConnectionIsCached,
              FailureIsRetried, Connected
<1>10. QED
  BY <1>1, <1>2, <1>3, <1>4, <1>5, <1>6, <1>7, <1>8, <1>9 DEF Next

LEMMA Invariance == Spec => []IInv
BY InitIInv, NextIInv, PTL DEF Spec

-----------------------------------------------------------------------------
\* The variables of getDatabase() keep their types.
THEOREM TypeCorrect == Spec => []TypeOK
<1>1. IInv => TypeOK
  BY DEF IInv
<1>2. QED
  BY <1>1, Invariance, PTL

\* The page has at most one connection, the one its calls get, and none that
\* opened after its calls were told to close other tabs.
THEOREM ConnectionIsCachedHolds == Spec => []ConnectionIsCached
<1>1. IInv => ConnectionIsCached
  BY DEF IInv
<1>2. QED
  BY <1>1, Invariance, PTL

\* An error that is not a refusal leaves nothing in the cache.
THEOREM FailureIsRetriedHolds == Spec => []FailureIsRetried
<1>1. IInv => FailureIsRetried
  BY DEF IInv
<1>2. QED
  BY <1>1, Invariance, PTL

\* Once refused, getDatabase() refuses until the page is reloaded.
THEOREM RefusalSticksHolds == Spec => RefusalSticks
<1> DEFINE Sticks ==
      \A i \in Attempts :
        dbPromise = i /\ attempt[i].promise = "refused" =>
          \/ dbPromise' = i /\ attempt'[i].promise = "refused"
          \/ attempt'[i] = Unused
<1>1. ASSUME IInv, [Next]_vars PROVE Sticks
  <2> SUFFICES ASSUME NEW i \in Attempts,
                      dbPromise = i, attempt[i].promise = "refused"
               PROVE  \/ dbPromise' = i /\ attempt'[i].promise = "refused"
                      \/ attempt'[i] = Unused
    OBVIOUS
  <2> USE <1>1 DEF IInv
  <2>1. /\ i # 0 /\ attempt[i].upgradeWasBlocked
        /\ attempt \in [Attempts -> AttemptType]
        /\ \A j \in Attempts : ~Connected(j)
    BY DEF AttemptInv, ConnectionIsCached, TypeOK, Attempts
  <2>2. ASSUME NEW c \in Callers, Call(c) \/ Answered(c)
        PROVE  UNCHANGED <<dbPromise, attempt>>
    BY <2>1, <2>2 DEF Call, Answered
  <2>3. ASSUME NEW j \in Attempts, Refuse(j)
        PROVE  dbPromise' = i /\ attempt'[i].promise = "refused"
    BY <2>1, <2>3 DEF Refuse, Race, AttemptType
  <2>4. ASSUME NEW j \in Attempts, Opened(j) \/ OpenFails(j)
        PROVE  dbPromise' = i /\ attempt'[i].promise = "refused"
    BY <2>1, <2>4 DEF Opened, OpenFails, Race, AttemptType
  <2>5. ASSUME NEW j \in Attempts, Disconnect(j) PROVE FALSE
    BY <2>1, <2>5 DEF Disconnect
  <2>6. CASE Reload
    BY <2>6 DEF Reload
  <2>7. CASE \/ OlderConnects \/ OlderCloses \/ NewerAsks \/ NewerConnects
             \/ NewerGivesUp \/ UNCHANGED vars
    BY <2>7 DEF OlderConnects, OlderCloses, NewerAsks, NewerConnects,
                NewerGivesUp, vars
  <2>8. QED
    BY <2>2, <2>3, <2>4, <2>5, <2>6, <2>7
    DEF Next, TimerFires, Blocked, Blocking, Terminated
<1>2. QED
  BY <1>1, Invariance, PTL DEF Spec, RefusalSticks
=============================================================================
