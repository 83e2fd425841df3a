------------------------------ MODULE PQDatabase -----------------------------
(***************************************************************************)
(* The connection of a page to IndexedDB: getDatabase() of                 *)
(* pqwallet-store.js, with its deadline, the tabs that run an older        *)
(* version and keep the schema from being upgraded, and a tab that runs a  *)
(* newer one and asks the page to make way.                                *)
(*                                                                         *)
(* IndexedDB handles the requests to open a database one at a time, in     *)
(* their order.  A request for a higher version waits until all            *)
(* connections are closed, a request for a lower one is refused.           *)
(***************************************************************************)
EXTENDS Naturals, Sequences

CONSTANTS
  Callers,     \* calls of the store's API at the same time
  MaxAttempts  \* bound: connections the page tries to open

PQ_WALLET_DB_VERSION == 2
OldVersion == 1
NewVersion == 3
Newer == 0   \* the request of the newer tab, in the queue

VARIABLES
  dbPromise,  \* the attempt whose promise is cached, or 0
  attempt,    \* the attempts to open
  call,       \* the attempt a call awaits, or 0
  queue,      \* IndexedDB: requests to open that were not answered
  disk,       \* IndexedDB: version of the database
  older       \* a tab of an older version is connected

vars == <<dbPromise, attempt, call, queue, disk, older>>

Attempts == 1 .. MaxAttempts
Unused == [promise |-> "none", upgradeWasBlocked |-> FALSE,
           blockedTimer |-> FALSE, connection |-> "none"]

\* The promise of an attempt may be settled while its connection is opening.
AttemptType ==
  [promise : {"none", "pending", "connected", "failed", "refused"},
   upgradeWasBlocked : BOOLEAN, blockedTimer : BOOLEAN,
   connection : {"none", "opening", "open", "closed"}]

TypeOK ==
  /\ dbPromise \in Attempts \cup {0}
  /\ attempt \in [Attempts -> AttemptType]
  /\ \A i \in Attempts : attempt[i].blockedTimer => attempt[i].promise = "pending"
  /\ call \in [Callers -> Attempts \cup {0}]
  /\ queue \in Seq(Attempts \cup {Newer})
  /\ disk \in 0 .. NewVersion /\ older \in BOOLEAN

Init ==
  /\ dbPromise = 0 /\ attempt = [i \in Attempts |-> Unused]
  /\ call = [c \in Callers |-> 0] /\ queue = <<>>
  /\ disk \in 0 .. PQ_WALLET_DB_VERSION
  /\ older \in BOOLEAN /\ (older => disk = OldVersion)

Queued(r) == \E n \in 1 .. Len(queue) : queue[n] = r
First(r) == queue # <<>> /\ Head(queue) = r
Connected(i) == attempt[i].connection = "open"

-----------------------------------------------------------------------------
\* The page

\* getDatabase(), called and awaited.
Call(c) ==
  /\ call[c] = 0
  /\ \/ /\ dbPromise # 0
        /\ call' = [call EXCEPT ![c] = dbPromise]
        /\ UNCHANGED <<dbPromise, attempt, queue>>
     \/ /\ dbPromise = 0
        /\ \E i \in Attempts :
             /\ attempt[i] = Unused
             /\ attempt' = [attempt EXCEPT ![i] =
                  [promise |-> "pending", upgradeWasBlocked |-> FALSE,
                   blockedTimer |-> TRUE, connection |-> "opening"]]
             /\ dbPromise' = i
             /\ queue' = Append(queue, i)
             /\ call' = [call EXCEPT ![c] = i]
  /\ UNCHANGED <<disk, older>>

\* The awaited promise settled: the call gets its connection or the error.
Answered(c) ==
  /\ call[c] # 0 /\ attempt[call[c]].promise # "pending"
  /\ call' = [call EXCEPT ![c] = 0]
  /\ UNCHANGED <<dbPromise, attempt, queue, disk, older>>

\* The first of openPromise and blockedPromise to settle decides.
Race(i, result) ==
  IF attempt[i].promise = "pending" THEN result ELSE attempt[i].promise

Refuse(i) ==
  /\ attempt' = [attempt EXCEPT ![i].promise = Race(i, "refused"),
                                ![i].upgradeWasBlocked = TRUE,
                                ![i].blockedTimer = FALSE]
  /\ UNCHANGED <<dbPromise, call, queue, disk, older>>

\* Mistake: a deadline is set only for an upgrade reported as blocked.
TimerFiresNever(i) == FALSE /\ Refuse(i)

\* The deadline of an attempt.
TimerFires(i) == attempt[i].blockedTimer /\ Refuse(i)

\* blocked(): a tab of an older version does not close its connection.
Blocked(i) ==
  /\ First(i) /\ older /\ ~attempt[i].upgradeWasBlocked
  /\ Refuse(i)

\* Mistake: a connection that opens after all is kept.
OpenedKept(i) ==
  /\ First(i) /\ ~older /\ disk <= PQ_WALLET_DB_VERSION
  /\ queue' = Tail(queue) /\ disk' = PQ_WALLET_DB_VERSION
  /\ attempt' = [attempt EXCEPT ![i].promise = Race(i, "connected"),
       ![i].blockedTimer = FALSE, ![i].connection = "open"]
  /\ UNCHANGED <<dbPromise, call, older>>

\* The database is open, upgraded if necessary; too late for a refused attempt.
Opened(i) ==
  /\ First(i) /\ ~older /\ disk <= PQ_WALLET_DB_VERSION
  /\ queue' = Tail(queue) /\ disk' = PQ_WALLET_DB_VERSION
  /\ attempt' = [attempt EXCEPT
       ![i].promise = Race(i, "connected"),
       ![i].blockedTimer = FALSE,
       ![i].connection = IF attempt[i].upgradeWasBlocked THEN "closed" ELSE "open"]
  /\ UNCHANGED <<dbPromise, call, older>>

\* The request fails: a higher version on disk, or any other error.
OpenFails(i) ==
  /\ First(i)
  /\ queue' = Tail(queue)
  /\ attempt' = [attempt EXCEPT ![i].promise = Race(i, "failed"),
       ![i].blockedTimer = FALSE, ![i].connection = "closed"]
  /\ dbPromise' = IF ~attempt[i].upgradeWasBlocked /\ dbPromise = i
                  THEN 0 ELSE dbPromise
  /\ UNCHANGED <<call, disk, older>>

\* Mistake: the cache is emptied, the connection is left open.
DisconnectForgets(i) ==
  /\ Connected(i)
  /\ dbPromise' = 0
  /\ UNCHANGED <<attempt, call, queue, disk, older>>

Disconnect(i) ==
  /\ Connected(i)
  /\ attempt' = [attempt EXCEPT ![i].connection = "closed"]
  /\ dbPromise' = 0
  /\ UNCHANGED <<call, queue, disk, older>>

\* blocking(): the newer tab waits for the page's connection to close.
Blocking(i) == First(Newer) /\ Disconnect(i)

\* terminated(): the browser closed the connection.
Terminated(i) == Disconnect(i)

\* The page is reloaded: its requests and connections are gone.
Reload ==
  /\ attempt' = [i \in Attempts |-> Unused]
  /\ dbPromise' = 0 /\ call' = [c \in Callers |-> 0]
  /\ queue' = IF Queued(Newer) THEN <<Newer>> ELSE <<>>
  /\ UNCHANGED <<disk, older>>

-----------------------------------------------------------------------------
\* The other tabs

OlderConnects ==
  /\ ~older /\ queue = <<>> /\ disk <= OldVersion
  /\ older' = TRUE /\ disk' = OldVersion
  /\ UNCHANGED <<dbPromise, attempt, call, queue>>

OlderCloses ==
  /\ older /\ older' = FALSE
  /\ UNCHANGED <<dbPromise, attempt, call, queue, disk>>

NewerAsks ==
  /\ disk < NewVersion /\ ~Queued(Newer)
  /\ queue' = Append(queue, Newer)
  /\ UNCHANGED <<dbPromise, attempt, call, disk, older>>

NewerConnects ==
  /\ First(Newer) /\ ~older /\ \A i \in Attempts : ~Connected(i)
  /\ queue' = Tail(queue) /\ disk' = NewVersion
  /\ UNCHANGED <<dbPromise, attempt, call, older>>

\* Its tab is closed, or its upgrade is aborted.
NewerGivesUp ==
  /\ First(Newer)
  /\ queue' = Tail(queue)
  /\ UNCHANGED <<dbPromise, attempt, call, disk, older>>

-----------------------------------------------------------------------------
Next ==
  \/ \E c \in Callers : Call(c) \/ Answered(c)
  \/ \E i \in Attempts :
       \/ TimerFires(i) \/ Blocked(i) \/ Opened(i) \/ OpenFails(i)
       \/ Blocking(i) \/ Terminated(i)
  \/ Reload
  \/ OlderConnects \/ OlderCloses \/ NewerAsks \/ NewerConnects \/ NewerGivesUp

\* Timeouts fire, and IndexedDB answers a request that nothing keeps waiting.
\* Nobody owes the page a blocked event, and no tab has to close.
Fairness ==
  /\ \A c \in Callers : WF_vars(Answered(c))
  /\ \A i \in Attempts :
       /\ WF_vars(TimerFires(i)) /\ WF_vars(Blocking(i))
       /\ WF_vars(Opened(i) \/ (disk = NewVersion /\ OpenFails(i)))
  /\ WF_vars(NewerConnects)

Spec == Init /\ [][Next]_vars
FairSpec == Spec /\ Fairness

-----------------------------------------------------------------------------
\* A connection of the page is the one its calls get: there is never a second
\* one, and none that opened after its calls were told to close other tabs.
ConnectionIsCached ==
  \A i \in Attempts : Connected(i) =>
    /\ dbPromise = i
    /\ attempt[i].promise = "connected"
    /\ ~attempt[i].upgradeWasBlocked

\* The page asks for a reload after a deadline (DATABASE_BLOCKED_MESSAGE), and
\* it means it: until then every call is refused, whatever opens or fails late.
RefusalSticks ==
  [][\A i \in Attempts :
       dbPromise = i /\ attempt[i].promise = "refused" =>
         \/ dbPromise' = i /\ attempt'[i].promise = "refused"
         \/ attempt'[i] = Unused]_vars

\* An error that is not a refusal is not for good: the next call tries again.
FailureIsRetried ==
  dbPromise # 0 => attempt[dbPromise].promise \in {"pending", "connected", "refused"}

\* Every call is answered, even if the browser never reports what blocks it
\* (pqwallet-database-timeout.spec.js:28).
CallsAreAnswered == \A c \in Callers : call[c] # 0 ~> call[c] = 0

\* The page makes way for a newer version: only an older tab can hold it up
\* (pqwallet-database-lifecycle.spec.js:69).
NewerIsNotBlocked == First(Newer) ~> ~First(Newer) \/ older
=============================================================================
