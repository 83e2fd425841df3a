----------------------------- MODULE MCStaking ------------------------------
(***************************************************************************)
(* Small instances of the two parts of the wallet that must go on by       *)
(* themselves: the staking session and the connection to IndexedDB.  One   *)
(* of them takes steps, the other rests.                                   *)
(***************************************************************************)
EXTENDS PQStakingSession, Sequences

CONSTANTS Callers, MaxAttempts

VARIABLES part, dbPromise, attempt, call, queue, disk, older

Database == INSTANCE PQDatabase
dbVars == <<dbPromise, attempt, call, queue, disk, older>>

\* Four coins in batches of two.  The first may leave the list, which shifts the
\* places of all the others; the second may be reserved as collateral; a list may
\* fit in one batch, in which the last coin may take the place of the third, or be
\* empty.
ChangingLists ==
  {[confirmed |-> {1, 2, 3, 4}, reserved |-> {}],
   [confirmed |-> {2, 3, 4}, reserved |-> {}],
   [confirmed |-> {2, 3, 4}, reserved |-> {2}],
   [confirmed |-> {4}, reserved |-> {}],
   [confirmed |-> {}, reserved |-> {}]}

StakingInit ==
  /\ part \in {"session", "connection"} /\ Init /\ Database!Init
  /\ part = "session" => disk = Database!PQ_WALLET_DB_VERSION
StakingNext ==
  \/ part = "session" /\ Next /\ UNCHANGED <<part, dbVars>>
  \/ part = "connection" /\ Database!Next /\ UNCHANGED <<part, vars>>

\* The fairness of each part, where it is the part that takes steps.
SessionFairness ==
  \A i \in Ids : /\ WF_vars(part = "session" /\ TimerFires(i))
                 /\ WF_vars(part = "session" /\ (Abandon(i) \/ RequestFails(i) \/ Answer(i)))
StakingSpec ==
  /\ StakingInit /\ [][StakingNext]_<<part, vars, dbVars>>
  /\ SessionFairness /\ Database!Fairness

-----------------------------------------------------------------------------
\* One connection at most, the cached one, and none that was refused.
ConnectionIsCached == Database!ConnectionIsCached
\* No call waits for ever, and a newer tab gets its way.
CallsAreAnswered == Database!CallsAreAnswered
NewerIsNotBlocked == Database!NewerIsNotBlocked
=============================================================================
