----------------------------- MODULE WalletSync ------------------------------
(***************************************************************************)
(* Synchronisation of the wallet of scripts/wallet.js: sync() loads the    *)
(* transactions stored on disk, pages through the explorer's list of the   *)
(* wallet's transactions and catches up block by block; every new block is *)
(* then handled as it is announced; resync() starts again with an empty    *)
(* mempool; createAndSendTransaction() adds what it broadcast.             *)
(*                                                                         *)
(* All of them await the network and IndexedDB, so that blocks arrive, the *)
(* explorer's list grows and the page is reloaded in between.  The node    *)
(* and the explorer are external.  The shielded part is left out; the      *)
(* addresses are in AddressIndices.                                        *)
(***************************************************************************)
EXTENDS Integers, Sequences, FiniteSets

CONSTANTS
  Txs,        \* the transactions that concern the wallet
  Spends,     \* the outpoints <<tx, n>> a transaction spends
  Outputs,    \* for each transaction, what its outputs are to the wallet:
              \* a sequence of sets {"ours", "p2pkh"}, {"ours", "p2cs"}, {}
  Sendable,   \* the transactions this wallet may create
  PageSize,   \* transactions of a page of the explorer (1000 in the code)
  Margin,     \* blocks read again after the pages (5 in the code)
  Lag,        \* blocks the explorer's index may be behind the node
  MaxHeight, MaxAtOnce, MaxIncidents   \* bounds

ASSUME SyncAssumption ==
  /\ IsFiniteSet(Txs) /\ Sendable \subseteq Txs
  /\ Spends \in [Txs -> SUBSET (Txs \X {1, 2})]
  /\ Outputs \in [Txs -> Seq({{}, {"ours", "p2pkh"}, {"ours", "p2cs"}})]
  /\ PageSize \in Nat \ {0} /\ Margin \in Nat /\ Lag \in Nat
  /\ MaxHeight \in Nat /\ MaxAtOnce \in Nat /\ MaxIncidents \in Nat

Absent == -2
Unconfirmed == -1

Outpoints == {<<t, n>> : t \in Txs, n \in 1 .. 2}
Own == {o \in Outpoints : o[2] <= Len(Outputs[o[1]]) /\ Outputs[o[1]][o[2]] # {}}

VARIABLES
  accepted, minedAt, tip, indexed,   \* external: the node and the explorer
  blockCount,     \* global.js
  txmap,          \* mempool: the height each known transaction is known at
  status,         \* mempool: the status bits of each outpoint
  history,        \* historicalTxs: the transactions it has an entry of
  isSynced, lastProcessed,
  eventsOn,       \* the events balance-update and new-tx are enabled
  shown,          \* the copy of the history the interface shows
  disk,           \* IndexedDB: height of each stored transaction
  syncLock, blocksLock,   \* the flags of the lockable functions sync and
                          \* #getLatestBlocks
  pagers,         \* the calls of sync() and resync() that run
  runs,           \* the runs of #getLatestBlocks
  sending,        \* what createAndSendTransaction broadcasts
  incidents,      \* the reloads, the calls of resync(), those of sync() during
                  \* another call, the pages and the sends that failed, so far
  undisturbed     \* history: see Disturbed and PagesShift

node == <<accepted, minedAt, tip, indexed>>
mempool == <<txmap, status>>
flags == <<syncLock, blocksLock>>
memory == <<blockCount, mempool, history, shown, isSynced, lastProcessed, eventsOn,
            flags, pagers, runs, sending>>
vars == <<node, memory, disk, incidents, undisturbed>>

Pagers == 1 .. MaxAtOnce
Slots == 1 .. MaxAtOnce

Running == {p \in Pagers : pagers[p].at # "none"}

\* The calls that wait for an answer: of sync(), resync() and #getLatestBlocks.
Awaiting ==
  Cardinality({p \in Running : pagers[p].at # "blocks"})
    + Cardinality({r \in Slots : runs[r].at # "none"})

Entries == [id : Txs, blockHeight : Unconfirmed .. MaxHeight]
UpTo(n, S) == UNION {[1 .. k -> S] : k \in 0 .. n}

\* known: the transaction was in the mempool when addTransaction began.  A run
\* is for the sync() that calls it, or for the event of a new block (0).
NoRun == [at |-> "none", for |-> 0, height |-> 0, target |-> 0,
          todo |-> {}, known |-> FALSE]
Pager(at, for) ==
  [at |-> at, for |-> for, start |-> 0, page |-> 0, todo |-> {}, known |-> FALSE]
NoPager == Pager("none", "sync")

TypeOK ==
  /\ accepted \in UpTo(Cardinality(Txs), Txs) /\ minedAt \in [Txs -> 0 .. MaxHeight]
  /\ tip \in 0 .. MaxHeight /\ indexed \in 0 .. tip /\ blockCount \in 0 .. tip
  /\ txmap \in [Txs -> Absent .. MaxHeight]
  /\ status \in [Outpoints -> SUBSET {"ours", "p2pkh", "p2cs", "spent"}]
  /\ history \subseteq Txs /\ shown \subseteq Txs
  /\ isSynced \in BOOLEAN /\ lastProcessed \in -Margin .. MaxHeight
  /\ eventsOn \in BOOLEAN /\ disk \in [Txs -> Absent .. MaxHeight]
  /\ syncLock \in BOOLEAN /\ blocksLock \in BOOLEAN
  /\ pagers \in [Pagers -> [at : {"none", "disk", "skip", "count", "page", "store", "blocks"},
                for : {"sync", "resync"}, start : 0 .. MaxHeight,
                page : 0 .. Cardinality(Txs), todo : SUBSET Entries, known : BOOLEAN]]
  /\ runs \in [Slots -> [at : {"none", "block", "store"},
                for : Pagers \cup {0}, height : -Margin .. MaxHeight,
                target : 0 .. MaxHeight, todo : SUBSET Entries, known : BOOLEAN]]
  /\ sending \subseteq Sendable
  /\ incidents \in 0 .. MaxIncidents /\ undisturbed \in BOOLEAN

Emptied ==
  /\ blockCount = 0
  /\ txmap = [t \in Txs |-> Absent] /\ status = [o \in Outpoints |-> {}]
  /\ history = {} /\ shown = {}
  /\ isSynced = FALSE /\ lastProcessed = 0 /\ eventsOn = TRUE
  /\ syncLock = FALSE /\ blocksLock = FALSE
  /\ pagers = [p \in Pagers |-> NoPager] /\ runs = [r \in Slots |-> NoRun]
  /\ sending = {}

Init ==
  /\ accepted = <<>> /\ minedAt = [t \in Txs |-> 0] /\ tip = 0 /\ indexed = 0
  /\ Emptied /\ disk = [t \in Txs |-> Absent] /\ incidents = 0
  /\ undisturbed = TRUE

-----------------------------------------------------------------------------
\* The node and the explorer (external).

Known(t) == \E i \in 1 .. Len(accepted) : accepted[i] = t
Payable(t) ==
  /\ ~Known(t)
  /\ \A o \in Spends[t] :
       Known(o[1]) /\ \A i \in 1 .. Len(accepted) : o \notin Spends[accepted[i]]

Accept(t) == accepted' = Append(accepted, t)

\* Somebody pays the wallet, or spends its coins from another device.
Arrive ==
  /\ \E t \in Txs \ Sendable : Payable(t) /\ Accept(t)
  /\ UNCHANGED <<minedAt, tip, indexed, memory, disk, incidents>>

Mine ==
  /\ tip < MaxHeight /\ tip + 1 - indexed <= Lag
  /\ \E S \in SUBSET {t \in Txs : Known(t) /\ minedAt[t] = 0} :
       /\ \A t \in S : \A o \in Spends[t] : o[1] \in S \/ minedAt[o[1]] # 0
       /\ minedAt' = [t \in Txs |-> IF t \in S THEN tip + 1 ELSE minedAt[t]]
  /\ tip' = tip + 1
  /\ UNCHANGED <<accepted, indexed, memory, disk, incidents>>

Index ==
  /\ indexed < tip /\ indexed' = indexed + 1
  /\ UNCHANGED <<accepted, minedAt, tip, memory, disk, incidents>>

\* The height the explorer gives a transaction.
Listed(t) == IF minedAt[t] \in 1 .. indexed THEN minedAt[t] ELSE Unconfirmed

\* The order of the chain: by height, what is unconfirmed at the end, and in
\* the order in which the node accepted them.
Rank(e) == IF e.blockHeight = Unconfirmed THEN MaxHeight + 1 ELSE e.blockHeight
Accepted(t) == CHOOSE i \in 1 .. Len(accepted) : accepted[i] = t
Older(e, f) ==
  Rank(e) < Rank(f) \/ (Rank(e) = Rank(f) /\ Accepted(e.id) < Accepted(f.id))
IsOldest(e, entries) == e \in entries /\ \A f \in entries \ {e} : Older(e, f)

\* The transactions of a block.
Block(h) ==
  {[id |-> t, blockHeight |-> h] : t \in {u \in Txs : h > 0 /\ minedAt[u] = h}}

\* The explorer's list of the transactions from a height on.
Listing(start) ==
  {[id |-> t, blockHeight |-> Listed(t)] :
     t \in {u \in Txs : Known(u) /\ (Listed(u) = Unconfirmed \/ Listed(u) >= start)}}
NumPages(start) == (Cardinality(Listing(start)) + PageSize - 1) \div PageSize

\* Its pages, the newest transactions first.  A page beyond the last one is
\* answered with the last one.
Page(start, n) ==
  LET list == Listing(start)
      p    == IF n <= NumPages(start) THEN n ELSE NumPages(start)
  IN  {e \in list : Cardinality({f \in list : f = e \/ Older(e, f)})
                      \in (p - 1) * PageSize + 1 .. p * PageSize}

-----------------------------------------------------------------------------
\* addTransaction()

\* Mistake: the inputs of a transaction are not marked as spent.
StatusAfterInputsLeft(T, s) ==
  [o \in Outpoints |-> s[o] \cup (IF o[1] \in T /\ o \in Own
                                    THEN Outputs[o[1]][o[2]] ELSE {})]

\* Mempool.addTransaction, then the status of the outputs that are ours, for
\* the transactions of T.
StatusAfter(T, s) ==
  [o \in Outpoints |-> s[o]
     \cup (IF \E t \in T : o \in Spends[t] THEN {"spent"} ELSE {})
     \cup (IF o[1] \in T /\ o \in Own THEN Outputs[o[1]][o[2]] ELSE {})]

\* Mistake: the entry of a known transaction is only removed.
PushUnlessKnown(entries, t, known) ==
  IF known THEN entries \ {t} ELSE entries \cup {t}

\* The end of addTransaction: the entry of an earlier state is replaced.
Push(entries, t, known) ==
  (IF known THEN entries \ {t} ELSE entries) \cup {t}

\* #ownTransaction
Owned(t, s) ==
  \/ \E o \in Own : o[1] = t
  \/ \E o \in Spends[t] : "ours" \in s[o]

\* addTransaction up to storeTx, for the transactions of T, known at a height.
InMempool(T, height) ==
  /\ txmap' = [t \in Txs |-> IF t \in T THEN height[t] ELSE txmap[t]]
  /\ status' = StatusAfter(T, status)

\* addTransaction of transactions that are not stored.
Added(T, height, entries) == InMempool(T, height) /\ history' = entries \cup T

\* Mistake: unconfirmed transactions are stored, too.
SkipsDatabaseNever(e) == FALSE
SkipsDatabase(e) == e.blockHeight = Unconfirmed

\* addTransaction of one that is stored, up to the write that it awaits.
Stores(e, entries) ==
  /\ InMempool({e.id}, [t \in Txs |-> e.blockHeight]) /\ history' = entries

\* emit('new-tx'): the interface copies the history.
Emit == shown' = IF eventsOn THEN history' ELSE shown

-----------------------------------------------------------------------------
\* #getLatestBlocks

\* A run that starts behind the last block that was handled.
Started(for, target) ==
  [at |-> "block", for |-> for, height |-> lastProcessed + 1, target |-> target,
   todo |-> {}, known |-> FALSE]

\* The call of the lockable function, with blocks to read.
Enter(for, target) ==
  /\ ~blocksLock /\ lastProcessed < target
  /\ \E r \in Slots :
       /\ runs[r].at = "none" /\ \A k \in 1 .. r - 1 : runs[k].at # "none"
       /\ runs' = [runs EXCEPT ![r] = Started(for, target)]
  /\ blocksLock' = TRUE

\* It returns at once, refused or with nothing to read: the flag is cleared.
Bounce(target) ==
  /\ blocksLock \/ lastProcessed >= target
  /\ blocksLock' = FALSE /\ UNCHANGED runs

\* sync() enables the events and announces everything, and its lock is freed.
EndSync(p) ==
  /\ pagers' = [pagers EXCEPT ![p] = NoPager]
  /\ syncLock' = FALSE
  /\ eventsOn' = TRUE /\ shown' = history'

\* The run returns to its caller: sync(), or the listener of 'new-block', which
\* announces the history.
Return(r) ==
  /\ runs' = [runs EXCEPT ![r] = NoRun] /\ blocksLock' = FALSE
  /\ IF runs[r].for # 0
     THEN EndSync(runs[r].for)
     ELSE Emit /\ UNCHANGED <<pagers, syncLock, eventsOn>>

\* Handling a block up to its next write, the next block, or the end.
HandleBlock(r, entries, todo) ==
  LET owned == {e \in todo : Owned(e.id, status)} IN
  \/ \E e \in owned :
       /\ IsOldest(e, owned) /\ Stores(e, entries) /\ Emit
       /\ runs' = [runs EXCEPT ![r].at = "store", ![r].known = txmap[e.id] # Absent,
                               ![r].todo = {f \in todo : f = e \/ Older(e, f)}]
       /\ UNCHANGED <<lastProcessed, flags, pagers, eventsOn>>
  \/ /\ owned = {} /\ history' = entries /\ UNCHANGED mempool
     /\ lastProcessed' = runs[r].height
     /\ \/ /\ runs[r].height < runs[r].target
           /\ runs' = [runs EXCEPT ![r].at = "block", ![r].todo = {},
                                   ![r].height = @ + 1]
           /\ Emit
           /\ UNCHANGED <<flags, pagers, eventsOn>>
        \/ runs[r].height >= runs[r].target /\ Return(r)

\* No node has a block of a negative height.
BlockAnswer(r) ==
  /\ runs[r].at = "block" /\ runs[r].height \in 0 .. tip
  /\ HandleBlock(r, history, Block(runs[r].height))
  /\ UNCHANGED <<node, blockCount, isSynced, disk, sending, incidents>>

\* storeTx has written the transaction.
BlockStored(r) ==
  /\ runs[r].at = "store"
  /\ \E e \in runs[r].todo :
       /\ IsOldest(e, runs[r].todo)
       /\ disk' = [disk EXCEPT ![e.id] = e.blockHeight]
       /\ HandleBlock(r, Push(history, e.id, runs[r].known), runs[r].todo \ {e})
  /\ UNCHANGED <<node, blockCount, isSynced, sending, incidents>>

\* getBlock failed on every node, time after time: the loop breaks.
BlockFails(r) ==
  /\ runs[r].at = "block" /\ UNCHANGED history /\ Return(r)
  /\ UNCHANGED <<node, blockCount, mempool, isSynced, lastProcessed, disk,
                 sending, incidents>>

\* refreshChainData() and the listener of 'new-block'.  The explorer answers
\* the block count when no node does.
Refresh ==
  /\ \E n \in indexed .. tip :
       /\ n # blockCount /\ blockCount' = n
       /\ \/ ~isSynced /\ UNCHANGED <<runs, blocksLock, shown>>
          \/ isSynced /\ Enter(0, n) /\ UNCHANGED shown
          \/ isSynced /\ Bounce(n) /\ UNCHANGED history /\ Emit
  /\ UNCHANGED <<node, mempool, history, isSynced, lastProcessed, eventsOn,
                 disk, pagers, syncLock, sending, incidents>>

-----------------------------------------------------------------------------
\* sync() and resync()

Incident == incidents < MaxIncidents /\ incidents' = incidents + 1

\* A call that found nothing running in its place.
Begins(p, for) ==
  /\ pagers[p].at = "none" /\ \A q \in 1 .. p - 1 : pagers[q].at # "none"
  /\ pagers' = [pagers EXCEPT ![p] = Pager("disk", for)]

\* A call during a call is refused, but clears the lock on its way out: the
\* next one runs beside the first.
CallSync ==
  /\ \/ /\ ~syncLock /\ syncLock' = TRUE
        /\ ~isSynced /\ \E p \in Pagers : Begins(p, "sync")
        /\ eventsOn' = FALSE
        /\ \/ Running = {} /\ UNCHANGED incidents
           \/ Running # {} /\ Incident
     \/ /\ syncLock /\ syncLock' = FALSE
        /\ incidents < MaxIncidents
        /\ UNCHANGED <<pagers, eventsOn, incidents>>
  /\ UNCHANGED <<node, blockCount, mempool, history, shown, isSynced,
                 lastProcessed, disk, blocksLock, runs, sending>>

FirstRead == blockCount - Margin

StoredTxs == {t \in Txs : disk[t] # Absent}

\* The height the pages start from.
StartHeight(map) ==
  CHOOSE h \in 0 .. MaxHeight :
    /\ h = 0 \/ \E t \in Txs : map[t] = h
    /\ \A t \in Txs : map[t] <= h

\* #loadFromDisk, and the first request of #transparentSync, which has nothing
\* to do if another call has finished meanwhile.
DiskAnswer(p) ==
  /\ pagers[p].at = "disk" /\ pagers[p].for = "sync"
  /\ Added(StoredTxs, disk, history) /\ Emit
  /\ lastProcessed' = FirstRead
  /\ pagers' = [pagers EXCEPT ![p].at = IF isSynced THEN "skip" ELSE "count",
                              ![p].start = StartHeight(txmap')]
  /\ UNCHANGED <<node, blockCount, isSynced, eventsOn, disk,
                 flags, runs, sending, incidents>>

CallResync ==
  /\ isSynced /\ \E p \in Pagers : Begins(p, "resync")
  /\ Incident
  /\ UNCHANGED <<node, blockCount, mempool, history, shown, isSynced,
                 lastProcessed, eventsOn, disk, flags, runs, sending>>

\* resync(), after its first await: an empty mempool.
ResyncStarts(p) ==
  /\ pagers[p].at = "disk" /\ pagers[p].for = "resync"
  /\ txmap' = [t \in Txs |-> Absent] /\ status' = [o \in Outpoints |-> {}]
  /\ isSynced' = FALSE
  /\ pagers' = [pagers EXCEPT ![p].at = "count"]
  /\ UNCHANGED <<node, blockCount, history, shown, lastProcessed, eventsOn, disk,
                 flags, runs, sending, incidents>>

\* After the last page: sync() reads the last blocks, resync() returns.
EndPages(p) ==
  \/ /\ pagers[p].for = "sync" /\ isSynced' = TRUE
     /\ \/ /\ Enter(p, blockCount)
           /\ pagers' = [pagers EXCEPT ![p] = Pager("blocks", "sync")]
           /\ Emit /\ UNCHANGED <<eventsOn, syncLock>>
        \/ Bounce(blockCount) /\ EndSync(p)
  \/ /\ pagers[p].for = "resync"
     /\ pagers' = [pagers EXCEPT ![p] = NoPager] /\ Emit
     /\ UNCHANGED <<isSynced, eventsOn, flags, runs>>

SkipPages(p) ==
  /\ pagers[p].at = "skip"
  /\ UNCHANGED <<mempool, history>> /\ EndPages(p)
  /\ UNCHANGED <<node, blockCount, lastProcessed, disk, sending, incidents>>

\* Adding a page, the oldest first, up to its next write, the next page, or the
\* end.  What is not stored is the newest.
AddPage(p, entries, todo) ==
  \/ \E e \in todo :
       /\ IsOldest(e, todo) /\ ~SkipsDatabase(e) /\ Stores(e, entries) /\ Emit
       /\ pagers' = [pagers EXCEPT ![p].at = "store", ![p].todo = todo,
                                   ![p].known = txmap[e.id] # Absent]
       /\ UNCHANGED <<isSynced, eventsOn, flags, runs>>
  \/ /\ \A e \in todo : SkipsDatabase(e)
     /\ Added({e.id : e \in todo}, [t \in Txs |-> Unconfirmed], entries)
     /\ \/ /\ pagers[p].page > 1
           /\ pagers' = [pagers EXCEPT ![p].at = "page", ![p].todo = {}, ![p].page = @ - 1]
           /\ Emit /\ UNCHANGED <<isSynced, eventsOn, flags, runs>>
        \/ pagers[p].page <= 1 /\ EndPages(p)

CountAnswer(p) ==
  /\ pagers[p].at = "count"
  /\ LET pages == NumPages(pagers[p].start) IN
     \/ /\ pages > 0
        /\ pagers' = [pagers EXCEPT ![p].at = "page", ![p].page = pages]
        /\ UNCHANGED <<mempool, history, shown, isSynced, eventsOn, flags, runs>>
     \/ pages = 0 /\ UNCHANGED <<mempool, history>> /\ EndPages(p)
  /\ UNCHANGED <<node, blockCount, lastProcessed, disk, sending, incidents>>

PageAnswer(p) ==
  /\ pagers[p].at = "page"
  /\ AddPage(p, history, Page(pagers[p].start, pagers[p].page))
  /\ UNCHANGED <<node, blockCount, lastProcessed, disk, sending, incidents>>

PageStored(p) ==
  /\ pagers[p].at = "store"
  /\ \E e \in pagers[p].todo :
       /\ IsOldest(e, pagers[p].todo)
       /\ disk' = [disk EXCEPT ![e.id] = e.blockHeight]
       /\ AddPage(p, Push(history, e.id, pagers[p].known), pagers[p].todo \ {e})
  /\ UNCHANGED <<node, blockCount, lastProcessed, sending, incidents>>

\* A request for pages fails six times: sync() and resync() reject, and the
\* events sync() disabled stay disabled.
PagesFail(p) ==
  /\ pagers[p].at \in {"count", "page"} /\ Incident
  /\ pagers' = [pagers EXCEPT ![p] = NoPager]
  /\ syncLock' = (syncLock /\ pagers[p].for = "resync")
  /\ UNCHANGED <<node, blockCount, mempool, history, shown, isSynced,
                 lastProcessed, eventsOn, disk, blocksLock, runs, sending>>

-----------------------------------------------------------------------------
\* createAndSendTransaction()

Spendable(o) == {"ours", "p2pkh"} \subseteq status[o] /\ "spent" \notin status[o]

Send ==
  /\ sending = {}
  /\ \E t \in Sendable :
       /\ Spends[t] # {} /\ \A o \in Spends[t] : Spendable(o)
       /\ sending' = {t}
  /\ UNCHANGED <<node, blockCount, mempool, history, shown, isSynced,
                 lastProcessed, eventsOn, disk, flags, pagers, runs, incidents>>

\* The node takes it, possibly long before its answer arrives.
NodeTakes ==
  /\ \E t \in sending : Payable(t) /\ Accept(t)
  /\ UNCHANGED <<minedAt, tip, indexed, memory, disk, incidents>>

Sent(t) == Known(t)

\* The answer is its txid: it is added, but not stored.
SendAnswer ==
  /\ \E t \in sending :
       /\ Sent(t)
       /\ InMempool({t}, [u \in Txs |-> Unconfirmed])
       /\ history' = Push(history, t, txmap[t] # Absent)
  /\ Emit /\ sending' = {}
  /\ UNCHANGED <<node, blockCount, isSynced, lastProcessed, eventsOn, disk,
                 flags, pagers, runs, incidents>>

\* It is refused, or its answer is lost.
SendFails ==
  /\ sending # {} /\ sending' = {} /\ Incident
  /\ UNCHANGED <<node, blockCount, mempool, history, shown, isSynced,
                 lastProcessed, eventsOn, disk, flags, pagers, runs>>

\* The page is closed and opened again.
Reload ==
  /\ Incident
  /\ blockCount' = 0
  /\ txmap' = [t \in Txs |-> Absent] /\ status' = [o \in Outpoints |-> {}]
  /\ history' = {} /\ shown' = {}
  /\ isSynced' = FALSE /\ lastProcessed' = 0 /\ eventsOn' = TRUE
  /\ syncLock' = FALSE /\ blocksLock' = FALSE
  /\ pagers' = [p \in Pagers |-> NoPager] /\ runs' = [r \in Slots |-> NoRun]
  /\ sending' = {}
  /\ UNCHANGED <<node, disk>>

Step ==
  \/ Arrive \/ Mine \/ Index
  \/ Refresh \/ CallSync \/ CallResync
  \/ \E p \in Pagers :
       \/ DiskAnswer(p) \/ SkipPages(p) \/ CountAnswer(p) \/ PageAnswer(p)
       \/ PageStored(p) \/ PagesFail(p) \/ ResyncStarts(p)
  \/ \E r \in Slots : BlockAnswer(r) \/ BlockStored(r) \/ BlockFails(r)
  \/ Send \/ NodeTakes \/ SendAnswer \/ SendFails
  \/ Reload

-----------------------------------------------------------------------------
\* What the code does not stand

\* Two calls of sync() or resync() at the same time, or a resync() that took the
\* mempool from under a run that reads blocks.
Disturbed ==
  \/ \E p, q \in Running : p # q
  \/ \E p \in Running, r \in Slots :
       /\ pagers[p].for = "resync" /\ pagers[p].at # "disk"
       /\ runs[r].at # "none"

\* The explorer's list changes while its pages are counted and read, and there
\* are several: a transaction may move to a page that was read before.
PagesShift ==
  \E p \in Pagers :
    /\ pagers[p].at = "page" \/ (pagers[p].at = "store" /\ pagers[p].page > 1)
    /\ NumPages(pagers[p].start)' > 1
    /\ Listing(pagers[p].start)' # Listing(pagers[p].start)

Next ==
  /\ Step /\ Awaiting' <= MaxAtOnce
  /\ undisturbed' = (undisturbed /\ ~Disturbed' /\ ~PagesShift)

Spec == Init /\ [][Next]_vars

-----------------------------------------------------------------------------
\* Properties

AtRest == isSynced /\ Running = {} /\ \A r \in Slots : runs[r].at = "none"

\* What a wallet that handled all blocks so far knows.
Seen == {t \in Txs : minedAt[t] \in 1 .. lastProcessed \/ txmap[t] # Absent}

\* The wallet holds exactly the coins that the blocks it has handled, and what
\* it heard of unconfirmed transactions, leave it.
HoldsItsCoins ==
  {o \in Outpoints : "ours" \in status[o] /\ "spent" \notin status[o]}
    = {o \in Own : o[1] \in Seen /\ \A t \in Seen : o \notin Spends[t]}

\* A synchronised wallet that waits for nothing holds its coins: no transaction
\* fell between the disk, the pages and the blocks, whatever blocks came while
\* it read, broke off, failed, was restarted or synchronised again.  It is true
\* of the histories that were not disturbed; the code loses coins in others.
CoinsAreTrue == AtRest /\ undisturbed => HoldsItsCoins

\* Only transactions the node knows are in the mempool, and what is stored
\* is where the chain has it, whatever broke off when: a start from the
\* disk never builds on a transaction that did not happen.
StoredIsMined ==
  /\ \A t \in Txs : txmap[t] # Absent => Known(t)
  /\ \A t \in Txs : disk[t] # Absent => disk[t] = minedAt[t]

\* At rest, every transaction the wallet counts is in the history that the
\* interface shows, although sync() silences the events, resync() replaces
\* the mempool, and several runs replace each other's entries.
HistoryIsShown ==
  AtRest => {t \in Txs : txmap[t] # Absent} \subseteq shown

\* The pages leave nothing out (wallet.js: "iterate through them until we've
\* synced everything").
PagesLoseNothing == AtRest => HoldsItsCoins
=============================================================================
