--------------------------- MODULE WalletSync_proofs ---------------------------
(***************************************************************************)
(* Theorems about the synchronisation of the wallet, for every set of      *)
(* transactions and whatever they spend.                                   *)
(***************************************************************************)
EXTENDS WalletSync, FiniteSetTheorems, WellFoundedInduction, TLAPS

-----------------------------------------------------------------------------
\* The chain only grows

Chain ==
  /\ accepted \in Seq(Txs)
  /\ \A i, j \in 1 .. Len(accepted) : accepted[i] = accepted[j] => i = j
  /\ minedAt \in [Txs -> Nat] /\ tip \in 0 .. MaxHeight /\ indexed \in 0 .. tip
  /\ \A t \in Txs : minedAt[t] <= tip /\ (minedAt[t] # 0 => Known(t))

Grows ==
  /\ \A t \in Txs : Known(t) => Known(t)' /\ Accepted(t)' = Accepted(t)
  /\ \A t \in Txs : minedAt[t] # 0 => minedAt'[t] = minedAt[t]
  /\ \A t \in Txs : minedAt[t] = 0 => minedAt'[t] \in {0, tip + 1}
  /\ tip <= tip' /\ indexed <= indexed'

NodeStep == Arrive \/ Mine \/ Index \/ NodeTakes

LEMMA AcceptedIsPlace ==
  ASSUME Chain, NEW t \in Txs, Known(t)
  PROVE  Accepted(t) \in 1 .. Len(accepted) /\ accepted[Accepted(t)] = t
BY DEF Known, Accepted

LEMMA AcceptGrows ==
  ASSUME Chain, NEW t \in Txs, ~Known(t), Accept(t), UNCHANGED <<minedAt, tip, indexed>>
  PROVE  Chain' /\ Grows
<1> USE DEF Chain
<1>1. /\ accepted' \in Seq(Txs) /\ Len(accepted') = Len(accepted) + 1
      /\ \A i \in 1 .. Len(accepted) : accepted'[i] = accepted[i]
      /\ accepted'[Len(accepted) + 1] = t
      /\ Len(accepted) \in Nat
  BY DEF Accept
<1>2. \A i \in 1 .. Len(accepted) : accepted[i] # t
  BY DEF Known
<1>3. \A i, j \in 1 .. Len(accepted') : accepted'[i] = accepted'[j] => i = j
  <2> SUFFICES ASSUME NEW i \in 1 .. Len(accepted'), NEW j \in 1 .. Len(accepted'),
                      accepted'[i] = accepted'[j]
               PROVE  i = j
    OBVIOUS
  <2>1. CASE i \in 1 .. Len(accepted) /\ j \in 1 .. Len(accepted)
    BY <1>1, <2>1
  <2>2. CASE i = Len(accepted) + 1
    BY <1>1, <1>2, <2>2
  <2>3. CASE j = Len(accepted) + 1
    BY <1>1, <1>2, <2>3
  <2>4. QED
    BY <1>1, <2>1, <2>2, <2>3
<1>4. ASSUME NEW u \in Txs, Known(u)
      PROVE  Known(u)' /\ Accepted(u)' = Accepted(u)
  <2>1. Accepted(u) \in 1 .. Len(accepted) /\ accepted[Accepted(u)] = u
    BY <1>4, AcceptedIsPlace
  <2>2. Accepted(u) \in 1 .. Len(accepted') /\ accepted'[Accepted(u)] = u
    BY <1>1, <2>1
  <2>3. Known(u)'
    BY <2>2 DEF Known
  <2>4. \A i \in 1 .. Len(accepted') : accepted'[i] = u => i = Accepted(u)
    BY <2>2, <1>3
  <2>5. Accepted(u)' = Accepted(u)
    BY <2>2, <2>4 DEF Accepted
  <2>6. QED
    BY <2>3, <2>5
<1>5. \A u \in Txs : minedAt'[u] <= tip' /\ (minedAt'[u] # 0 => Known(u)')
  BY <1>4
<1>6. Chain'
  BY <1>1, <1>3, <1>5
<1>7. QED
  BY <1>4, <1>6 DEF Grows

LEMMA MineGrows ==
  ASSUME Chain, Mine
  PROVE  Chain' /\ Grows
<1> USE DEF Chain
<1>1. PICK S \in SUBSET {t \in Txs : Known(t) /\ minedAt[t] = 0} :
        minedAt' = [t \in Txs |-> IF t \in S THEN tip + 1 ELSE minedAt[t]]
  BY DEF Mine
<1>2. tip' = tip + 1 /\ tip' \in 0 .. MaxHeight /\ UNCHANGED <<accepted, indexed>>
  BY SyncAssumption DEF Mine
<1>3. \A t \in Txs : Known(t)' = Known(t) /\ Accepted(t)' = Accepted(t)
  BY <1>2 DEF Known, Accepted
<1>4. Chain'
  BY <1>1, <1>2, <1>3
<1>5. QED
  BY <1>1, <1>2, <1>3, <1>4 DEF Grows

LEMMA NodeGrows ==
  ASSUME Chain, sending \subseteq Txs, NodeStep
  PROVE  Chain' /\ Grows /\ UNCHANGED <<memory, disk>>
<1>1. CASE Arrive
  <2>1. PICK t \in Txs : ~Known(t) /\ Accept(t)
    BY <1>1 DEF Arrive, Payable
  <2>2. UNCHANGED <<minedAt, tip, indexed, memory, disk>>
    BY <1>1 DEF Arrive
  <2>3. QED
    BY <2>1, <2>2, AcceptGrows
<1>2. CASE NodeTakes
  <2>1. PICK t \in sending : ~Known(t) /\ Accept(t)
    BY <1>2 DEF NodeTakes, Payable
  <2>2. UNCHANGED <<minedAt, tip, indexed, memory, disk>>
    BY <1>2 DEF NodeTakes
  <2>3. QED
    BY <2>1, <2>2, AcceptGrows
<1>3. CASE Mine
  BY <1>3, MineGrows DEF Mine
<1>4. CASE Index
  <2>1. indexed' = indexed + 1 /\ indexed < tip /\ UNCHANGED <<accepted, minedAt, tip, memory, disk>>
    BY <1>4 DEF Index
  <2>2. \A t \in Txs : Known(t)' = Known(t) /\ Accepted(t)' = Accepted(t)
    BY <2>1 DEF Known, Accepted
  <2>3. QED
    BY <2>1, <2>2 DEF Chain, Grows
<1>5. QED
  BY <1>1, <1>2, <1>3, <1>4 DEF NodeStep
-----------------------------------------------------------------------------
\* What is stored, and what waits for it

Entry == [id : Txs, blockHeight : Nat \cup {Unconfirmed}]
PagerType ==
  [at : {"none", "disk", "skip", "count", "page", "store", "blocks"},
   for : {"sync", "resync"}, start : 0 .. MaxHeight, page : Int,
   todo : SUBSET Entry, known : BOOLEAN]
RunType ==
  [at : {"none", "block", "store"}, for : Pagers \cup {0}, height : Int,
   target : Int, todo : SUBSET Entry, known : BOOLEAN]

Types ==
  /\ txmap \in [Txs -> Int] /\ disk \in [Txs -> Int] /\ sending \subseteq Txs
  /\ blockCount \in 0 .. tip /\ lastProcessed \in Int
  /\ pagers \in [Pagers -> PagerType] /\ runs \in [Slots -> RunType]
  /\ isSynced \in BOOLEAN /\ eventsOn \in BOOLEAN

\* An entry is true for ever if it gives the height of a block.
Mined(e) == e.blockHeight = minedAt[e.id] /\ minedAt[e.id] # 0
Told(e) == Known(e.id) /\ (e.blockHeight = Unconfirmed \/ Mined(e))

MempoolIsKnown == \A t \in Txs : txmap[t] # Absent => Known(t) /\ txmap[t] <= tip
DiskIsMined == \A t \in Txs : disk[t] # Absent => disk[t] = minedAt[t] /\ minedAt[t] # 0
PagesAreTold ==
  \A p \in Pagers :
    /\ \A e \in pagers[p].todo : Told(e)
    /\ pagers[p].at = "store" => \E e \in pagers[p].todo : Mined(e)
BlocksAreMined == \A r \in Slots : \A e \in runs[r].todo : Known(e.id) /\ Mined(e)

StoredIInv ==
  Chain /\ Types /\ MempoolIsKnown /\ DiskIsMined /\ PagesAreTold /\ BlocksAreMined

LEMMA NodeKeepsStored == ASSUME StoredIInv, NodeStep PROVE StoredIInv'
<1> USE DEF StoredIInv
<1>1. Chain' /\ Grows /\ UNCHANGED <<memory, disk>>
  BY NodeGrows DEF Types
<1>2. /\ \A t \in Txs : Known(t) => Known(t)'
      /\ \A t \in Txs : minedAt[t] # 0 => minedAt'[t] = minedAt[t]
      /\ tip <= tip' /\ tip \in Nat /\ tip' \in Nat
  BY <1>1 DEF Grows, Chain
<1>3. ASSUME NEW e \in Entry PROVE (Mined(e) => Mined(e)') /\ (Told(e) => Told(e)')
  BY <1>2 DEF Mined, Told, Entry
<1>4. UNCHANGED <<txmap, disk, sending, blockCount, lastProcessed, pagers, runs, isSynced, eventsOn>>
  BY <1>1 DEF memory, mempool
<1>5. Types'
  BY <1>2, <1>4 DEF Types
<1>6. MempoolIsKnown'
  BY <1>2, <1>4 DEF MempoolIsKnown, Types
<1>7. DiskIsMined'
  BY <1>2, <1>4 DEF DiskIsMined
<1>8. /\ \A p \in Pagers : pagers[p].todo \subseteq Entry
      /\ \A r \in Slots : runs[r].todo \subseteq Entry
  BY DEF Types, PagerType, RunType
<1>9. PagesAreTold'
  BY <1>3, <1>4, <1>8 DEF PagesAreTold
<1>10. BlocksAreMined'
  BY <1>2, <1>3, <1>4, <1>8 DEF BlocksAreMined, Entry
<1>11. QED
  BY <1>1, <1>5, <1>6, <1>7, <1>9, <1>10

\* The parts of the invariant that most steps change.
MempoolPart == txmap \in [Txs -> Int] /\ MempoolIsKnown
PagerPart == pagers \in [Pagers -> PagerType] /\ PagesAreTold
RunsPart == runs \in [Slots -> RunType] /\ BlocksAreMined

LEMMA PagerFields ==
  ASSUME NEW at \in {"none", "disk", "blocks"}, NEW for \in {"sync", "resync"}
  PROVE  /\ Pager(at, for) \in PagerType /\ Pager(at, for).todo = {}
         /\ Pager(at, for).at = at /\ Pager(at, for).for = for /\ at # "store"
BY SyncAssumption DEF Pager, PagerType

LEMMA NothingTodo ==
  /\ NoPager \in PagerType /\ NoRun \in RunType /\ NoPager.todo = {} /\ NoRun.todo = {}
  /\ NoPager.at = "none" /\ NoPager.for = "sync" /\ NoRun.at = "none" /\ NoRun.for = 0
<1>1. NoRun \in RunType /\ NoRun.todo = {} /\ NoRun.at = "none" /\ NoRun.for = 0
  BY SyncAssumption DEF NoRun, RunType
<1>2. QED
  BY <1>1, PagerFields DEF NoPager

LEMMA InMempoolStored ==
  ASSUME StoredIInv, UNCHANGED node, NEW T \in SUBSET Txs, NEW height,
         \A t \in T : Known(t) /\ height[t] \in Int /\ height[t] <= tip, InMempool(T, height)
  PROVE  MempoolPart'
<1>1. \A t \in Txs : Known(t)' = Known(t)
  BY DEF node, Known
<1>2. tip' = tip
  BY DEF node
<1>3. txmap' = [t \in Txs |-> IF t \in T THEN height[t] ELSE txmap[t]] /\ txmap \in [Txs -> Int]
  BY DEF InMempool, StoredIInv, Types
<1>4. txmap' \in [Txs -> Int]
  BY <1>3
<1>5. MempoolIsKnown'
  BY <1>1, <1>2, <1>3 DEF StoredIInv, MempoolIsKnown
<1>6. QED
  BY <1>4, <1>5 DEF MempoolPart

LEMMA StoresStored ==
  ASSUME StoredIInv, UNCHANGED node, NEW e \in Entry, Known(e.id), Mined(e), NEW entries,
         Stores(e, entries)
  PROVE  MempoolPart'
<1>1. e.id \in Txs /\ e.blockHeight \in Int /\ e.blockHeight <= tip
  BY DEF Entry, Mined, StoredIInv, Chain
<1>2. InMempool({e.id}, [t \in Txs |-> e.blockHeight])
  BY DEF Stores
<1>3. QED
  BY <1>1, <1>2, InMempoolStored

LEMMA SameMempool == ASSUME StoredIInv, UNCHANGED <<node, mempool>> PROVE MempoolPart'
BY DEF StoredIInv, Types, MempoolPart, MempoolIsKnown, Known, node, mempool

LEMMA SamePager == ASSUME StoredIInv, UNCHANGED <<node, pagers>> PROVE PagerPart'
<1>1. \A e : (Told(e)' <=> Told(e)) /\ (Mined(e)' <=> Mined(e))
  BY DEF Told, Mined, Known, node
<1>2. QED
  BY <1>1 DEF StoredIInv, Types, PagerPart, PagesAreTold

LEMMA PagersStored ==
  ASSUME StoredIInv, UNCHANGED node, NEW p \in Pagers, NEW call \in PagerType,
         pagers' = [pagers EXCEPT ![p] = call], \A e \in call.todo : Told(e),
         call.at = "store" => \E e \in call.todo : Mined(e)
  PROVE  PagerPart'
<1>1. pagers' \in [Pagers -> PagerType]
  BY DEF StoredIInv, Types
<1>2. \A q \in Pagers : pagers'[q] = IF q = p THEN call ELSE pagers[q]
  BY DEF StoredIInv, Types
<1>3. \A q \in Pagers :
        /\ \A e \in pagers'[q].todo : Told(e)
        /\ pagers'[q].at = "store" => \E e \in pagers'[q].todo : Mined(e)
  BY <1>2 DEF StoredIInv, PagesAreTold
<1>4. \A e : (Told(e)' <=> Told(e)) /\ (Mined(e)' <=> Mined(e))
  BY DEF Told, Mined, Known, node
<1>5. QED
  BY <1>1, <1>3, <1>4 DEF PagerPart, PagesAreTold

LEMMA PagerWithoutTodo ==
  ASSUME StoredIInv, UNCHANGED node, NEW p \in Pagers, NEW call \in PagerType,
         pagers' = [pagers EXCEPT ![p] = call], call.todo = {}, call.at # "store"
  PROVE  PagerPart'
BY PagersStored

LEMMA RunsStored ==
  ASSUME StoredIInv, UNCHANGED node, NEW r \in Slots, NEW run \in RunType,
         runs' = [runs EXCEPT ![r] = run], \A e \in run.todo : Known(e.id) /\ Mined(e)
  PROVE  RunsPart'
<1>1. runs' \in [Slots -> RunType]
  BY DEF StoredIInv, Types
<1>2. \A q \in Slots : runs'[q] = IF q = r THEN run ELSE runs[q]
  BY DEF StoredIInv, Types
<1>3. \A q \in Slots : \A e \in runs'[q].todo : Known(e.id) /\ Mined(e)
  BY <1>2 DEF StoredIInv, BlocksAreMined
<1>4. \A e : (Known(e.id)' <=> Known(e.id)) /\ (Mined(e)' <=> Mined(e))
  BY DEF Known, Mined, node
<1>5. QED
  BY <1>1, <1>3, <1>4 DEF RunsPart, BlocksAreMined

LEMMA SameRuns == ASSUME StoredIInv, UNCHANGED <<node, runs>> PROVE RunsPart'
<1>1. \A e : (Known(e.id)' <=> Known(e.id)) /\ (Mined(e)' <=> Mined(e))
  BY DEF Known, Mined, node
<1>2. QED
  BY <1>1 DEF StoredIInv, Types, RunsPart, BlocksAreMined

LEMMA EnterStored ==
  ASSUME StoredIInv, UNCHANGED node, NEW for \in Pagers \cup {0}, NEW target \in Int,
         Enter(for, target)
  PROVE  RunsPart'
<1>1. PICK r \in Slots : runs' = [runs EXCEPT ![r] = Started(for, target)]
  BY DEF Enter
<1>2. Started(for, target) \in RunType /\ Started(for, target).todo = {}
  BY DEF Started, RunType, StoredIInv, Types
<1>3. QED
  BY <1>1, <1>2, RunsStored

LEMMA ReturnStored ==
  ASSUME StoredIInv, UNCHANGED node, NEW r \in Slots, Return(r)
  PROVE  RunsPart' /\ PagerPart' /\ eventsOn' \in BOOLEAN
<1>1. RunsPart'
  BY NothingTodo, RunsStored DEF Return
<1>2. CASE runs[r].for # 0
  <2>0. runs[r].for \in Pagers
    BY <1>2 DEF StoredIInv, Types, RunType
  <2>1. pagers' = [pagers EXCEPT ![runs[r].for] = NoPager] /\ eventsOn' = TRUE
    BY <1>2 DEF Return, EndSync
  <2>2. PagerPart'
    BY <2>0, <2>1, NothingTodo, PagerWithoutTodo
  <2>3. QED
    BY <1>1, <2>1, <2>2
<1>3. CASE runs[r].for = 0
  <2>1. pagers' = pagers /\ eventsOn' = eventsOn
    BY <1>3 DEF Return
  <2>2. PagerPart'
    BY <2>1, SamePager
  <2>3. QED
    BY <1>1, <2>1, <2>2 DEF StoredIInv, Types
<1>4. QED
  BY <1>2, <1>3

LEMMA NextHeight ==
  ASSUME NEW run \in RunType, NEW h \in Int
  PROVE  /\ [run EXCEPT !.at = "block", !.todo = {}, !.height = h] \in RunType
         /\ [run EXCEPT !.at = "block", !.todo = {}, !.height = h].todo = {}
BY DEF RunType

LEMMA HandleBlockStored ==
  ASSUME StoredIInv, UNCHANGED node, NEW r \in Slots, NEW entries, NEW todo \in SUBSET Entry,
         \A e \in todo : Known(e.id) /\ Mined(e), HandleBlock(r, entries, todo)
  PROVE  MempoolPart' /\ RunsPart' /\ PagerPart' /\ eventsOn' \in BOOLEAN /\ lastProcessed' \in Int
<1> DEFINE owned == {e \in todo : Owned(e.id, status)}
<1>0. runs[r] \in RunType /\ runs \in [Slots -> RunType] /\ eventsOn \in BOOLEAN /\ lastProcessed \in Int
  BY DEF StoredIInv, Types
<1>1. ASSUME NEW e \in owned, Stores(e, entries), UNCHANGED <<pagers, eventsOn, lastProcessed>>,
             runs' = [runs EXCEPT ![r].at = "store", ![r].known = txmap[e.id] # Absent,
                               ![r].todo = {f \in todo : f = e \/ Older(e, f)}]
      PROVE  MempoolPart' /\ RunsPart' /\ PagerPart' /\ eventsOn' \in BOOLEAN /\ lastProcessed' \in Int
  <2> DEFINE rest == {f \in todo : f = e \/ Older(e, f)}
             run == [runs[r] EXCEPT !.at = "store", !.known = txmap[e.id] # Absent, !.todo = rest]
  <2>1. MempoolPart'
    BY <1>1, StoresStored
  <2>2. run \in RunType /\ run.todo = rest
    BY <1>0 DEF RunType
  <2>3. runs' = [runs EXCEPT ![r] = run]
    BY <1>0, <1>1
  <2>4. rest \subseteq todo
    OBVIOUS
  <2> HIDE DEF run, rest
  <2>5. RunsPart'
    BY <2>2, <2>3, <2>4, RunsStored
  <2>6. PagerPart'
    BY <1>1, SamePager
  <2>7. QED
    BY <1>0, <1>1, <2>1, <2>5, <2>6
<1>2. ASSUME UNCHANGED mempool, lastProcessed' = runs[r].height, UNCHANGED <<pagers, eventsOn>>,
             runs' = [runs EXCEPT ![r].at = "block", ![r].todo = {}, ![r].height = @ + 1]
      PROVE  MempoolPart' /\ RunsPart' /\ PagerPart' /\ eventsOn' \in BOOLEAN /\ lastProcessed' \in Int
  <2> DEFINE run == [runs[r] EXCEPT !.at = "block", !.todo = {}, !.height = @ + 1]
  <2>0. runs[r].height + 1 \in Int
    BY <1>0 DEF RunType
  <2>1. run \in RunType /\ run.todo = {}
    BY <1>0, <2>0, NextHeight
  <2>2. runs' = [runs EXCEPT ![r] = run]
    BY <1>0, <1>2
  <2> HIDE DEF run
  <2>3. RunsPart'
    BY <2>1, <2>2, RunsStored
  <2>4. lastProcessed' \in Int
    BY <1>0, <1>2 DEF RunType
  <2>5. QED
    BY <1>0, <1>2, <2>3, <2>4, SameMempool, SamePager
<1>3. ASSUME UNCHANGED mempool, lastProcessed' = runs[r].height, Return(r)
      PROVE  MempoolPart' /\ RunsPart' /\ PagerPart' /\ eventsOn' \in BOOLEAN /\ lastProcessed' \in Int
  <2>1. lastProcessed' \in Int
    BY <1>0, <1>3 DEF RunType
  <2>2. QED
    BY <1>3, <2>1, SameMempool, ReturnStored
<1>4. QED
  BY <1>1, <1>2, <1>3 DEF HandleBlock

LEMMA EndPagesStored ==
  ASSUME StoredIInv, UNCHANGED node, NEW p \in Pagers, EndPages(p)
  PROVE  RunsPart' /\ PagerPart' /\ eventsOn' \in BOOLEAN /\ isSynced' \in BOOLEAN
<1>0. eventsOn \in BOOLEAN /\ isSynced \in BOOLEAN /\ blockCount \in Int
  BY DEF StoredIInv, Types
<1>1. ASSUME NEW at \in {"none", "blocks"},
             pagers' = [pagers EXCEPT ![p] = Pager(at, "sync")]
      PROVE  PagerPart'
  BY <1>1, PagerFields, PagerWithoutTodo
<1>2. CASE /\ isSynced' = TRUE /\ Enter(p, blockCount) /\ UNCHANGED eventsOn
           /\ pagers' = [pagers EXCEPT ![p] = Pager("blocks", "sync")]
  BY <1>0, <1>1, <1>2, EnterStored
<1>3. CASE isSynced' = TRUE /\ Bounce(blockCount) /\ EndSync(p)
  BY <1>1, <1>3, SameRuns DEF Bounce, EndSync, NoPager
<1>4. CASE pagers' = [pagers EXCEPT ![p] = NoPager] /\ UNCHANGED <<isSynced, eventsOn, runs>>
  BY <1>0, <1>1, <1>4, SameRuns DEF NoPager
<1>5. QED
  BY <1>2, <1>3, <1>4 DEF EndPages

\* A page whose oldest transaction is stored starts with a mined one.
LEMMA AddPageStored ==
  ASSUME StoredIInv, UNCHANGED node, NEW p \in Pagers, NEW entries, NEW todo \in SUBSET Entry,
         \A e \in todo : Told(e), AddPage(p, entries, todo)
  PROVE  /\ MempoolPart' /\ RunsPart' /\ PagerPart'
         /\ eventsOn' \in BOOLEAN /\ isSynced' \in BOOLEAN
<1>0. /\ pagers \in [Pagers -> PagerType] /\ pagers[p] \in PagerType
      /\ eventsOn \in BOOLEAN /\ isSynced \in BOOLEAN
  BY DEF StoredIInv, Types
<1>1. ASSUME NEW e \in todo, ~SkipsDatabase(e), Stores(e, entries),
             pagers' = [pagers EXCEPT ![p].at = "store", ![p].todo = todo,
                                      ![p].known = txmap[e.id] # Absent],
             UNCHANGED <<isSynced, eventsOn, runs>>
      PROVE  /\ MempoolPart' /\ RunsPart' /\ PagerPart'
             /\ eventsOn' \in BOOLEAN /\ isSynced' \in BOOLEAN
  <2> DEFINE call == [pagers[p] EXCEPT !.at = "store", !.todo = todo, !.known = txmap[e.id] # Absent]
  <2>1. Known(e.id) /\ Mined(e)
    BY <1>1 DEF Told, SkipsDatabase
  <2>2. MempoolPart'
    BY <1>1, <2>1, StoresStored
  <2>3. call \in PagerType /\ call.todo = todo
    BY <1>0 DEF PagerType
  <2>4. pagers' = [pagers EXCEPT ![p] = call]
    BY <1>0, <1>1
  <2> HIDE DEF call
  <2>5. PagerPart'
    BY <2>1, <2>3, <2>4, PagersStored
  <2>6. QED
    BY <1>0, <1>1, <2>2, <2>5, SameRuns
<1>2. ASSUME Added({e.id : e \in todo}, [t \in Txs |-> Unconfirmed], entries)
      PROVE  MempoolPart'
  <2> DEFINE T == {e.id : e \in todo}
             height == [t \in Txs |-> Unconfirmed]
  <2>1. T \in SUBSET Txs
    BY DEF Entry
  <2>2. \A t \in T : Known(t)
    BY DEF Told
  <2>3. \A t \in T : height[t] \in Int /\ height[t] <= tip
    BY <2>1 DEF Unconfirmed, StoredIInv, Chain
  <2>4. InMempool(T, height)
    BY <1>2 DEF Added
  <2> HIDE DEF T, height
  <2>5. QED
    BY <2>1, <2>2, <2>3, <2>4, InMempoolStored
<1>3. ASSUME pagers' = [pagers EXCEPT ![p].at = "page", ![p].todo = {}, ![p].page = @ - 1],
             UNCHANGED <<isSynced, eventsOn, runs>>
      PROVE  RunsPart' /\ PagerPart' /\ eventsOn' \in BOOLEAN /\ isSynced' \in BOOLEAN
  <2> DEFINE n == pagers[p].page - 1
             call == [pagers[p] EXCEPT !.at = "page", !.todo = {}, !.page = n]
  <2>1. n \in Int
    BY <1>0 DEF PagerType
  <2>2. pagers' = [pagers EXCEPT ![p] = call]
    BY <1>0, <1>3
  <2> HIDE DEF n
  <2>3. call \in PagerType /\ call.todo = {} /\ call.at # "store"
    BY <1>0, <2>1 DEF PagerType
  <2> HIDE DEF call
  <2>4. QED
    BY <1>0, <1>3, <2>2, <2>3, PagerWithoutTodo, SameRuns
<1>4. QED
  BY <1>1, <1>2, <1>3, EndPagesStored DEF AddPage

DiskPart == disk \in [Txs -> Int] /\ DiskIsMined
RestPart ==
  /\ sending \subseteq Txs /\ blockCount \in 0 .. tip /\ lastProcessed \in Int
  /\ isSynced \in BOOLEAN /\ eventsOn \in BOOLEAN

LEMMA Parts ==
  ASSUME StoredIInv, UNCHANGED node, MempoolPart', PagerPart', RunsPart', DiskPart', RestPart'
  PROVE  StoredIInv'
<1>1. Chain'
  BY DEF StoredIInv, Chain, Known, node
<1>2. QED
  BY <1>1 DEF StoredIInv, Types, MempoolPart, PagerPart, RunsPart, DiskPart, RestPart

LEMMA SameDisk == ASSUME StoredIInv, UNCHANGED <<node, disk>> PROVE DiskPart'
BY DEF StoredIInv, Types, DiskPart, DiskIsMined, node

LEMMA WrittenDisk ==
  ASSUME StoredIInv, UNCHANGED node, NEW e \in Entry, Mined(e),
         disk' = [disk EXCEPT ![e.id] = e.blockHeight]
  PROVE  DiskPart'
<1>1. e.id \in Txs /\ e.blockHeight \in Int /\ minedAt' = minedAt
  BY DEF Entry, Unconfirmed, node
<1>2. disk' \in [Txs -> Int]
  BY <1>1 DEF StoredIInv, Types
<1>3. \A t \in Txs : disk'[t] = IF t = e.id THEN e.blockHeight ELSE disk[t]
  BY <1>1 DEF StoredIInv, Types
<1>4. \A t \in Txs : disk'[t] # Absent => disk'[t] = minedAt[t] /\ minedAt[t] # 0
  BY <1>3 DEF StoredIInv, DiskIsMined, Mined
<1>5. QED
  BY <1>1, <1>2, <1>4 DEF DiskPart, DiskIsMined

LEMMA BlockAnswerStored ==
  ASSUME StoredIInv, NEW r \in Slots, BlockAnswer(r)
  PROVE  StoredIInv'
<1> DEFINE todo == Block(runs[r].height)
<1>0. UNCHANGED <<node, blockCount, isSynced, disk, sending>> /\ HandleBlock(r, history, todo)
  BY DEF BlockAnswer
<1>1. \A e \in todo : e \in Entry /\ Known(e.id) /\ Mined(e)
  BY DEF StoredIInv, Chain, Block, Entry, Mined
<1> HIDE DEF todo
<1>2. todo \in SUBSET Entry
  BY <1>1
<1>3. MempoolPart' /\ RunsPart' /\ PagerPart' /\ eventsOn' \in BOOLEAN /\ lastProcessed' \in Int
  BY <1>0, <1>1, <1>2, HandleBlockStored
<1>4. RestPart' /\ DiskPart'
  BY <1>0, <1>3, SameDisk DEF RestPart, StoredIInv, Types, node
<1>5. QED
  BY <1>0, <1>3, <1>4, Parts

LEMMA BlockStoredStored ==
  ASSUME StoredIInv, NEW r \in Slots, BlockStored(r)
  PROVE  StoredIInv'
<1>0. UNCHANGED <<node, blockCount, isSynced, sending>>
  BY DEF BlockStored
<1>1. PICK e \in runs[r].todo :
        /\ disk' = [disk EXCEPT ![e.id] = e.blockHeight]
        /\ HandleBlock(r, Push(history, e.id, runs[r].known), runs[r].todo \ {e})
  BY DEF BlockStored
<1>2. runs[r].todo \in SUBSET Entry /\ \A f \in runs[r].todo : Known(f.id) /\ Mined(f)
  BY DEF StoredIInv, Types, RunType, BlocksAreMined
<1>3. runs[r].todo \ {e} \in SUBSET Entry /\ \A f \in runs[r].todo \ {e} : Known(f.id) /\ Mined(f)
  BY <1>2
<1>4. MempoolPart' /\ RunsPart' /\ PagerPart' /\ eventsOn' \in BOOLEAN /\ lastProcessed' \in Int
  BY <1>0, <1>1, <1>3, HandleBlockStored
<1>5. DiskPart'
  BY <1>0, <1>1, <1>2, WrittenDisk
<1>6. RestPart'
  BY <1>0, <1>4 DEF RestPart, StoredIInv, Types, node
<1>7. QED
  BY <1>0, <1>4, <1>5, <1>6, Parts

LEMMA BlockFailsStored ==
  ASSUME StoredIInv, NEW r \in Slots, BlockFails(r)
  PROVE  StoredIInv'
<1>0. Return(r) /\ UNCHANGED <<node, blockCount, mempool, isSynced, lastProcessed, disk, sending>>
  BY DEF BlockFails
<1>1. RunsPart' /\ PagerPart' /\ eventsOn' \in BOOLEAN
  BY <1>0, ReturnStored
<1>2. MempoolPart' /\ DiskPart'
  BY <1>0, SameMempool, SameDisk
<1>3. RestPart'
  BY <1>0, <1>1 DEF RestPart, StoredIInv, Types, node
<1>4. QED
  BY <1>0, <1>1, <1>2, <1>3, Parts

LEMMA RefreshStored == ASSUME StoredIInv, Refresh PROVE StoredIInv'
<1>0. UNCHANGED <<node, mempool, isSynced, lastProcessed, eventsOn, disk, pagers, sending>>
  BY DEF Refresh
<1>1. PICK n \in indexed .. tip :
        /\ blockCount' = n
        /\ UNCHANGED runs \/ Enter(0, n)
  BY DEF Refresh, Bounce
<1>2. n \in Int /\ n \in 0 .. tip
  BY <1>1 DEF StoredIInv, Chain
<1>3. RunsPart'
  BY <1>0, <1>1, <1>2, SameRuns, EnterStored
<1>4. MempoolPart' /\ DiskPart' /\ PagerPart'
  BY <1>0, SameMempool, SameDisk, SamePager
<1>5. RestPart'
  BY <1>0, <1>1, <1>2 DEF RestPart, StoredIInv, Types, node
<1>6. QED
  BY <1>0, <1>3, <1>4, <1>5, Parts

LEMMA CallsStored ==
  ASSUME StoredIInv, CallSync \/ CallResync \/ \E p \in Pagers : PagesFail(p)
  PROVE  StoredIInv'
<1>0. UNCHANGED <<node, blockCount, mempool, isSynced, lastProcessed, disk, runs, sending>>
      /\ eventsOn' \in BOOLEAN
  BY DEF CallSync, CallResync, PagesFail, StoredIInv, Types
<1>1. ASSUME NEW p \in Pagers, NEW for \in {"sync", "resync"}, Begins(p, for)
      PROVE  PagerPart'
  BY <1>0, <1>1, PagerFields, PagerWithoutTodo DEF Begins
<1>2. ASSUME NEW p \in Pagers, PagesFail(p) PROVE PagerPart'
  BY <1>0, <1>2, NothingTodo, PagerWithoutTodo DEF PagesFail
<1>3. PagerPart'
  BY <1>0, <1>1, <1>2, SamePager DEF CallSync, CallResync
<1>4. MempoolPart' /\ DiskPart' /\ RunsPart'
  BY <1>0, SameMempool, SameDisk, SameRuns
<1>5. RestPart'
  BY <1>0 DEF RestPart, StoredIInv, Types, node
<1>6. QED
  BY <1>0, <1>3, <1>4, <1>5, Parts

\* A set of numbers that is not empty has a least one.
LEMMA Least ==
  ASSUME NEW T \in SUBSET Nat, T # {}
  PROVE  \E n \in T : \A m \in T : n <= m
<1> DEFINE R == OpToRel(<, Nat)
<1>1. IsWellFoundedOn(R, Nat)
  BY NatLessThanWellFounded
<1>2. PICK n \in T : \A m \in T : ~(<<m, n>> \in R)
  BY <1>1, WFMin
<1>3. \A m \in T : ~(m < n)
  BY <1>2 DEF OpToRel
<1>4. QED
  BY <1>3

\* The pages start from the height of a known transaction, the greatest.
LEMMA StartIsGreatest ==
  ASSUME NEW map \in [Txs -> Int], \A t \in Txs : map[t] <= MaxHeight
  PROVE  /\ StartHeight(map) \in 0 .. MaxHeight
         /\ StartHeight(map) = 0 \/ \E t \in Txs : map[t] = StartHeight(map)
         /\ \A t \in Txs : map[t] <= StartHeight(map)
<1> DEFINE Above == {h \in 0 .. MaxHeight : \A t \in Txs : map[t] <= h}
<1>1. MaxHeight \in Above
  BY SyncAssumption
<1>0. Above \in SUBSET Nat /\ Above # {}
  BY <1>1
<1>2. PICK h \in Above : \A k \in Above : h <= k
  BY <1>0, Least, Zenon
<1>3. h = 0 \/ \E t \in Txs : map[t] = h
  <2> SUFFICES ASSUME h # 0, \A t \in Txs : map[t] # h PROVE FALSE
    OBVIOUS
  <2>1. h - 1 \in 0 .. MaxHeight /\ \A t \in Txs : map[t] <= h - 1
    BY <1>2, SyncAssumption
  <2>2. h - 1 \in Above
    BY <2>1
  <2>3. QED
    BY <1>2, <2>2, SyncAssumption
<1>4. \E k \in 0 .. MaxHeight :
        /\ k = 0 \/ \E t \in Txs : map[t] = k
        /\ \A t \in Txs : map[t] <= k
  BY <1>2, <1>3
<1>5. QED
  BY <1>4 DEF StartHeight

LEMMA PageIsListed ==
  ASSUME StoredIInv, NEW start, NEW n
  PROVE  /\ Listing(start) \in SUBSET Entry /\ Page(start, n) \in SUBSET Entry
         /\ \A e \in Listing(start) : Told(e) /\ e.blockHeight = Listed(e.id)
         /\ \A e \in Page(start, n) : Told(e) /\ e.blockHeight = Listed(e.id)
<1>1. ASSUME NEW t \in Txs, Known(t), NEW e, e = [id |-> t, blockHeight |-> Listed(t)]
      PROVE  e \in Entry /\ Told(e) /\ e.id = t /\ e.blockHeight = Listed(t)
  <2>1. e.id = t /\ e.blockHeight = Listed(t)
    BY <1>1
  <2>2. minedAt[t] \in Nat /\ indexed \in Nat
    BY DEF StoredIInv, Chain
  <2>3. Listed(t) = Unconfirmed \/ (Listed(t) = minedAt[t] /\ minedAt[t] # 0)
    BY <2>2 DEF Listed
  <2>4. Listed(t) \in Nat \cup {Unconfirmed}
    BY <2>2, <2>3
  <2>5. QED
    BY <1>1, <2>1, <2>3, <2>4 DEF Entry, Told, Mined
<1>2. \A e \in Listing(start) : e \in Entry /\ Told(e) /\ e.blockHeight = Listed(e.id)
  BY <1>1 DEF Listing
<1>3. Page(start, n) \subseteq Listing(start)
  BY DEF Page
<1>4. QED
  BY <1>2, <1>3

LEMMA ListingIsFinite ==
  ASSUME NEW start
  PROVE  /\ IsFiniteSet(Listing(start)) /\ Cardinality(Listing(start)) \in Nat
         /\ Cardinality(Listing(start)) <= Cardinality(Txs) /\ Cardinality(Txs) \in Nat
<1> DEFINE listed == {u \in Txs : Known(u) /\ (Listed(u) = Unconfirmed \/ Listed(u) >= start)}
           entry == [t \in listed |-> [id |-> t, blockHeight |-> Listed(t)]]
<1>1. IsFiniteSet(listed) /\ Cardinality(listed) <= Cardinality(Txs) /\ Cardinality(listed) \in Nat
      /\ Cardinality(Txs) \in Nat
  BY SyncAssumption, FS_Subset, FS_CardinalityType
<1>2. Listing(start) = {entry[t] : t \in listed}
  BY DEF Listing
<1>3. entry \in Surjection(listed, Listing(start))
  BY <1>2 DEF Surjection
<1> HIDE DEF listed, entry
<1>4. IsFiniteSet(Listing(start)) /\ Cardinality(Listing(start)) <= Cardinality(listed)
  BY <1>1, <1>3, FS_Surjection
<1>5. QED
  BY <1>1, <1>4, FS_CardinalityType

LEMMA DiskAnswerStored == ASSUME StoredIInv, NEW p \in Pagers, DiskAnswer(p) PROVE StoredIInv'
<1>0. UNCHANGED <<node, blockCount, isSynced, eventsOn, disk, runs, sending>>
  BY DEF DiskAnswer
<1>1. InMempool(StoredTxs, disk)
  BY DEF DiskAnswer, Added
<1>2. StoredTxs \in SUBSET Txs /\ \A t \in StoredTxs : Known(t) /\ disk[t] \in Int /\ disk[t] <= tip
  BY DEF StoredTxs, StoredIInv, DiskIsMined, Chain
<1>3. MempoolPart'
  BY <1>0, <1>1, <1>2, InMempoolStored
<1>4. \A t \in Txs : txmap'[t] <= MaxHeight
  BY <1>0, <1>3, SyncAssumption DEF MempoolPart, MempoolIsKnown, Absent, StoredIInv, Chain, node
<1>5. StartHeight(txmap') \in 0 .. MaxHeight
  BY <1>3, <1>4, StartIsGreatest DEF MempoolPart
<1> DEFINE next == IF isSynced THEN "skip" ELSE "count"
           start == StartHeight(txmap')
           call == [pagers[p] EXCEPT !.at = next, !.start = start]
<1>6. pagers' = [pagers EXCEPT ![p] = call] /\ lastProcessed' = blockCount - Margin
  BY DEF DiskAnswer, FirstRead, StoredIInv, Types
<1>7. next \in {"skip", "count"} /\ start \in 0 .. MaxHeight
  BY <1>5
<1> HIDE DEF next, start
<1>8. call \in PagerType /\ call.todo = pagers[p].todo /\ call.at # "store"
  BY <1>7 DEF StoredIInv, Types, PagerType
<1> HIDE DEF call
<1>9. PagerPart'
  BY <1>0, <1>6, <1>8, PagersStored DEF StoredIInv, PagesAreTold
<1>10. DiskPart' /\ RunsPart'
  BY <1>0, SameDisk, SameRuns
<1>11. RestPart'
  BY <1>0, <1>6, SyncAssumption DEF RestPart, StoredIInv, Types, Chain, node
<1>12. QED
  BY <1>0, <1>3, <1>9, <1>10, <1>11, Parts

LEMMA CountAnswerStored ==
  ASSUME StoredIInv, NEW p \in Pagers, CountAnswer(p) \/ SkipPages(p)
  PROVE  StoredIInv'
<1>0. UNCHANGED <<node, blockCount, lastProcessed, disk, sending, mempool>>
  BY DEF CountAnswer, SkipPages
<1>1. RunsPart' /\ PagerPart' /\ eventsOn' \in BOOLEAN /\ isSynced' \in BOOLEAN
  <2>1. CASE EndPages(p)
    BY <1>0, <2>1, EndPagesStored
  <2>2. CASE ~EndPages(p)
    <3> DEFINE pages == NumPages(pagers[p].start)
               call == [pagers[p] EXCEPT !.at = "page", !.page = pages]
    <3>1. pagers' = [pagers EXCEPT ![p] = call] /\ UNCHANGED <<runs, isSynced, eventsOn>>
      BY <2>2 DEF CountAnswer, SkipPages, StoredIInv, Types
    <3>2. pages \in Int
      BY FS_CardinalityType, ListingIsFinite, SyncAssumption DEF NumPages
    <3> HIDE DEF pages
    <3>3. call \in PagerType /\ call.todo = pagers[p].todo /\ call.at # "store"
      BY <3>2 DEF StoredIInv, Types, PagerType
    <3> HIDE DEF call
    <3>4. PagerPart'
      BY <1>0, <3>1, <3>3, PagersStored DEF StoredIInv, PagesAreTold
    <3>5. QED
      BY <1>0, <3>1, <3>4, SameRuns DEF StoredIInv, Types
  <2>3. QED
    BY <2>1, <2>2
<1>2. MempoolPart' /\ DiskPart'
  BY <1>0, SameMempool, SameDisk
<1>3. RestPart'
  BY <1>0, <1>1 DEF RestPart, StoredIInv, Types, node
<1>4. QED
  BY <1>0, <1>1, <1>2, <1>3, Parts

LEMMA PageAnswerStored == ASSUME StoredIInv, NEW p \in Pagers, PageAnswer(p) PROVE StoredIInv'
<1> DEFINE page == Page(pagers[p].start, pagers[p].page)
<1>0. UNCHANGED <<node, blockCount, lastProcessed, disk, sending>> /\ AddPage(p, history, page)
  BY DEF PageAnswer
<1>1. page \in SUBSET Entry /\ \A e \in page : Told(e)
  BY PageIsListed
<1> HIDE DEF page
<1>2. MempoolPart' /\ RunsPart' /\ PagerPart' /\ eventsOn' \in BOOLEAN /\ isSynced' \in BOOLEAN
  BY <1>0, <1>1, AddPageStored
<1>3. DiskPart' /\ RestPart'
  BY <1>0, <1>2, SameDisk DEF RestPart, StoredIInv, Types, node
<1>4. QED
  BY <1>0, <1>2, <1>3, Parts

\* What is written is the oldest of a page with a mined transaction.
LEMMA WrittenIsMined ==
  ASSUME StoredIInv, NEW p \in Pagers, pagers[p].at = "store", NEW e, IsOldest(e, pagers[p].todo)
  PROVE  e \in Entry /\ Known(e.id) /\ Mined(e)
<1>1. PICK f \in pagers[p].todo : Mined(f)
  BY DEF StoredIInv, PagesAreTold
<1>2. e \in Entry /\ f \in Entry /\ Told(e) /\ e \in pagers[p].todo
  BY DEF IsOldest, StoredIInv, PagesAreTold, Types, PagerType
<1>3. ASSUME e.blockHeight = Unconfirmed PROVE FALSE
  <2>1. f.blockHeight # Unconfirmed
    BY <1>1, <1>2 DEF Mined, Entry, Unconfirmed, StoredIInv, Chain
  <2>6. Older(e, f)
    BY <1>1, <1>3, <2>1 DEF IsOldest
  <2>2. Rank(e) = MaxHeight + 1
    BY <1>3 DEF Rank
  <2>3. f.blockHeight \in 0 .. MaxHeight
    BY <1>1, <1>2, SyncAssumption DEF Mined, Entry, StoredIInv, Chain
  <2>4. Rank(f) \in 0 .. MaxHeight
    BY <2>3 DEF Rank, Unconfirmed
  <2>5. QED
    BY <2>6, <2>2, <2>4, SyncAssumption DEF Older
<1>4. QED
  BY <1>2, <1>3 DEF Told

LEMMA PageStoredStored == ASSUME StoredIInv, NEW p \in Pagers, PageStored(p) PROVE StoredIInv'
<1>0. UNCHANGED <<node, blockCount, lastProcessed, sending>> /\ pagers[p].at = "store"
  BY DEF PageStored
<1>1. PICK e \in pagers[p].todo :
        /\ IsOldest(e, pagers[p].todo) /\ disk' = [disk EXCEPT ![e.id] = e.blockHeight]
        /\ AddPage(p, Push(history, e.id, pagers[p].known), pagers[p].todo \ {e})
  BY DEF PageStored
<1>2. e \in Entry /\ Mined(e)
  BY <1>0, <1>1, WrittenIsMined
<1>3. pagers[p].todo \ {e} \in SUBSET Entry /\ \A f \in pagers[p].todo \ {e} : Told(f)
  BY DEF StoredIInv, Types, PagerType, PagesAreTold
<1>4. MempoolPart' /\ RunsPart' /\ PagerPart' /\ eventsOn' \in BOOLEAN /\ isSynced' \in BOOLEAN
  BY <1>0, <1>1, <1>3, AddPageStored
<1>5. DiskPart'
  BY <1>0, <1>1, <1>2, WrittenDisk
<1>6. RestPart'
  BY <1>0, <1>4 DEF RestPart, StoredIInv, Types, node
<1>7. QED
  BY <1>0, <1>4, <1>5, <1>6, Parts

\* resync() and a reload begin with an empty mempool.
LEMMA EmptyMempool ==
  ASSUME UNCHANGED node, txmap' = [t \in Txs |-> Absent]
  PROVE  MempoolPart'
BY DEF MempoolPart, MempoolIsKnown, Absent

LEMMA ResyncStartsStored == ASSUME StoredIInv, NEW p \in Pagers, ResyncStarts(p) PROVE StoredIInv'
<1> DEFINE call == [pagers[p] EXCEPT !.at = "count"]
<1>0. /\ UNCHANGED <<node, blockCount, lastProcessed, eventsOn, disk, runs, sending>>
      /\ isSynced' = FALSE /\ txmap' = [t \in Txs |-> Absent]
      /\ pagers' = [pagers EXCEPT ![p] = call]
  BY DEF ResyncStarts, StoredIInv, Types
<1>1. call \in PagerType /\ call.todo = pagers[p].todo /\ call.at # "store"
  BY DEF StoredIInv, Types, PagerType
<1> HIDE DEF call
<1>3. PagerPart'
  BY <1>0, <1>1, PagersStored DEF StoredIInv, PagesAreTold
<1>4. MempoolPart' /\ DiskPart' /\ RunsPart'
  BY <1>0, EmptyMempool, SameDisk, SameRuns
<1>5. RestPart'
  BY <1>0 DEF RestPart, StoredIInv, Types, node
<1>6. QED
  BY <1>0, <1>3, <1>4, <1>5, Parts

LEMMA SendsStored ==
  ASSUME StoredIInv, Send \/ SendAnswer \/ SendFails
  PROVE  StoredIInv'
<1>0. UNCHANGED <<node, blockCount, isSynced, lastProcessed, eventsOn, disk, pagers, runs>>
  BY DEF Send, SendAnswer, SendFails
<1>1. DiskPart' /\ PagerPart' /\ RunsPart'
  BY <1>0, SameDisk, SamePager, SameRuns
<1>2. sending' \subseteq Txs
  BY SyncAssumption DEF Send, SendAnswer, SendFails
<1>3. RestPart'
  BY <1>0, <1>2 DEF RestPart, StoredIInv, Types, node
<1>4. MempoolPart'
  <2>1. CASE Send \/ SendFails
    BY <1>0, <2>1, SameMempool DEF Send, SendFails
  <2>2. CASE SendAnswer
    <3>1. PICK t \in sending : Known(t) /\ InMempool({t}, [u \in Txs |-> Unconfirmed])
      BY <2>2 DEF SendAnswer, Sent
    <3>2. t \in Txs /\ [u \in Txs |-> Unconfirmed][t] \in Int /\ [u \in Txs |-> Unconfirmed][t] <= tip
      BY DEF StoredIInv, Types, Chain, Unconfirmed
    <3>3. QED
      BY <1>0, <3>1, <3>2, InMempoolStored
  <2>3. QED
    BY <2>1, <2>2
<1>5. QED
  BY <1>0, <1>1, <1>3, <1>4, Parts

LEMMA ReloadStored == ASSUME StoredIInv, Reload PROVE StoredIInv'
<1>0. /\ UNCHANGED <<node, disk>> /\ txmap' = [t \in Txs |-> Absent]
      /\ blockCount' = 0 /\ isSynced' = FALSE /\ lastProcessed' = 0 /\ eventsOn' = TRUE
      /\ pagers' = [p \in Pagers |-> NoPager] /\ runs' = [r \in Slots |-> NoRun] /\ sending' = {}
  BY DEF Reload
<1>1. MempoolPart' /\ DiskPart'
  BY <1>0, EmptyMempool, SameDisk
<1>2. RunsPart' /\ PagerPart'
  BY <1>0, NothingTodo DEF RunsPart, BlocksAreMined, PagerPart, PagesAreTold
<1>3. RestPart'
  <2>1. 0 \in 0 .. tip /\ tip' = tip
    BY <1>0 DEF StoredIInv, Chain, node
  <2>2. isSynced' \in BOOLEAN /\ eventsOn' \in BOOLEAN
    BY <1>0
  <2>3. sending' \subseteq Txs
    BY <1>0
  <2>4. blockCount' \in 0 .. tip' /\ lastProcessed' \in Int
    BY <1>0, <2>1
  <2>5. QED
    BY <2>2, <2>3, <2>4 DEF RestPart
<1>4. QED
  BY <1>0, <1>1, <1>2, <1>3, Parts

PagerStep(p) ==
  \/ DiskAnswer(p) \/ SkipPages(p) \/ CountAnswer(p) \/ PageAnswer(p)
  \/ PageStored(p) \/ PagesFail(p) \/ ResyncStarts(p)
WalletStep ==
  \/ Refresh \/ CallSync \/ CallResync \/ \E p \in Pagers : PagerStep(p)
  \/ \E r \in Slots : BlockAnswer(r) \/ BlockStored(r) \/ BlockFails(r)
  \/ Send \/ SendAnswer \/ SendFails \/ Reload

LEMMA Steps == Next => NodeStep \/ WalletStep
BY DEF Next, Step, NodeStep, WalletStep, PagerStep

LEMMA InitStored == Init => StoredIInv
<1> SUFFICES ASSUME Init PROVE StoredIInv
  OBVIOUS
<1>1. Chain
  BY SyncAssumption DEF Init, Chain
<1>2. Types
  <2>1. pagers \in [Pagers -> PagerType] /\ runs \in [Slots -> RunType]
    BY NothingTodo DEF Init, Emptied
  <2>2. isSynced \in BOOLEAN /\ eventsOn \in BOOLEAN
    BY DEF Init, Emptied
  <2>3. sending \subseteq Txs
    BY DEF Init, Emptied
  <2>4. blockCount \in 0 .. tip /\ lastProcessed \in Int
    BY DEF Init, Emptied
  <2>5. txmap \in [Txs -> Int] /\ disk \in [Txs -> Int]
    BY DEF Init, Emptied, Absent
  <2>6. QED
    BY <2>1, <2>2, <2>3, <2>4, <2>5 DEF Types
<1>3. MempoolIsKnown /\ DiskIsMined
  BY DEF Init, Emptied, MempoolIsKnown, DiskIsMined
<1>4. PagesAreTold /\ BlocksAreMined
  BY NothingTodo DEF Init, Emptied, PagesAreTold, BlocksAreMined
<1>5. QED
  BY <1>1, <1>2, <1>3, <1>4 DEF StoredIInv

LEMMA WalletKeepsStored == ASSUME StoredIInv, WalletStep PROVE StoredIInv'
<1>1. ASSUME NEW p \in Pagers, PagerStep(p) PROVE StoredIInv'
  BY <1>1, DiskAnswerStored, CountAnswerStored, PageAnswerStored, PageStoredStored,
     CallsStored, ResyncStartsStored DEF PagerStep
<1>2. QED
  BY <1>1, BlockAnswerStored, BlockStoredStored, BlockFailsStored, RefreshStored, CallsStored,
     SendsStored, ReloadStored DEF WalletStep

LEMMA NextStored == StoredIInv /\ [Next]_vars => StoredIInv'
<1> SUFFICES ASSUME StoredIInv, [Next]_vars PROVE StoredIInv'
  OBVIOUS
<1>1. CASE UNCHANGED vars
  <2>1. UNCHANGED <<node, mempool, pagers, runs, disk, sending, blockCount, lastProcessed,
                    isSynced, eventsOn>>
    BY <1>1 DEF vars, memory
  <2>2. MempoolPart' /\ PagerPart' /\ RunsPart' /\ DiskPart'
    BY <2>1, SameMempool, SamePager, SameRuns, SameDisk
  <2>3. RestPart'
    BY <2>1 DEF RestPart, StoredIInv, Types, node
  <2>4. QED
    BY <2>1, <2>2, <2>3, Parts
<1>2. QED
  BY <1>1, NodeKeepsStored, WalletKeepsStored, Steps

\* Only transactions the node knows are in the mempool, and what is stored on
\* disk is where the chain has it, whatever broke off when: of #loadFromDisk,
\* the pages, the blocks and the sends of wallet.js.
THEOREM StoredIsMinedHolds == Spec => []StoredIsMined
<1>1. StoredIInv => StoredIsMined
  BY DEF StoredIInv, MempoolIsKnown, DiskIsMined, StoredIsMined
<1>2. QED
  BY <1>1, InitStored, NextStored, PTL DEF Spec

-----------------------------------------------------------------------------
\* What the interface shows

\* Which of the handlers run at once, and when the events are silenced.
Phases ==
  /\ ~eventsOn /\ isSynced => \E p \in Pagers : pagers[p].at = "blocks"
  /\ \A r \in Slots : runs[r].for # 0 => pagers[runs[r].for].at = "blocks"
  /\ \A q, r \in Slots : runs[q].for # 0 /\ runs[q].for = runs[r].for => q = r
  /\ \A r \in Slots : runs[r].at = "none" => runs[r].for = 0

\* The transactions whose entry follows a write that is awaited.
PagerWrites(p, t) ==
  /\ pagers[p].at = "store"
  /\ \E e \in pagers[p].todo : IsOldest(e, pagers[p].todo) /\ e.id = t
RunWrites(r, t) ==
  runs[r].at = "store" /\ \E e \in runs[r].todo : IsOldest(e, runs[r].todo) /\ e.id = t
Writes(t) == (\E p \in Pagers : PagerWrites(p, t)) \/ \E r \in Slots : RunWrites(r, t)

ShownIsHistory == eventsOn => shown = history
HistoryIsFull == \A t \in Txs : txmap[t] # Absent => t \in history \/ Writes(t)

HistoryIInv == StoredIInv /\ Phases /\ ShownIsHistory /\ HistoryIsFull

\* A step of a run that goes on, and one of a call that stays where it was.
GoesOn(r) ==
  /\ UNCHANGED <<pagers, eventsOn>>
  /\ \A q \in Slots : runs'[q].for = runs[q].for /\ (q # r => runs'[q] = runs[q])
  /\ runs'[r].at # "none"

OnlyPager(p, call) ==
  \A q \in Pagers : pagers'[q] = IF q = p THEN call ELSE pagers[q]

LEMMA OnlyPagerChanges ==
  ASSUME StoredIInv, NEW p \in Pagers, NEW call, pagers' = [pagers EXCEPT ![p] = call]
  PROVE  OnlyPager(p, call)
BY DEF StoredIInv, Types, OnlyPager

LEMMA HandleBlockGoesOn ==
  ASSUME StoredIInv, NEW r \in Slots, NEW entries, NEW todo, HandleBlock(r, entries, todo)
  PROVE  GoesOn(r) \/ Return(r)
<1>0. runs \in [Slots -> RunType]
  BY DEF StoredIInv, Types
<1>1. ASSUME UNCHANGED <<pagers, eventsOn>>, NEW run, runs' = [runs EXCEPT ![r] = run],
             run.for = runs[r].for, run.at # "none"
      PROVE  GoesOn(r)
  <2>1. \A q \in Slots : runs'[q] = IF q = r THEN run ELSE runs[q]
    BY <1>0, <1>1
  <2>2. QED
    BY <1>1, <2>1 DEF GoesOn
<1>2. ASSUME NEW e, UNCHANGED <<pagers, eventsOn>>,
             runs' = [runs EXCEPT ![r].at = "store", ![r].known = txmap[e.id] # Absent,
                               ![r].todo = {f \in todo : f = e \/ Older(e, f)}]
      PROVE  GoesOn(r)
  <2> DEFINE run == [runs[r] EXCEPT !.at = "store", !.known = txmap[e.id] # Absent,
                                 !.todo = {f \in todo : f = e \/ Older(e, f)}]
  <2>1. runs' = [runs EXCEPT ![r] = run]
    BY <1>0, <1>2
  <2>2. run.for = runs[r].for /\ run.at # "none"
    BY <1>0 DEF RunType
  <2> HIDE DEF run
  <2>3. QED
    BY <1>1, <1>2, <2>1, <2>2
<1>3. ASSUME UNCHANGED <<pagers, eventsOn>>,
             runs' = [runs EXCEPT ![r].at = "block", ![r].todo = {}, ![r].height = @ + 1]
      PROVE  GoesOn(r)
  <2> DEFINE run == [runs[r] EXCEPT !.at = "block", !.todo = {}, !.height = @ + 1]
  <2>1. runs' = [runs EXCEPT ![r] = run]
    BY <1>0, <1>3
  <2>2. run.for = runs[r].for /\ run.at # "none"
    BY <1>0 DEF RunType
  <2> HIDE DEF run
  <2>3. QED
    BY <1>1, <1>3, <2>1, <2>2
<1>4. QED
  BY <1>2, <1>3 DEF HandleBlock

LEMMA PhasesGoOn ==
  ASSUME Phases, NEW r \in Slots, runs[r].at # "none", GoesOn(r), UNCHANGED isSynced
  PROVE  Phases'
BY DEF Phases, GoesOn

LEMMA PhasesReturn ==
  ASSUME StoredIInv, Phases, NEW r \in Slots, Return(r), UNCHANGED isSynced
  PROVE  Phases'
<1>1. \A q \in Slots : runs'[q] = IF q = r THEN NoRun ELSE runs[q]
  BY DEF StoredIInv, Types, Return
<1>2. NoRun.for = 0
  BY NothingTodo
<1>3. CASE runs[r].for # 0
  <2>0. runs[r].for \in Pagers
    BY <1>3 DEF StoredIInv, Types, RunType
  <2>1. OnlyPager(runs[r].for, NoPager) /\ eventsOn' = TRUE
    BY <1>3, <2>0, OnlyPagerChanges DEF Return, EndSync
  <2>2. \A q \in Slots : q # r => runs[q].for # runs[r].for
    BY <1>3 DEF Phases
  <2>3. \A q \in Slots : runs'[q].for # 0 =>
          /\ runs[q].for \in Pagers /\ runs[q].for # runs[r].for /\ runs'[q].for = runs[q].for
    BY <1>1, <1>2, <2>2 DEF StoredIInv, Types, RunType
  <2>4. \A q \in Slots : runs'[q].for # 0 => pagers'[runs'[q].for].at = "blocks"
    BY <2>1, <2>3 DEF Phases, OnlyPager
  <2>5. QED
    BY <1>1, <1>2, <2>1, <2>4 DEF Phases
<1>4. CASE runs[r].for = 0
  <2>1. pagers' = pagers /\ eventsOn' = eventsOn
    BY <1>4 DEF Return
  <2>2. QED
    BY <1>1, <1>2, <2>1 DEF Phases
<1>5. QED
  BY <1>3, <1>4

LEMMA PhasesEnter ==
  ASSUME StoredIInv, NEW for \in Pagers \cup {0}, NEW target, Enter(for, target)
  PROVE  \E r \in Slots :
           /\ runs[r].at = "none" /\ runs'[r].at = "block" /\ runs'[r].for = for
           /\ runs'[r].height = lastProcessed + 1 /\ runs'[r].todo = {}
           /\ \A q \in Slots : q # r => runs'[q] = runs[q]
<1>1. PICK r \in Slots : runs[r].at = "none" /\ runs' = [runs EXCEPT ![r] = Started(for, target)]
  BY DEF Enter
<1>2. runs \in [Slots -> RunType]
  BY DEF StoredIInv, Types
<1>3. /\ runs'[r].at = "block" /\ runs'[r].for = for /\ runs'[r].todo = {}
      /\ runs'[r].height = lastProcessed + 1
  BY <1>1, <1>2 DEF Started
<1>4. \A q \in Slots : q # r => runs'[q] = runs[q]
  BY <1>1, <1>2
<1>5. QED
  BY <1>1, <1>3, <1>4

\* A call that reads pages moves on, or fails.
LEMMA PhasesPager ==
  ASSUME StoredIInv, Phases, NEW p \in Pagers, pagers[p].at # "blocks", NEW call,
         OnlyPager(p, call), UNCHANGED runs,
         isSynced' = isSynced \/ ~isSynced', eventsOn' = eventsOn \/ ~isSynced'
  PROVE  Phases'
<1>1. \A q \in Pagers : pagers[q].at = "blocks" => pagers'[q].at = "blocks"
  BY DEF OnlyPager
<1>2. \A r \in Slots : runs[r].for \in Pagers \cup {0}
  BY DEF StoredIInv, Types, RunType
<1>3. \A r \in Slots : runs[r].for # 0 => pagers'[runs[r].for].at = "blocks"
  BY <1>1, <1>2 DEF Phases
<1>4. QED
  BY <1>1, <1>3 DEF Phases

LEMMA PhasesEndPages ==
  ASSUME StoredIInv, Phases, NEW p \in Pagers, pagers[p].at # "blocks", EndPages(p)
  PROVE  Phases'
<1>9. p # 0
  BY SyncAssumption DEF Pagers
<1>0. \A r \in Slots : runs[r].for # p /\ runs[r].for \in Pagers \cup {0}
  BY <1>9 DEF Phases, StoredIInv, Types, RunType
<1>1. CASE isSynced' = TRUE /\ Enter(p, blockCount)
             /\ pagers' = [pagers EXCEPT ![p] = Pager("blocks", "sync")]
  <2>1. OnlyPager(p, Pager("blocks", "sync"))
    BY <1>1, OnlyPagerChanges
  <2>2. pagers'[p].at = "blocks" /\ \A q \in Pagers : q # p => pagers'[q] = pagers[q]
    BY <2>1, PagerFields DEF OnlyPager
  <2>3. PICK r \in Slots : /\ runs'[r].at = "block" /\ runs'[r].for = p
                           /\ \A q \in Slots : q # r => runs'[q] = runs[q]
    BY <1>1, PhasesEnter
  <2>4. \A q \in Slots : runs'[q].for # 0 => pagers'[runs'[q].for].at = "blocks"
    BY <1>0, <2>2, <2>3 DEF Phases
  <2>5. QED
    BY <1>0, <2>2, <2>3, <2>4 DEF Phases
<1>2. CASE isSynced' = TRUE /\ UNCHANGED runs /\ EndSync(p)
  <2>1. OnlyPager(p, NoPager) /\ eventsOn' = TRUE
    BY <1>2, OnlyPagerChanges DEF EndSync
  <2>2. \A r \in Slots : runs[r].for # 0 => pagers'[runs[r].for].at = "blocks"
    BY <1>0, <2>1 DEF OnlyPager, Phases
  <2>3. QED
    BY <1>2, <2>1, <2>2 DEF Phases
<1>3. CASE UNCHANGED <<isSynced, eventsOn, runs>> /\ pagers' = [pagers EXCEPT ![p] = NoPager]
  BY <1>3, OnlyPagerChanges, PhasesPager
<1>4. QED
  BY <1>1, <1>2, <1>3 DEF EndPages, Bounce

LEMMA PhasesAddPage ==
  ASSUME StoredIInv, Phases, NEW p \in Pagers, pagers[p].at # "blocks", NEW entries, NEW todo,
         AddPage(p, entries, todo)
  PROVE  Phases'
<1>0. pagers[p] \in PagerType /\ pagers \in [Pagers -> PagerType]
  BY DEF StoredIInv, Types
<1>1. ASSUME NEW e,
             pagers' = [pagers EXCEPT ![p].at = "store", ![p].todo = todo,
                                      ![p].known = txmap[e.id] # Absent],
             UNCHANGED <<isSynced, eventsOn, runs>>
      PROVE  Phases'
  <2> DEFINE call == [pagers[p] EXCEPT !.at = "store", !.todo = todo, !.known = txmap[e.id] # Absent]
  <2>1. pagers' = [pagers EXCEPT ![p] = call]
    BY <1>0, <1>1
  <2> HIDE DEF call
  <2>2. QED
    BY <1>1, <2>1, OnlyPagerChanges, PhasesPager
<1>2. ASSUME pagers' = [pagers EXCEPT ![p].at = "page", ![p].todo = {}, ![p].page = @ - 1],
             UNCHANGED <<isSynced, eventsOn, runs>>
      PROVE  Phases'
  <2> DEFINE n == pagers[p].page - 1
             call == [pagers[p] EXCEPT !.at = "page", !.todo = {}, !.page = n]
  <2>1. pagers' = [pagers EXCEPT ![p] = call]
    BY <1>0, <1>2
  <2> HIDE DEF call
  <2>2. QED
    BY <1>2, <2>1, OnlyPagerChanges, PhasesPager
<1>3. QED
  BY <1>1, <1>2, PhasesEndPages DEF AddPage

\* The steps of a call of sync() or resync().
LEMMA PhasesPagerStep ==
  ASSUME StoredIInv, Phases, NEW p \in Pagers, PagerStep(p)
  PROVE  Phases'
<1>0. pagers \in [Pagers -> PagerType]
  BY DEF StoredIInv, Types
<1>1. CASE PagesFail(p)
  <2>1. /\ pagers' = [pagers EXCEPT ![p] = NoPager] /\ UNCHANGED <<isSynced, runs, eventsOn>>
        /\ pagers[p].at # "blocks"
    BY <1>1 DEF PagesFail
  <2>2. QED
    BY <2>1, OnlyPagerChanges, PhasesPager
<1>2. CASE DiskAnswer(p)
  <2> DEFINE call == [pagers[p] EXCEPT !.at = IF isSynced THEN "skip" ELSE "count",
                                       !.start = StartHeight(txmap')]
  <2>1. /\ pagers' = [pagers EXCEPT ![p] = call] /\ UNCHANGED <<isSynced, runs, eventsOn>>
        /\ pagers[p].at # "blocks"
    BY <1>0, <1>2 DEF DiskAnswer
  <2> HIDE DEF call
  <2>2. QED
    BY <2>1, OnlyPagerChanges, PhasesPager
<1>3. CASE ResyncStarts(p)
  <2> DEFINE call == [pagers[p] EXCEPT !.at = "count"]
  <2>1. /\ pagers' = [pagers EXCEPT ![p] = call] /\ ~isSynced' /\ UNCHANGED <<runs, eventsOn>>
        /\ pagers[p].at # "blocks"
    BY <1>0, <1>3 DEF ResyncStarts
  <2> HIDE DEF call
  <2>2. QED
    BY <2>1, OnlyPagerChanges, PhasesPager
<1>4. CASE CountAnswer(p) \/ SkipPages(p)
  <2>0. pagers[p].at # "blocks"
    BY <1>4 DEF CountAnswer, SkipPages
  <2>1. CASE EndPages(p)
    BY <2>0, <2>1, PhasesEndPages
  <2>2. CASE ~EndPages(p)
    <3> DEFINE pages == NumPages(pagers[p].start)
               call == [pagers[p] EXCEPT !.at = "page", !.page = pages]
    <3>1. pagers' = [pagers EXCEPT ![p] = call] /\ UNCHANGED <<isSynced, runs, eventsOn>>
      BY <1>0, <1>4, <2>2 DEF CountAnswer, SkipPages
    <3> HIDE DEF call
    <3>2. QED
      BY <2>0, <3>1, OnlyPagerChanges, PhasesPager
  <2>3. QED
    BY <2>1, <2>2
<1>5. CASE PageAnswer(p) \/ PageStored(p)
  <2>1. pagers[p].at # "blocks" /\ \E entries, todo : AddPage(p, entries, todo)
    BY <1>5 DEF PageAnswer, PageStored
  <2>2. QED
    BY <2>1, PhasesAddPage
<1>6. QED
  BY <1>1, <1>2, <1>3, <1>4, <1>5 DEF PagerStep

LEMMA PhasesStep == ASSUME StoredIInv, Phases, WalletStep PROVE Phases'
<1>1. ASSUME NEW r \in Slots, BlockAnswer(r) \/ BlockStored(r) \/ BlockFails(r)
      PROVE  Phases'
  <2>1. runs[r].at # "none" /\ UNCHANGED isSynced
    BY <1>1 DEF BlockAnswer, BlockStored, BlockFails
  <2>2. Return(r) \/ \E entries, todo : HandleBlock(r, entries, todo)
    BY <1>1 DEF BlockAnswer, BlockStored, BlockFails
  <2>3. QED
    BY <2>1, <2>2, HandleBlockGoesOn, PhasesGoOn, PhasesReturn
<1>2. CASE Refresh
  <2>1. UNCHANGED <<isSynced, eventsOn, pagers>>
    BY <1>2 DEF Refresh
  <2>2. UNCHANGED runs \/ \E n \in indexed .. tip : Enter(0, n)
    BY <1>2 DEF Refresh, Bounce
  <2>3. CASE UNCHANGED runs
    BY <2>1, <2>3 DEF Phases
  <2>4. CASE \E n \in indexed .. tip : Enter(0, n)
    <3>1. PICK r \in Slots : /\ runs'[r].at = "block" /\ runs'[r].for = 0
                             /\ \A q \in Slots : q # r => runs'[q] = runs[q]
      BY <2>4, PhasesEnter
    <3>2. QED
      BY <2>1, <3>1 DEF Phases
  <2>5. QED
    BY <2>2, <2>3, <2>4
<1>3. ASSUME NEW p \in Pagers, NEW for, Begins(p, for), UNCHANGED <<isSynced, runs>>,
             eventsOn' = eventsOn \/ ~isSynced
      PROVE  Phases'
  <2>1. pagers' = [pagers EXCEPT ![p] = Pager("disk", for)] /\ pagers[p].at # "blocks"
    BY <1>3 DEF Begins
  <2>2. QED
    BY <1>3, <2>1, OnlyPagerChanges, PhasesPager
<1>4. CASE CallSync
  <2>1. CASE UNCHANGED <<pagers, eventsOn>>
    BY <1>4, <2>1 DEF CallSync, Phases
  <2>2. CASE ~isSynced /\ \E p \in Pagers : Begins(p, "sync")
    BY <1>3, <1>4, <2>2 DEF CallSync
  <2>3. QED
    BY <1>4, <2>1, <2>2 DEF CallSync
<1>5. CASE CallResync
  BY <1>3, <1>5 DEF CallResync
<1>9. CASE Send \/ SendAnswer \/ SendFails
  <2>1. UNCHANGED <<pagers, runs, isSynced, eventsOn>>
    BY <1>9 DEF Send, SendAnswer, SendFails
  <2>2. QED
    BY <2>1 DEF Phases
<1>10. CASE Reload
  <2>1. ~isSynced' /\ \A r \in Slots : runs'[r] = NoRun
    BY <1>10 DEF Reload
  <2>2. QED
    BY <2>1, NothingTodo DEF Phases
<1>11. QED
  BY <1>1, <1>2, <1>4, <1>5, <1>9, <1>10, PhasesPagerStep DEF WalletStep

LEMMA SameOrder == UNCHANGED accepted => \A e, f : Older(e, f)' <=> Older(e, f)
BY DEF Older, Rank, Accepted

LEMMA UniqueOldest ==
  ASSUME StoredIInv, NEW S \in SUBSET Entry, \A e \in S : Known(e.id),
         NEW e, NEW f, IsOldest(e, S), IsOldest(f, S)
  PROVE  e = f
<1> SUFFICES ASSUME e # f PROVE FALSE
  OBVIOUS
<1>1. e \in S /\ f \in S /\ Older(e, f) /\ Older(f, e)
  BY DEF IsOldest
<1>2. e \in Entry /\ f \in Entry /\ Known(e.id) /\ Known(f.id)
  BY <1>1
<1>3. Rank(e) \in Int /\ Rank(f) \in Int
  BY <1>2, SyncAssumption DEF Entry, Rank
<1>4. Accepted(e.id) \in Int /\ Accepted(f.id) \in Int
  <2>1. Accepted(e.id) \in 1 .. Len(accepted) /\ Accepted(f.id) \in 1 .. Len(accepted)
    BY <1>2, AcceptedIsPlace DEF Entry, StoredIInv
  <2>2. QED
    BY <2>1
<1>5. QED
  BY <1>1, <1>3, <1>4 DEF Older

\* The node changes nothing about what waits.
LEMMA WritesGrow == ASSUME StoredIInv, NodeStep, NEW t PROVE Writes(t)' <=> Writes(t)
<1>1. Grows /\ UNCHANGED <<pagers, runs>>
  BY NodeGrows DEF StoredIInv, Types, memory
<1>2. ASSUME NEW S \in SUBSET Entry, \A f \in S : Known(f.id), NEW e \in S
      PROVE  IsOldest(e, S) <=> \A f \in S \ {e} : Older(e, f)'
  <2>1. ASSUME NEW f \in S PROVE Older(e, f)' <=> Older(e, f)
    <3>1. Accepted(e.id)' = Accepted(e.id) /\ Accepted(f.id)' = Accepted(f.id)
      BY <1>1, <1>2, <2>1 DEF Grows, Entry
    <3>2. Rank(e)' = Rank(e) /\ Rank(f)' = Rank(f)
      BY DEF Rank
    <3>3. QED
      BY <3>1, <3>2 DEF Older
  <2>2. QED
    BY <2>1 DEF IsOldest
<1>3. ASSUME NEW p \in Pagers PROVE PagerWrites(p, t)' <=> PagerWrites(p, t)
  <2>1. pagers[p].todo \in SUBSET Entry /\ \A f \in pagers[p].todo : Known(f.id)
    BY DEF StoredIInv, Types, PagerType, PagesAreTold, Told
  <2>2. \A e \in pagers[p].todo :
          IsOldest(e, pagers[p].todo) <=> \A f \in pagers[p].todo \ {e} : Older(e, f)'
    BY <1>2, <2>1
  <2>3. \A e \in pagers[p].todo : IsOldest(e, pagers[p].todo)' <=> IsOldest(e, pagers[p].todo)
    BY <1>1, <2>2 DEF IsOldest
  <2>4. QED
    BY <1>1, <2>3 DEF PagerWrites
<1>4. ASSUME NEW r \in Slots PROVE RunWrites(r, t)' <=> RunWrites(r, t)
  <2>1. runs[r].todo \in SUBSET Entry /\ \A f \in runs[r].todo : Known(f.id)
    BY DEF StoredIInv, Types, RunType, BlocksAreMined
  <2>2. \A e \in runs[r].todo :
          IsOldest(e, runs[r].todo) <=> \A f \in runs[r].todo \ {e} : Older(e, f)'
    BY <1>2, <2>1
  <2>3. \A e \in runs[r].todo : IsOldest(e, runs[r].todo)' <=> IsOldest(e, runs[r].todo)
    BY <1>1, <2>2 DEF IsOldest
  <2>4. QED
    BY <1>1, <2>3 DEF RunWrites
<1>5. QED
  BY <1>3, <1>4 DEF Writes

\* Writes that are not over are still to be done.
LEMMA SamePagerWrites ==
  ASSUME UNCHANGED accepted, NEW p \in Pagers, pagers'[p] = pagers[p], NEW t
  PROVE  PagerWrites(p, t)' <=> PagerWrites(p, t)
<1>1. \A e, f : Older(e, f)' <=> Older(e, f)
  BY SameOrder
<1>2. QED
  BY <1>1 DEF PagerWrites, IsOldest

LEMMA SameRunWrites ==
  ASSUME UNCHANGED accepted, NEW r \in Slots, runs'[r] = runs[r], NEW t
  PROVE  RunWrites(r, t)' <=> RunWrites(r, t)
<1>1. \A e, f : Older(e, f)' <=> Older(e, f)
  BY SameOrder
<1>2. QED
  BY <1>1 DEF RunWrites, IsOldest

LEMMA NewInMempool ==
  ASSUME StoredIInv, NEW T, NEW height, InMempool(T, height), NEW t \in Txs, txmap'[t] # Absent
  PROVE  t \in T \/ txmap[t] # Absent
BY DEF InMempool, StoredIInv, Types

\* A run that returns leaves every call but its own, which writes nothing.
LEMMA ReturnPagers ==
  ASSUME StoredIInv, Phases, UNCHANGED accepted, NEW r \in Slots, Return(r) \/ UNCHANGED pagers,
         NEW p \in Pagers, NEW t
  PROVE  PagerWrites(p, t)' <=> PagerWrites(p, t)
<1>1. CASE pagers'[p] = pagers[p]
  BY <1>1, SamePagerWrites
<1>2. CASE pagers'[p] # pagers[p]
  <2>1. runs[r].for # 0 /\ pagers' = [pagers EXCEPT ![runs[r].for] = NoPager]
    BY <1>2 DEF Return, EndSync
  <2>2. runs[r].for \in Pagers /\ pagers \in [Pagers -> PagerType]
    BY <2>1 DEF StoredIInv, Types, RunType
  <2>3. p = runs[r].for /\ pagers'[p] = NoPager
    BY <1>2, <2>1, <2>2
  <2>4. pagers[p].at = "blocks"
    BY <2>1, <2>3 DEF Phases
  <2>5. pagers'[p].at = "none"
    BY <2>3, NothingTodo
  <2>6. QED
    BY <2>4, <2>5 DEF PagerWrites
<1>3. QED
  BY <1>1, <1>2

\* Handling a block leaves no known transaction out of the history, when the
\* entries it begins with leave out none but those that others write.
LEMMA HandleBlockFull ==
  ASSUME StoredIInv, Phases, UNCHANGED node, NEW r \in Slots, NEW entries, NEW todo \in SUBSET Entry,
         \A t \in Txs : txmap[t] # Absent =>
           \/ t \in entries \/ \E p \in Pagers : PagerWrites(p, t)
           \/ \E q \in Slots \ {r} : RunWrites(q, t),
         HandleBlock(r, entries, todo)
  PROVE  HistoryIsFull'
<1>0. runs \in [Slots -> RunType] /\ UNCHANGED accepted
  BY DEF StoredIInv, Types, node
<1>1. \A q \in Slots \ {r} : runs'[q] = runs[q]
  BY HandleBlockGoesOn, <1>0 DEF GoesOn, Return
<1>2. \A q \in Slots \ {r}, t \in Txs : RunWrites(q, t) => Writes(t)'
  BY <1>0, <1>1, SameRunWrites DEF Writes
<1>3. \A t \in Txs : (\E p \in Pagers : PagerWrites(p, t)) => Writes(t)'
  <2>1. Return(r) \/ UNCHANGED pagers
    BY DEF HandleBlock
  <2>2. \A p \in Pagers, t \in Txs : PagerWrites(p, t) => PagerWrites(p, t)'
    BY <1>0, <2>1, ReturnPagers
  <2>3. QED
    BY <2>2 DEF Writes
<1>4. ASSUME NEW e \in todo, IsOldest(e, {f \in todo : Owned(f.id, status)}), Stores(e, entries),
             runs' = [runs EXCEPT ![r].at = "store", ![r].known = txmap[e.id] # Absent,
                               ![r].todo = {f \in todo : f = e \/ Older(e, f)}]
      PROVE  HistoryIsFull'
  <2>1. history' = entries /\ \A t \in Txs : txmap'[t] # Absent => t = e.id \/ txmap[t] # Absent
    BY <1>4, NewInMempool DEF Stores
  <2> DEFINE rest == {f \in todo : f = e \/ Older(e, f)}
             run == [runs[r] EXCEPT !.at = "store", !.known = txmap[e.id] # Absent, !.todo = rest]
  <2>2. runs' = [runs EXCEPT ![r] = run]
    BY <1>0, <1>4
  <2>3. run.at = "store" /\ run.todo = rest
    BY <1>0 DEF RunType
  <2>4. e \in rest /\ \A f \in rest \ {e} : Older(e, f)'
    BY <1>0, SameOrder
  <2> HIDE DEF run, rest
  <2>5. runs'[r].at = "store" /\ runs'[r].todo = rest
    BY <1>0, <2>2, <2>3
  <2>6. RunWrites(r, e.id)'
    BY <2>4, <2>5 DEF RunWrites, IsOldest
  <2>7. Writes(e.id)'
    BY <2>6 DEF Writes
  <2>8. QED
    BY <1>2, <1>3, <2>1, <2>7 DEF HistoryIsFull
<1>5. CASE history' = entries /\ UNCHANGED mempool
  BY <1>2, <1>3, <1>5 DEF HistoryIsFull, mempool
<1>6. QED
  BY <1>4, <1>5 DEF HandleBlock

LEMMA EndPagesWrites ==
  ASSUME StoredIInv, UNCHANGED node, NEW p \in Pagers, EndPages(p), NEW r \in Slots, NEW t,
         RunWrites(r, t)
  PROVE  RunWrites(r, t)'
<1>0. UNCHANGED accepted
  BY DEF node
<1>1. CASE UNCHANGED runs
  BY <1>0, <1>1, SameRunWrites
<1>2. CASE Enter(p, blockCount)
  <2>1. PICK q \in Slots : runs[q].at = "none" /\ \A s \in Slots : s # q => runs'[s] = runs[s]
    BY <1>2, PhasesEnter
  <2>2. runs'[r] = runs[r]
    BY <2>1 DEF RunWrites
  <2>3. QED
    BY <1>0, <2>2, SameRunWrites
<1>3. QED
  BY <1>1, <1>2 DEF EndPages, Bounce

\* The step of a call leaves the others.
LEMMA OtherPagers ==
  ASSUME StoredIInv, NEW p \in Pagers, PagerStep(p), NEW q \in Pagers, q # p
  PROVE  pagers'[q] = pagers[q]
<1>0. pagers \in [Pagers -> PagerType]
  BY DEF StoredIInv, Types
<1>1. ASSUME EndPages(p) PROVE pagers'[q] = pagers[q]
  BY <1>0, <1>1 DEF EndPages, EndSync
<1>2. ASSUME NEW entries, NEW todo, AddPage(p, entries, todo) PROVE pagers'[q] = pagers[q]
  BY <1>0, <1>1, <1>2 DEF AddPage
<1>3. CASE PageAnswer(p) \/ PageStored(p)
  BY <1>2, <1>3 DEF PageAnswer, PageStored
<1>4. CASE CountAnswer(p) \/ SkipPages(p)
  BY <1>0, <1>1, <1>4 DEF CountAnswer, SkipPages
<1>5. CASE DiskAnswer(p) \/ PagesFail(p) \/ ResyncStarts(p)
  BY <1>0, <1>5 DEF DiskAnswer, PagesFail, ResyncStarts
<1>6. QED
  BY <1>3, <1>4, <1>5 DEF PagerStep

LEMMA AddPageFull ==
  ASSUME StoredIInv, UNCHANGED node, NEW p \in Pagers, PagerStep(p),
         NEW entries, NEW todo \in SUBSET Entry,
         \A t \in Txs : txmap[t] # Absent =>
           \/ t \in entries \/ \E q \in Pagers \ {p} : PagerWrites(q, t)
           \/ \E r \in Slots : RunWrites(r, t),
         AddPage(p, entries, todo)
  PROVE  HistoryIsFull'
<1>0. pagers[p] \in PagerType /\ pagers \in [Pagers -> PagerType] /\ UNCHANGED accepted
  BY DEF StoredIInv, Types, node
<1>1. \A r \in Slots, t \in Txs : RunWrites(r, t) => Writes(t)'
  BY <1>0, SameRunWrites, EndPagesWrites DEF AddPage, Writes
<1>2. \A q \in Pagers \ {p}, t \in Txs : PagerWrites(q, t) => Writes(t)'
  BY <1>0, OtherPagers, SamePagerWrites DEF Writes
<1>3. ASSUME NEW e \in todo, IsOldest(e, todo), Stores(e, entries),
             pagers' = [pagers EXCEPT ![p].at = "store", ![p].todo = todo,
                                      ![p].known = txmap[e.id] # Absent]
      PROVE  HistoryIsFull'
  <2>1. history' = entries /\ \A t \in Txs : txmap'[t] # Absent => t = e.id \/ txmap[t] # Absent
    BY <1>3, NewInMempool DEF Stores
  <2> DEFINE call == [pagers[p] EXCEPT !.at = "store", !.todo = todo, !.known = txmap[e.id] # Absent]
  <2>2. pagers' = [pagers EXCEPT ![p] = call]
    BY <1>0, <1>3
  <2>3. call.at = "store" /\ call.todo = todo
    BY <1>0 DEF PagerType
  <2> HIDE DEF call
  <2>4. pagers'[p].at = "store" /\ pagers'[p].todo = todo
    BY <1>0, <2>2, <2>3
  <2>5. \A f \in todo \ {e} : Older(e, f)'
    BY <1>0, <1>3, SameOrder DEF IsOldest
  <2>6. PagerWrites(p, e.id)'
    BY <2>4, <2>5 DEF PagerWrites, IsOldest
  <2>7. Writes(e.id)'
    BY <2>6 DEF Writes
  <2>8. QED
    BY <1>1, <1>2, <2>1, <2>7 DEF HistoryIsFull
<1>4. ASSUME Added({e.id : e \in todo}, [t \in Txs |-> Unconfirmed], entries)
      PROVE  HistoryIsFull'
  <2>1. /\ history' = entries \cup {e.id : e \in todo}
        /\ \A t \in Txs : txmap'[t] # Absent => t \in {e.id : e \in todo} \/ txmap[t] # Absent
    BY <1>4, NewInMempool DEF Added
  <2>2. QED
    BY <1>1, <1>2, <2>1 DEF HistoryIsFull
<1>5. QED
  BY <1>3, <1>4 DEF AddPage

\* The copy the interface shows is refreshed, silenced, or still good.
LEMMA ShownStep == ASSUME ShownIsHistory, WalletStep PROVE ShownIsHistory'
<1>1. ASSUME \/ shown' = history'
             \/ ~eventsOn'
             \/ Emit /\ UNCHANGED eventsOn
             \/ UNCHANGED <<shown, history, eventsOn>>
      PROVE  ShownIsHistory'
  BY <1>1 DEF ShownIsHistory, Emit
<1>2. ASSUME NEW r, BlockAnswer(r) \/ BlockStored(r) \/ BlockFails(r) PROVE ShownIsHistory'
  <2>1. ASSUME Return(r) PROVE ShownIsHistory'
    BY <1>1, <2>1 DEF Return, EndSync
  <2>2. ASSUME NEW entries, NEW todo, HandleBlock(r, entries, todo) PROVE ShownIsHistory'
    BY <1>1, <2>1, <2>2 DEF HandleBlock
  <2>3. QED
    BY <1>2, <2>1, <2>2 DEF BlockAnswer, BlockStored, BlockFails
<1>3. ASSUME NEW p, EndPages(p), UNCHANGED history \/ Emit PROVE ShownIsHistory'
  BY <1>1, <1>3 DEF EndPages, EndSync
<1>4. ASSUME NEW p, NEW entries, NEW todo, AddPage(p, entries, todo) PROVE ShownIsHistory'
  <2>1. ASSUME EndPages(p) PROVE ShownIsHistory'
    BY <1>1, <2>1 DEF EndPages, EndSync
  <2>2. QED
    BY <1>1, <1>4, <2>1 DEF AddPage
<1>5. ASSUME NEW p, PagerStep(p) PROVE ShownIsHistory'
  <2>1. CASE PageAnswer(p) \/ PageStored(p)
    BY <1>4, <2>1 DEF PageAnswer, PageStored
  <2>2. CASE CountAnswer(p) \/ SkipPages(p)
    BY <1>1, <1>3, <2>2 DEF CountAnswer, SkipPages
  <2>3. CASE DiskAnswer(p)
    BY <1>1, <2>3 DEF DiskAnswer
  <2>4. CASE PagesFail(p) \/ ResyncStarts(p)
    BY <1>1, <2>4 DEF PagesFail, ResyncStarts
  <2>5. QED
    BY <1>5, <2>1, <2>2, <2>3, <2>4 DEF PagerStep
<1>7. CASE Refresh
  BY <1>1, <1>7 DEF Refresh
<1>8. CASE SendAnswer
  BY <1>1, <1>8 DEF SendAnswer
<1>9. CASE CallSync \/ CallResync \/ Send \/ SendFails
  BY <1>1, <1>9 DEF CallSync, CallResync, Send, SendFails
<1>10. CASE Reload
  BY <1>1, <1>10 DEF Reload
<1>11. QED
  BY <1>2, <1>5, <1>7, <1>8, <1>9, <1>10 DEF WalletStep

LEMMA PagerFullStep ==
  ASSUME StoredIInv, HistoryIsFull, NEW p \in Pagers, PagerStep(p)
  PROVE  HistoryIsFull'
<1>0. \A t \in Txs : txmap[t] # Absent =>
        \/ t \in history \/ PagerWrites(p, t) \/ \E q \in Pagers \ {p} : PagerWrites(q, t)
        \/ \E r \in Slots : RunWrites(r, t)
  BY DEF HistoryIsFull, Writes
<1>1. ASSUME UNCHANGED node, NEW q \in Pagers \ {p}, NEW t, PagerWrites(q, t)
      PROVE  Writes(t)'
  BY <1>1, OtherPagers, SamePagerWrites DEF Writes, node
<1>2. CASE PageAnswer(p)
  <2> DEFINE page == Page(pagers[p].start, pagers[p].page)
  <2>1. UNCHANGED node /\ AddPage(p, history, page) /\ pagers[p].at = "page"
    BY <1>2 DEF PageAnswer
  <2>2. page \in SUBSET Entry
    BY PageIsListed
  <2> HIDE DEF page
  <2>3. \A t \in Txs : ~PagerWrites(p, t)
    BY <2>1 DEF PagerWrites
  <2>4. QED
    BY <1>0, <2>1, <2>2, <2>3, AddPageFull
<1>3. CASE PageStored(p)
  <2>1. PICK e \in pagers[p].todo :
          /\ IsOldest(e, pagers[p].todo) /\ UNCHANGED node
          /\ AddPage(p, Push(history, e.id, pagers[p].known), pagers[p].todo \ {e})
    BY <1>3 DEF PageStored
  <2>2. pagers[p].todo \in SUBSET Entry /\ \A f \in pagers[p].todo : Known(f.id)
    BY DEF StoredIInv, Types, PagerType, PagesAreTold, Told
  <2>3. \A t \in Txs : PagerWrites(p, t) => t = e.id
    BY <2>1, <2>2, UniqueOldest DEF PagerWrites
  <2> DEFINE entries == Push(history, e.id, pagers[p].known)
  <2>4. \A t \in Txs : t \in history \/ t = e.id => t \in entries
    BY DEF Push
  <2> HIDE DEF entries
  <2>5. \A t \in Txs : txmap[t] # Absent =>
          \/ t \in entries \/ \E q \in Pagers \ {p} : PagerWrites(q, t)
          \/ \E r \in Slots : RunWrites(r, t)
    BY <1>0, <2>3, <2>4
  <2>6. pagers[p].todo \ {e} \in SUBSET Entry
    BY <2>2
  <2>7. QED
    BY <2>1, <2>5, <2>6, AddPageFull DEF entries
<1>4. ASSUME UNCHANGED <<node, mempool, history>>, pagers[p].at # "store",
             \A r \in Slots, t \in Txs : RunWrites(r, t) => RunWrites(r, t)'
      PROVE  HistoryIsFull'
  <2>1. UNCHANGED txmap /\ \A t \in Txs : ~PagerWrites(p, t)
    BY <1>4 DEF PagerWrites, mempool
  <2>2. \A r \in Slots, t \in Txs : RunWrites(r, t) => Writes(t)'
    BY <1>4 DEF Writes
  <2>3. QED
    BY <1>0, <1>1, <1>4, <2>1, <2>2 DEF HistoryIsFull
<1>5. CASE CountAnswer(p) \/ SkipPages(p)
  <2>1. UNCHANGED <<node, accepted, mempool, history>> /\ pagers[p].at # "store"
    BY <1>5 DEF CountAnswer, SkipPages, node
  <2>2. UNCHANGED runs \/ EndPages(p)
    BY <1>5 DEF CountAnswer, SkipPages
  <2>3. \A r \in Slots, t \in Txs : RunWrites(r, t) => RunWrites(r, t)'
    BY <2>1, <2>2, SameRunWrites, EndPagesWrites
  <2>4. QED
    BY <1>4, <2>1, <2>3
<1>6. CASE PagesFail(p)
  <2>1. UNCHANGED <<node, accepted, mempool, history, runs>> /\ pagers[p].at # "store"
    BY <1>6 DEF PagesFail, node
  <2>2. \A r \in Slots, t \in Txs : RunWrites(r, t) => RunWrites(r, t)'
    BY <2>1, SameRunWrites
  <2>3. QED
    BY <1>4, <2>1, <2>2
<1>7. CASE DiskAnswer(p)
  <2>1. /\ UNCHANGED <<node, accepted, runs>> /\ pagers[p].at = "disk"
        /\ InMempool(StoredTxs, disk) /\ history' = history \cup StoredTxs
    BY <1>7 DEF DiskAnswer, Added, node
  <2>2. \A t \in Txs : txmap'[t] # Absent => t \in StoredTxs \/ txmap[t] # Absent
    BY <2>1, NewInMempool
  <2>3. \A r \in Slots, t \in Txs : RunWrites(r, t) => Writes(t)'
    BY <2>1, SameRunWrites DEF Writes
  <2>4. \A t \in Txs : ~PagerWrites(p, t)
    BY <2>1 DEF PagerWrites
  <2>5. QED
    BY <1>0, <1>1, <2>1, <2>2, <2>3, <2>4 DEF HistoryIsFull
<1>8. CASE ResyncStarts(p)
  BY <1>8 DEF ResyncStarts, HistoryIsFull
<1>9. QED
  BY <1>2, <1>3, <1>5, <1>6, <1>7, <1>8 DEF PagerStep

LEMMA RunFullStep ==
  ASSUME StoredIInv, Phases, HistoryIsFull, NEW r \in Slots,
         BlockAnswer(r) \/ BlockStored(r) \/ BlockFails(r)
  PROVE  HistoryIsFull'
<1>0. \A t \in Txs : txmap[t] # Absent =>
        \/ t \in history \/ \E p \in Pagers : PagerWrites(p, t)
        \/ RunWrites(r, t) \/ \E q \in Slots \ {r} : RunWrites(q, t)
  BY DEF HistoryIsFull, Writes
<1>1. CASE BlockAnswer(r)
  <2> DEFINE todo == Block(runs[r].height)
  <2>1. UNCHANGED node /\ HandleBlock(r, history, todo) /\ runs[r].at = "block"
    BY <1>1 DEF BlockAnswer
  <2>2. \A e \in todo : e \in Entry
    BY DEF StoredIInv, Chain, Block, Entry
  <2> HIDE DEF todo
  <2>3. todo \in SUBSET Entry
    BY <2>2
  <2>4. \A t \in Txs : ~RunWrites(r, t)
    BY <2>1 DEF RunWrites
  <2>5. QED
    BY <1>0, <2>1, <2>3, <2>4, HandleBlockFull
<1>2. CASE BlockStored(r)
  <2>1. PICK e \in runs[r].todo :
          /\ IsOldest(e, runs[r].todo) /\ UNCHANGED node
          /\ HandleBlock(r, Push(history, e.id, runs[r].known), runs[r].todo \ {e})
    BY <1>2 DEF BlockStored
  <2>2. runs[r].todo \in SUBSET Entry /\ \A f \in runs[r].todo : Known(f.id)
    BY DEF StoredIInv, Types, RunType, BlocksAreMined
  <2>3. \A t \in Txs : RunWrites(r, t) => t = e.id
    BY <2>1, <2>2, UniqueOldest DEF RunWrites
  <2> DEFINE entries == Push(history, e.id, runs[r].known)
  <2>4. \A t \in Txs : t \in history \/ t = e.id => t \in entries
    BY DEF Push
  <2> HIDE DEF entries
  <2>5. \A t \in Txs : txmap[t] # Absent =>
           \/ t \in entries \/ \E p \in Pagers : PagerWrites(p, t)
           \/ \E q \in Slots \ {r} : RunWrites(q, t)
    BY <1>0, <2>3, <2>4
  <2>6. runs[r].todo \ {e} \in SUBSET Entry
    BY <2>2
  <2>7. QED
    BY <2>1, <2>5, <2>6, HandleBlockFull DEF entries
<1>3. CASE BlockFails(r)
  <2>1. /\ UNCHANGED <<node, accepted, mempool, txmap, history>> /\ Return(r)
        /\ runs[r].at = "block"
    BY <1>3 DEF BlockFails, node, mempool
  <2>2. \A q \in Slots \ {r} : runs'[q] = runs[q]
    BY <2>1 DEF Return, StoredIInv, Types
  <2>3. \A q \in Slots \ {r}, t \in Txs : RunWrites(q, t) => Writes(t)'
    BY <2>1, <2>2, SameRunWrites DEF Writes
  <2>4. \A p \in Pagers, t \in Txs : PagerWrites(p, t) => Writes(t)'
    BY <2>1, ReturnPagers DEF Writes
  <2>5. \A t \in Txs : ~RunWrites(r, t)
    BY <2>1 DEF RunWrites
  <2>6. QED
    BY <1>0, <2>1, <2>3, <2>4, <2>5 DEF HistoryIsFull
<1>4. QED
  BY <1>1, <1>2, <1>3

LEMMA FullStep == ASSUME StoredIInv, Phases, HistoryIsFull, WalletStep PROVE HistoryIsFull'
<1>1. ASSUME UNCHANGED <<accepted, txmap, history>>,
             \A p \in Pagers, t \in Txs : PagerWrites(p, t) => PagerWrites(p, t)',
             \A r \in Slots, t \in Txs : RunWrites(r, t) => RunWrites(r, t)'
      PROVE  HistoryIsFull'
  <2>1. \A t \in Txs : Writes(t) => Writes(t)'
    BY <1>1 DEF Writes
  <2>2. QED
    BY <1>1, <2>1 DEF HistoryIsFull
<1>4. CASE Refresh
  <2>1. UNCHANGED <<node, accepted, mempool, txmap, history, pagers>>
    BY <1>4 DEF Refresh, Enter, Bounce, node, mempool
  <2>2. UNCHANGED runs \/ \E n : Enter(0, n)
    BY <1>4 DEF Refresh, Bounce
  <2>3. ASSUME NEW q \in Slots, NEW t \in Txs, RunWrites(q, t) PROVE RunWrites(q, t)'
    <3>1. runs'[q] = runs[q]
      <4>1. CASE UNCHANGED runs
        BY <4>1
      <4>2. CASE \E n : Enter(0, n)
        <5>1. PICK s \in Slots : runs[s].at = "none" /\ \A p \in Slots : p # s => runs'[p] = runs[p]
          BY <4>2, PhasesEnter
        <5>2. QED
          BY <2>3, <5>1 DEF RunWrites
      <4>3. QED
        BY <2>2, <4>1, <4>2
    <3>2. QED
      BY <2>1, <2>3, <3>1, SameRunWrites
  <2>4. \A p \in Pagers, t \in Txs : PagerWrites(p, t) => PagerWrites(p, t)'
    BY <2>1, SamePagerWrites
  <2>5. QED
    BY <1>1, <2>1, <2>3, <2>4
<1>5. CASE CallSync \/ CallResync \/ Send \/ SendFails
  <2>1. UNCHANGED <<node, accepted, mempool, txmap, history, runs>>
    BY <1>5 DEF CallSync, CallResync, Send, SendFails, node, mempool
  <2>2. UNCHANGED pagers \/ \E p \in Pagers, for \in {"sync", "resync"} : Begins(p, for)
    BY <1>5 DEF CallSync, CallResync, Send, SendFails
  <2>3. \A p \in Pagers : pagers[p].at # "store" \/ pagers'[p] = pagers[p]
    BY <2>2 DEF Begins, StoredIInv, Types
  <2>4. \A p \in Pagers, t \in Txs : PagerWrites(p, t) => PagerWrites(p, t)'
    BY <2>1, <2>3, SamePagerWrites DEF PagerWrites
  <2>5. \A r \in Slots, t \in Txs : RunWrites(r, t) => RunWrites(r, t)'
    BY <2>1, SameRunWrites
  <2>6. QED
    BY <1>1, <2>1, <2>4, <2>5
<1>6. CASE SendAnswer
  <2>1. UNCHANGED <<node, accepted, pagers, runs>>
    BY <1>6 DEF SendAnswer, node
  <2>2. PICK t \in sending : /\ InMempool({t}, [u \in Txs |-> Unconfirmed])
                             /\ history' = Push(history, t, txmap[t] # Absent)
    BY <1>6 DEF SendAnswer
  <2>3. \A u \in Txs : txmap'[u] # Absent => u = t \/ txmap[u] # Absent
    BY <2>2, NewInMempool
  <2>4. \A u \in Txs : Writes(u) => Writes(u)'
    BY <2>1, SameRunWrites, SamePagerWrites DEF Writes
  <2>5. QED
    BY <2>2, <2>3, <2>4 DEF HistoryIsFull, Push
<1>7. CASE Reload
  BY <1>7 DEF Reload, HistoryIsFull
<1>8. QED
  BY <1>4, <1>5, <1>6, <1>7, PagerFullStep, RunFullStep DEF WalletStep

LEMMA NodeKeepsHistory == ASSUME HistoryIInv, NodeStep PROVE HistoryIInv'
<1>1. StoredIInv' /\ UNCHANGED <<memory, disk>>
  BY NodeKeepsStored, NodeGrows DEF HistoryIInv, StoredIInv, Types
<1>2. UNCHANGED <<pagers, runs, isSynced, eventsOn, shown, history, txmap>>
  BY <1>1 DEF memory, mempool
<1>3. HistoryIsFull'
  BY <1>2, WritesGrow DEF HistoryIInv, HistoryIsFull
<1>4. QED
  BY <1>1, <1>2, <1>3 DEF HistoryIInv, Phases, ShownIsHistory

LEMMA SameHistory == ASSUME HistoryIInv, UNCHANGED vars PROVE HistoryIInv'
<1>1. UNCHANGED <<node, accepted, pagers, runs, isSynced, eventsOn, shown, history, txmap>>
  BY DEF vars, memory, mempool, node
<1>2. StoredIInv'
  BY NextStored DEF HistoryIInv
<1>3. HistoryIsFull'
  BY <1>1, SameRunWrites, SamePagerWrites DEF HistoryIInv, HistoryIsFull, Writes
<1>4. QED
  BY <1>1, <1>2, <1>3 DEF HistoryIInv, Phases, ShownIsHistory

LEMMA NextHistory == HistoryIInv /\ [Next]_vars => HistoryIInv'
<1> SUFFICES ASSUME HistoryIInv, [Next]_vars PROVE HistoryIInv'
  OBVIOUS
<1>1. CASE WalletStep
  BY <1>1, NextStored, PhasesStep, ShownStep, FullStep DEF HistoryIInv
<1>2. QED
  BY <1>1, NodeKeepsHistory, SameHistory, Steps

LEMMA InitHistory == Init => HistoryIInv
<1> SUFFICES ASSUME Init PROVE HistoryIInv
  OBVIOUS
<1>1. Phases
  BY NothingTodo DEF Init, Emptied, Phases
<1>2. ShownIsHistory /\ HistoryIsFull
  BY DEF Init, Emptied, ShownIsHistory, HistoryIsFull
<1>3. QED
  BY <1>1, <1>2, InitStored DEF HistoryIInv

\* At rest, every transaction the wallet counts is in the history that the
\* interface shows, although sync() silences the events, resync() replaces
\* the mempool, and several calls and runs replace each other's entries.
THEOREM HistoryIsShownHolds == Spec => []HistoryIsShown
<1>1. HistoryIInv => HistoryIsShown
  <2> SUFFICES ASSUME HistoryIInv, AtRest PROVE \A t \in Txs : txmap[t] # Absent => t \in shown
    BY DEF HistoryIsShown
  <2>1. \A p \in Pagers : pagers[p].at = "none"
    BY DEF AtRest, Running
  <2>2. \A t : ~Writes(t)
    BY <2>1 DEF AtRest, Writes, PagerWrites, RunWrites
  <2>3. eventsOn
    BY <2>1 DEF AtRest, HistoryIInv, Phases, StoredIInv, Types
  <2>4. QED
    BY <2>2, <2>3 DEF HistoryIInv, ShownIsHistory, HistoryIsFull
<1>2. QED
  BY <1>1, InitHistory, NextHistory, PTL DEF Spec

-----------------------------------------------------------------------------
\* No transaction falls between the disk, the pages and the blocks

\* The transactions that move coins of the wallet.
Relevant == {t \in Txs : (\E o \in Own : o[1] = t) \/ Spends[t] \cap Own # {}}

Below(t, h) == minedAt[t] # 0 /\ minedAt[t] < h
Held(t, d) == txmap[t] # Absent /\ d[t] # Absent
StoredBelow(h) == \A t \in Relevant : Below(t, h) => disk[t] # Absent
HeldBelow(h) == \A t \in Relevant : Below(t, h) => Held(t, disk)
Awaits(t, todo) == \E e \in todo : e.id = t /\ Mined(e)

\* What is mined in the blocks before is held, in memory and on the disk d, or
\* still to be added.
PageHolds(for, todo, d) ==
  /\ for = "sync" =>
       \A t \in Relevant : Below(t, lastProcessed + 1) => Held(t, d) \/ Awaits(t, todo)
  /\ \A e \in todo : Mined(e) =>
       \A t \in Relevant : Below(t, e.blockHeight) => d[t] # Absent \/ Awaits(t, todo)
BlockHolds(h, todo, d) ==
  \A t \in Relevant : minedAt[t] # 0 /\ minedAt[t] = h => Held(t, d) \/ Awaits(t, todo)

\* A transaction follows those that it spends.
Order ==
  /\ tip - indexed <= Lag
  /\ \A t \in Txs : Known(t) =>
       \A o \in Spends[t] : Known(o[1]) /\ Accepted(o[1]) < Accepted(t)
  /\ \A t \in Txs : minedAt[t] # 0 =>
       \A o \in Spends[t] : minedAt[o[1]] # 0 /\ minedAt[o[1]] <= minedAt[t]

Empty == [o \in Outpoints |-> {}]
StatusIsExact == status = StatusAfter({t \in Txs : txmap[t] # Absent}, Empty)

DiskIsComplete == \A t \in Txs : disk[t] # Absent => StoredBelow(disk[t])
HeightsAreStored == \A t \in Txs : txmap[t] >= 0 => disk[t] # Absent \/ Writes(t)
WrittenIsKnown == \A t \in Txs : Writes(t) => txmap[t] # Absent

ReadsPages(p) == pagers[p].at \in {"count", "page", "store"}

\* A call on its own: sync() until the pages are read and resync() from its
\* first await find the wallet not synchronised.
PageIsComplete(p) ==
  pagers[p].at # "none" =>
    /\ pagers[p].at # "skip"
    /\ pagers[p].for = "resync" => pagers[p].start = 0 /\ (pagers[p].at # "disk" => ~isSynced)
    /\ pagers[p].for = "sync" /\ pagers[p].at # "blocks" => ~isSynced
    /\ ReadsPages(p) =>
         /\ pagers[p].start <= tip /\ StoredBelow(pagers[p].start)
         /\ pagers[p].for = "sync" => HeldBelow(pagers[p].start) /\ lastProcessed <= indexed
    /\ pagers[p].at \in {"page", "store"} => pagers[p].page = 1
    /\ pagers[p].at = "store" => PageHolds(pagers[p].for, pagers[p].todo, disk)
PagesComplete == \A p \in Pagers : PageIsComplete(p)

RunIsComplete(r) ==
  runs[r].at # "none" =>
    /\ isSynced /\ runs[r].height <= tip + 1 /\ HeldBelow(runs[r].height)
    /\ \A e \in runs[r].todo : e.blockHeight = runs[r].height
    /\ runs[r].at = "store" =>
         runs[r].height <= tip /\ BlockHolds(runs[r].height, runs[r].todo, disk)
BlocksComplete ==
  /\ \A r \in Slots : RunIsComplete(r)
  /\ isSynced => lastProcessed <= tip /\ HeldBelow(lastProcessed + 1)

CoinsIInv ==
  /\ StoredIInv /\ Phases /\ ~Disturbed /\ Order /\ StatusIsExact
  /\ DiskIsComplete /\ HeightsAreStored /\ WrittenIsKnown
  /\ PagesComplete /\ BlocksComplete

\* A call that runs is the only one.
LEMMA CallIsAlone ==
  ASSUME ~Disturbed, NEW p \in Pagers, pagers[p].at # "none"
  PROVE  \A q \in Pagers \ {p} : pagers[q].at = "none"
BY DEF Disturbed, Running

LEMMA AcceptOrder ==
  ASSUME Chain, Order, NEW t \in Txs, Payable(t), Accept(t), UNCHANGED <<minedAt, tip, indexed>>
  PROVE  Order'
<1>1. ~Known(t) /\ \A o \in Spends[t] : Known(o[1]) /\ o[1] \in Txs
  BY SyncAssumption DEF Payable
<1>2. Grows
  BY <1>1, AcceptGrows
<1>3. /\ Len(accepted') = Len(accepted) + 1 /\ Len(accepted) \in Nat
      /\ \A i \in 1 .. Len(accepted) : accepted'[i] = accepted[i]
      /\ accepted'[Len(accepted) + 1] = t
  BY DEF Accept, Chain
<1>4. \A u \in Txs : Known(u)' => u = t \/ Known(u)
  BY <1>3 DEF Known
<1>5. Accepted(t)' = Len(accepted) + 1
  <2>1. \A i \in 1 .. Len(accepted) : accepted[i] # t
    BY <1>1 DEF Known
  <2>2. \A i \in 1 .. Len(accepted') : accepted'[i] = t <=> i = Len(accepted) + 1
    BY <1>3, <2>1
  <2>3. Len(accepted) + 1 \in 1 .. Len(accepted')
    BY <1>3
  <2>4. QED
    BY <2>2, <2>3 DEF Accepted
<1>6. ASSUME NEW u \in Txs, Known(u)', NEW o \in Spends[u]
      PROVE  Known(o[1])' /\ Accepted(o[1])' < Accepted(u)'
  <2>0. o[1] \in Txs
    BY SyncAssumption
  <2>1. CASE u = t
    <3>1. Known(o[1])' /\ Accepted(o[1])' = Accepted(o[1])
      BY <1>1, <1>2, <2>1 DEF Grows
    <3>2. Accepted(o[1]) \in 1 .. Len(accepted)
      BY <1>1, <2>1, AcceptedIsPlace
    <3>3. QED
      BY <1>3, <1>5, <2>1, <3>1, <3>2
  <2>2. CASE Known(u)
    <3>1. Known(o[1]) /\ Accepted(o[1]) < Accepted(u)
      BY <2>2 DEF Order
    <3>2. QED
      BY <1>2, <2>0, <2>2, <3>1 DEF Grows
  <2>3. QED
    BY <1>4, <1>6, <2>1, <2>2
<1>7. QED
  BY <1>6 DEF Order

LEMMA MineOrder == ASSUME Chain, Order, Mine PROVE Order'
<1>1. PICK S \in SUBSET {t \in Txs : Known(t) /\ minedAt[t] = 0} :
        /\ \A t \in S : \A o \in Spends[t] : o[1] \in S \/ minedAt[o[1]] # 0
        /\ minedAt' = [t \in Txs |-> IF t \in S THEN tip + 1 ELSE minedAt[t]]
  BY DEF Mine
<1>2. tip' = tip + 1 /\ tip + 1 - indexed <= Lag /\ UNCHANGED <<accepted, indexed>>
  BY DEF Mine
<1>3. \A t : (Known(t)' <=> Known(t)) /\ Accepted(t)' = Accepted(t)
  BY <1>2 DEF Known, Accepted
<1>4. ASSUME NEW t \in Txs, minedAt'[t] # 0, NEW o \in Spends[t]
      PROVE  minedAt'[o[1]] # 0 /\ minedAt'[o[1]] <= minedAt'[t]
  <2>0. o[1] \in Txs /\ minedAt[o[1]] \in Nat /\ minedAt[t] \in Nat /\ tip \in Nat
        /\ minedAt[o[1]] <= tip
    BY SyncAssumption DEF Chain
  <2>1. CASE t \in S
    BY <1>1, <2>0, <2>1
  <2>2. CASE t \notin S
    <3>1. minedAt[t] # 0 /\ minedAt'[t] = minedAt[t]
      BY <1>1, <1>4, <2>2
    <3>2. minedAt[o[1]] # 0 /\ minedAt[o[1]] <= minedAt[t]
      BY <3>1 DEF Order
    <3>3. o[1] \notin S
      BY <1>1, <3>2
    <3>4. QED
      BY <1>1, <2>0, <3>1, <3>2, <3>3
  <2>3. QED
    BY <2>1, <2>2
<1>5. tip' - indexed' <= Lag
  BY <1>2 DEF Chain
<1>6. \A t \in Txs : Known(t)' => \A o \in Spends[t] : Known(o[1])' /\ Accepted(o[1])' < Accepted(t)'
  BY <1>3 DEF Order
<1>7. QED
  BY <1>4, <1>5, <1>6 DEF Order

LEMMA NodeOrder == ASSUME Chain, Order, sending \subseteq Txs, NodeStep PROVE Order'
<1>1. CASE Arrive \/ NodeTakes
  <2>1. PICK t \in Txs : Payable(t) /\ Accept(t)
    BY <1>1 DEF Arrive, NodeTakes
  <2>2. UNCHANGED <<minedAt, tip, indexed>>
    BY <1>1 DEF Arrive, NodeTakes
  <2>3. QED
    BY <2>1, <2>2, AcceptOrder
<1>2. CASE Index
  <2>1. indexed' = indexed + 1 /\ UNCHANGED <<accepted, minedAt, tip>>
    BY <1>2 DEF Index
  <2>2. \A t : (Known(t)' <=> Known(t)) /\ Accepted(t)' = Accepted(t)
    BY <2>1 DEF Known, Accepted
  <2>3. tip' - indexed' <= Lag
    BY <2>1, SyncAssumption DEF Chain, Order
  <2>4. QED
    BY <2>1, <2>2, <2>3 DEF Order
<1>3. QED
  BY <1>1, <1>2, MineOrder DEF NodeStep

LEMMA SameNodeOrder == ASSUME Order, UNCHANGED node PROVE Order'
<1>1. UNCHANGED <<accepted, minedAt, tip, indexed>>
  BY DEF node
<1>2. \A t : (Known(t)' <=> Known(t)) /\ Accepted(t)' = Accepted(t)
  BY <1>1 DEF Known, Accepted
<1>3. QED
  BY <1>1, <1>2 DEF Order

\* The status bits are those of the known transactions.
LEMMA StatusOfMore ==
  ASSUME NEW S, NEW T
  PROVE  StatusAfter(T, StatusAfter(S, Empty)) = StatusAfter(S \cup T, Empty)
<1>1. \A o \in Outpoints :
        StatusAfter(T, StatusAfter(S, Empty))[o] = StatusAfter(S \cup T, Empty)[o]
  BY DEF StatusAfter, Empty
<1>2. QED
  BY <1>1 DEF StatusAfter

LEMMA StatusOfInMempool ==
  ASSUME StoredIInv, StatusIsExact, NEW T \in SUBSET Txs, NEW height,
         \A t \in T : height[t] # Absent, InMempool(T, height)
  PROVE  StatusIsExact'
<1> DEFINE K == {t \in Txs : txmap[t] # Absent}
<1>1. {t \in Txs : txmap'[t] # Absent} = K \cup T
  BY DEF InMempool, StoredIInv, Types
<1>2. status' = StatusAfter(T, StatusAfter(K, Empty))
  BY DEF InMempool, StatusIsExact
<1>3. status' = StatusAfter(K \cup T, Empty)
  BY <1>2, StatusOfMore, Zenon
<1>4. QED
  BY <1>1, <1>3 DEF StatusIsExact, StatusAfter, Empty

LEMMA StatusOfNone ==
  ASSUME txmap' = [t \in Txs |-> Absent], status' = [o \in Outpoints |-> {}]
  PROVE  StatusIsExact'
<1>1. {t \in Txs : txmap'[t] # Absent} = {}
  OBVIOUS
<1>2. StatusAfter({}, Empty) = [o \in Outpoints |-> {}]
  BY DEF StatusAfter, Empty
<1>3. QED
  BY <1>1, <1>2 DEF StatusIsExact, StatusAfter, Empty

LEMMA StatusStores ==
  ASSUME StoredIInv, StatusIsExact, NEW e \in Entry, NEW entries, Stores(e, entries)
  PROVE  StatusIsExact'
<1>1. e.id \in Txs /\ e.blockHeight # Absent
  BY DEF Entry, Unconfirmed, Absent
<1>2. QED
  BY <1>1, StatusOfInMempool DEF Stores

LEMMA StatusAdded ==
  ASSUME StoredIInv, StatusIsExact, NEW T \in SUBSET Txs, NEW entries,
         Added(T, [t \in Txs |-> Unconfirmed], entries)
  PROVE  StatusIsExact'
<1>1. \A t \in T : [u \in Txs |-> Unconfirmed][t] # Absent
  BY DEF Unconfirmed, Absent
<1>2. QED
  BY <1>1, StatusOfInMempool DEF Added

LEMMA StatusAddPage ==
  ASSUME StoredIInv, StatusIsExact, NEW p, NEW entries, NEW todo \in SUBSET Entry,
         AddPage(p, entries, todo)
  PROVE  StatusIsExact'
<1>1. {e.id : e \in todo} \in SUBSET Txs
  BY DEF Entry
<1>2. QED
  BY <1>1, StatusStores, StatusAdded DEF AddPage

LEMMA StatusHandleBlock ==
  ASSUME StoredIInv, StatusIsExact, NEW r, NEW entries, NEW todo \in SUBSET Entry,
         HandleBlock(r, entries, todo)
  PROVE  StatusIsExact'
<1>1. UNCHANGED <<txmap, status>> => StatusIsExact'
  BY DEF StatusIsExact, StatusAfter
<1>2. QED
  BY <1>1, StatusStores DEF HandleBlock, mempool

LEMMA StatusStep == ASSUME StoredIInv, StatusIsExact, WalletStep PROVE StatusIsExact'
<1>0. UNCHANGED <<txmap, status>> => StatusIsExact'
  BY DEF StatusIsExact, StatusAfter
<1>1. ASSUME NEW r \in Slots, BlockAnswer(r) PROVE StatusIsExact'
  <2>1. \A e \in Block(runs[r].height) : e \in Entry
    BY DEF StoredIInv, Chain, Block, Entry
  <2>2. Block(runs[r].height) \in SUBSET Entry
    BY <2>1
  <2>3. QED
    BY <1>1, <2>2, StatusHandleBlock DEF BlockAnswer
<1>2. ASSUME NEW r \in Slots, BlockStored(r) PROVE StatusIsExact'
  <2>1. PICK e : HandleBlock(r, Push(history, e.id, runs[r].known), runs[r].todo \ {e})
    BY <1>2 DEF BlockStored
  <2>2. runs[r].todo \ {e} \in SUBSET Entry
    BY DEF StoredIInv, Types, RunType
  <2>3. QED
    BY <2>1, <2>2, StatusHandleBlock
<1>3. ASSUME NEW p \in Pagers, PageAnswer(p) PROVE StatusIsExact'
  <2>1. Page(pagers[p].start, pagers[p].page) \in SUBSET Entry
    BY PageIsListed
  <2>2. QED
    BY <1>3, <2>1, StatusAddPage DEF PageAnswer
<1>4. ASSUME NEW p \in Pagers, PageStored(p) PROVE StatusIsExact'
  <2>1. PICK e : AddPage(p, Push(history, e.id, pagers[p].known), pagers[p].todo \ {e})
    BY <1>4 DEF PageStored
  <2>2. pagers[p].todo \ {e} \in SUBSET Entry
    BY DEF StoredIInv, Types, PagerType
  <2>3. QED
    BY <2>1, <2>2, StatusAddPage
<1>5. ASSUME NEW p \in Pagers, DiskAnswer(p) PROVE StatusIsExact'
  <2>1. StoredTxs \in SUBSET Txs /\ \A t \in StoredTxs : disk[t] # Absent
    BY DEF StoredTxs
  <2>2. QED
    BY <1>5, <2>1, StatusOfInMempool DEF DiskAnswer, Added
<1>6. CASE SendAnswer
  <2>1. PICK t \in sending : InMempool({t}, [u \in Txs |-> Unconfirmed])
    BY <1>6 DEF SendAnswer
  <2>2. t \in Txs /\ [u \in Txs |-> Unconfirmed][t] # Absent
    BY DEF StoredIInv, Types, Unconfirmed, Absent
  <2>3. QED
    BY <2>1, <2>2, StatusOfInMempool
<1>7. CASE Reload \/ \E p \in Pagers : ResyncStarts(p)
  BY <1>7, StatusOfNone DEF ResyncStarts, Reload
<1>8. CASE \/ Refresh \/ CallSync \/ CallResync \/ Send \/ SendFails
           \/ \E p \in Pagers : PagesFail(p) \/ CountAnswer(p) \/ SkipPages(p)
  <2>1. UNCHANGED mempool
    BY <1>8 DEF Refresh, CallSync, CallResync, PagesFail, Send, SendFails, CountAnswer, SkipPages
  <2>2. QED
    BY <1>0, <2>1 DEF mempool
<1>9. ASSUME NEW r \in Slots, BlockFails(r) PROVE StatusIsExact'
  BY <1>0, <1>9 DEF BlockFails, mempool
<1>10. QED
  BY <1>1, <1>2, <1>3, <1>4, <1>5, <1>6, <1>7, <1>8, <1>9 DEF WalletStep, PagerStep

\* What is held stays held, until the mempool is emptied.
Accrues ==
  /\ UNCHANGED <<accepted, minedAt, tip, indexed>>
  /\ \A t \in Txs : txmap[t] # Absent => txmap'[t] # Absent
  /\ \A t \in Txs : disk[t] # Absent => disk'[t] # Absent

LEMMA AccruesHolds ==
  ASSUME Accrues
  PROVE  /\ \A h : (StoredBelow(h) => StoredBelow(h)') /\ (HeldBelow(h) => HeldBelow(h)')
         /\ \A e : Mined(e)' <=> Mined(e)
         /\ \A h, todo : BlockHolds(h, todo, disk') => BlockHolds(h, todo, disk)'
         /\ \A t, h : Below(t, h)' <=> Below(t, h)
<1>1. \A t, h : Below(t, h)' <=> Below(t, h)
  BY DEF Accrues, Below
<1>2. \A e : Mined(e)' <=> Mined(e)
  BY DEF Accrues, Mined
<1>3. \A t \in Relevant : t \in Txs
  BY DEF Relevant
<1>4. ASSUME NEW h PROVE (StoredBelow(h) => StoredBelow(h)') /\ (HeldBelow(h) => HeldBelow(h)')
  BY <1>1, <1>3 DEF Accrues, StoredBelow, HeldBelow, Held
<1>5. ASSUME NEW h, NEW todo, BlockHolds(h, todo, disk') PROVE BlockHolds(h, todo, disk)'
  BY <1>2, <1>3, <1>5 DEF Accrues, BlockHolds, Held, Awaits
<1>6. QED
  BY <1>1, <1>2, <1>4, <1>5

\* The chain grows at its end.
LEMMA NodeHolds ==
  ASSUME StoredIInv, NodeStep
  PROVE  /\ \A h \in Int : h <= tip + 1 =>
              (StoredBelow(h) => StoredBelow(h)') /\ (HeldBelow(h) => HeldBelow(h)')
         /\ \A t \in Txs : minedAt'[t] # 0 /\ minedAt'[t] <= tip => minedAt[t] = minedAt'[t]
         /\ \A e \in Entry : (Mined(e) => Mined(e)') /\ (Mined(e)' /\ Told(e) => Mined(e))
<1>1. Chain /\ Chain' /\ Grows /\ UNCHANGED <<memory, disk, txmap>>
  BY NodeGrows DEF StoredIInv, Types, memory, mempool
<1>2. \A t \in Txs : minedAt[t] \in Nat /\ minedAt'[t] \in Nat /\ tip \in Nat
  BY <1>1 DEF Chain
<1>3. \A t \in Txs : minedAt'[t] # 0 /\ minedAt'[t] <= tip => minedAt[t] = minedAt'[t]
  BY <1>1, <1>2 DEF Grows
<1>4. \A t \in Relevant : t \in Txs
  BY DEF Relevant
<1>5. ASSUME NEW h \in Int, h <= tip + 1, NEW t \in Txs, Below(t, h)' PROVE Below(t, h)
  BY <1>2, <1>3, <1>5 DEF Below
<1>6. ASSUME NEW h \in Int, h <= tip + 1
      PROVE  (StoredBelow(h) => StoredBelow(h)') /\ (HeldBelow(h) => HeldBelow(h)')
  BY <1>1, <1>4, <1>5, <1>6 DEF StoredBelow, HeldBelow, Held
<1>7. ASSUME NEW e \in Entry
      PROVE  (Mined(e) => Mined(e)') /\ (Mined(e)' /\ Told(e) => Mined(e))
  <2>1. e.id \in Txs /\ e.blockHeight \in Nat \cup {Unconfirmed} /\ Unconfirmed \notin Nat
    BY DEF Entry, Unconfirmed
  <2>2. QED
    BY <1>1, <1>2, <2>1 DEF Mined, Told, Grows
<1>8. QED
  BY <1>3, <1>6, <1>7

LEMMA EnterWrites ==
  ASSUME StoredIInv, UNCHANGED accepted, NEW for \in Pagers \cup {0}, NEW target,
         Enter(for, target), NEW r \in Slots, NEW t
  PROVE  RunWrites(r, t)' <=> RunWrites(r, t)
<1>1. PICK q \in Slots : /\ runs[q].at = "none" /\ runs'[q].at = "block"
                         /\ \A s \in Slots : s # q => runs'[s] = runs[s]
  BY PhasesEnter
<1>2. CASE r = q
  BY <1>1, <1>2 DEF RunWrites
<1>3. CASE r # q
  BY <1>1, <1>3, SameRunWrites
<1>4. QED
  BY <1>2, <1>3

LEMMA EndPagesSameRuns ==
  ASSUME StoredIInv, UNCHANGED accepted, NEW p \in Pagers, EndPages(p), NEW r \in Slots, NEW t
  PROVE  RunWrites(r, t)' <=> RunWrites(r, t)
<1>1. UNCHANGED runs \/ Enter(p, blockCount)
  BY DEF EndPages, Bounce
<1>2. QED
  BY <1>1, EnterWrites, SameRunWrites

LEMMA EndPagesPager ==
  ASSUME StoredIInv, NEW p \in Pagers, EndPages(p)
  PROVE  pagers'[p].at \in {"none", "blocks"} /\ pagers'[p].for = "sync"
<1>1. pagers'[p] = NoPager \/ pagers'[p] = Pager("blocks", "sync")
  BY DEF EndPages, EndSync, StoredIInv, Types
<1>2. QED
  BY <1>1, PagerFields, NothingTodo

LEMMA StoresHeights ==
  ASSUME StoredIInv, NEW e \in Entry, NEW entries, Stores(e, entries), NEW t \in Txs
  PROVE  txmap'[t] = IF t = e.id THEN e.blockHeight ELSE txmap[t]
BY DEF Stores, InMempool, StoredIInv, Types

\* What a run does to its own write, and leaves of the others'.
LEMMA HandleBlockWrites ==
  ASSUME StoredIInv, Phases, UNCHANGED accepted, NEW r \in Slots, NEW entries, NEW todo \in SUBSET Entry,
         \A e \in todo : Known(e.id), HandleBlock(r, entries, todo)
  PROVE  /\ \A q \in Slots \ {r} : runs'[q] = runs[q]
         /\ \A p \in Pagers, t \in Txs : PagerWrites(p, t)' <=> PagerWrites(p, t)
         /\ \A t \in Txs : txmap'[t] = txmap[t] \/ RunWrites(r, t)'
         /\ \A t \in Txs : RunWrites(r, t)' => txmap'[t] # Absent
         /\ \A t \in Txs : txmap[t] # Absent => txmap'[t] # Absent
<1>0. runs \in [Slots -> RunType]
  BY DEF StoredIInv, Types
<1>1. \A q \in Slots \ {r} : runs'[q] = runs[q]
  BY HandleBlockGoesOn, <1>0 DEF GoesOn, Return
<1>2. \A p \in Pagers, t \in Txs : PagerWrites(p, t)' <=> PagerWrites(p, t)
  <2>1. Return(r) \/ UNCHANGED pagers
    BY DEF HandleBlock
  <2>2. QED
    BY <2>1, ReturnPagers
<1>3. ASSUME NEW e \in todo, Stores(e, entries),
             runs' = [runs EXCEPT ![r].at = "store", ![r].known = txmap[e.id] # Absent,
                               ![r].todo = {f \in todo : f = e \/ Older(e, f)}]
      PROVE  /\ \A t \in Txs : txmap'[t] = txmap[t] \/ RunWrites(r, t)'
             /\ \A t \in Txs : RunWrites(r, t)' => txmap'[t] # Absent
             /\ \A t \in Txs : txmap[t] # Absent => txmap'[t] # Absent
  <2> DEFINE rest == {f \in todo : f = e \/ Older(e, f)}
             run == [runs[r] EXCEPT !.at = "store", !.known = txmap[e.id] # Absent, !.todo = rest]
  <2>1. runs' = [runs EXCEPT ![r] = run]
    BY <1>0, <1>3
  <2>2. run.at = "store" /\ run.todo = rest
    BY <1>0 DEF RunType
  <2>3. rest \in SUBSET Entry /\ (\A f \in rest : Known(f.id)) /\ IsOldest(e, rest)
    BY DEF IsOldest
  <2>4. e \in Entry /\ e.id \in Txs /\ e.blockHeight # Absent
    BY DEF Entry, Unconfirmed, Absent
  <2> HIDE DEF run, rest
  <2>5. runs'[r].at = "store" /\ runs'[r].todo = rest
    BY <1>0, <2>1, <2>2
  <2>6. \A f : IsOldest(f, runs[r].todo)' <=> IsOldest(f, rest)
    BY <2>5, SameOrder DEF IsOldest
  <2>7. \A t \in Txs : RunWrites(r, t)' <=> t = e.id
    <3>1. \A f \in rest : IsOldest(f, rest) => f = e
      BY <2>3, UniqueOldest
    <3>2. e \in rest
      BY <2>3 DEF IsOldest
    <3>3. QED
      BY <2>3, <2>5, <2>6, <3>1, <3>2 DEF RunWrites
  <2>8. \A t \in Txs : txmap'[t] = IF t = e.id THEN e.blockHeight ELSE txmap[t]
    BY <1>3, <2>4, StoresHeights
  <2>9. QED
    BY <2>4, <2>7, <2>8
<1>4. ASSUME UNCHANGED mempool, runs'[r].at # "store"
      PROVE  /\ \A t \in Txs : txmap'[t] = txmap[t] \/ RunWrites(r, t)'
             /\ \A t \in Txs : RunWrites(r, t)' => txmap'[t] # Absent
             /\ \A t \in Txs : txmap[t] # Absent => txmap'[t] # Absent
  BY <1>4 DEF mempool, RunWrites
<1>5. ASSUME runs' = [runs EXCEPT ![r].at = "block", ![r].todo = {}, ![r].height = @ + 1]
      PROVE  runs'[r].at # "store"
  <2> DEFINE run == [runs[r] EXCEPT !.at = "block", !.todo = {}, !.height = @ + 1]
  <2>1. runs' = [runs EXCEPT ![r] = run]
    BY <1>0, <1>5
  <2>2. run.at = "block"
    BY <1>0 DEF RunType
  <2> HIDE DEF run
  <2>3. QED
    BY <1>0, <2>1, <2>2
<1>6. ASSUME Return(r) PROVE runs'[r].at # "store"
  BY <1>0, <1>6 DEF Return, NoRun
<1>7. QED
  BY <1>1, <1>2, <1>3, <1>4, <1>5, <1>6 DEF HandleBlock

LEMMA AddPageWrites ==
  ASSUME StoredIInv, UNCHANGED accepted, NEW p \in Pagers, NEW entries, NEW todo \in SUBSET Entry,
         \A e \in todo : Known(e.id), AddPage(p, entries, todo)
  PROVE  /\ \A r \in Slots : \A t : RunWrites(r, t)' <=> RunWrites(r, t)
         /\ \A t \in Txs : txmap'[t] \in {txmap[t], Unconfirmed} \/ PagerWrites(p, t)'
         /\ \A t \in Txs : PagerWrites(p, t)' => txmap'[t] # Absent
         /\ \A t \in Txs : txmap[t] # Absent => txmap'[t] # Absent
<1>0. pagers[p] \in PagerType /\ pagers \in [Pagers -> PagerType]
  BY DEF StoredIInv, Types
<1>1. \A r \in Slots : \A t : RunWrites(r, t)' <=> RunWrites(r, t)
  BY SameRunWrites, EndPagesSameRuns DEF AddPage
<1>2. ASSUME NEW e \in todo, IsOldest(e, todo), Stores(e, entries),
             pagers' = [pagers EXCEPT ![p].at = "store", ![p].todo = todo,
                                      ![p].known = txmap[e.id] # Absent]
      PROVE  /\ \A t \in Txs : txmap'[t] \in {txmap[t], Unconfirmed} \/ PagerWrites(p, t)'
             /\ \A t \in Txs : PagerWrites(p, t)' => txmap'[t] # Absent
             /\ \A t \in Txs : txmap[t] # Absent => txmap'[t] # Absent
  <2> DEFINE call == [pagers[p] EXCEPT !.at = "store", !.todo = todo, !.known = txmap[e.id] # Absent]
  <2>0. pagers' = [pagers EXCEPT ![p] = call]
    BY <1>0, <1>2
  <2>9. call.at = "store" /\ call.todo = todo
    BY <1>0 DEF PagerType
  <2> HIDE DEF call
  <2>1. pagers'[p].at = "store" /\ pagers'[p].todo = todo
    BY <1>0, <2>0, <2>9
  <2>2. e \in Entry /\ e.id \in Txs /\ e.blockHeight # Absent
    BY DEF Entry, Unconfirmed, Absent
  <2>3. \A f : IsOldest(f, pagers[p].todo)' <=> IsOldest(f, todo)
    BY <2>1, SameOrder DEF IsOldest
  <2>4. \A t \in Txs : PagerWrites(p, t)' <=> t = e.id
    <3>1. \A f \in todo : IsOldest(f, todo) => f = e
      BY <1>2, UniqueOldest
    <3>2. QED
      BY <1>2, <2>1, <2>3, <3>1 DEF PagerWrites
  <2>5. \A t \in Txs : txmap'[t] = IF t = e.id THEN e.blockHeight ELSE txmap[t]
    BY <1>2, <2>2, StoresHeights
  <2>6. QED
    BY <2>2, <2>4, <2>5
<1>3. ASSUME Added({e.id : e \in todo}, [t \in Txs |-> Unconfirmed], entries), pagers'[p].at # "store"
      PROVE  /\ \A t \in Txs : txmap'[t] \in {txmap[t], Unconfirmed} \/ PagerWrites(p, t)'
             /\ \A t \in Txs : PagerWrites(p, t)' => txmap'[t] # Absent
             /\ \A t \in Txs : txmap[t] # Absent => txmap'[t] # Absent
  <2>1. \A t \in Txs : txmap'[t] \in {txmap[t], Unconfirmed}
    BY <1>3 DEF Added, InMempool, StoredIInv, Types
  <2>2. \A t \in Txs : txmap[t] # Absent => txmap'[t] # Absent
    BY <2>1 DEF Unconfirmed, Absent
  <2>3. QED
    BY <1>3, <2>1, <2>2 DEF PagerWrites
<1>4. ASSUME pagers' = [pagers EXCEPT ![p].at = "page", ![p].todo = {}, ![p].page = @ - 1]
      PROVE  pagers'[p].at # "store"
  <2> DEFINE n == pagers[p].page - 1
             call == [pagers[p] EXCEPT !.at = "page", !.todo = {}, !.page = n]
  <2>1. pagers' = [pagers EXCEPT ![p] = call]
    BY <1>0, <1>4
  <2> HIDE DEF n
  <2>2. call.at = "page"
    BY <1>0 DEF PagerType
  <2> HIDE DEF call
  <2>3. QED
    BY <1>0, <2>1, <2>2
<1>5. QED
  BY <1>1, <1>2, <1>3, <1>4, EndPagesPager DEF AddPage

LEMMA SameChain == UNCHANGED node <=> UNCHANGED <<accepted, minedAt, tip, indexed>>
BY DEF node

LEMMA BlockWritten ==
  ASSUME StoredIInv, NEW r \in Slots, BlockStored(r)
  PROVE  \E e \in runs[r].todo :
           /\ e \in Entry /\ e.id \in Txs /\ Mined(e) /\ e.blockHeight # Absent
           /\ IsOldest(e, runs[r].todo)
           /\ \A t \in Txs : disk'[t] = IF t = e.id THEN e.blockHeight ELSE disk[t]
           /\ \A t : RunWrites(r, t) <=> t = e.id
           /\ runs[r].todo \ {e} \in SUBSET Entry /\ \A f \in runs[r].todo \ {e} : Known(f.id)
           /\ HandleBlock(r, Push(history, e.id, runs[r].known), runs[r].todo \ {e})
<1>1. PICK e \in runs[r].todo :
        /\ IsOldest(e, runs[r].todo) /\ disk' = [disk EXCEPT ![e.id] = e.blockHeight]
        /\ HandleBlock(r, Push(history, e.id, runs[r].known), runs[r].todo \ {e})
  BY DEF BlockStored
<1>2. /\ runs[r].todo \in SUBSET Entry /\ \A f \in runs[r].todo : Known(f.id) /\ Mined(f)
      /\ disk \in [Txs -> Int]
  BY DEF StoredIInv, Types, RunType, BlocksAreMined
<1>3. e \in Entry /\ e.id \in Txs /\ Mined(e) /\ e.blockHeight # Absent
  BY <1>2 DEF Entry, Unconfirmed, Absent
<1>4. \A f \in runs[r].todo : IsOldest(f, runs[r].todo) => f = e
  BY <1>1, <1>2, UniqueOldest
<1>5. runs[r].at = "store"
  BY DEF BlockStored
<1>6. \A t : RunWrites(r, t) <=> t = e.id
  BY <1>1, <1>4, <1>5 DEF RunWrites
<1>7. \A t \in Txs : disk'[t] = IF t = e.id THEN e.blockHeight ELSE disk[t]
  BY <1>1, <1>2
<1>8. runs[r].todo \ {e} \in SUBSET Entry /\ \A f \in runs[r].todo \ {e} : Known(f.id)
  BY <1>2
<1>9. QED
  BY <1>1, <1>3, <1>6, <1>7, <1>8

LEMMA PageWritten ==
  ASSUME StoredIInv, NEW p \in Pagers, PageStored(p)
  PROVE  \E e \in pagers[p].todo :
           /\ e \in Entry /\ e.id \in Txs /\ Mined(e) /\ e.blockHeight # Absent
           /\ IsOldest(e, pagers[p].todo)
           /\ \A t \in Txs : disk'[t] = IF t = e.id THEN e.blockHeight ELSE disk[t]
           /\ \A t : PagerWrites(p, t) <=> t = e.id
           /\ pagers[p].todo \ {e} \in SUBSET Entry
           /\ \A f \in pagers[p].todo \ {e} : Told(f) /\ Known(f.id)
           /\ AddPage(p, Push(history, e.id, pagers[p].known), pagers[p].todo \ {e})
<1>1. PICK e \in pagers[p].todo :
        /\ IsOldest(e, pagers[p].todo) /\ disk' = [disk EXCEPT ![e.id] = e.blockHeight]
        /\ AddPage(p, Push(history, e.id, pagers[p].known), pagers[p].todo \ {e})
  BY DEF PageStored
<1>2. /\ pagers[p].todo \in SUBSET Entry /\ \A f \in pagers[p].todo : Known(f.id) /\ Told(f)
      /\ disk \in [Txs -> Int]
  BY DEF StoredIInv, Types, PagerType, PagesAreTold, Told
<1>3. pagers[p].at = "store"
  BY DEF PageStored
<1>4. Mined(e)
  BY <1>1, <1>3, WrittenIsMined
<1>5. e \in Entry /\ e.id \in Txs /\ e.blockHeight # Absent
  BY <1>2 DEF Entry, Unconfirmed, Absent
<1>6. \A f \in pagers[p].todo : IsOldest(f, pagers[p].todo) => f = e
  BY <1>1, <1>2, UniqueOldest
<1>7. \A t : PagerWrites(p, t) <=> t = e.id
  BY <1>1, <1>3, <1>6 DEF PagerWrites
<1>8. \A t \in Txs : disk'[t] = IF t = e.id THEN e.blockHeight ELSE disk[t]
  BY <1>1, <1>2, <1>5
<1>9. pagers[p].todo \ {e} \in SUBSET Entry /\ \A f \in pagers[p].todo \ {e} : Told(f) /\ Known(f.id)
  BY <1>2
<1>10. QED
  BY <1>1, <1>4, <1>5, <1>7, <1>8, <1>9

LEMMA BlockIsMined ==
  ASSUME StoredIInv, NEW h
  PROVE  /\ Block(h) \in SUBSET Entry
         /\ \A e \in Block(h) : Known(e.id) /\ Mined(e) /\ e.blockHeight = h
<1>1. \A e \in Block(h) : e \in Entry /\ Known(e.id) /\ Mined(e) /\ e.blockHeight = h
  BY DEF StoredIInv, Chain, Block, Entry, Mined
<1>2. QED
  BY <1>1

LEMMA BlockFailsRuns ==
  ASSUME StoredIInv, Phases, NEW r \in Slots, BlockFails(r)
  PROVE  /\ UNCHANGED <<accepted, minedAt, tip, indexed, txmap, disk, isSynced, lastProcessed>>
         /\ runs'[r] = NoRun /\ \A q \in Slots \ {r} : runs'[q] = runs[q]
         /\ Return(r)
<1>1. /\ UNCHANGED <<accepted, minedAt, tip, indexed, txmap, disk, isSynced, lastProcessed>>
      /\ Return(r)
  BY DEF BlockFails, node, mempool
<1>2. runs'[r] = NoRun /\ \A q \in Slots \ {r} : runs'[q] = runs[q]
  BY <1>1 DEF Return, StoredIInv, Types
<1>3. QED
  BY <1>1, <1>2

\* Steps that empty the mempool, and the others.
Empties == (\E p \in Pagers : ResyncStarts(p)) \/ Reload

LEMMA WalletAccrues ==
  ASSUME StoredIInv, Phases, WalletStep
  PROVE  Accrues \/ Empties
<1>1. ASSUME NEW r \in Slots, BlockAnswer(r) PROVE Accrues
  <2>1. /\ UNCHANGED <<accepted, minedAt, tip, indexed, disk>>
        /\ HandleBlock(r, history, Block(runs[r].height))
    BY <1>1 DEF BlockAnswer, node
  <2>2. QED
    BY <2>1, BlockIsMined, HandleBlockWrites DEF Accrues
<1>2. ASSUME NEW r \in Slots, BlockStored(r) PROVE Accrues
  <2>1. UNCHANGED <<accepted, minedAt, tip, indexed>>
    BY <1>2 DEF BlockStored, node
  <2>2. QED
    BY <1>2, <2>1, BlockWritten, HandleBlockWrites DEF Accrues
<1>3. ASSUME NEW p \in Pagers, PageAnswer(p) PROVE Accrues
  <2>1. /\ UNCHANGED <<accepted, minedAt, tip, indexed, disk>>
        /\ AddPage(p, history, Page(pagers[p].start, pagers[p].page))
    BY <1>3 DEF PageAnswer, node
  <2>2. /\ Page(pagers[p].start, pagers[p].page) \in SUBSET Entry
        /\ \A e \in Page(pagers[p].start, pagers[p].page) : Known(e.id)
    BY PageIsListed DEF Told
  <2>3. QED
    BY <2>1, <2>2, AddPageWrites DEF Accrues
<1>4. ASSUME NEW p \in Pagers, PageStored(p) PROVE Accrues
  <2>1. UNCHANGED <<accepted, minedAt, tip, indexed>>
    BY <1>4 DEF PageStored, node
  <2>2. QED
    BY <1>4, <2>1, PageWritten, AddPageWrites DEF Accrues
<1>5. ASSUME NEW p \in Pagers, DiskAnswer(p) PROVE Accrues
  <2>1. UNCHANGED <<accepted, minedAt, tip, indexed, disk>> /\ InMempool(StoredTxs, disk)
    BY <1>5 DEF DiskAnswer, Added, node
  <2>2. QED
    BY <2>1 DEF Accrues, InMempool, StoredTxs, StoredIInv, Types
<1>6. CASE SendAnswer
  <2>1. UNCHANGED <<accepted, minedAt, tip, indexed, disk>>
        /\ \E t : InMempool({t}, [u \in Txs |-> Unconfirmed])
    BY <1>6 DEF SendAnswer, node
  <2>2. QED
    BY <2>1 DEF Accrues, InMempool, Absent, Unconfirmed, StoredIInv, Types
<1>7. CASE \/ Refresh \/ CallSync \/ CallResync \/ Send \/ SendFails
           \/ \E p \in Pagers : PagesFail(p) \/ CountAnswer(p) \/ SkipPages(p)
  <2>1. UNCHANGED <<accepted, minedAt, tip, indexed, disk, txmap>>
    BY <1>7 DEF Refresh, CallSync, CallResync, PagesFail, Send, SendFails, CountAnswer, SkipPages,
                node, mempool
  <2>2. QED
    BY <2>1 DEF Accrues
<1>8. ASSUME NEW r \in Slots, BlockFails(r) PROVE Accrues
  BY <1>8, BlockFailsRuns DEF Accrues
<1>9. QED
  BY <1>1, <1>2, <1>3, <1>4, <1>5, <1>6, <1>7, <1>8 DEF WalletStep, PagerStep, Empties

LEMMA WritesStep ==
  ASSUME StoredIInv, Phases, HeightsAreStored, WrittenIsKnown, WalletStep, Accrues
  PROVE  (HeightsAreStored /\ WrittenIsKnown)' \/ Empties
<1>1. ASSUME NEW r \in Slots, NEW entries, NEW todo \in SUBSET Entry, \A e \in todo : Known(e.id),
             HandleBlock(r, entries, todo), \A t \in Txs : RunWrites(r, t) => disk'[t] # Absent
      PROVE  HeightsAreStored' /\ WrittenIsKnown'
  <2>0. UNCHANGED accepted
    BY DEF Accrues
  <2>1. /\ \A q \in Slots \ {r} : runs'[q] = runs[q]
        /\ \A p \in Pagers, t \in Txs : PagerWrites(p, t)' <=> PagerWrites(p, t)
        /\ \A t \in Txs : txmap'[t] = txmap[t] \/ RunWrites(r, t)'
        /\ \A t \in Txs : RunWrites(r, t)' => txmap'[t] # Absent
    BY <1>1, <2>0, HandleBlockWrites
  <2>2. \A q \in Slots \ {r} : \A t : RunWrites(q, t)' <=> RunWrites(q, t)
    BY <2>0, <2>1, SameRunWrites
  <2>3. HeightsAreStored'
    BY <1>1, <2>1, <2>2 DEF HeightsAreStored, Writes, Accrues
  <2>4. WrittenIsKnown'
    BY <1>1, <2>1, <2>2 DEF WrittenIsKnown, Writes, Accrues
  <2>5. QED
    BY <2>3, <2>4
<1>2. ASSUME NEW p \in Pagers, PagerStep(p), NEW entries, NEW todo \in SUBSET Entry,
             \A e \in todo : Known(e.id),
             AddPage(p, entries, todo), \A t \in Txs : PagerWrites(p, t) => disk'[t] # Absent
      PROVE  HeightsAreStored' /\ WrittenIsKnown'
  <2>0. UNCHANGED accepted
    BY DEF Accrues
  <2>1. /\ \A r \in Slots : \A t : RunWrites(r, t)' <=> RunWrites(r, t)
        /\ \A t \in Txs : txmap'[t] \in {txmap[t], Unconfirmed} \/ PagerWrites(p, t)'
        /\ \A t \in Txs : PagerWrites(p, t)' => txmap'[t] # Absent
    BY <1>2, <2>0, AddPageWrites
  <2>2. \A q \in Pagers \ {p} : \A t : PagerWrites(q, t)' <=> PagerWrites(q, t)
    BY <1>2, <2>0, OtherPagers, SamePagerWrites
  <2>3. HeightsAreStored'
    BY <1>2, <2>1, <2>2 DEF HeightsAreStored, Writes, Accrues, Unconfirmed
  <2>4. WrittenIsKnown'
    BY <2>1, <2>2 DEF WrittenIsKnown, Writes, Accrues
  <2>5. QED
    BY <2>3, <2>4
<1>3. ASSUME \A t \in Txs : Writes(t)' <=> Writes(t),
             \A t \in Txs : txmap'[t] >= 0 => txmap[t] >= 0 \/ disk'[t] # Absent
      PROVE  HeightsAreStored' /\ WrittenIsKnown'
  <2>1. HeightsAreStored'
    BY <1>3 DEF HeightsAreStored, Accrues
  <2>2. WrittenIsKnown'
    BY <1>3 DEF WrittenIsKnown, Accrues
  <2>3. QED
    BY <2>1, <2>2
<1>4. ASSUME NEW r \in Slots, BlockAnswer(r) PROVE HeightsAreStored' /\ WrittenIsKnown'
  <2>1. HandleBlock(r, history, Block(runs[r].height)) /\ runs[r].at = "block"
    BY <1>4 DEF BlockAnswer
  <2>2. \A t : ~RunWrites(r, t)
    BY <2>1 DEF RunWrites
  <2>3. QED
    BY <1>1, <2>1, <2>2, BlockIsMined
<1>5. ASSUME NEW r \in Slots, BlockStored(r) PROVE HeightsAreStored' /\ WrittenIsKnown'
  BY <1>1, <1>5, BlockWritten
<1>6. ASSUME NEW p \in Pagers, PageAnswer(p) PROVE HeightsAreStored' /\ WrittenIsKnown'
  <2>1. AddPage(p, history, Page(pagers[p].start, pagers[p].page)) /\ pagers[p].at = "page"
    BY <1>6 DEF PageAnswer
  <2>2. PagerStep(p) /\ \A t : ~PagerWrites(p, t)
    BY <1>6, <2>1 DEF PagerWrites, PagerStep
  <2>3. /\ Page(pagers[p].start, pagers[p].page) \in SUBSET Entry
        /\ \A e \in Page(pagers[p].start, pagers[p].page) : Known(e.id)
    BY PageIsListed DEF Told
  <2>4. QED
    BY <1>2, <2>1, <2>2, <2>3
<1>7. ASSUME NEW p \in Pagers, PageStored(p) PROVE HeightsAreStored' /\ WrittenIsKnown'
  <2>1. PagerStep(p)
    BY <1>7 DEF PagerStep
  <2>2. QED
    BY <1>2, <1>7, <2>1, PageWritten
<1>8. ASSUME NEW r \in Slots, BlockFails(r) PROVE HeightsAreStored' /\ WrittenIsKnown'
  <2>1. /\ UNCHANGED <<accepted, txmap>> /\ Return(r)
        /\ runs'[r].at # "store" /\ \A q \in Slots \ {r} : runs'[q] = runs[q]
    BY <1>8, BlockFailsRuns DEF NoRun
  <2>2. runs[r].at = "block"
    BY <1>8 DEF BlockFails
  <2>3. \A q \in Slots : \A t : RunWrites(q, t)' <=> RunWrites(q, t)
    <3>1. \A q \in Slots \ {r} : \A t : RunWrites(q, t)' <=> RunWrites(q, t)
      BY <2>1, SameRunWrites
    <3>2. QED
      BY <2>1, <2>2, <3>1 DEF RunWrites
  <2>4. \A p \in Pagers, t \in Txs : PagerWrites(p, t)' <=> PagerWrites(p, t)
    BY <2>1, ReturnPagers
  <2>5. QED
    BY <1>3, <2>1, <2>3, <2>4 DEF Writes
<1>9. CASE Refresh
  <2>1. UNCHANGED <<accepted, txmap, pagers>> /\ (UNCHANGED runs \/ \E n : Enter(0, n))
    BY <1>9 DEF Refresh, Bounce, node, mempool
  <2>2. \A q \in Slots : \A t : RunWrites(q, t)' <=> RunWrites(q, t)
    BY <2>1, SameRunWrites, EnterWrites
  <2>3. QED
    BY <1>3, <2>1, <2>2, SamePagerWrites DEF Writes
<1>10. ASSUME NEW p \in Pagers, PagerStep(p), UNCHANGED accepted,
              pagers[p].at # "store", pagers'[p].at # "store",
              \A q \in Slots : \A t : RunWrites(q, t)' <=> RunWrites(q, t),
              \A t \in Txs : txmap'[t] >= 0 => txmap[t] >= 0 \/ disk'[t] # Absent
       PROVE  HeightsAreStored' /\ WrittenIsKnown'
  <2>1. \A q \in Pagers \ {p} : \A t : PagerWrites(q, t)' <=> PagerWrites(q, t)
    BY <1>10, OtherPagers, SamePagerWrites
  <2>2. \A t : ~PagerWrites(p, t) /\ ~PagerWrites(p, t)'
    BY <1>10 DEF PagerWrites
  <2>3. QED
    BY <1>3, <1>10, <2>1, <2>2 DEF Writes
<1>11. ASSUME NEW p \in Pagers, CountAnswer(p) \/ SkipPages(p)
       PROVE  HeightsAreStored' /\ WrittenIsKnown'
  <2>1. UNCHANGED <<accepted, txmap>> /\ pagers[p].at # "store" /\ PagerStep(p)
    BY <1>11 DEF CountAnswer, SkipPages, node, mempool, PagerStep
  <2> DEFINE n == NumPages(pagers[p].start)
             call == [pagers[p] EXCEPT !.at = "page", !.page = n]
  <2>2. EndPages(p) \/ (UNCHANGED runs /\ pagers' = [pagers EXCEPT ![p] = call])
    BY <1>11 DEF CountAnswer, SkipPages, StoredIInv, Types
  <2> HIDE DEF n
  <2>3. call.at = "page"
    BY DEF StoredIInv, Types, PagerType
  <2> HIDE DEF call
  <2>4. pagers'[p].at # "store"
    BY <2>2, <2>3, EndPagesPager DEF StoredIInv, Types
  <2>5. \A q \in Slots : \A t : RunWrites(q, t)' <=> RunWrites(q, t)
    BY <2>1, <2>2, SameRunWrites, EndPagesSameRuns
  <2>6. QED
    BY <1>10, <2>1, <2>4, <2>5
<1>12. CASE CallSync \/ CallResync \/ Send \/ SendFails
  <2>1. UNCHANGED <<accepted, txmap, runs>>
    BY <1>12 DEF CallSync, CallResync, Send, SendFails, node, mempool
  <2>2. UNCHANGED pagers \/ \E p \in Pagers, for \in {"sync", "resync"} : Begins(p, for)
    BY <1>12 DEF CallSync, CallResync, Send, SendFails
  <2>3. \A p \in Pagers :
          pagers'[p] = pagers[p] \/ (pagers[p].at # "store" /\ pagers'[p].at # "store")
    BY <2>2, PagerFields DEF Begins, StoredIInv, Types
  <2>4. \A p \in Pagers : \A t : PagerWrites(p, t)' <=> PagerWrites(p, t)
    BY <2>1, <2>3, SamePagerWrites DEF PagerWrites
  <2>5. QED
    BY <1>3, <2>1, <2>4, SameRunWrites DEF Writes
<1>13. ASSUME NEW p \in Pagers, PagesFail(p) PROVE HeightsAreStored' /\ WrittenIsKnown'
  <2>1. UNCHANGED <<accepted, txmap, runs>> /\ pagers[p].at # "store" /\ PagerStep(p)
    BY <1>13 DEF PagesFail, node, mempool, PagerStep
  <2>2. pagers'[p].at # "store"
    BY <1>13, NothingTodo DEF PagesFail, StoredIInv, Types
  <2>3. QED
    BY <1>10, <2>1, <2>2, SameRunWrites
<1>14. ASSUME NEW p \in Pagers, DiskAnswer(p) PROVE HeightsAreStored' /\ WrittenIsKnown'
  <2> DEFINE at == IF isSynced THEN "skip" ELSE "count"
             start == StartHeight(txmap')
             call == [pagers[p] EXCEPT !.at = at, !.start = start]
  <2>1. /\ UNCHANGED <<accepted, runs, disk>> /\ pagers[p].at = "disk" /\ InMempool(StoredTxs, disk)
        /\ pagers' = [pagers EXCEPT ![p] = call] /\ PagerStep(p)
    BY <1>14 DEF DiskAnswer, Added, node, StoredIInv, Types, PagerStep
  <2> HIDE DEF start
  <2>2. call.at # "store"
    BY DEF StoredIInv, Types, PagerType
  <2> HIDE DEF call, at
  <2>3. pagers'[p].at # "store"
    BY <2>1, <2>2 DEF StoredIInv, Types
  <2>4. \A t \in Txs : txmap'[t] >= 0 => txmap[t] >= 0 \/ disk'[t] # Absent
    BY <2>1 DEF InMempool, StoredTxs, StoredIInv, Types
  <2>5. QED
    BY <1>10, <2>1, <2>3, <2>4, SameRunWrites
<1>15. CASE SendAnswer
  <2>1. UNCHANGED <<accepted, runs, pagers>> /\ \E t : InMempool({t}, [u \in Txs |-> Unconfirmed])
    BY <1>15 DEF SendAnswer, node
  <2>2. \A t \in Txs : txmap'[t] \in {txmap[t], Unconfirmed}
    BY <2>1 DEF InMempool, StoredIInv, Types
  <2>3. \A t \in Txs : txmap'[t] >= 0 => txmap[t] >= 0
    BY <2>2 DEF Unconfirmed
  <2>4. QED
    BY <1>3, <2>1, <2>3, SameRunWrites, SamePagerWrites DEF Writes
<1>16. ASSUME NEW p \in Pagers, PagerStep(p) PROVE (HeightsAreStored /\ WrittenIsKnown)' \/ Empties
  BY <1>6, <1>7, <1>11, <1>13, <1>14, <1>16 DEF PagerStep, Empties
<1>17. QED
  BY <1>4, <1>5, <1>8, <1>9, <1>12, <1>15, <1>16 DEF WalletStep, Empties

\* resync() empties the mempool when nothing else runs.
LEMMA ResyncAlone ==
  ASSUME StoredIInv, ~Disturbed, ~Disturbed', NEW p \in Pagers, ResyncStarts(p)
  PROVE  /\ \A q \in Pagers : pagers'[q].at # "store"
         /\ \A r \in Slots : runs'[r].at = "none"
<1> DEFINE call == [pagers[p] EXCEPT !.at = "count"]
<1>1. /\ pagers[p].at = "disk" /\ pagers[p].for = "resync"
      /\ pagers' = [pagers EXCEPT ![p] = call] /\ pagers \in [Pagers -> PagerType]
  BY DEF ResyncStarts, StoredIInv, Types
<1>2. call.at = "count" /\ call.for = "resync"
  BY <1>1 DEF PagerType
<1> HIDE DEF call
<1>3. pagers'[p].at = "count" /\ pagers'[p].for = "resync"
  BY <1>1, <1>2
<1>4. \A q \in Pagers \ {p} : pagers'[q].at = "none"
  BY <1>1, CallIsAlone
<1>5. \A r \in Slots : runs'[r].at = "none"
  BY <1>3 DEF Disturbed, Running
<1>6. QED
  BY <1>3, <1>4, <1>5

\* Nothing is written when the mempool is emptied.

LEMMA WritesEmpty ==
  ASSUME StoredIInv, ~Disturbed, ~Disturbed', Empties
  PROVE  (HeightsAreStored /\ WrittenIsKnown)'
<1>1. \A t \in Txs : txmap'[t] = Absent
  BY DEF Empties, ResyncStarts, Reload
<1>2. (\A p \in Pagers : pagers'[p].at # "store") /\ \A r \in Slots : runs'[r].at # "store"
  <2>1. ASSUME NEW p \in Pagers, ResyncStarts(p)
        PROVE  (\A q \in Pagers : pagers'[q].at # "store") /\ \A r \in Slots : runs'[r].at # "store"
    BY <2>1, ResyncAlone
  <2>2. CASE Reload
    BY <2>2, NothingTodo DEF Reload
  <2>3. QED
    BY <2>1, <2>2 DEF Empties
<1>3. \A t : ~Writes(t)'
  BY <1>2 DEF Writes, PagerWrites, RunWrites
<1>4. QED
  BY <1>1, <1>3 DEF HeightsAreStored, WrittenIsKnown, Absent

LEMMA OldestIsLowest ==
  ASSUME StoredIInv, NEW S \in SUBSET Entry, NEW e \in S, NEW f \in S, IsOldest(e, S),
         Mined(e), Mined(f)
  PROVE  e.blockHeight <= f.blockHeight
<1>1. e.id \in Txs /\ f.id \in Txs
  BY DEF Entry
<1>2. e.blockHeight \in Nat /\ f.blockHeight \in Nat
  BY <1>1 DEF Mined, StoredIInv, Chain
<1>3. Rank(e) = e.blockHeight /\ Rank(f) = f.blockHeight
  BY <1>2 DEF Rank, Unconfirmed
<1>4. CASE f # e
  BY <1>2, <1>3, <1>4 DEF IsOldest, Older
<1>5. QED
  BY <1>2, <1>4

\* What is written is not above what the blocks before it ask for.
LEMMA DiskGets ==
  ASSUME DiskIsComplete, NEW e, Accrues,
         \A t \in Txs : disk'[t] = IF t = e.id THEN e.blockHeight ELSE disk[t],
         StoredBelow(e.blockHeight)'
  PROVE  DiskIsComplete'
<1> DEFINE P(h) == \A t \in Relevant : minedAt[t] # 0 /\ minedAt[t] < h => disk'[t] # Absent
<1>1. \A h : StoredBelow(h)' <=> P(h)
  BY DEF StoredBelow, Below, Accrues
<1>2. \A t \in Txs : disk[t] # Absent => P(disk[t])
  BY <1>1, AccruesHolds DEF DiskIsComplete
<1>3. P(e.blockHeight)
  BY <1>1
<1> HIDE DEF P
<1>4. \A t \in Txs : disk'[t] # Absent => P(disk'[t])
  BY <1>2, <1>3
<1> USE DEF P
<1>5. QED
  BY <1>4 DEF DiskIsComplete, StoredBelow, Below, Accrues

LEMMA DiskStep ==
  ASSUME StoredIInv, Phases, DiskIsComplete, PagesComplete, BlocksComplete, WalletStep
  PROVE  DiskIsComplete'
<1>1. ASSUME NEW r \in Slots, BlockStored(r), Accrues PROVE DiskIsComplete'
  <2>1. PICK e \in runs[r].todo :
          /\ \A t \in Txs : disk'[t] = IF t = e.id THEN e.blockHeight ELSE disk[t]
          /\ e.id \in Txs
    BY <1>1, BlockWritten
  <2>2. runs[r].at = "store"
    BY <1>1 DEF BlockStored
  <2>3. HeldBelow(e.blockHeight)
    BY <2>2 DEF BlocksComplete, RunIsComplete
  <2>4. StoredBelow(e.blockHeight)
    BY <2>3 DEF HeldBelow, StoredBelow, Held
  <2>5. QED
    BY <1>1, <2>1, <2>4, AccruesHolds, DiskGets
<1>2. ASSUME NEW p \in Pagers, PageStored(p), Accrues PROVE DiskIsComplete'
  <2>0. pagers[p].at = "store"
    BY <1>2 DEF PageStored
  <2>1. PICK e \in pagers[p].todo :
          /\ \A t \in Txs : disk'[t] = IF t = e.id THEN e.blockHeight ELSE disk[t]
          /\ e.id \in Txs /\ e.blockHeight # Absent /\ Mined(e) /\ IsOldest(e, pagers[p].todo)
    BY <1>2, PageWritten
  <2>2. PageHolds(pagers[p].for, pagers[p].todo, disk) /\ pagers[p].todo \in SUBSET Entry
    BY <2>0 DEF PagesComplete, PageIsComplete, StoredIInv, Types, PagerType
  <2>3. ASSUME NEW t \in Relevant, Below(t, e.blockHeight) PROVE disk[t] # Absent
    <3>1. disk[t] # Absent \/ Awaits(t, pagers[p].todo)
      BY <2>1, <2>2, <2>3 DEF PageHolds
    <3>2. ASSUME NEW f \in pagers[p].todo, f.id = t, Mined(f) PROVE FALSE
      <4>1. e.blockHeight <= f.blockHeight /\ f.blockHeight = minedAt[t]
        BY <2>1, <2>2, <3>2, OldestIsLowest DEF Mined
      <4>2. minedAt[t] \in Nat /\ e.blockHeight \in Int /\ t \in Txs
        BY <2>1, <2>2 DEF Relevant, StoredIInv, Chain, Entry, Unconfirmed
      <4>3. QED
        BY <2>3, <4>1, <4>2 DEF Below
    <3>3. QED
      BY <3>1, <3>2 DEF Awaits
  <2>4. StoredBelow(e.blockHeight)
    BY <2>3 DEF StoredBelow
  <2>5. QED
    BY <1>2, <2>1, <2>4, AccruesHolds, DiskGets
<1>3. ASSUME UNCHANGED <<minedAt, disk>> PROVE DiskIsComplete'
  BY <1>3 DEF DiskIsComplete, StoredBelow, Below
<1>4. CASE UNCHANGED <<node, disk>>
  BY <1>3, <1>4 DEF node
<1>5. CASE Empties
  BY <1>4, <1>5 DEF Empties, ResyncStarts, Reload
<1>6. CASE Accrues /\ ~UNCHANGED <<node, disk>>
  <2>1. \/ \E p \in Pagers : PageStored(p)
        \/ \E r \in Slots : BlockStored(r)
    BY <1>6 DEF WalletStep, PagerStep, Refresh, CallSync, DiskAnswer, SkipPages, CountAnswer,
                PageAnswer, PagesFail, BlockAnswer, BlockFails, CallResync, ResyncStarts, Send,
                SendAnswer, SendFails, Reload
  <2>2. QED
    BY <1>1, <1>2, <1>6, <2>1
<1>7. QED
  BY <1>4, <1>5, <1>6, WalletAccrues

\* The status bits of an outpoint.
LEMMA OwnIsMarked ==
  ASSUME NEW o \in Own
  PROVE  o \in Outpoints /\ o[1] \in Txs /\ "ours" \in Outputs[o[1]][o[2]]
         /\ "spent" \notin Outputs[o[1]][o[2]]
<1>1. o \in Outpoints /\ o[2] <= Len(Outputs[o[1]]) /\ Outputs[o[1]][o[2]] # {}
  BY DEF Own
<1>2. o[1] \in Txs /\ o[2] \in 1 .. 2
  BY <1>1 DEF Outpoints
<1>3. Outputs[o[1]] \in Seq({{}, {"ours", "p2pkh"}, {"ours", "p2cs"}})
  BY <1>2, SyncAssumption
<1>4. o[2] \in 1 .. Len(Outputs[o[1]])
  BY <1>1, <1>2, <1>3
<1>5. Outputs[o[1]][o[2]] \in {{}, {"ours", "p2pkh"}, {"ours", "p2cs"}}
  BY <1>3, <1>4
<1>6. QED
  BY <1>1, <1>2, <1>5

LEMMA StatusBits ==
  ASSUME StatusIsExact, NEW o \in Outpoints
  PROVE  /\ "ours" \in status[o] <=> o \in Own /\ txmap[o[1]] # Absent
         /\ "spent" \in status[o] <=> \E t \in Txs : txmap[t] # Absent /\ o \in Spends[t]
<1>1. status[o] = (IF \E t \in Txs : txmap[t] # Absent /\ o \in Spends[t] THEN {"spent"} ELSE {})
                    \cup (IF txmap[o[1]] # Absent /\ o \in Own THEN Outputs[o[1]][o[2]] ELSE {})
  <2>1. o[1] \in Txs
    BY DEF Outpoints
  <2>2. QED
    BY <2>1 DEF StatusIsExact, StatusAfter, Empty
<1>2. CASE o \in Own
  BY <1>1, <1>2, OwnIsMarked
<1>3. CASE o \notin Own
  BY <1>1, <1>3
<1>4. QED
  BY <1>2, <1>3

\* A transaction of a block that is not recognised spends one of the block
\* that is not yet known.
LEMMA UnownedSpends ==
  ASSUME StoredIInv, Order, StatusIsExact, NEW h \in Int, HeldBelow(h),
         NEW t \in Relevant, minedAt[t] = h, minedAt[t] # 0, ~Owned(t, status)
  PROVE  \E u \in Relevant : /\ minedAt[u] = h /\ Accepted(u) < Accepted(t)
                             /\ txmap[u] = Absent /\ Owned(u, status)
<1>1. PICK o \in Own : o \in Spends[t] /\ "ours" \notin status[o]
  BY DEF Relevant, Owned
<1>2. o \in Outpoints /\ o[1] \in Txs
  BY OwnIsMarked
<1>3. txmap[o[1]] = Absent
  BY <1>1, <1>2, StatusBits
<1>4. o[1] \in Relevant /\ Owned(o[1], status)
  BY <1>2 DEF Relevant, Owned
<1>5. t \in Txs /\ Known(t)
  BY DEF Relevant, StoredIInv, Chain
<1>6. Accepted(o[1]) < Accepted(t) /\ minedAt[o[1]] # 0 /\ minedAt[o[1]] <= h
  BY <1>1, <1>5 DEF Order
<1>7. ~(minedAt[o[1]] < h)
  BY <1>3, <1>4, <1>6 DEF HeldBelow, Below, Held
<1>8. minedAt[o[1]] = h
  BY <1>2, <1>6, <1>7 DEF StoredIInv, Chain
<1>9. QED
  BY <1>3, <1>4, <1>6, <1>8

\* Handling a block adds all its transactions that move coins: those that are
\* dropped are held.
LEMMA BlockLosesNothing ==
  ASSUME StoredIInv, Order, StatusIsExact, NEW h \in Int, HeldBelow(h),
         NEW d, NEW todo \in SUBSET Entry, BlockHolds(h, todo, d),
         \A e \in todo : Known(e.id) /\ Mined(e) /\ e.blockHeight = h
  PROVE  /\ {e \in todo : Owned(e.id, status)} = {} => BlockHolds(h, {}, d)
         /\ \A e : IsOldest(e, {f \in todo : Owned(f.id, status)}) =>
              BlockHolds(h, {f \in todo : f = e \/ Older(e, f)}, d)
<1> DEFINE owned == {e \in todo : Owned(e.id, status)}
<1>1. \A f \in todo : Rank(f) = h /\ Accepted(f.id) \in Int
  <2> TAKE f \in todo
  <2>1. f.id \in Txs /\ f.blockHeight = h /\ minedAt[f.id] = h /\ Known(f.id)
    BY DEF Entry, Mined
  <2>2. h \in Nat
    BY <2>1 DEF StoredIInv, Chain
  <2>3. Rank(f) = h
    BY <2>1, <2>2 DEF Rank, Unconfirmed
  <2>4. Accepted(f.id) \in 1 .. Len(accepted)
    BY <2>1, AcceptedIsPlace DEF StoredIInv
  <2>5. QED
    BY <2>3, <2>4
<1>2. ASSUME NEW t \in Relevant, minedAt[t] = h, minedAt[t] # 0, ~Held(t, d)
      PROVE  \E g \in todo : g.id = t /\ Mined(g)
  BY <1>2 DEF BlockHolds, Awaits
<1>3. ASSUME NEW t \in Relevant, minedAt[t] = h, minedAt[t] # 0, ~Held(t, d),
             NEW g \in todo, g.id = t, g \notin owned
      PROVE  \E f \in owned : Accepted(f.id) < Accepted(t)
  <2>1. ~Owned(t, status)
    BY <1>3
  <2>2. PICK u \in Relevant : /\ minedAt[u] = h /\ Accepted(u) < Accepted(t)
                              /\ txmap[u] = Absent /\ Owned(u, status)
    BY <1>3, <2>1, UnownedSpends
  <2>3. ~Held(u, d)
    BY <2>2 DEF Held
  <2>4. PICK f \in todo : f.id = u
    BY <1>2, <1>3, <2>2, <2>3
  <2>5. QED
    BY <2>2, <2>4
<1>4. ASSUME owned = {} PROVE BlockHolds(h, {}, d)
  BY <1>2, <1>3, <1>4 DEF BlockHolds
<1>5. ASSUME NEW e, IsOldest(e, owned)
      PROVE  BlockHolds(h, {f \in todo : f = e \/ Older(e, f)}, d)
  <2>1. e \in owned /\ \A f \in owned \ {e} : Older(e, f)
    BY <1>5 DEF IsOldest
  <2>2. \A f \in owned : Accepted(e.id) <= Accepted(f.id)
    <3> TAKE f \in owned
    <3>1. CASE f = e
      BY <1>1, <2>1, <3>1
    <3>2. CASE f # e
      BY <1>1, <2>1, <3>2 DEF Older
    <3>3. QED
      BY <3>1, <3>2
  <2>3. SUFFICES ASSUME NEW t \in Relevant, minedAt[t] # 0, minedAt[t] = h, ~Held(t, d)
                 PROVE  Awaits(t, {f \in todo : f = e \/ Older(e, f)})
    BY DEF BlockHolds
  <2>4. PICK g \in todo : g.id = t /\ Mined(g)
    BY <1>2, <2>3
  <2>5. CASE g = e \/ Older(e, g)
    BY <2>4, <2>5 DEF Awaits
  <2>6. CASE ~(g = e \/ Older(e, g))
    <3>1. Accepted(t) <= Accepted(e.id)
      BY <1>1, <2>1, <2>4, <2>6 DEF Older
    <3>2. g \notin owned
      BY <2>1, <2>6
    <3>3. PICK f \in owned : Accepted(f.id) < Accepted(t)
      BY <1>3, <2>3, <2>4, <3>2
    <3>4. Accepted(e.id) <= Accepted(f.id)
      BY <2>2
    <3>5. Accepted(e.id) \in Int /\ Accepted(f.id) \in Int /\ Accepted(t) \in Int
      BY <1>1, <2>1, <2>4, <3>3
    <3>6. QED
      BY <3>1, <3>3, <3>4, <3>5
  <2>7. QED
    BY <2>5, <2>6
<1>6. QED
  BY <1>4, <1>5

LEMMA AccruesBlock ==
  ASSUME Accrues, NEW h, NEW todo, BlockHolds(h, todo, disk) PROVE BlockHolds(h, todo, disk)'
<1>1. \A t \in Relevant : t \in Txs
  BY DEF Relevant
<1>2. BlockHolds(h, todo, disk')
  BY <1>1 DEF BlockHolds, Held, Accrues
<1>3. QED
  BY <1>2, AccruesHolds

LEMMA RunStaysComplete ==
  ASSUME Accrues, UNCHANGED isSynced, NEW r \in Slots, runs'[r] = runs[r], RunIsComplete(r)
  PROVE  RunIsComplete(r)'
<1> SUFFICES ASSUME runs'[r].at # "none" PROVE RunIsComplete(r)'
  BY DEF RunIsComplete
<1>1. /\ isSynced /\ runs[r].height <= tip + 1 /\ HeldBelow(runs[r].height)
      /\ \A e \in runs[r].todo : e.blockHeight = runs[r].height
      /\ runs[r].at = "store" =>
           runs[r].height <= tip /\ BlockHolds(runs[r].height, runs[r].todo, disk)
  BY DEF RunIsComplete
<1>2. tip' = tip
  BY DEF Accrues
<1>3. \A t \in Relevant : t \in Txs
  BY DEF Relevant
<1>4. HeldBelow(runs[r].height)'
  BY <1>1, <1>3 DEF HeldBelow, Held, Below, Accrues
<1>5. CASE runs[r].at = "store"
  <2>1. BlockHolds(runs[r].height, runs[r].todo, disk)'
    BY <1>1, <1>3, <1>5 DEF BlockHolds, Held, Awaits, Mined, Accrues
  <2>2. QED
    BY <1>1, <1>2, <1>4, <2>1 DEF RunIsComplete
<1>6. CASE runs[r].at # "store"
  BY <1>1, <1>2, <1>4, <1>6 DEF RunIsComplete
<1>7. QED
  BY <1>5, <1>6

\* A run in a state of its own.
RunHolds(run) ==
  /\ run.height <= tip + 1 /\ HeldBelow(run.height)
  /\ \A e \in run.todo : e.blockHeight = run.height
  /\ run.at = "store" => run.height <= tip /\ BlockHolds(run.height, run.todo, disk)

LEMMA AccruesRun ==
  ASSUME Accrues, NEW r \in Slots, NEW h, NEW todo, runs'[r].height = h, runs'[r].todo = todo,
         h <= tip + 1, HeldBelow(h)', \A e \in todo : e.blockHeight = h,
         runs'[r].at = "store" => h <= tip /\ BlockHolds(h, todo, disk')
  PROVE  RunHolds(runs[r])'
<1>1. \A t \in Relevant : t \in Txs
  BY DEF Relevant
<1>2. HeldBelow(runs[r].height)'
  BY DEF HeldBelow, Below
<1>3. CASE runs'[r].at = "store"
  <2>1. BlockHolds(runs[r].height, runs[r].todo, disk)'
    BY <1>1, <1>3 DEF BlockHolds, Held, Awaits, Mined, Accrues
  <2>2. QED
    BY <1>2, <1>3, <2>1 DEF RunHolds, Accrues
<1>4. CASE runs'[r].at # "store"
  BY <1>2, <1>4 DEF RunHolds, Accrues
<1>5. QED
  BY <1>3, <1>4

LEMMA RunsComplete ==
  ASSUME StoredIInv, BlocksComplete, Accrues, UNCHANGED isSynced, isSynced, NEW r \in Slots,
         \A q \in Slots \ {r} : runs'[q] = runs[q],
         runs'[r].at # "none" => RunHolds(runs[r])',
         lastProcessed' <= tip, HeldBelow(lastProcessed + 1)'
  PROVE  BlocksComplete'
<1>1. RunIsComplete(r)'
  BY DEF RunIsComplete, RunHolds
<1>2. \A q \in Slots \ {r} : RunIsComplete(q)'
  BY RunStaysComplete DEF BlocksComplete
<1>3. tip' = tip
  BY DEF Accrues
<1>4. QED
  BY <1>1, <1>2, <1>3 DEF BlocksComplete

LEMMA SameBlocks ==
  ASSUME StoredIInv, BlocksComplete, Accrues, UNCHANGED <<isSynced, lastProcessed, runs>>
  PROVE  BlocksComplete'
<1>1. \A r \in Slots : RunIsComplete(r)'
  BY RunStaysComplete DEF BlocksComplete
<1>2. isSynced => HeldBelow(lastProcessed + 1)'
  BY AccruesHolds DEF BlocksComplete, HeldBelow, Held, Below, Accrues
<1>3. QED
  BY <1>1, <1>2 DEF BlocksComplete, Accrues

LEMMA HeldUpTo ==
  ASSUME StoredIInv, Accrues, NEW h \in Int, HeldBelow(h), BlockHolds(h, {}, disk')
  PROVE  HeldBelow(h + 1)'
<1> SUFFICES ASSUME NEW t \in Relevant, Below(t, h + 1)' PROVE Held(t, disk)'
  BY DEF HeldBelow
<1>1. t \in Txs /\ minedAt[t] \in Nat /\ minedAt[t] # 0 /\ minedAt[t] < h + 1
  BY DEF Relevant, StoredIInv, Chain, Below, Accrues
<1>2. CASE minedAt[t] < h
  BY <1>1, <1>2 DEF HeldBelow, Below, Held, Accrues
<1>3. CASE minedAt[t] = h
  <2>1. Held(t, disk')
    BY <1>1, <1>3 DEF BlockHolds, Awaits
  <2>2. QED
    BY <1>1, <2>1 DEF Held, Accrues
<1>4. QED
  BY <1>1, <1>2, <1>3

LEMMA HandleBlockComplete ==
  ASSUME StoredIInv, Order, StatusIsExact, BlocksComplete, Accrues, UNCHANGED isSynced,
         NEW r \in Slots, runs[r].at # "none",
         NEW h \in Int, runs[r].height = h, h <= tip,
         NEW entries, NEW todo \in SUBSET Entry, BlockHolds(h, todo, disk'),
         \A e \in todo : Known(e.id) /\ Mined(e) /\ e.blockHeight = h,
         HandleBlock(r, entries, todo)
  PROVE  BlocksComplete'
<1> DEFINE owned == {e \in todo : Owned(e.id, status)}
<1>0. runs \in [Slots -> RunType] /\ tip \in Nat /\ lastProcessed \in Int
  BY DEF StoredIInv, Types, RunType, Chain
<1>1. isSynced /\ HeldBelow(h) /\ lastProcessed <= tip /\ HeldBelow(lastProcessed + 1)
  BY DEF BlocksComplete, RunIsComplete
<1>2. owned = {} => BlockHolds(h, {}, disk')
  BY <1>0, <1>1, BlockLosesNothing
<1>3. \A e : IsOldest(e, owned) => BlockHolds(h, {f \in todo : f = e \/ Older(e, f)}, disk')
  BY <1>0, <1>1, BlockLosesNothing
<1>4. \A q \in Slots \ {r} : runs'[q] = runs[q]
  BY HandleBlockGoesOn, <1>0 DEF GoesOn, Return
<1>5. HeldBelow(h)' /\ tip' = tip
  BY <1>1, AccruesHolds DEF Accrues
<1>6. UNCHANGED lastProcessed => HeldBelow(lastProcessed + 1)'
  <2>1. \A t \in Relevant : t \in Txs
    BY DEF Relevant
  <2>2. QED
    BY <1>1, <2>1 DEF HeldBelow, Held, Below, Accrues
<1>7. ASSUME NEW e \in owned, IsOldest(e, owned), UNCHANGED lastProcessed,
             runs' = [runs EXCEPT ![r].at = "store", ![r].known = txmap[e.id] # Absent,
                               ![r].todo = {f \in todo : f = e \/ Older(e, f)}]
      PROVE  BlocksComplete'
  <2> DEFINE rest == {f \in todo : f = e \/ Older(e, f)}
             run == [runs[r] EXCEPT !.at = "store", !.known = txmap[e.id] # Absent, !.todo = rest]
  <2>1. runs' = [runs EXCEPT ![r] = run]
    BY <1>0, <1>7
  <2>2. run.at = "store" /\ run.todo = rest /\ run.height = h
    BY <1>0 DEF RunType
  <2>3. BlockHolds(h, rest, disk') /\ rest \subseteq todo
    BY <1>3, <1>7
  <2> HIDE DEF run, rest
  <2>4. runs'[r].at = "store" /\ runs'[r].todo = rest /\ runs'[r].height = h
    BY <1>0, <2>1, <2>2
  <2>5. \A e2 \in rest : e2.blockHeight = h
    BY <2>3
  <2>6. h <= tip + 1
    BY <1>0
  <2>7. RunHolds(runs[r])'
    BY <1>5, <2>3, <2>4, <2>5, <2>6, AccruesRun
  <2>8. QED
    BY <1>1, <1>4, <1>7, <1>6, <2>7, RunsComplete
<1>8. ASSUME owned = {} PROVE HeldBelow(h + 1)'
  BY <1>0, <1>1, <1>2, <1>8, HeldUpTo
<1>9. ASSUME owned = {}, lastProcessed' = h,
             runs' = [runs EXCEPT ![r].at = "block", ![r].todo = {}, ![r].height = @ + 1]
      PROVE  BlocksComplete'
  <2> DEFINE n == h + 1
             run == [runs[r] EXCEPT !.at = "block", !.todo = {}, !.height = n]
  <2>1. runs' = [runs EXCEPT ![r] = run]
    BY <1>0, <1>9
  <2>2. run.at = "block" /\ run.todo = {} /\ run.height = n
    <3> HIDE DEF n
    <3>1. QED
      BY <1>0 DEF RunType
  <2>3. n <= tip + 1 /\ HeldBelow(n)' /\ n \in Int
    BY <1>0, <1>8, <1>9
  <2>4. HeldBelow(lastProcessed + 1)' /\ lastProcessed' <= tip
    BY <1>8, <1>9 DEF HeldBelow, Below
  <2> HIDE DEF run, n
  <2>5. runs'[r].at = "block" /\ runs'[r].todo = {} /\ runs'[r].height = n
    BY <1>0, <2>1, <2>2
  <2>6. RunHolds(runs[r])'
    BY <2>3, <2>5, AccruesRun
  <2>7. QED
    BY <1>1, <1>4, <2>4, <2>6, RunsComplete
<1>10. ASSUME owned = {}, lastProcessed' = h, Return(r)
      PROVE  BlocksComplete'
  <2>1. runs'[r].at = "none"
    BY <1>0, <1>10 DEF Return, NoRun
  <2>2. HeldBelow(lastProcessed + 1)' /\ lastProcessed' <= tip
    BY <1>8, <1>10 DEF HeldBelow, Below
  <2>3. QED
    BY <1>1, <1>4, <2>1, <2>2, RunsComplete
<1>11. QED
  BY <1>7, <1>9, <1>10 DEF HandleBlock, IsOldest

LEMMA EnterComplete ==
  ASSUME StoredIInv, Accrues, UNCHANGED lastProcessed, lastProcessed <= tip, HeldBelow(lastProcessed + 1)',
         NEW for \in Pagers \cup {0}, NEW target, Enter(for, target)
  PROVE  \E r \in Slots : RunHolds(runs[r])' /\ \A q \in Slots \ {r} : runs'[q] = runs[q]
<1>1. PICK r \in Slots : /\ runs'[r].at = "block" /\ runs'[r].todo = {}
                         /\ runs'[r].height = lastProcessed + 1
                         /\ \A q \in Slots : q # r => runs'[q] = runs[q]
  BY PhasesEnter
<1>2. PICK h : h = lastProcessed + 1
  OBVIOUS
<1>3. h <= tip + 1
  BY <1>2 DEF StoredIInv, Types, Chain
<1>4. HeldBelow(h)'
  BY <1>2 DEF HeldBelow, Below
<1>5. RunHolds(runs[r])'
  BY <1>1, <1>2, <1>3, <1>4, AccruesRun
<1>6. QED
  BY <1>1, <1>5

LEMMA IdlePages ==
  ASSUME NEW p \in Pagers,
         \/ pagers'[p].at = "none"
         \/ /\ pagers'[p].at = "disk"
            /\ pagers'[p].for = "sync" => ~isSynced'
            /\ pagers'[p].for = "resync" => pagers'[p].start = 0
         \/ pagers'[p].at = "blocks" /\ pagers'[p].for = "sync"
  PROVE  PageIsComplete(p)'
BY DEF PageIsComplete, ReadsPages

LEMMA AccruesPage ==
  ASSUME Accrues, UNCHANGED lastProcessed, NEW p \in Pagers, NEW for, NEW todo,
         PageHolds(for, todo, disk'), pagers'[p].for = for, pagers'[p].todo = todo
  PROVE  PageHolds(pagers[p].for, pagers[p].todo, disk)'
<1>1. \A t \in Relevant : t \in Txs
  BY DEF Relevant
<1>2. ASSUME for = "sync", NEW t \in Relevant, Below(t, lastProcessed + 1)
      PROVE  (txmap'[t] # Absent /\ disk'[t] # Absent) \/ Awaits(t, todo)
  BY <1>1, <1>2 DEF PageHolds, Held, Accrues
<1>3. ASSUME NEW e \in todo, Mined(e), NEW t \in Relevant, Below(t, e.blockHeight)
      PROVE  disk'[t] # Absent \/ Awaits(t, todo)
  BY <1>3 DEF PageHolds
<1>4. UNCHANGED minedAt
  BY DEF Accrues
<1>5. QED
  BY <1>2, <1>3, <1>4 DEF PageHolds, Held, Awaits, Mined, Below

LEMMA ReadsOn ==
  ASSUME StoredIInv, Accrues, UNCHANGED <<lastProcessed, isSynced>>, NEW p \in Pagers,
         PageIsComplete(p), ReadsPages(p),
         pagers'[p].for = pagers[p].for, pagers'[p].start = pagers[p].start,
         pagers'[p].at \in {"page", "store"}, pagers'[p].page = 1,
         pagers'[p].at = "store" => PageHolds(pagers[p].for, pagers'[p].todo, disk')
  PROVE  PageIsComplete(p)'
<1>1. \A t \in Relevant : t \in Txs
  BY DEF Relevant
<1>2. /\ pagers[p].for = "resync" => pagers[p].start = 0 /\ ~isSynced
      /\ pagers[p].for = "sync" => ~isSynced
      /\ pagers[p].start <= tip /\ StoredBelow(pagers[p].start)
      /\ pagers[p].for = "sync" => HeldBelow(pagers[p].start) /\ lastProcessed <= indexed
  BY DEF PageIsComplete, ReadsPages
<1>3. StoredBelow(pagers[p].start)' /\ pagers'[p].start <= tip'
  BY <1>1, <1>2 DEF StoredBelow, Below, Accrues
<1>4. pagers'[p].for = "sync" => HeldBelow(pagers[p].start)' /\ lastProcessed' <= indexed'
  BY <1>1, <1>2 DEF HeldBelow, Held, Below, Accrues
<1>5. pagers'[p].at = "store" => PageHolds(pagers[p].for, pagers[p].todo, disk)'
  BY AccruesPage
<1>6. QED
  BY <1>2, <1>3, <1>4, <1>5 DEF PageIsComplete, ReadsPages

LEMMA SamePage ==
  ASSUME StoredIInv, Accrues, UNCHANGED <<lastProcessed, isSynced>>, NEW p \in Pagers,
         PageIsComplete(p), pagers'[p] = pagers[p]
  PROVE  PageIsComplete(p)'
<1>1. \A t \in Relevant : t \in Txs
  BY DEF Relevant
<1>2. CASE pagers[p].at \in {"page", "store"}
  <2>1. ASSUME pagers[p].at = "store" PROVE PageHolds(pagers[p].for, pagers[p].todo, disk')
    <3>1. PageHolds(pagers[p].for, pagers[p].todo, disk)
      BY <2>1 DEF PageIsComplete
    <3>2. QED
      BY <1>1, <3>1 DEF PageHolds, Held, Accrues
  <2>2. pagers[p].page = 1 /\ ReadsPages(p)
    BY <1>2 DEF PageIsComplete, ReadsPages
  <2>3. QED
    BY <1>2, <2>1, <2>2, ReadsOn
<1>3. CASE pagers[p].at = "count"
  <2>1. /\ pagers[p].start <= tip /\ StoredBelow(pagers[p].start)
        /\ pagers[p].for = "sync" => HeldBelow(pagers[p].start) /\ lastProcessed <= indexed
    BY <1>3 DEF PageIsComplete, ReadsPages
  <2>2. StoredBelow(pagers[p].start)' /\ pagers'[p].start <= tip'
    BY <1>1, <2>1 DEF StoredBelow, Below, Accrues
  <2>3. pagers'[p].for = "sync" => HeldBelow(pagers[p].start)' /\ lastProcessed' <= indexed'
    BY <1>1, <2>1 DEF HeldBelow, Held, Below, Accrues
  <2>4. QED
    BY <1>3, <2>2, <2>3 DEF PageIsComplete, ReadsPages
<1>4. CASE pagers[p].at \notin {"count", "page", "store"}
  BY <1>4 DEF PageIsComplete, ReadsPages
<1>5. QED
  BY <1>2, <1>3, <1>4

LEMMA SamePages ==
  ASSUME StoredIInv, PagesComplete, Accrues, UNCHANGED <<lastProcessed, isSynced, pagers>>
  PROVE  PagesComplete'
BY SamePage DEF PagesComplete

\* The end of the pages: sync() knows what the blocks it will not read hold.
LEMMA EndPagesComplete ==
  ASSUME StoredIInv, BlocksComplete, Accrues, UNCHANGED lastProcessed, NEW p \in Pagers,
         PageIsComplete(p), ReadsPages(p),
         pagers[p].for = "sync" => HeldBelow(lastProcessed + 1)', EndPages(p)
  PROVE  PageIsComplete(p)' /\ BlocksComplete'
<1>0. pagers[p].at # "blocks" /\ pagers[p].at # "none"
  BY DEF ReadsPages
<1>1. PageIsComplete(p)'
  BY EndPagesPager, IdlePages
<1>2. CASE pagers[p].for = "sync"
  <2>1. isSynced' /\ HeldBelow(lastProcessed + 1)' /\ lastProcessed' <= tip'
    BY <1>2 DEF EndPages, PageIsComplete, ReadsPages, StoredIInv, Types, Chain, Accrues
  <2>2. \A r \in Slots : runs[r].at = "none"
    BY <1>0, <1>2 DEF PageIsComplete, BlocksComplete, RunIsComplete
  <2>3. CASE UNCHANGED runs
    <3>1. \A r \in Slots : RunIsComplete(r)'
      BY <2>2, <2>3 DEF RunIsComplete
    <3>2. QED
      BY <1>1, <2>1, <3>1 DEF BlocksComplete
  <2>4. CASE Enter(p, blockCount)
    <3>1. lastProcessed <= tip
      BY <2>1 DEF Accrues
    <3>2. PICK r \in Slots : RunHolds(runs[r])' /\ \A q \in Slots \ {r} : runs'[q] = runs[q]
      BY <2>1, <2>4, <3>1, EnterComplete
    <3>3. RunIsComplete(r)'
      BY <2>1, <3>2 DEF RunIsComplete, RunHolds
    <3>4. \A q \in Slots \ {r} : RunIsComplete(q)'
      BY <2>2, <3>2 DEF RunIsComplete
    <3>5. QED
      BY <1>1, <2>1, <3>3, <3>4 DEF BlocksComplete
  <2>5. QED
    BY <1>2, <2>3, <2>4 DEF EndPages, Bounce
<1>3. CASE pagers[p].for = "resync"
  <2>1. UNCHANGED <<isSynced, runs>>
    BY <1>3 DEF EndPages
  <2>2. QED
    BY <1>1, <2>1, SameBlocks
<1>4. QED
  BY <1>1, <1>2, <1>3 DEF EndPages

LEMMA AddPageComplete ==
  ASSUME StoredIInv, BlocksComplete, Accrues, UNCHANGED lastProcessed, NEW p \in Pagers,
         PageIsComplete(p), pagers[p].at \in {"page", "store"},
         NEW entries, NEW todo \in SUBSET Entry, PageHolds(pagers[p].for, todo, disk'),
         AddPage(p, entries, todo)
  PROVE  PageIsComplete(p)' /\ BlocksComplete'
<1>0. /\ pagers[p] \in PagerType /\ pagers \in [Pagers -> PagerType] /\ pagers[p].page = 1
      /\ ReadsPages(p)
  BY DEF StoredIInv, Types, PageIsComplete, ReadsPages
<1>1. ASSUME NEW e \in todo, UNCHANGED <<isSynced, runs>>,
             pagers' = [pagers EXCEPT ![p].at = "store", ![p].todo = todo,
                                      ![p].known = txmap[e.id] # Absent]
      PROVE  PageIsComplete(p)' /\ BlocksComplete'
  <2> DEFINE call == [pagers[p] EXCEPT !.at = "store", !.todo = todo, !.known = txmap[e.id] # Absent]
  <2>1. pagers' = [pagers EXCEPT ![p] = call]
    BY <1>0, <1>1
  <2>2. /\ call.at = "store" /\ call.todo = todo /\ call.page = 1
        /\ call.for = pagers[p].for /\ call.start = pagers[p].start
    BY <1>0 DEF PagerType
  <2> HIDE DEF call
  <2>3. pagers'[p] = call
    BY <1>0, <2>1
  <2>4. QED
    BY <1>0, <1>1, <2>2, <2>3, ReadsOn, SameBlocks
<1>2. ASSUME \A e \in todo : SkipsDatabase(e), EndPages(p) PROVE PageIsComplete(p)' /\ BlocksComplete'
  <2>1. ASSUME pagers[p].for = "sync", NEW t \in Relevant, Below(t, lastProcessed + 1)
        PROVE  Held(t, disk')
    <3>1. \A e \in todo : ~(e.id = t /\ Mined(e))
      <4>1. t \in Txs /\ minedAt[t] \in Nat
        BY DEF Relevant, StoredIInv, Chain
      <4>2. QED
        BY <1>2, <4>1 DEF SkipsDatabase, Mined, Unconfirmed
    <3>2. QED
      BY <2>1, <3>1 DEF PageHolds, Awaits
  <2>2. \A t \in Relevant : t \in Txs
    BY DEF Relevant
  <2>3. pagers[p].for = "sync" => HeldBelow(lastProcessed + 1)'
    BY <2>1, <2>2 DEF HeldBelow, Below, Held, Accrues
  <2>4. QED
    BY <1>0, <1>2, <2>3, EndPagesComplete
<1>3. ~(pagers[p].page > 1)
  BY <1>0
<1>4. QED
  BY <1>1, <1>2, <1>3 DEF AddPage

LEMMA OnePage ==
  ASSUME Cardinality(Txs) <= PageSize, NEW start
  PROVE  /\ Listing(start) # {} => NumPages(start) = 1
         /\ Listing(start) = {} => NumPages(start) = 0
         /\ Page(start, 1) = Listing(start)
<1> DEFINE list == Listing(start)
           n == Cardinality(list)
<1>1. IsFiniteSet(list) /\ n \in Nat /\ n <= PageSize /\ PageSize \in Nat \ {0}
  BY ListingIsFinite, SyncAssumption
<1>2. CASE list = {}
  <2>1. n = 0
    BY <1>2, FS_EmptySet
  <2>2. NumPages(start) = 0
    BY <1>1, <2>1 DEF NumPages
  <2>3. QED
    BY <1>2, <2>2 DEF Page
<1>3. CASE list # {}
  <2>1. n >= 1
    BY <1>1, <1>3, FS_EmptySet
  <2>2. (n + PageSize - 1) \div PageSize = 1
    <3> HIDE DEF n
    <3>1. QED
      BY <1>1, <2>1
  <2>3. NumPages(start) = 1
    BY <2>2 DEF NumPages
  <2>4. ASSUME NEW e \in list
        PROVE  Cardinality({f \in list : f = e \/ Older(e, f)}) \in 1 .. PageSize
    <3> DEFINE after == {f \in list : f = e \/ Older(e, f)}
    <3>1. after \subseteq list /\ after # {}
      BY <2>4
    <3> HIDE DEF after, list
    <3>2. IsFiniteSet(after) /\ Cardinality(after) <= n /\ Cardinality(after) \in Nat
      BY <1>1, <3>1, FS_Subset, FS_CardinalityType
    <3>3. Cardinality(after) # 0
      BY <3>1, <3>2, FS_EmptySet
    <3>4. QED
      BY <1>1, <3>2, <3>3 DEF after
  <2>5. Page(start, 1) = {e \in list : Cardinality({f \in list : f = e \/ Older(e, f)}) \in 1 .. PageSize}
    BY <1>1, <2>3 DEF Page
  <2>6. QED
    BY <1>3, <2>3, <2>4, <2>5
<1>4. QED
  BY <1>2, <1>3

\* What the explorer has indexed is on the page or below its start.
LEMMA ListedFromStart ==
  ASSUME StoredIInv, NEW start \in Int, NEW t \in Relevant, minedAt[t] # 0, minedAt[t] <= indexed
  PROVE  Below(t, start) \/ Awaits(t, Listing(start))
<1>1. t \in Txs /\ minedAt[t] \in Nat /\ Known(t) /\ indexed \in Nat
  BY DEF Relevant, StoredIInv, Chain
<1>2. Listed(t) = minedAt[t]
  BY <1>1 DEF Listed
<1>3. CASE minedAt[t] < start
  BY <1>3 DEF Below
<1>4. CASE minedAt[t] >= start
  <2> DEFINE e == [id |-> t, blockHeight |-> Listed(t)]
  <2>1. e \in Listing(start)
    BY <1>1, <1>2, <1>4 DEF Listing
  <2>2. e.id = t /\ Mined(e)
    BY <1>2 DEF Mined
  <2>3. QED
    BY <2>1, <2>2 DEF Awaits
<1>5. QED
  BY <1>1, <1>3, <1>4

LEMMA ListingHolds ==
  ASSUME StoredIInv, NEW p \in Pagers, PageIsComplete(p), ReadsPages(p)
  PROVE  PageHolds(pagers[p].for, Listing(pagers[p].start), disk)
<1> DEFINE list == Listing(pagers[p].start)
<1>0. pagers[p].start \in Int /\ indexed \in Nat /\ lastProcessed \in Int
  BY DEF StoredIInv, Types, PagerType, Chain
<1>1. ASSUME NEW h \in Int, h <= indexed + 1, NEW t \in Relevant, Below(t, h)
      PROVE  Below(t, pagers[p].start) \/ Awaits(t, list)
  <2>1. minedAt[t] # 0 /\ minedAt[t] <= indexed
    BY <1>0, <1>1 DEF Below, Relevant, StoredIInv, Chain
  <2>2. QED
    BY <1>0, <2>1, ListedFromStart
<1>2. /\ StoredBelow(pagers[p].start)
      /\ pagers[p].for = "sync" => HeldBelow(pagers[p].start) /\ lastProcessed <= indexed
  BY DEF PageIsComplete, ReadsPages
<1>3. ASSUME pagers[p].for = "sync", NEW t \in Relevant, Below(t, lastProcessed + 1)
      PROVE  Held(t, disk) \/ Awaits(t, list)
  <2>1. lastProcessed + 1 <= indexed + 1 /\ HeldBelow(pagers[p].start)
    BY <1>0, <1>2, <1>3
  <2>2. Below(t, pagers[p].start) \/ Awaits(t, list)
    BY <1>0, <1>1, <1>3, <2>1
  <2>3. QED
    BY <2>1, <2>2 DEF HeldBelow
<1>4. ASSUME NEW e \in list, Mined(e), NEW t \in Relevant, Below(t, e.blockHeight)
      PROVE  disk[t] # Absent \/ Awaits(t, list)
  <2>0. e \in Entry /\ e.blockHeight = Listed(e.id)
    BY PageIsListed
  <2>1. e.id \in Txs /\ e.blockHeight = minedAt[e.id] /\ e.blockHeight = Listed(e.id)
    BY <1>4, <2>0 DEF Mined, Entry
  <2>2. minedAt[e.id] \in Nat
    BY <2>1 DEF StoredIInv, Chain
  <2>3. e.blockHeight \in Int /\ e.blockHeight <= indexed + 1
    BY <1>0, <2>1, <2>2 DEF Listed, Unconfirmed
  <2>4. Below(t, pagers[p].start) \/ Awaits(t, list)
    BY <1>1, <1>4, <2>3
  <2>5. QED
    BY <1>2, <2>4 DEF StoredBelow
<1>5. QED
  BY <1>3, <1>4 DEF PageHolds

LEMMA CountComplete ==
  ASSUME Cardinality(Txs) <= PageSize, StoredIInv, BlocksComplete, Accrues, NEW p \in Pagers,
         PageIsComplete(p), CountAnswer(p)
  PROVE  PageIsComplete(p)' /\ BlocksComplete'
<1>0. /\ UNCHANGED <<lastProcessed, disk, txmap>> /\ pagers[p].at = "count" /\ ReadsPages(p)
      /\ pagers \in [Pagers -> PagerType] /\ pagers[p] \in PagerType
  BY DEF CountAnswer, mempool, ReadsPages, StoredIInv, Types
<1>1. CASE Listing(pagers[p].start) = {} /\ EndPages(p)
  <2>1. PageHolds(pagers[p].for, {}, disk)
    BY <1>0, <1>1, ListingHolds
  <2>2. \A t \in Relevant : t \in Txs
    BY DEF Relevant
  <2>3. pagers[p].for = "sync" => HeldBelow(lastProcessed + 1)'
    BY <1>0, <2>1, <2>2 DEF PageHolds, Awaits, HeldBelow, Held, Below, Accrues
  <2>4. QED
    BY <1>0, <1>1, <2>3, EndPagesComplete
<1>2. CASE Listing(pagers[p].start) # {}
  <2> DEFINE call == [pagers[p] EXCEPT !.at = "page", !.page = 1]
  <2>1. NumPages(pagers[p].start) = 1
    BY <1>2, OnePage
  <2>2. UNCHANGED <<isSynced, runs>> /\ pagers' = [pagers EXCEPT ![p] = call]
    <3>1. /\ UNCHANGED <<isSynced, runs>>
          /\ pagers' = [pagers EXCEPT ![p].at = "page", ![p].page = 1]
      <4>1. 1 > 0 /\ 1 # 0
        OBVIOUS
      <4>2. QED
        BY <2>1, <4>1, Zenon DEF CountAnswer
    <3>2. QED
      BY <1>0, <3>1
  <2>3. call.at = "page" /\ call.page = 1 /\ call.for = pagers[p].for /\ call.start = pagers[p].start
    BY <1>0 DEF PagerType
  <2> HIDE DEF call
  <2>4. pagers'[p] = call
    BY <1>0, <2>2
  <2>5. QED
    BY <1>0, <2>2, <2>3, <2>4, ReadsOn, SameBlocks
<1>3. Listing(pagers[p].start) = {} => EndPages(p)
  BY OnePage DEF CountAnswer
<1>4. QED
  BY <1>1, <1>2, <1>3

LEMMA PageComplete ==
  ASSUME Cardinality(Txs) <= PageSize, StoredIInv, BlocksComplete, WrittenIsKnown, Accrues,
         NEW p \in Pagers, PageIsComplete(p), PageAnswer(p) \/ PageStored(p)
  PROVE  PageIsComplete(p)' /\ BlocksComplete'
<1>1. CASE PageAnswer(p)
  <2>1. /\ UNCHANGED <<lastProcessed, disk>> /\ pagers[p].at = "page"
        /\ AddPage(p, history, Page(pagers[p].start, pagers[p].page))
    BY <1>1 DEF PageAnswer
  <2>2. Page(pagers[p].start, pagers[p].page) = Listing(pagers[p].start) /\ ReadsPages(p)
    BY <2>1, OnePage DEF PageIsComplete, ReadsPages
  <2>3. PageHolds(pagers[p].for, Listing(pagers[p].start), disk')
    BY <2>1, <2>2, ListingHolds
  <2>4. QED
    BY <2>1, <2>2, <2>3, PageIsListed, AddPageComplete
<1>2. CASE PageStored(p)
  <2>1. UNCHANGED lastProcessed /\ pagers[p].at = "store"
    BY <1>2 DEF PageStored
  <2>2. PICK e \in pagers[p].todo :
          /\ e.id \in Txs /\ e.blockHeight # Absent
          /\ \A t \in Txs : disk'[t] = IF t = e.id THEN e.blockHeight ELSE disk[t]
          /\ \A t : PagerWrites(p, t) <=> t = e.id
          /\ pagers[p].todo \ {e} \in SUBSET Entry
          /\ AddPage(p, Push(history, e.id, pagers[p].known), pagers[p].todo \ {e})
    BY <1>2, PageWritten
  <2>3. txmap[e.id] # Absent /\ disk'[e.id] # Absent
    BY <2>2 DEF WrittenIsKnown, Writes
  <2>4. PageHolds(pagers[p].for, pagers[p].todo, disk)
    BY <2>1 DEF PageIsComplete
  <2>5. \A t \in Relevant : t \in Txs
    BY DEF Relevant
  <2>6. \A t \in Relevant : Awaits(t, pagers[p].todo) => t = e.id \/ Awaits(t, pagers[p].todo \ {e})
    BY DEF Awaits
  <2>7. PageHolds(pagers[p].for, pagers[p].todo \ {e}, disk')
    BY <2>3, <2>4, <2>5, <2>6 DEF PageHolds, Held, Accrues
  <2>8. QED
    BY <2>1, <2>2, <2>7, AddPageComplete
<1>3. QED
  BY <1>1, <1>2

LEMMA DiskAnswerComplete ==
  ASSUME Lag <= Margin, StoredIInv, StoredIInv', ~Disturbed, Order, DiskIsComplete,
         HeightsAreStored, BlocksComplete, Accrues, NEW p \in Pagers, PageIsComplete(p),
         DiskAnswer(p)
  PROVE  PageIsComplete(p)' /\ BlocksComplete'
<1> DEFINE at == IF isSynced THEN "skip" ELSE "count"
           first == StartHeight(txmap')
           call == [pagers[p] EXCEPT !.at = at, !.start = first]
<1>0. /\ UNCHANGED <<disk, runs, isSynced, blockCount>>
      /\ pagers[p].at = "disk" /\ pagers[p].for = "sync"
      /\ InMempool(StoredTxs, disk) /\ lastProcessed' = blockCount - Margin
      /\ pagers' = [pagers EXCEPT ![p] = call]
  BY DEF DiskAnswer, Added, FirstRead, StoredIInv, Types
<1>1. ~isSynced
  BY <1>0 DEF PageIsComplete
<1>2. \A r \in Slots : runs[r].at = "none"
  BY <1>1 DEF BlocksComplete, RunIsComplete
<1>3. BlocksComplete'
  <2>1. \A r \in Slots : RunIsComplete(r)'
    BY <1>0, <1>2 DEF RunIsComplete
  <2>2. ~isSynced'
    BY <1>0, <1>1
  <2>3. QED
    BY <2>1, <2>2 DEF BlocksComplete
<1>4. \A t \in Txs : txmap'[t] = IF disk[t] # Absent THEN disk[t] ELSE txmap[t]
  BY <1>0 DEF InMempool, StoredTxs, StoredIInv, Types
<1>5. PICK start : start = StartHeight(txmap')
  OBVIOUS
<1>6. /\ start \in 0 .. MaxHeight /\ start <= tip
      /\ start = 0 \/ \E t \in Txs : txmap'[t] = start
  <2>1. txmap' \in [Txs -> Int] /\ \A t \in Txs : txmap'[t] <= tip \/ txmap'[t] = Absent
    BY DEF StoredIInv, Types, MempoolIsKnown, Accrues
  <2>2. tip \in 0 .. MaxHeight /\ MaxHeight \in Nat
    BY SyncAssumption DEF StoredIInv, Chain
  <2>3. \A t \in Txs : txmap'[t] <= MaxHeight
    BY <2>1, <2>2 DEF Absent
  <2>4. start \in 0 .. MaxHeight /\ (start = 0 \/ \E t \in Txs : txmap'[t] = start)
    BY <1>5, <2>1, <2>3, StartIsGreatest
  <2>5. start <= tip
    BY <2>1, <2>2, <2>4 DEF Absent
  <2>6. QED
    BY <2>4, <2>5
<1>7. StoredBelow(start)
  <2>1. CASE start = 0
    <3>1. \A t \in Relevant : minedAt[t] \in Nat
      BY DEF Relevant, StoredIInv, Chain
    <3>2. QED
      BY <2>1, <3>1 DEF StoredBelow, Below
  <2>2. ASSUME NEW u \in Txs, txmap'[u] = start PROVE StoredBelow(start)
    <3>1. CASE disk[u] # Absent
      BY <1>4, <2>2, <3>1 DEF DiskIsComplete
    <3>2. CASE disk[u] = Absent
      <4>1. txmap[u] >= 0
        BY <1>4, <1>6, <2>2, <3>2
      <4>2. Writes(u)
        BY <3>2, <4>1 DEF HeightsAreStored
      <4>3. \A q \in Pagers : pagers[q].at # "store"
        BY <1>0, CallIsAlone
      <4>4. QED
        BY <1>2, <4>2, <4>3 DEF Writes, PagerWrites, RunWrites
    <3>3. QED
      BY <3>1, <3>2
  <2>3. QED
    BY <1>6, <2>1, <2>2
<1>8. \A t \in Relevant : t \in Txs
  BY DEF Relevant
<1>9. StoredBelow(start)' /\ HeldBelow(start)'
  BY <1>0, <1>4, <1>7, <1>8 DEF StoredBelow, HeldBelow, Held, Below, Accrues
<1>10. call.at = "count" /\ call.for = "sync" /\ call.start = start
  <2> HIDE DEF first
  <2>1. call.start = first
    BY DEF StoredIInv, Types, PagerType
  <2>2. call.at = "count" /\ call.for = "sync"
    BY <1>0, <1>1 DEF StoredIInv, Types, PagerType
  <2>3. QED
    BY <1>5, <2>1, <2>2 DEF first
<1> HIDE DEF call, at, first
<1>11. pagers'[p].at = "count" /\ pagers'[p].for = "sync" /\ pagers'[p].start = start
  BY <1>0, <1>10 DEF StoredIInv, Types
<1>12. StoredBelow(pagers[p].start)' /\ HeldBelow(pagers[p].start)' /\ pagers'[p].start <= tip'
  BY <1>6, <1>9, <1>11 DEF StoredBelow, HeldBelow, Below, Accrues
<1>13. lastProcessed' <= indexed'
  BY <1>0, SyncAssumption DEF StoredIInv, Types, Chain, Order, Accrues
<1>14. PageIsComplete(p)'
  BY <1>0, <1>1, <1>11, <1>12, <1>13 DEF PageIsComplete, ReadsPages
<1>15. QED
  BY <1>3, <1>14

\* No page is read while a run reads blocks.
LEMMA RunStepPages ==
  ASSUME PagesComplete, StoredIInv, isSynced, UNCHANGED isSynced, NEW r \in Slots,
         Return(r) \/ UNCHANGED pagers
  PROVE  PagesComplete'
<1> SUFFICES ASSUME NEW p \in Pagers PROVE PageIsComplete(p)'
  BY DEF PagesComplete
<1>1. pagers'[p] = pagers[p] \/ pagers'[p] = NoPager
  BY DEF Return, EndSync, StoredIInv, Types
<1>2. CASE pagers'[p] = NoPager
  BY <1>2, IdlePages, NothingTodo
<1>3. CASE pagers'[p] = pagers[p]
  <2>1. pagers[p].for \in {"sync", "resync"}
    BY DEF StoredIInv, Types, PagerType
  <2>2. pagers[p].at # "none" =>
          \/ pagers[p].for = "sync" /\ pagers[p].at = "blocks"
          \/ pagers[p].for = "resync" /\ pagers[p].at = "disk" /\ pagers[p].start = 0
    BY <2>1 DEF PagesComplete, PageIsComplete
  <2>3. QED
    BY <1>3, <2>2, IdlePages
<1>4. QED
  BY <1>1, <1>2, <1>3

LEMMA BlockAnswerComplete ==
  ASSUME StoredIInv, Order, StatusIsExact, PagesComplete, BlocksComplete, Accrues,
         NEW r \in Slots, BlockAnswer(r)
  PROVE  PagesComplete' /\ BlocksComplete'
<1>0. /\ UNCHANGED <<isSynced, disk>> /\ runs[r].at = "block" /\ runs[r].height \in 0 .. tip
      /\ HandleBlock(r, history, Block(runs[r].height))
  BY DEF BlockAnswer
<1>1. isSynced
  BY <1>0 DEF BlocksComplete, RunIsComplete
<1>2. PICK h \in Int : h = runs[r].height /\ h <= tip
  BY <1>0 DEF StoredIInv, Types, RunType, Chain
<1>3. BlockHolds(h, Block(h), disk')
  <2> SUFFICES ASSUME NEW t \in Relevant, minedAt[t] # 0, minedAt[t] = h PROVE Awaits(t, Block(h))
    BY DEF BlockHolds
  <2> DEFINE e == [id |-> t, blockHeight |-> h]
  <2>1. t \in Txs /\ h > 0
    BY DEF Relevant, StoredIInv, Chain
  <2>2. e \in Block(h)
    BY <2>1 DEF Block
  <2>3. e.id = t /\ Mined(e)
    BY DEF Mined
  <2>4. QED
    BY <2>2, <2>3 DEF Awaits
<1>4. Block(h) \in SUBSET Entry /\ \A e \in Block(h) : Known(e.id) /\ Mined(e) /\ e.blockHeight = h
  BY BlockIsMined
<1>5. BlocksComplete'
  BY <1>0, <1>2, <1>3, <1>4, HandleBlockComplete
<1>6. Return(r) \/ UNCHANGED pagers
  BY <1>0 DEF HandleBlock
<1>7. QED
  BY <1>0, <1>1, <1>5, <1>6, RunStepPages

LEMMA BlockStoredComplete ==
  ASSUME StoredIInv, Order, StatusIsExact, WrittenIsKnown, PagesComplete, BlocksComplete,
         Accrues, NEW r \in Slots, BlockStored(r)
  PROVE  PagesComplete' /\ BlocksComplete'
<1>0. UNCHANGED isSynced /\ runs[r].at = "store"
  BY DEF BlockStored
<1>1. PICK h \in Int : h = runs[r].height
  BY DEF StoredIInv, Types, RunType
<1>2. /\ isSynced /\ h <= tip /\ BlockHolds(h, runs[r].todo, disk)
      /\ \A e \in runs[r].todo : e.blockHeight = h
  BY <1>0, <1>1 DEF BlocksComplete, RunIsComplete
<1>3. PICK e \in runs[r].todo :
        /\ e.id \in Txs /\ e.blockHeight # Absent
        /\ \A t \in Txs : disk'[t] = IF t = e.id THEN e.blockHeight ELSE disk[t]
        /\ \A t : RunWrites(r, t) <=> t = e.id
        /\ runs[r].todo \ {e} \in SUBSET Entry
        /\ HandleBlock(r, Push(history, e.id, runs[r].known), runs[r].todo \ {e})
  BY BlockWritten
<1>4. txmap[e.id] # Absent /\ disk'[e.id] # Absent
  BY <1>3 DEF WrittenIsKnown, Writes
<1>5. \A t \in Relevant : t \in Txs /\ (Awaits(t, runs[r].todo) => t = e.id \/ Awaits(t, runs[r].todo \ {e}))
  BY DEF Awaits, Relevant
<1>6. BlockHolds(h, runs[r].todo \ {e}, disk')
  BY <1>2, <1>4, <1>5 DEF BlockHolds, Held, Accrues
<1>7. \A f \in runs[r].todo \ {e} : Known(f.id) /\ Mined(f) /\ f.blockHeight = h
  BY <1>2 DEF StoredIInv, BlocksAreMined
<1>8. BlocksComplete'
  BY <1>0, <1>1, <1>2, <1>3, <1>6, <1>7, HandleBlockComplete
<1>9. Return(r) \/ UNCHANGED pagers
  BY <1>3 DEF HandleBlock
<1>10. QED
  BY <1>0, <1>2, <1>8, <1>9, RunStepPages

LEMMA BlockFailsComplete ==
  ASSUME StoredIInv, Phases, PagesComplete, BlocksComplete, Accrues, NEW r \in Slots, BlockFails(r)
  PROVE  PagesComplete' /\ BlocksComplete'
<1>1. /\ UNCHANGED <<isSynced, lastProcessed>> /\ runs'[r] = NoRun
      /\ \A q \in Slots \ {r} : runs'[q] = runs[q]
      /\ Return(r)
  BY BlockFailsRuns
<1>2. isSynced
  BY DEF BlockFails, BlocksComplete, RunIsComplete
<1>3. lastProcessed' <= tip /\ runs'[r].at = "none"
  BY <1>1, <1>2 DEF BlocksComplete, NoRun
<1>4. HeldBelow(lastProcessed + 1)'
  <2>1. \A t \in Relevant : t \in Txs
    BY DEF Relevant
  <2>2. QED
    BY <1>1, <1>2, <2>1 DEF BlocksComplete, HeldBelow, Held, Below, Accrues
<1>5. BlocksComplete'
  BY <1>1, <1>2, <1>3, <1>4, RunsComplete
<1>6. QED
  BY <1>1, <1>2, <1>5, RunStepPages

LEMMA RefreshComplete ==
  ASSUME StoredIInv, PagesComplete, BlocksComplete, Accrues, Refresh
  PROVE  PagesComplete' /\ BlocksComplete'
<1>1. /\ UNCHANGED <<isSynced, lastProcessed, pagers>>
      /\ UNCHANGED runs \/ (isSynced /\ \E n : Enter(0, n))
  BY DEF Refresh, Bounce
<1>2. PagesComplete'
  BY <1>1, SamePages
<1>3. ASSUME isSynced, NEW n, Enter(0, n) PROVE BlocksComplete'
  <2>1. lastProcessed <= tip
    BY <1>3 DEF BlocksComplete
  <2>2. HeldBelow(lastProcessed + 1)'
    <3>1. \A t \in Relevant : t \in Txs
      BY DEF Relevant
    <3>2. QED
      BY <1>1, <1>3, <3>1 DEF BlocksComplete, HeldBelow, Held, Below, Accrues
  <2>3. PICK r \in Slots : RunHolds(runs[r])' /\ \A q \in Slots \ {r} : runs'[q] = runs[q]
    BY <1>1, <1>3, <2>1, <2>2, EnterComplete
  <2>4. QED
    BY <1>1, <1>3, <2>1, <2>2, <2>3, RunsComplete
<1>4. QED
  BY <1>1, <1>2, <1>3, SameBlocks

LEMMA CallsComplete ==
  ASSUME StoredIInv, ~Disturbed', PagesComplete, BlocksComplete, Accrues,
         CallSync \/ CallResync \/ Send \/ SendAnswer \/ SendFails
  PROVE  PagesComplete' /\ BlocksComplete'
<1>1. UNCHANGED <<isSynced, lastProcessed, runs>>
  BY DEF CallSync, CallResync, Send, SendAnswer, SendFails
<1>2. BlocksComplete'
  BY <1>1, SameBlocks
<1>3. ASSUME NEW p \in Pagers, NEW for \in {"sync", "resync"}, Begins(p, for),
             for = "sync" => ~isSynced
      PROVE  PagesComplete'
  <2>1. pagers'[p] = Pager("disk", for)
    BY <1>3 DEF Begins, StoredIInv, Types
  <2>2. pagers'[p].at = "disk" /\ pagers'[p].for = for /\ pagers'[p].start = 0
    BY <2>1 DEF Pager
  <2>3. \A q \in Pagers \ {p} : pagers'[q].at = "none"
    BY <2>2 DEF Disturbed, Running
  <2>4. PageIsComplete(p)'
    BY <1>1, <1>3, <2>2, IdlePages
  <2>5. QED
    BY <2>3, <2>4, IdlePages DEF PagesComplete
<1>4. CASE UNCHANGED pagers
  BY <1>1, <1>2, <1>4, SamePages
<1>5. UNCHANGED pagers \/ \E p \in Pagers, for \in {"sync", "resync"} :
                            Begins(p, for) /\ (for = "sync" => ~isSynced)
  BY DEF CallSync, CallResync, Send, SendAnswer, SendFails
<1>6. QED
  BY <1>2, <1>3, <1>4, <1>5

\* A step of the only call.
LEMMA PagerStepComplete ==
  ASSUME Cardinality(Txs) <= PageSize, Lag <= Margin, CoinsIInv, StoredIInv', Accrues,
         NEW p \in Pagers, PagerStep(p), ~ResyncStarts(p)
  PROVE  PagesComplete' /\ BlocksComplete'
<1> USE DEF CoinsIInv
<1>1. PageIsComplete(p)
  BY DEF PagesComplete
<1>2. pagers[p].at \in {"disk", "skip", "count", "page", "store"}
  BY DEF PagerStep, DiskAnswer, SkipPages, CountAnswer, PageAnswer, PageStored, PagesFail
<1>3. pagers[p].at # "skip"
  BY <1>1, <1>2 DEF PageIsComplete
<1>4. ASSUME PagesFail(p) PROVE PageIsComplete(p)' /\ BlocksComplete'
  <2>1. UNCHANGED <<isSynced, lastProcessed, runs>> /\ pagers'[p] = NoPager
    BY <1>4 DEF PagesFail, StoredIInv, Types
  <2>2. QED
    BY <2>1, IdlePages, NothingTodo, SameBlocks
<1>5. PageIsComplete(p)' /\ BlocksComplete'
  BY <1>1, <1>3, <1>4, DiskAnswerComplete, CountComplete, PageComplete DEF PagerStep, SkipPages
<1>6. \A q \in Pagers \ {p} : pagers'[q].at = "none"
  BY <1>2, CallIsAlone, OtherPagers
<1>7. \A q \in Pagers \ {p} : PageIsComplete(q)'
  BY <1>6, IdlePages
<1>8. QED
  BY <1>5, <1>7 DEF PagesComplete

LEMMA EmptiesComplete ==
  ASSUME StoredIInv, ~Disturbed, ~Disturbed', PagesComplete, Empties
  PROVE  PagesComplete' /\ BlocksComplete'
<1>1. ~isSynced' /\ \A r \in Slots : runs'[r].at = "none"
  BY ResyncAlone, NothingTodo DEF Empties, ResyncStarts, Reload
<1>2. BlocksComplete'
  BY <1>1 DEF BlocksComplete, RunIsComplete
<1>3. CASE Reload
  <2>1. \A p \in Pagers : pagers'[p] = NoPager
    BY <1>3 DEF Reload
  <2>2. QED
    BY <1>2, <2>1, IdlePages, NothingTodo DEF PagesComplete
<1>4. ASSUME NEW p \in Pagers, ResyncStarts(p) PROVE PagesComplete'
  <2> DEFINE call == [pagers[p] EXCEPT !.at = "count"]
  <2>1. /\ pagers[p].for = "resync" /\ pagers[p].at = "disk" /\ UNCHANGED node
        /\ pagers' = [pagers EXCEPT ![p] = call] /\ pagers \in [Pagers -> PagerType]
    BY <1>4 DEF ResyncStarts, StoredIInv, Types
  <2>2. pagers[p].start = 0
    BY <2>1 DEF PagesComplete, PageIsComplete
  <2>3. call.for = "resync" /\ call.at = "count" /\ call.start = 0
    BY <2>1, <2>2 DEF PagerType
  <2> HIDE DEF call
  <2>4. pagers'[p].for = "resync" /\ pagers'[p].at = "count" /\ pagers'[p].start = 0
    BY <2>1, <2>3
  <2>5. \A t \in Relevant : minedAt'[t] \in Nat
    BY <2>1 DEF Relevant, StoredIInv, Chain, node
  <2>6. StoredBelow(pagers[p].start)' /\ pagers'[p].start <= tip'
    BY <2>1, <2>4, <2>5 DEF StoredBelow, Below, StoredIInv, Chain, node
  <2>7. PageIsComplete(p)'
    BY <1>1, <2>4, <2>6 DEF PageIsComplete, ReadsPages
  <2>8. \A q \in Pagers \ {p} : PageIsComplete(q)'
    <3>1. \A q \in Pagers \ {p} : pagers'[q].at = "none"
      BY <2>1, CallIsAlone
    <3>2. QED
      BY <3>1, IdlePages
  <2>9. QED
    BY <2>7, <2>8 DEF PagesComplete
<1>5. QED
  BY <1>2, <1>3, <1>4 DEF Empties

LEMMA CompleteStep ==
  ASSUME Cardinality(Txs) <= PageSize, Lag <= Margin, CoinsIInv, StoredIInv', ~Disturbed', WalletStep
  PROVE  PagesComplete' /\ BlocksComplete'
<1> USE DEF CoinsIInv
<1>1. CASE Empties
  BY <1>1, EmptiesComplete
<1>2. CASE Accrues /\ ~Empties
  BY <1>2, PagerStepComplete, BlockAnswerComplete, BlockStoredComplete, BlockFailsComplete,
     RefreshComplete, CallsComplete DEF WalletStep, Empties
<1>3. QED
  BY <1>1, <1>2, WalletAccrues

LEMMA WalletKeepsCoins ==
  ASSUME Cardinality(Txs) <= PageSize, Lag <= Margin, CoinsIInv, ~Disturbed', WalletStep
  PROVE  CoinsIInv'
<1>1. StoredIInv'
  BY WalletKeepsStored DEF CoinsIInv
<1>2. UNCHANGED node
  BY WalletAccrues, SameChain DEF CoinsIInv, Accrues, Empties, ResyncStarts, Reload
<1>3. Order' /\ Phases' /\ StatusIsExact' /\ DiskIsComplete'
  BY <1>2, SameNodeOrder, PhasesStep, StatusStep, DiskStep DEF CoinsIInv
<1>4. HeightsAreStored' /\ WrittenIsKnown'
  BY WalletAccrues, WritesStep, WritesEmpty DEF CoinsIInv
<1>5. QED
  BY <1>1, <1>3, <1>4, CompleteStep DEF CoinsIInv

LEMMA NodeKeepsCoins == ASSUME CoinsIInv, NodeStep PROVE CoinsIInv'
<1>0. StoredIInv /\ StoredIInv'
  BY NodeKeepsStored DEF CoinsIInv
<1>1. Grows /\ UNCHANGED <<memory, disk>> /\ Order'
  BY <1>0, NodeGrows, NodeOrder DEF CoinsIInv, StoredIInv, Types
<1>2. UNCHANGED <<pagers, runs, isSynced, eventsOn, lastProcessed, txmap, status, disk>>
  BY <1>1 DEF memory, mempool
<1>3. /\ \A h \in Int : h <= tip + 1 =>
           (StoredBelow(h) => StoredBelow(h)') /\ (HeldBelow(h) => HeldBelow(h)')
      /\ \A t \in Txs : minedAt'[t] # 0 /\ minedAt'[t] <= tip => minedAt[t] = minedAt'[t]
      /\ \A e \in Entry : (Mined(e) => Mined(e)') /\ (Mined(e)' /\ Told(e) => Mined(e))
  BY <1>0, NodeHolds
<1>4. /\ tip \in Nat /\ tip' \in Nat /\ tip <= tip' /\ indexed <= indexed'
      /\ indexed \in Nat /\ indexed' \in Nat /\ indexed <= tip
      /\ \A t \in Txs : minedAt[t] \in Nat /\ minedAt'[t] \in Nat
  BY <1>0, <1>1 DEF StoredIInv, Chain, Grows
<1>5. \A t \in Relevant : t \in Txs
  BY DEF Relevant
<1>6. \A h \in Int : \A t \in Relevant : h <= tip + 1 /\ Below(t, h)' => Below(t, h)
  BY <1>3, <1>4, <1>5 DEF Below
<1>7. DiskIsComplete'
  <2> SUFFICES ASSUME NEW t \in Txs, disk[t] # Absent PROVE StoredBelow(disk[t])'
    BY <1>2 DEF DiskIsComplete
  <2>1. PICK h : h = disk[t]
    OBVIOUS
  <2>2. h \in Int /\ h <= tip /\ StoredBelow(h)
    BY <1>0, <2>1 DEF CoinsIInv, DiskIsComplete, StoredIInv, DiskIsMined, Chain
  <2>3. StoredBelow(h)'
    BY <1>3, <1>4, <2>2
  <2>4. QED
    BY <1>2, <2>1, <2>3 DEF StoredBelow, Below
<1>8. HeightsAreStored' /\ WrittenIsKnown'
  BY <1>0, <1>2, WritesGrow DEF CoinsIInv, HeightsAreStored, WrittenIsKnown
<1>9. ASSUME NEW S \in SUBSET Entry, NEW t \in Relevant, Awaits(t, S) PROVE Awaits(t, S)'
  BY <1>3, <1>9 DEF Awaits
<1>10. ASSUME NEW p \in Pagers PROVE PageIsComplete(p)'
  <2>1. CASE ReadsPages(p)
    <3>1. /\ pagers[p].start \in Int /\ pagers[p].start <= tip /\ StoredBelow(pagers[p].start)
          /\ pagers[p].for = "sync" => HeldBelow(pagers[p].start) /\ lastProcessed <= indexed
          /\ lastProcessed \in Int /\ pagers[p].todo \in SUBSET Entry
          /\ \A e \in pagers[p].todo : Told(e)
      BY <1>0, <2>1 DEF CoinsIInv, PagesComplete, PageIsComplete, ReadsPages, StoredIInv, Types, PagerType, PagesAreTold
    <3>2. PICK start \in Int : start = pagers[p].start
      BY <3>1
    <3>3. StoredBelow(start)' /\ (pagers[p].for = "sync" => HeldBelow(start)')
      BY <1>3, <1>4, <3>1, <3>2
    <3>4. StoredBelow(pagers[p].start)' /\ (pagers[p].for = "sync" => HeldBelow(pagers[p].start)')
      BY <1>2, <3>2, <3>3 DEF StoredBelow, HeldBelow, Below
    <3>5. ASSUME pagers[p].at = "store" PROVE PageHolds(pagers[p].for, pagers[p].todo, disk)'
      <4>1. PageHolds(pagers[p].for, pagers[p].todo, disk)
        BY <3>5 DEF CoinsIInv, PagesComplete, PageIsComplete, ReadsPages
      <4>2. PICK todo \in SUBSET Entry : todo = pagers[p].todo
        BY <3>1
      <4>3. ASSUME pagers[p].for = "sync", NEW t \in Relevant, Below(t, lastProcessed + 1)'
            PROVE  Held(t, disk)' \/ Awaits(t, todo)'
        <5>1. PICK h \in Int : h = lastProcessed + 1
          BY <3>1
        <5>2. Below(t, h)
          BY <1>2, <1>4, <1>6, <3>1, <4>3, <5>1 DEF Below
        <5>3. Held(t, disk) \/ Awaits(t, todo)
          BY <4>1, <4>2, <4>3, <5>1, <5>2 DEF PageHolds
        <5>4. QED
          BY <1>2, <1>9, <5>3 DEF Held
      <4>4. ASSUME NEW e \in todo, Mined(e)', NEW t \in Relevant, Below(t, e.blockHeight)'
            PROVE  disk'[t] # Absent \/ Awaits(t, todo)'
        <5>1. Mined(e) /\ e \in Entry
          BY <1>3, <3>1, <4>2, <4>4
        <5>2. e.blockHeight \in Int /\ e.blockHeight <= tip
          BY <1>0, <5>1 DEF Mined, Entry, StoredIInv, Chain
        <5>3. Below(t, e.blockHeight)
          BY <1>4, <1>6, <4>4, <5>2
        <5>4. disk[t] # Absent \/ Awaits(t, todo)
          BY <4>1, <4>2, <5>1, <5>3 DEF PageHolds
        <5>5. QED
          BY <1>2, <1>9, <5>4
      <4>5. QED
        BY <1>2, <4>2, <4>3, <4>4 DEF PageHolds, Awaits, Held
    <3>6. QED
      BY <1>2, <1>4, <3>1, <3>4, <3>5 DEF CoinsIInv, PagesComplete, PageIsComplete, ReadsPages
  <2>2. CASE ~ReadsPages(p)
    BY <1>2, <2>2 DEF CoinsIInv, PagesComplete, PageIsComplete, ReadsPages
  <2>3. QED
    BY <2>1, <2>2
<1>11. ASSUME NEW r \in Slots PROVE RunIsComplete(r)'
  <2> SUFFICES ASSUME runs[r].at # "none" PROVE RunIsComplete(r)'
    BY <1>2 DEF RunIsComplete
  <2>1. PICK h \in Int : h = runs[r].height
    BY <1>0 DEF StoredIInv, Types, RunType
  <2>2. PICK todo \in SUBSET Entry : todo = runs[r].todo
    BY <1>0 DEF StoredIInv, Types, RunType
  <2>3. /\ isSynced /\ h <= tip + 1 /\ HeldBelow(h) /\ \A e \in todo : e.blockHeight = h
        /\ runs[r].at = "store" => h <= tip /\ BlockHolds(h, todo, disk)
    BY <2>1, <2>2 DEF CoinsIInv, BlocksComplete, RunIsComplete
  <2>4. HeldBelow(runs[r].height)'
    <3>1. HeldBelow(h)'
      BY <1>3, <2>3
    <3>2. QED
      BY <1>2, <2>1, <3>1 DEF HeldBelow, Below
  <2>5. ASSUME runs[r].at = "store" PROVE BlockHolds(runs[r].height, runs[r].todo, disk)'
    <3>1. ASSUME NEW t \in Relevant, minedAt'[t] # 0, minedAt'[t] = h
          PROVE  Held(t, disk)' \/ Awaits(t, todo)'
      <4>1. minedAt[t] = h /\ minedAt[t] # 0
        BY <1>3, <1>4, <1>5, <2>3, <2>5, <3>1
      <4>2. Held(t, disk) \/ Awaits(t, todo)
        BY <2>3, <2>5, <4>1 DEF BlockHolds
      <4>3. QED
        BY <1>2, <1>9, <4>2 DEF Held
    <3>2. QED
      BY <1>2, <2>1, <2>2, <3>1 DEF BlockHolds, Held, Awaits
  <2>6. runs'[r].height <= tip' + 1 /\ (runs[r].at = "store" => runs'[r].height <= tip')
    BY <1>2, <1>4, <2>1, <2>3
  <2>7. QED
    BY <1>2, <2>1, <2>2, <2>3, <2>4, <2>5, <2>6 DEF RunIsComplete
<1>12. isSynced' => lastProcessed' <= tip' /\ HeldBelow(lastProcessed + 1)'
  <2> SUFFICES ASSUME isSynced PROVE lastProcessed <= tip' /\ HeldBelow(lastProcessed + 1)'
    BY <1>2
  <2>1. lastProcessed \in Int /\ lastProcessed <= tip /\ HeldBelow(lastProcessed + 1)
    BY <1>0 DEF CoinsIInv, BlocksComplete, StoredIInv, Types
  <2>2. PICK h \in Int : h = lastProcessed + 1
    BY <2>1
  <2>3. HeldBelow(h)'
    BY <1>3, <1>4, <2>1, <2>2
  <2>4. QED
    BY <1>2, <1>4, <2>1, <2>2, <2>3 DEF HeldBelow, Below
<1>13. PagesComplete' /\ BlocksComplete'
  BY <1>10, <1>11, <1>12 DEF PagesComplete, BlocksComplete
<1>14. StatusIsExact' /\ Phases' /\ ~Disturbed'
  BY <1>2 DEF CoinsIInv, StatusIsExact, StatusAfter, Phases, Disturbed, Running
<1>15. QED
  BY <1>0, <1>1, <1>7, <1>8, <1>13, <1>14 DEF CoinsIInv

LEMMA SameCoins == ASSUME CoinsIInv, UNCHANGED vars PROVE CoinsIInv'
<1>1. UNCHANGED <<node, accepted, minedAt, tip, indexed, pagers, runs, isSynced, eventsOn,
                  lastProcessed, txmap, status, disk>>
  BY DEF vars, memory, mempool, node
<1>2. Accrues /\ StoredIInv'
  BY <1>1, NextStored DEF CoinsIInv, Accrues
<1>3. Order' /\ Phases' /\ ~Disturbed' /\ StatusIsExact' /\ DiskIsComplete'
  BY <1>1, SameNodeOrder
     DEF CoinsIInv, Phases, Disturbed, Running, StatusIsExact, StatusAfter, DiskIsComplete,
         StoredBelow, Below
<1>4. HeightsAreStored' /\ WrittenIsKnown'
  BY <1>1, SamePagerWrites, SameRunWrites DEF CoinsIInv, HeightsAreStored, WrittenIsKnown, Writes
<1>5. PagesComplete' /\ BlocksComplete'
  BY <1>1, <1>2, SamePages, SameBlocks DEF CoinsIInv
<1>6. QED
  BY <1>2, <1>3, <1>4, <1>5 DEF CoinsIInv

LEMMA InitCoins == Init => CoinsIInv
<1> SUFFICES ASSUME Init PROVE CoinsIInv
  OBVIOUS
<1>1. StoredIInv /\ Phases
  BY InitHistory DEF HistoryIInv
<1>2. Order
  <2>1. \A t \in Txs : ~Known(t) /\ minedAt[t] = 0
    BY DEF Init, Known
  <2>2. tip - indexed <= Lag
    BY SyncAssumption DEF Init
  <2>3. QED
    BY <2>1, <2>2 DEF Order
<1>3. StatusIsExact
  <2>1. {t \in Txs : txmap[t] # Absent} = {} /\ status = [o \in Outpoints |-> {}]
    BY DEF Init, Emptied
  <2>2. StatusAfter({}, Empty) = [o \in Outpoints |-> {}]
    BY DEF StatusAfter, Empty
  <2>3. QED
    BY <2>1, <2>2 DEF StatusIsExact
<1>4. DiskIsComplete
  BY DEF Init, DiskIsComplete
<1>5. /\ \A p \in Pagers : pagers[p].at = "none"
      /\ \A r \in Slots : runs[r].at = "none"
      /\ ~isSynced /\ \A t \in Txs : txmap[t] = Absent
  BY NothingTodo DEF Init, Emptied
<1>6. HeightsAreStored /\ WrittenIsKnown
  BY <1>5 DEF HeightsAreStored, WrittenIsKnown, Writes, PagerWrites, RunWrites, Absent
<1>7. PagesComplete /\ ~Disturbed
  BY <1>5 DEF PagesComplete, PageIsComplete, Disturbed, Running
<1>8. \A r \in Slots : RunIsComplete(r)
  BY <1>5 DEF RunIsComplete
<1>9. BlocksComplete
  BY <1>5, <1>8 DEF BlocksComplete
<1>10. QED
  BY <1>1, <1>2, <1>3, <1>4, <1>6, <1>7, <1>9 DEF CoinsIInv

\* What is held has the status bits of its outputs and inputs.
LEMMA CoinsFollow == ASSUME CoinsIInv PROVE AtRest => HoldsItsCoins
<1> SUFFICES ASSUME AtRest
             PROVE  {o \in Outpoints : "ours" \in status[o] /\ "spent" \notin status[o]}
                      = {o \in Own : o[1] \in Seen /\ \A t \in Seen : o \notin Spends[t]}
  BY DEF HoldsItsCoins
<1>1. isSynced /\ HeldBelow(lastProcessed + 1)
  BY DEF AtRest, CoinsIInv, BlocksComplete
<1>2. ASSUME NEW t \in Relevant, t \in Seen PROVE txmap[t] # Absent
  <2>1. CASE minedAt[t] \in 1 .. lastProcessed
    <3>1. lastProcessed \in Int
      BY DEF CoinsIInv, StoredIInv, Types
    <3>2. Below(t, lastProcessed + 1)
      BY <2>1, <3>1 DEF Below
    <3>3. QED
      BY <1>1, <3>2 DEF HeldBelow, Held
  <2>2. QED
    BY <1>2, <2>1 DEF Seen
<1>3. \A t \in Txs : txmap[t] # Absent => t \in Seen
  BY DEF Seen
<1>4. ASSUME NEW o \in Own
      PROVE  /\ o \in Outpoints /\ o[1] \in Txs /\ o[1] \in Relevant
             /\ \A t \in Txs : o \in Spends[t] => t \in Relevant
  BY OwnIsMarked DEF Relevant
<1>5. StatusIsExact
  BY DEF CoinsIInv
<1>6. ASSUME NEW o \in Own
      PROVE  "ours" \in status[o] /\ "spent" \notin status[o]
               <=> o[1] \in Seen /\ \A t \in Seen : o \notin Spends[t]
  <2>1. "ours" \in status[o] <=> txmap[o[1]] # Absent
    BY <1>4, <1>5, <1>6, StatusBits
  <2>2. "spent" \in status[o] <=> \E t \in Txs : txmap[t] # Absent /\ o \in Spends[t]
    BY <1>4, <1>5, <1>6, StatusBits
  <2>3. txmap[o[1]] # Absent <=> o[1] \in Seen
    BY <1>2, <1>3, <1>4, <1>6
  <2>4. \A t \in Txs : o \in Spends[t] => (txmap[t] # Absent <=> t \in Seen)
    BY <1>2, <1>3, <1>4, <1>6
  <2>5. Seen \subseteq Txs
    BY DEF Seen
  <2>6. QED
    BY <2>1, <2>2, <2>3, <2>4, <2>5
<1>7. \A o \in Outpoints : "ours" \in status[o] => o \in Own
  BY <1>5, StatusBits
<1>8. \A o \in Own : o \in Outpoints
  BY <1>4
<1>9. QED
  BY <1>6, <1>7, <1>8

\* A synchronised wallet that waits for nothing holds exactly the coins that
\* the blocks it has handled, and what it heard of unconfirmed transactions,
\* leave it, when the wallet's transactions fit on a page of the explorer, its
\* index is not further behind than the blocks that are read again, and in the
\* histories in which no two calls of sync() and resync() ran at the same time
\* and resync() emptied the mempool while no run read blocks (sync, resync and
\* #getLatestBlocks of wallet.js).
THEOREM CoinsAreTrueHolds ==
  ASSUME Cardinality(Txs) <= PageSize, Lag <= Margin
  PROVE  Spec => []CoinsAreTrue
<1> DEFINE IInv == undisturbed => CoinsIInv
<1>1. IInv /\ [Next]_vars => IInv'
  <2> SUFFICES ASSUME IInv, [Next]_vars, undisturbed' PROVE CoinsIInv'
    OBVIOUS
  <2>1. CASE Next
    <3>1. CoinsIInv /\ ~Disturbed'
      BY <2>1 DEF Next
    <3>2. QED
      BY <2>1, <3>1, WalletKeepsCoins, NodeKeepsCoins, Steps
  <2>2. CASE UNCHANGED vars
    <3>1. CoinsIInv
      BY <2>2 DEF vars
    <3>2. QED
      BY <2>2, <3>1, SameCoins
  <2>3. QED
    BY <2>1, <2>2
<1>2. IInv => CoinsAreTrue
  BY CoinsFollow DEF CoinsAreTrue
<1>3. Init => IInv
  BY InitCoins
<1>4. QED
  BY <1>1, <1>2, <1>3, PTL DEF Spec
=============================================================================
