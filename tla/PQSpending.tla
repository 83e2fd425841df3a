----------------------------- MODULE PQSpending ------------------------------
(***************************************************************************)
(* How one open page of the wallet spends coins (PQWallet.vue): ordinary   *)
(* sends, the masternode operations (create a collateral, register it,     *)
(* withdraw it) and browser staking, interleaved at every await with each  *)
(* other, with locking and unlocking, with tab switches, and with a node   *)
(* that confirms, rejects, answers late or not at all.                     *)
(*                                                                         *)
(* A collateral is protected from being spent by two things the page keeps *)
(* copies of: its own masternode records (IndexedDB) and the on-chain      *)
(* registry.  The copies, recs and regs, are refreshed by awaits of their  *)
(* own.                                                                    *)
(*                                                                         *)
(* Amounts, fees and change are abstracted: a selection is any nonempty    *)
(* set of coins it may use.  The list of coins is read when its answer is  *)
(* used: an older list only offers coins the node will refuse.             *)
(***************************************************************************)
EXTENDS Naturals, FiniteSets

CONSTANTS
  Coins,         \* confirmed wallet coins to begin with
  Collaterals,   \* outputs that collateral transactions will create
  NoOutput,
  MaxDelayed,    \* bound: requests the page gave up that may still arrive
  ReadsMayFail   \* whether reading the records back from IndexedDB may fail

ASSUME OutputsAssumption ==
  Coins \cap Collaterals = {} /\ NoOutput \notin Coins \cup Collaterals
ASSUME ReadsAssumption == ReadsMayFail \in BOOLEAN /\ MaxDelayed \in Nat

VARIABLES
  \* the node: outputs, accepted registrations, listed ones, delayed requests
  chain, accepted, registry, wire,
  \* IndexedDB: one record per collateral (shared by everything on the page)
  records,
  \* the page: lock, tab, flags, what is typed, cached copies, session
  view, tab, busy, form, password, recs, regs, staking, stakable,
  \* its asynchronous functions: unlock, background refresh, send, masternode
  load, refresh, send, mn,
  staked         \* history: the coin a staking block was signed with last

node == <<chain, accepted, registry, wire>>
ops  == <<load, refresh, send, mn>>
vars == <<node, records, view, tab, busy, form, password, recs, regs, staking,
          stakable, ops, staked>>

Outputs  == Coins \cup Collaterals
Statuses == {"none", "draft", "registered", "withdrawn"}
Tabs     == {"overview", "send", "masternodes", "staking"}
Kinds    == {"create", "register", "withdraw"}
Txs      == [kind : Kinds \cup {"send"}, inputs : SUBSET Outputs,
             target : Collaterals \cup {NoOutput}]
Sends    == [at : {"idle", "fetch", "broadcast", "answered", "wallet"},
             inputs : SUBSET Outputs]
Places   == {"idle", "verify", "fetch", "decrypt", "broadcast", "answered", "save",
             "wallet", "records", "registry"}
Mns      == [op : Kinds \cup {"export", "none"}, at : Places,
             inputs : SUBSET Outputs, target : Collaterals \cup {NoOutput}]
NoSend   == [at |-> "idle", inputs |-> {}]
NoMn     == [op |-> "none", at |-> "idle", inputs |-> {}, target |-> NoOutput]
NoRecs   == [k \in Collaterals |-> "none"]

NodeType ==
  /\ chain \in [Outputs -> {"absent", "pending", "confirmed", "spent"}]
  /\ accepted \subseteq Collaterals /\ registry \subseteq Collaterals
  /\ wire \subseteq Txs

PageType ==
  /\ view \in {"locked", "unlocked"} /\ tab \in Tabs
  /\ recs \in [Collaterals -> Statuses] /\ regs \subseteq Collaterals
  /\ stakable \subseteq Outputs

\* A locked page holds no typed text, no password and no session, and a
\* stopped session no list.
FlagsType ==
  /\ busy \in BOOLEAN /\ form \in BOOLEAN /\ password \in BOOLEAN
  /\ staking \in BOOLEAN
  /\ view = "locked" => ~form /\ ~password /\ ~staking
  /\ ~staking => stakable = {}

TypeOK ==
  /\ NodeType /\ PageType /\ FlagsType
  /\ records \in [Collaterals -> Statuses]
  /\ load \in {"none", "keys", "records", "registry", "wallet"}
  /\ refresh \in {"none", "records", "registry"}
  /\ send \in Sends /\ mn \in Mns
  /\ staked \subseteq Outputs

-----------------------------------------------------------------------------
\* The page's computed values.

Live(status)   == status \in {"draft", "registered"}
Recorded       == {k \in Collaterals : Live(records[k])}
\* Mistake: a collateral is reserved only once it is registered.
ReservedWhenRegistered == {k \in Collaterals : recs[k] = "registered"} \cup regs

Reserved       == {k \in Collaterals : Live(recs[k])} \cup regs
Unspent        == {o \in Outputs : chain[o] \in {"pending", "confirmed"}}
Confirmed      == {o \in Outputs : chain[o] = "confirmed"}
Spendable      == Unspent \ Reserved
sending        == send.at # "idle"
masternodeBusy == mn.op # "none"
busyOperation  == busy \/ sending

\* refreshMasternodeData(): the records first, then the registry, whose failure
\* leaves an empty copy.
ReadRecords  == recs' = records
ReadRegistry == regs' \in {registry, {}}

\* The masternode operation returns: its finally clears the busy flag.
EndMn  == mn' = NoMn
EndSend == send' = NoSend

Init ==
  /\ chain = [o \in Outputs |-> IF o \in Coins THEN "confirmed" ELSE "absent"]
  /\ accepted = {} /\ registry = {} /\ wire = {}
  /\ records = NoRecs
  /\ view = "locked" /\ tab = "overview" /\ busy = FALSE
  /\ form = FALSE /\ password = FALSE
  /\ recs = NoRecs /\ regs = {}
  /\ staking = FALSE /\ stakable = {}
  /\ load = "none" /\ refresh = "none" /\ send = NoSend /\ mn = NoMn
  /\ staked = {}

-----------------------------------------------------------------------------
\* Lock, unlock and navigation.

\* handleLock(): the caches and the typed text go, running functions do not.
Lock ==
  /\ view = "unlocked"
  /\ view' = "locked"
  /\ recs' = NoRecs /\ regs' = {}
  /\ form' = FALSE /\ password' = FALSE
  /\ staking' = FALSE /\ stakable' = {}
  /\ UNCHANGED <<node, records, tab, busy, ops, staked>>

\* handleUnlock() up to unlockWallet(); it refuses while the page is busy.
Unlock ==
  /\ view = "locked" /\ ~busy
  /\ busy' = TRUE /\ load' = "keys"
  /\ UNCHANGED <<node, records, view, tab, form, password, recs, regs, staking,
                 stakable, refresh, send, mn, staked>>

\* enterUnlocked(): the view opens before the records are read.
LoadKeys ==
  /\ load = "keys"
  /\ view' = "unlocked" /\ tab' = "overview" /\ load' = "records"
  /\ UNCHANGED <<node, records, busy, form, password, recs, regs, staking,
                 stakable, refresh, send, mn, staked>>

LoadRecords ==
  /\ load = "records"
  /\ ReadRecords
  /\ load' = "registry"
  /\ UNCHANGED <<node, records, view, tab, busy, form, password, regs, staking,
                 stakable, refresh, send, mn, staked>>

\* Then the balance, which a page locked meanwhile does not fetch.
LoadRegistry ==
  /\ load = "registry"
  /\ ReadRegistry
  /\ IF view = "unlocked"
     THEN busy' = TRUE /\ load' = "wallet"
     ELSE busy' = FALSE /\ load' = "none"
  /\ UNCHANGED <<node, records, view, tab, form, password, recs, staking,
                 stakable, refresh, send, mn, staked>>

LoadWallet ==
  /\ load = "wallet"
  /\ busy' = FALSE /\ load' = "none"
  /\ UNCHANGED <<node, records, view, tab, form, password, recs, regs, staking,
                 stakable, refresh, send, mn, staked>>

\* Mistake: the busy flag is not cleared in a finally block.
LoadFailsBusy ==
  /\ load = "keys" \/ (load = "records" /\ ReadsMayFail)
  /\ load' = "none"
  /\ UNCHANGED <<node, records, view, tab, busy, form, password, recs, regs,
                 staking, stakable, refresh, send, mn, staked>>

\* A wrong password, or a failing read of IndexedDB.
LoadFails ==
  /\ load = "keys" \/ (load = "records" /\ ReadsMayFail)
  /\ busy' = FALSE /\ load' = "none"
  /\ UNCHANGED <<node, records, view, tab, form, password, recs, regs, staking,
                 stakable, refresh, send, mn, staked>>

\* selectTab(): spending and collateral tabs stop the staking session, and the
\* masternode tab refreshes its data in the background.
SelectTab(id) ==
  /\ view = "unlocked"
  /\ tab' = id
  /\ IF id \in {"send", "masternodes"}
     THEN staking' = FALSE /\ stakable' = {}
     ELSE UNCHANGED <<staking, stakable>>
  /\ IF id = "masternodes"
     THEN refresh = "none" /\ refresh' = "records"
     ELSE UNCHANGED refresh
  /\ UNCHANGED <<node, records, view, busy, form, password, recs, regs, load,
                 send, mn, staked>>

RefreshRecords ==
  /\ refresh = "records"
  /\ \/ ReadRecords /\ refresh' = "registry"
     \/ ReadsMayFail /\ UNCHANGED recs /\ refresh' = "none"
  /\ UNCHANGED <<node, records, view, tab, busy, form, password, regs, staking,
                 stakable, load, send, mn, staked>>

RefreshRegistry ==
  /\ refresh = "registry"
  /\ ReadRegistry
  /\ refresh' = "none"
  /\ UNCHANGED <<node, records, view, tab, busy, form, password, recs, staking,
                 stakable, load, send, mn, staked>>

\* The user types: a payment, or the password a masternode operation needs.
FillForm ==
  /\ view = "unlocked" /\ tab = "send"
  /\ form' = TRUE
  /\ UNCHANGED <<node, records, view, tab, busy, password, recs, regs, staking,
                 stakable, ops, staked>>

TypePassword ==
  /\ view = "unlocked" /\ tab = "masternodes"
  /\ password' = TRUE
  /\ UNCHANGED <<node, records, view, tab, busy, form, recs, regs, staking,
                 stakable, ops, staked>>

-----------------------------------------------------------------------------
\* sendTransfer()

page == <<records, view, tab, password, recs, regs, staking, stakable, load,
          refresh, mn, staked>>

SendStart ==
  /\ view = "unlocked" /\ tab = "send" /\ form /\ ~busyOperation
  /\ send' = [send EXCEPT !.at = "fetch"]
  /\ UNCHANGED <<node, page, busy, form>>

\* The coins arrived: select among the spendable ones, sign, broadcast.
SendSelects ==
  /\ send.at = "fetch"
  /\ view = "unlocked" /\ form
  /\ \E inputs \in SUBSET Spendable \ {{}} :
       send' = [at |-> "broadcast", inputs |-> inputs]
  /\ UNCHANGED <<node, page, busy, form>>

\* The fetch fails, funds do not suffice, or a lock took the keys or the form.
SendFails ==
  /\ send.at = "fetch"
  /\ EndSend
  /\ UNCHANGED <<node, page, busy, form>>

SendAnswered ==
  /\ send.at = "answered"
  /\ form' = FALSE
  /\ IF view = "unlocked"
     THEN busy' = TRUE /\ send' = [send EXCEPT !.at = "wallet"]
     ELSE UNCHANGED busy /\ EndSend
  /\ UNCHANGED <<node, page>>

SendRefreshed ==
  /\ send.at = "wallet"
  /\ busy' = FALSE /\ EndSend
  /\ UNCHANGED <<node, page, form>>

-----------------------------------------------------------------------------
\* createMasternodeCollateral(), registerMasternode(record),
\* exportOperatorConfiguration(record) and
\* withdrawMasternodeCollateral(record).  Their buttons are disabled while
\* one of them runs.

desk == <<tab, form, staking, stakable, load, refresh, send, staked>>

\* The tab: a form while there is no record, and for each record the buttons
\* its status calls for.
Offered(op, k) ==
  /\ view = "unlocked" /\ tab = "masternodes"
  /\ \/ /\ op = "create" /\ k = NoOutput
        /\ \A c \in Collaterals : recs[c] = "none"
     \/ op = "register" /\ k \in Collaterals /\ recs[k] = "draft"
     \/ op = "export" /\ k \in Collaterals /\ recs[k] = "registered"
     \/ op = "withdraw" /\ k \in Collaterals /\ Live(recs[k])

MnStart(op, k) ==
  /\ Offered(op, k) /\ password /\ ~masternodeBusy
  /\ mn' = [op |-> op,
            at |-> IF op \in {"export", "withdraw"} THEN "verify" ELSE "fetch",
            inputs |-> {}, target |-> k]
  /\ UNCHANGED <<node, records, view, busy, password, recs, regs, desk>>

\* withdrawMasternodeCollateral() checks the password before anything else.
MnVerified ==
  /\ mn.at = "verify" /\ mn.op = "withdraw"
  /\ mn' = [mn EXCEPT !.at = "fetch"]
  /\ UNCHANGED <<node, records, view, busy, password, recs, regs, desk>>

\* exportOperatorConfiguration(): the operator key was decrypted, a file saved.
MnExported ==
  /\ mn.at = "verify" /\ mn.op = "export"
  /\ password' = FALSE /\ EndMn
  /\ UNCHANGED <<node, records, view, busy, recs, regs, desk>>

MnSelects(inputs, next) == mn' = [mn EXCEPT !.at = next, !.inputs = inputs]

\* The coins arrived.  A new collateral and a registration fee use confirmed
\* spendable coins, a withdrawal exactly the collateral.
MnFetched ==
  /\ mn.at = "fetch" /\ view = "unlocked"
  /\ \/ /\ mn.op = "create"
        /\ \E inputs \in SUBSET (Spendable \cap Confirmed) \ {{}} :
             \E k \in Collaterals :
               /\ chain[k] = "absent" /\ \A tx \in wire : tx.target # k
               /\ mn' = [mn EXCEPT !.at = "broadcast", !.inputs = inputs,
                                   !.target = k]
     \/ /\ mn.op = "register" /\ mn.target \in Confirmed /\ password
        /\ \E inputs \in SUBSET ((Spendable \cap Confirmed) \ {mn.target}) \ {{}} :
             MnSelects(inputs, "decrypt")
     \/ /\ mn.op = "withdraw" /\ mn.target \in Unspent
        /\ MnSelects({mn.target}, "broadcast")
  /\ UNCHANGED <<node, records, view, busy, password, recs, regs, desk>>

\* The operator key was decrypted: sign the registration and broadcast it.
MnDecrypted ==
  /\ mn.at = "decrypt"
  /\ mn' = [mn EXCEPT !.at = "broadcast"]
  /\ UNCHANGED <<node, records, view, busy, password, recs, regs, desk>>

\* The txid came back.  Saving a new record reads the password field again.
MnAnswered ==
  /\ mn.at = "answered"
  /\ IF mn.op = "create" /\ ~password
     THEN EndMn
     ELSE mn' = [mn EXCEPT !.at = "save"]
  /\ UNCHANGED <<node, records, view, busy, password, recs, regs, desk>>

\* What createMasternodeRecord(), markMasternodeRegistered() and
\* markMasternodeCollateralWithdrawn() write.
StatusAfter(op) ==
  CASE op = "create"   -> "draft"
    [] op = "register" -> "registered"
    [] op = "withdraw" -> "withdrawn"

\* The record is committed; the balance is fetched next.
MnSaved ==
  /\ mn.at = "save"
  /\ records' = [records EXCEPT ![mn.target] = StatusAfter(mn.op)]
  /\ password' = FALSE
  /\ IF view = "unlocked"
     THEN busy' = TRUE /\ mn' = [mn EXCEPT !.at = "wallet"]
     ELSE UNCHANGED busy /\ mn' = [mn EXCEPT !.at = "records"]
  /\ UNCHANGED <<node, view, recs, regs, desk>>

\* Mistake: an operation ends without reading the records again.
MnRefreshedLast ==
  /\ mn.at = "wallet"
  /\ busy' = FALSE
  /\ EndMn
  /\ UNCHANGED <<node, records, view, password, recs, regs, desk>>

MnRefreshed ==
  /\ mn.at = "wallet"
  /\ busy' = FALSE
  /\ mn' = [mn EXCEPT !.at = "records"]
  /\ UNCHANGED <<node, records, view, password, recs, regs, desk>>

MnReadsRecords ==
  /\ mn.at = "records"
  /\ \/ ReadRecords /\ mn' = [mn EXCEPT !.at = "registry"]
     \/ ReadsMayFail /\ UNCHANGED recs /\ EndMn
  /\ UNCHANGED <<node, records, view, busy, password, regs, desk>>

MnReadsRegistry ==
  /\ mn.at = "registry"
  /\ ReadRegistry
  /\ EndMn
  /\ UNCHANGED <<node, records, view, busy, password, recs, desk>>

\* A request, a decryption or the write of the record fails.
MnFails ==
  /\ mn.at \in {"verify", "fetch", "decrypt", "save"}
  /\ EndMn
  /\ UNCHANGED <<node, records, view, busy, password, recs, regs, desk>>

-----------------------------------------------------------------------------
\* The staking session, with what matters here of pqstaking-session.js.

spending == <<records, view, tab, busy, form, password, recs, regs, ops>>

\* Mistake: only the masternode operations are checked, not the sends.
StartStakingWhileBusy ==
  /\ view = "unlocked" /\ tab = "staking" /\ ~staking
  /\ ~masternodeBusy
  /\ staking' = TRUE
  /\ UNCHANGED <<node, spending, stakable, staked>>

StartStaking ==
  /\ view = "unlocked" /\ tab = "staking" /\ ~staking
  /\ ~busyOperation /\ ~masternodeBusy
  /\ staking' = TRUE
  /\ UNCHANGED <<node, spending, stakable, staked>>

\* The Stop button, and every error of the session.
StopStaking ==
  /\ staking
  /\ staking' = FALSE /\ stakable' = {} /\ staked' = {}
  /\ UNCHANGED <<node, spending>>

\* Mistake: only the registry is consulted.
StakeListsUnrecorded ==
  /\ staking
  /\ stakable' = Confirmed \ registry
  /\ staked' = {}
  /\ UNCHANGED <<node, spending, staking>>

\* candidates(): confirmed coins outside the records, read from IndexedDB
\* itself, and outside the registry; a failing read is an error.
StakeLists ==
  /\ staking
  /\ stakable' = Confirmed \ (Recorded \cup registry)
  /\ staked' = {}
  /\ UNCHANGED <<node, spending, staking>>

StakeSigns(o) ==
  /\ staking /\ o \in stakable
  /\ staked' = {o} /\ stakable' = {}
  /\ chain' = IF o \in Confirmed THEN [chain EXCEPT ![o] = "spent"] ELSE chain
  /\ UNCHANGED <<accepted, registry, wire, spending, staking>>

-----------------------------------------------------------------------------
\* The node, external to the wallet: it accepts what spends unspent outputs.

Valid(tx) ==
  /\ tx.inputs \subseteq Unspent
  /\ tx.kind = "register" => tx.target \in Confirmed \ accepted

Effect(tx) ==
  /\ chain' = [o \in Outputs |->
       IF o \in tx.inputs THEN "spent"
       ELSE IF tx.kind = "create" /\ o = tx.target THEN "pending"
       ELSE chain[o]]
  /\ accepted' = IF tx.kind = "register" THEN accepted \cup {tx.target} ELSE accepted

SendTx == [kind |-> "send", inputs |-> send.inputs, target |-> NoOutput]
MnTx   == [kind |-> mn.op, inputs |-> mn.inputs, target |-> mn.target]

wallet == <<records, view, tab, busy, form, password, recs, regs, staking,
            stakable, load, refresh, staked>>

NodeAnswersSend ==
  /\ send.at = "broadcast"
  /\ \/ /\ Valid(SendTx) /\ Effect(SendTx)
        /\ send' = [at |-> "answered", inputs |-> {}]
     \/ /\ ~Valid(SendTx) /\ EndSend
        /\ UNCHANGED <<chain, accepted>>
  /\ UNCHANGED <<registry, wire, wallet, mn>>

NodeAnswersMn ==
  /\ mn.at = "broadcast"
  /\ \/ /\ Valid(MnTx) /\ Effect(MnTx)
        /\ mn' = [mn EXCEPT !.at = "answered", !.inputs = {}]
     \/ /\ ~Valid(MnTx) /\ EndMn
        /\ UNCHANGED <<chain, accepted>>
  /\ UNCHANGED <<registry, wire, wallet, send>>

\* No answer in time: the page gives up on a request the node has accepted,
\* will never see, or will see later.
Delayed(tx) ==
  wire' \in {wire} \cup {w \in {wire \cup {tx}} : Cardinality(w) <= MaxDelayed}

\* Mistake: a broadcast without an answer is recorded as sent.
BroadcastTimesOutAsSent ==
  /\ \/ send.at = "broadcast" /\ EndSend /\ Delayed(SendTx) /\ UNCHANGED mn
     \/ /\ mn.at = "broadcast" /\ Delayed(MnTx) /\ UNCHANGED send
        /\ mn' = [mn EXCEPT !.at = "answered", !.inputs = {}]
  /\ UNCHANGED <<chain, accepted, registry, wallet>>

BroadcastTimesOut ==
  /\ \/ send.at = "broadcast" /\ EndSend /\ Delayed(SendTx) /\ UNCHANGED mn
     \/ mn.at = "broadcast" /\ EndMn /\ Delayed(MnTx) /\ UNCHANGED send
     \/ send.at = "answered" /\ EndSend /\ UNCHANGED <<wire, mn>>
     \/ mn.at = "answered" /\ EndMn /\ UNCHANGED <<wire, send>>
  /\ UNCHANGED <<chain, accepted, registry, wallet>>

LateArrival(tx) ==
  /\ tx \in wire
  /\ wire' = wire \ {tx}
  /\ IF Valid(tx) THEN Effect(tx) ELSE UNCHANGED <<chain, accepted>>
  /\ UNCHANGED <<registry, wallet, send, mn>>

Confirm(o) ==
  /\ chain[o] = "pending"
  /\ chain' = [chain EXCEPT ![o] = "confirmed"]
  /\ UNCHANGED <<accepted, registry, wire, wallet, send, mn>>

RegistryChanges ==
  /\ registry' = {k \in accepted : chain[k] = "confirmed"}
  /\ registry' # registry
  /\ UNCHANGED <<chain, accepted, wire, wallet, send, mn>>

-----------------------------------------------------------------------------
Loading == LoadKeys \/ LoadRecords \/ LoadRegistry \/ LoadWallet \/ LoadFails
Refreshing == RefreshRecords \/ RefreshRegistry
Sending ==
  SendSelects \/ SendFails \/ NodeAnswersSend \/ SendAnswered \/ SendRefreshed
Masternode ==
  \/ MnVerified \/ MnExported \/ MnFetched \/ MnDecrypted \/ NodeAnswersMn \/ MnAnswered
  \/ MnSaved \/ MnRefreshed \/ MnReadsRecords \/ MnReadsRegistry \/ MnFails

Next ==
  \/ Lock \/ Unlock \/ FillForm \/ TypePassword
  \/ \E id \in Tabs : SelectTab(id)
  \/ Loading \/ Refreshing
  \/ SendStart \/ Sending
  \/ \E op \in Kinds \cup {"export"}, k \in Collaterals \cup {NoOutput} : MnStart(op, k)
  \/ Masternode
  \/ StartStaking \/ StopStaking \/ StakeLists
  \/ \E o \in Outputs : StakeSigns(o) \/ Confirm(o)
  \/ BroadcastTimesOut \/ (\E tx \in wire : LateArrival(tx)) \/ RegistryChanges

\* Requests settle or time out, and IndexedDB answers or fails; the user, the
\* miner and a delayed request owe nothing.
Fairness ==
  /\ WF_vars(Loading) /\ WF_vars(Refreshing)
  /\ WF_vars(Sending) /\ WF_vars(Masternode)

Spec == Init /\ [][Next]_vars
FairSpec == Spec /\ Fairness

-----------------------------------------------------------------------------
\* The selection a send or a masternode operation makes in this step.
SelectionOf(op) == IF op'.inputs # op.inputs THEN op'.inputs ELSE {}
Selected == SelectionOf(send)
            \cup (IF mn.op = "withdraw" THEN {} ELSE SelectionOf(mn))

\* At rest, that is with no masternode operation and no unlock in progress,
\* the page's copy of the records is what IndexedDB holds.
CoherentAtRest ==
  view = "unlocked" /\ ~masternodeBusy /\ load \notin {"keys", "records"}
    => recs = records

\* So a send that selects its coins at rest never picks a collateral the wallet
\* has a record for, whatever locks, refreshes and lost answers came before.
RestedSendsSpareCollateral ==
  [][view = "unlocked" /\ ~masternodeBusy /\ load \notin {"keys", "records"}
       => SelectionOf(send) \cap Recorded = {}]_vars

\* README.md:48 makes the promise at every moment, not only at rest.
ReservedOnceRecorded == [][SelectionOf(send) \cap Recorded = {}]_vars

\* Local staking never competes with a send or a collateral operation.
StakingExcludesSpending ==
  staking => ~sending /\ ~masternodeBusy /\ tab \notin {"send", "masternodes"}

\* The session stakes no collateral of the wallet: one recorded after the
\* session listed its coins would be signed away.
StakingSparesCollateral ==
  [][(staked' \ staked) \cap Recorded = {}]_vars

\* A record tells no more than the node accepted, lost answers included: a
\* draft has its output, a registered one its registration, a withdrawn one
\* is spent.
RecordsAreBacked ==
  \A k \in Collaterals :
    /\ records[k] # "none" => chain[k] # "absent"
    /\ records[k] = "registered" => k \in accepted
    /\ records[k] = "withdrawn" => chain[k] = "spent"

\* A record only advances: overlapping operations never bring a withdrawn or a
\* registered collateral back.
RecordsAdvance ==
  [][\A k \in Collaterals : records'[k] # records[k] =>
       \/ records[k] = "none" /\ records'[k] = "draft"
       \/ records[k] = "draft" /\ records'[k] \in {"registered", "withdrawn"}
       \/ records[k] = "registered" /\ records'[k] = "withdrawn"]_vars

\* The busy flag, shared by every function that refreshes the balance, never
\* sticks: handleUnlock() refuses while it is set.
BusyClears == busy ~> ~busy

-----------------------------------------------------------------------------
\* What makes the properties above inductive.

\* What a masternode operation is, where it waits.
OperationShape ==
  /\ mn.op = "none" => mn.at = "idle"
  /\ mn.at = "decrypt" => mn.op = "register"
  /\ mn.at \in {"broadcast", "answered", "save"} => mn.op \in Kinds
TypeIInv == TypeOK /\ OperationShape

\* The page's copies follow the records: they invent none.
CopiesFollow == \A k \in Collaterals : recs[k] # "none" => records[k] # "none"

\* A creation that the node has not seen creates a new output, and is the only
\* one that does.
CreationsAreNew ==
  /\ \A tx \in wire : tx.kind = "create" =>
       /\ tx.target \in Collaterals /\ chain[tx.target] = "absent"
       /\ \A other \in wire :
            other.kind = "create" /\ other.target = tx.target => other = tx
  /\ mn.op = "create" /\ mn.at = "broadcast" =>
       /\ mn.target \in Collaterals /\ chain[mn.target] = "absent"
       /\ \A tx \in wire : tx.target # mn.target

\* What the node answered a masternode operation stands until it is recorded,
\* and the record is still the one the operation began with.
AnswerStands ==
  mn.at \in {"answered", "save"} =>
    /\ mn.target \in Collaterals
    /\ mn.op = "create" =>
         chain[mn.target] # "absent" /\ records[mn.target] = "none"
    /\ mn.op = "register" =>
         mn.target \in accepted /\ records[mn.target] = "draft"
    /\ mn.op = "withdraw" =>
         chain[mn.target] = "spent" /\ Live(records[mn.target])

OperationIsBacked ==
  /\ mn.op \in {"register", "withdraw"} =>
       mn.target \in Collaterals /\ records[mn.target] # "none"
  /\ mn.op = "withdraw" /\ mn.at = "broadcast" => mn.inputs = {mn.target}
  /\ AnswerStands

RecordsIInv ==
  RecordsAreBacked /\ CopiesFollow /\ CreationsAreNew /\ OperationIsBacked

\* The copy can only be old between the write of a record and its reading, and
\* while an unlock has not read it.
CoherenceIInv ==
  /\ load = "keys" => view = "locked"
  /\ view = "unlocked" /\ mn.at \notin {"wallet", "records"}
       /\ load \notin {"keys", "records"} => recs = records

\* While the session runs no record is written, so that what it listed stays
\* free of collaterals.
StakingIInv == StakingExcludesSpending /\ stakable \cap Recorded = {}
=============================================================================
