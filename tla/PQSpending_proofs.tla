-------------------------- MODULE PQSpending_proofs ---------------------------
(***************************************************************************)
(* Theorems about a page that spends, for every set of coins and           *)
(* collaterals, every number of delayed requests and every answer of the   *)
(* node.                                                                   *)
(***************************************************************************)
EXTENDS PQSpending, TLAPS

(***************************************************************************)
(* The types, and the shape of a masternode operation.                     *)
(***************************************************************************)

LEMMA MnMoves ==
  ASSUME mn \in Mns, NEW at \in Places
  PROVE  /\ [mn EXCEPT !.at = at] \in Mns
         /\ [mn EXCEPT !.at = at].at = at /\ [mn EXCEPT !.at = at].op = mn.op
         /\ [mn EXCEPT !.at = at].target = mn.target
         /\ [mn EXCEPT !.at = at].inputs = mn.inputs
BY DEF Mns

LEMMA MnSelection ==
  ASSUME mn \in Mns, NEW at \in Places, NEW inputs \in SUBSET Outputs
  PROVE  /\ [mn EXCEPT !.at = at, !.inputs = inputs] \in Mns
         /\ [mn EXCEPT !.at = at, !.inputs = inputs].at = at
         /\ [mn EXCEPT !.at = at, !.inputs = inputs].op = mn.op
         /\ [mn EXCEPT !.at = at, !.inputs = inputs].target = mn.target
         /\ [mn EXCEPT !.at = at, !.inputs = inputs].inputs = inputs
BY DEF Mns

LEMMA Nothing ==
  NoMn \in Mns /\ NoSend \in Sends /\ NoRecs \in [Collaterals -> Statuses]
  /\ NoMn.op = "none" /\ NoMn.at = "idle" /\ NoSend.at = "idle" /\ NoSend.inputs = {}
BY DEF NoMn, NoSend, NoRecs, Mns, Sends, Places, Statuses

\* What the node does to the outputs.
LEMMA EffectType ==
  ASSUME TypeOK, NEW tx \in Txs, Valid(tx), Effect(tx)
  PROVE  /\ chain' \in [Outputs -> {"absent", "pending", "confirmed", "spent"}]
         /\ accepted' \subseteq Collaterals
<1>1. tx.kind = "register" => tx.target \in Collaterals
  BY OutputsAssumption DEF Valid, Confirmed, Outputs, Txs
<1>2. accepted' \subseteq Collaterals
  BY <1>1 DEF TypeOK, NodeType, Effect
<1>3. \A o \in Outputs : chain[o] \in {"absent", "pending", "confirmed", "spent"}
  BY DEF TypeOK, NodeType
<1>4. QED
  BY <1>2, <1>3 DEF Effect

LEMMA TxTypes ==
  ASSUME TypeIInv
  PROVE  SendTx \in Txs /\ (mn.at = "broadcast" => MnTx \in Txs)
<1>1. send \in Sends /\ mn \in Mns /\ (mn.at = "broadcast" => mn.op \in Kinds)
  BY DEF TypeIInv, TypeOK, OperationShape
<1>2. SendTx \in Txs
  BY <1>1 DEF SendTx, Txs, Sends
<1>3. mn.at = "broadcast" => MnTx \in Txs
  BY <1>1 DEF MnTx, Txs, Mns
<1>4. QED
  BY <1>2, <1>3

\* The three ways a masternode operation goes on once the coins are known.
LEMMA MnFetchedMoves ==
  ASSUME TypeOK, MnFetched
  PROVE  /\ mn' \in Mns /\ mn'.op = mn.op /\ mn.op \in Kinds
         /\ mn'.at \in {"broadcast", "decrypt"}
         /\ mn'.at = "decrypt" => mn.op = "register"
         /\ mn.op # "create" => mn'.target = mn.target
<1> USE DEF Places
<1>1. Unspent \subseteq Outputs /\ Spendable \subseteq Outputs /\ mn \in Mns
  BY DEF Unspent, Spendable, TypeOK
<1>2. ASSUME NEW inputs \in SUBSET Outputs, NEW k \in Collaterals,
             mn' = [mn EXCEPT !.at = "broadcast", !.inputs = inputs, !.target = k]
      PROVE  mn' \in Mns /\ mn'.op = mn.op /\ mn'.at = "broadcast"
  BY <1>1, <1>2 DEF Mns
<1>3. CASE mn.op = "create"
  BY <1>1, <1>2, <1>3 DEF MnFetched, Kinds
<1>4. ASSUME NEW inputs \in SUBSET Outputs, NEW at \in {"decrypt", "broadcast"},
             MnSelects(inputs, at)
      PROVE  /\ mn' \in Mns /\ mn'.op = mn.op /\ mn'.at = at
             /\ mn'.target = mn.target
  BY <1>1, <1>4 DEF MnSelects, Mns
<1>5. CASE mn.op = "register"
  <2>1. PICK inputs \in SUBSET Outputs : MnSelects(inputs, "decrypt")
    BY <1>1, <1>5 DEF MnFetched
  <2>2. QED
    BY <1>4, <1>5, <2>1 DEF Kinds
<1>6. CASE mn.op = "withdraw"
  <2>1. {mn.target} \in SUBSET Outputs /\ MnSelects({mn.target}, "broadcast")
    BY <1>1, <1>6 DEF MnFetched
  <2>2. QED
    BY <1>4, <1>6, <2>1 DEF Kinds
<1>7. QED
  BY <1>3, <1>5, <1>6 DEF MnFetched

\* What the node does leaves the wallet as it is.
LEMMA WalletKeepsTypes ==
  ASSUME TypeOK, UNCHANGED wallet
  PROVE  /\ PageType' /\ FlagsType'
         /\ records' \in [Collaterals -> Statuses]
         /\ load' \in {"none", "keys", "records", "registry", "wallet"}
         /\ refresh' \in {"none", "records", "registry"} /\ staked' \subseteq Outputs
<1>1. FlagsType'
  BY Zenon DEF wallet, TypeOK, FlagsType
<1>2. QED
  BY <1>1 DEF wallet, TypeOK, PageType

\* The flags of a step that neither shows another view nor touches the session.
LEMMA FlagsKept ==
  ASSUME FlagsType, UNCHANGED <<view, staking, stakable>>,
         busy' = busy \/ busy' = TRUE \/ busy' = FALSE,
         form' = form \/ form' = FALSE, password' = password \/ password' = FALSE
  PROVE  FlagsType'
<1>1. busy' \in BOOLEAN /\ form' \in BOOLEAN /\ password' \in BOOLEAN /\ staking' \in BOOLEAN
  BY Zenon DEF FlagsType
<1>2. view = "locked" => ~form' /\ ~password' /\ ~staking
  <2>1. view = "locked" => ~form /\ ~password /\ ~staking
    BY Zenon DEF FlagsType
  <2>2. view = "locked" => ~form'
    BY <2>1, Zenon
  <2>3. view = "locked" => ~password'
    BY <2>1, Zenon
  <2>4. QED
    BY <2>1, <2>2, <2>3, Zenon
<1>3. view' = view /\ staking' = staking /\ stakable' = stakable
  OBVIOUS
<1>4. view' = "locked" => ~form' /\ ~password' /\ ~staking'
  BY <1>2, <1>3
<1>5. ~staking' => stakable' = {}
  BY <1>3 DEF FlagsType
<1>6. QED
  BY <1>1, <1>4, <1>5, Zenon DEF FlagsType

LEMMA TypeInit == Init => TypeIInv
<1> SUFFICES ASSUME Init PROVE TypeIInv
  OBVIOUS
<1> USE Nothing DEF Init
<1>1. OperationShape
  BY DEF OperationShape
<1>2. FlagsType
  BY Zenon DEF FlagsType
<1>3. TypeOK
  BY <1>2 DEF TypeOK, NodeType, PageType, Tabs
<1>4. QED
  BY <1>1, <1>3 DEF TypeIInv

LEMMA TypeKept ==
  ASSUME TypeIInv, [Next]_vars
  PROVE  TypeIInv'
<1> USE DEF TypeIInv
\* Lock, unlock and navigation
<1>1. CASE Lock \/ Unlock \/ FillForm \/ TypePassword \/ (\E id \in Tabs : SelectTab(id))
  <2>1. PageType'
    BY <1>1, Nothing
       DEF Lock, Unlock, FillForm, TypePassword, SelectTab, TypeOK, PageType
  <2>2. FlagsType'
    <3>0. CASE Unlock
      BY <3>0, Zenon DEF Unlock, TypeOK, FlagsType
    <3>1. CASE Lock
      BY <3>1, Zenon DEF Lock, TypeOK, FlagsType
    <3>2. CASE FillForm \/ TypePassword
      BY <3>2, Zenon DEF FillForm, TypePassword, TypeOK, FlagsType
    <3>3. ASSUME NEW id \in Tabs, SelectTab(id) PROVE FlagsType'
      BY <3>3, Zenon DEF SelectTab, TypeOK, FlagsType
    <3>4. QED
      BY <1>1, <3>0, <3>1, <3>2, <3>3
  <2>3. QED
    BY <1>1, <2>1, <2>2
       DEF Lock, Unlock, FillForm, TypePassword, SelectTab, node, ops, TypeOK, NodeType,
           OperationShape
<1>2. CASE Loading \/ Refreshing
  <2>1. UNCHANGED <<node, records, send, mn, staked>>
    BY <1>2
       DEF Loading, LoadKeys, LoadRecords, LoadRegistry, LoadWallet, LoadFails, Refreshing,
           RefreshRecords, RefreshRegistry
  <2>2. PageType'
    <3>1. CASE LoadKeys \/ LoadWallet \/ LoadFails
      BY <3>1 DEF LoadKeys, LoadWallet, LoadFails, TypeOK, PageType, Tabs
    <3>2. CASE LoadRecords \/ RefreshRecords
      BY <3>2 DEF LoadRecords, RefreshRecords, ReadRecords, TypeOK, PageType
    <3>3. CASE LoadRegistry \/ RefreshRegistry
      BY <3>3 DEF LoadRegistry, RefreshRegistry, ReadRegistry, TypeOK, NodeType, PageType
    <3>4. QED
      BY <1>2, <3>1, <3>2, <3>3 DEF Loading, Refreshing
  <2>3. FlagsType'
    <3>1. CASE LoadKeys
      BY <3>1, Zenon DEF LoadKeys, TypeOK, FlagsType
    <3>2. CASE \/ LoadRecords \/ LoadRegistry \/ LoadWallet \/ LoadFails
               \/ RefreshRecords \/ RefreshRegistry
      <4>1. /\ UNCHANGED <<view, staking, stakable, form, password>>
            /\ busy' = busy \/ busy' = TRUE \/ busy' = FALSE
        BY <3>2, Zenon
           DEF LoadRecords, LoadRegistry, LoadWallet, LoadFails, RefreshRecords,
               RefreshRegistry
      <4>2. QED
        BY <4>1, FlagsKept DEF TypeOK
    <3>4. QED
      BY <1>2, <3>1, <3>2 DEF Loading, Refreshing
  <2>4. /\ load' \in {"none", "keys", "records", "registry", "wallet"}
        /\ refresh' \in {"none", "records", "registry"}
    BY <1>2
       DEF Loading, LoadKeys, LoadRecords, LoadRegistry, LoadWallet, LoadFails, Refreshing,
           RefreshRecords, RefreshRegistry, TypeOK
  <2>5. QED
    BY <2>1, <2>2, <2>3, <2>4 DEF node, TypeOK, NodeType, OperationShape
\* The sends of the page
<1>3. CASE SendStart \/ SendSelects \/ SendFails \/ SendAnswered \/ SendRefreshed
  <2>1. send' \in Sends
    BY <1>3, Nothing
       DEF SendStart, SendSelects, SendFails, SendAnswered, SendRefreshed, EndSend,
           Spendable, Unspent, Sends, TypeOK
  <2>2. /\ UNCHANGED <<node, page>>
        /\ busy' = busy \/ busy' = TRUE \/ busy' = FALSE
        /\ form' = form \/ form' = FALSE
    BY <1>3, Zenon DEF SendStart, SendSelects, SendFails, SendAnswered, SendRefreshed
  <2>3. PageType' /\ NodeType'
    BY <2>2 DEF page, node, TypeOK, PageType, NodeType
  <2>4. FlagsType'
    BY <2>2, FlagsKept DEF page, TypeOK
  <2>5. QED
    BY <2>1, <2>2, <2>3, <2>4 DEF page, TypeOK, OperationShape
\* The masternode operations
<1>4. ASSUME NEW op \in Kinds \cup {"export"}, NEW k \in Collaterals \cup {NoOutput},
             MnStart(op, k)
      PROVE  TypeIInv'
  <2>1. PICK at \in {"verify", "fetch"} :
          mn' = [op |-> op, at |-> at, inputs |-> {}, target |-> k]
    BY <1>4 DEF MnStart
  <2>2. mn' \in Mns /\ mn'.op = op /\ mn'.at = at
    BY <2>1 DEF Mns, Places
  <2>3. OperationShape'
    BY <2>2 DEF OperationShape, Kinds
  <2>4. UNCHANGED <<node, records, view, busy, password, recs, regs, desk>>
    BY <1>4 DEF MnStart
  <2>5. FlagsType'
    BY <2>4, Zenon DEF desk, TypeOK, FlagsType
  <2>6. QED
    BY <2>2, <2>3, <2>4, <2>5 DEF desk, node, TypeOK, NodeType, PageType
<1>5. CASE MnVerified \/ MnExported \/ MnFetched \/ MnDecrypted \/ MnAnswered \/ MnFails
  <2> USE DEF Places
  <2>1. mn' \in Mns /\ OperationShape'
    <3>1. CASE MnVerified \/ MnDecrypted \/ MnAnswered
      <4>1. mn' = NoMn \/ \E at \in Places \ {"decrypt"} : /\ mn' = [mn EXCEPT !.at = at]
                                            /\ mn.op \in Kinds
        BY <3>1 DEF MnVerified, MnDecrypted, MnAnswered, EndMn, OperationShape, Kinds
      <4>2. ASSUME NEW at \in Places \ {"decrypt"}, mn' = [mn EXCEPT !.at = at], mn.op \in Kinds
            PROVE  mn' \in Mns /\ OperationShape'
        BY <4>2 DEF TypeOK, Mns, OperationShape, Kinds
      <4>3. QED
        BY <4>1, <4>2, Nothing DEF OperationShape
    <3>2. CASE MnExported \/ MnFails
      BY <3>2, Nothing DEF MnExported, MnFails, EndMn, OperationShape
    <3>3. CASE MnFetched
      BY <3>3, MnFetchedMoves DEF TypeOK, OperationShape, Kinds
    <3>4. QED
      BY <1>5, <3>1, <3>2, <3>3
  <2>2. /\ UNCHANGED <<node, records, view, busy, recs, regs, desk>>
        /\ password' = password \/ password' = FALSE
    BY <1>5, Zenon
       DEF MnVerified, MnExported, MnFetched, MnDecrypted, MnAnswered, MnFails
  <2>3. FlagsType'
    BY <2>2, FlagsKept DEF desk, TypeOK
  <2>4. QED
    BY <2>1, <2>2, <2>3 DEF desk, node, TypeOK, NodeType, PageType
<1>6. CASE MnSaved
  <2>1. mn' \in Mns /\ mn'.op = mn.op /\ mn'.at \in {"wallet", "records"}
    BY <1>6, MnMoves DEF MnSaved, TypeOK, Places
  <2>2. StatusAfter(mn.op) \in Statuses
    BY <1>6 DEF MnSaved, OperationShape, Kinds, StatusAfter, Statuses
  <2>3. OperationShape'
    BY <1>6, <2>1 DEF MnSaved, OperationShape, Kinds
  <2>4. records' \in [Collaterals -> Statuses]
    BY <1>6, <2>2 DEF MnSaved, TypeOK
  <2>5. FlagsType'
    BY <1>6, Zenon DEF MnSaved, desk, TypeOK, FlagsType
  <2>6. QED
    BY <1>6, <2>1, <2>3, <2>4, <2>5 DEF MnSaved, desk, node, TypeOK, NodeType, PageType
<1>7. CASE MnRefreshed \/ MnReadsRecords \/ MnReadsRegistry
  <2>1. /\ mn' = NoMn \/ (mn' \in Mns /\ mn'.op = mn.op /\ mn'.at \in {"records", "registry"})
        /\ mn.at # "idle"
    BY <1>7, MnMoves DEF MnRefreshed, MnReadsRecords, MnReadsRegistry, EndMn, TypeOK, Places
  <2>2. mn' \in Mns /\ OperationShape'
    BY <2>1, Nothing DEF OperationShape
  <2>3. PageType' /\ UNCHANGED <<node, records, desk>>
    BY <1>7
       DEF MnRefreshed, MnReadsRecords, MnReadsRegistry, ReadRecords, ReadRegistry, desk,
           TypeOK, PageType, NodeType
  <2>4. FlagsType'
    <3>1. /\ UNCHANGED <<view, staking, stakable, form, password>>
          /\ busy' = busy \/ busy' = FALSE
      BY <1>7, Zenon DEF MnRefreshed, MnReadsRecords, MnReadsRegistry, desk
    <3>2. QED
      BY <3>1, FlagsKept DEF TypeOK
  <2>5. QED
    BY <2>2, <2>3, <2>4 DEF desk, node, TypeOK, NodeType
\* The staking session
<1>8. CASE StartStaking \/ StopStaking \/ StakeLists \/ (\E o \in Outputs : StakeSigns(o))
  <2>1. PageType' /\ staked' \subseteq Outputs /\ NodeType'
    BY <1>8
       DEF StartStaking, StopStaking, StakeLists, StakeSigns, Confirmed, spending, node,
           TypeOK, PageType, NodeType
  <2>2. FlagsType'
    BY <1>8, Zenon
       DEF StartStaking, StopStaking, StakeLists, StakeSigns, spending, TypeOK, FlagsType
  <2>3. UNCHANGED spending
    BY <1>8 DEF StartStaking, StopStaking, StakeLists, StakeSigns
  <2>4. QED
    BY <2>1, <2>2, <2>3 DEF spending, ops, TypeOK, OperationShape
\* The node
<1>9. CASE NodeAnswersSend
  <2>1. /\ chain' \in [Outputs -> {"absent", "pending", "confirmed", "spent"}]
        /\ accepted' \subseteq Collaterals
    BY <1>9, TxTypes, EffectType DEF NodeAnswersSend, TypeOK, NodeType
  <2>2. send' \in Sends /\ UNCHANGED <<registry, wire, wallet, mn>>
    BY <1>9, Nothing DEF NodeAnswersSend, EndSend, Sends
  <2>3. QED
    BY <2>1, <2>2, WalletKeepsTypes DEF TypeOK, NodeType, OperationShape
<1>10. CASE NodeAnswersMn
  <2>1. /\ chain' \in [Outputs -> {"absent", "pending", "confirmed", "spent"}]
        /\ accepted' \subseteq Collaterals
    BY <1>10, TxTypes, EffectType DEF NodeAnswersMn, TypeOK, NodeType
  <2>2. mn' = NoMn \/ mn' = [mn EXCEPT !.at = "answered", !.inputs = {}]
    BY <1>10 DEF NodeAnswersMn, EndMn
  <2>3. /\ mn.op # "none"
        /\ mn' = NoMn \/ (mn' \in Mns /\ mn'.op = mn.op /\ mn'.at = "answered")
    BY <1>10, <2>2 DEF NodeAnswersMn, OperationShape, TypeOK, Mns, Places
  <2>4. mn' \in Mns /\ OperationShape'
    BY <1>10, <2>3, Nothing DEF NodeAnswersMn, OperationShape, Kinds
  <2>5. UNCHANGED <<registry, wire, wallet, send>>
    BY <1>10 DEF NodeAnswersMn
  <2>6. QED
    BY <2>1, <2>4, <2>5, WalletKeepsTypes DEF TypeOK, NodeType
<1>11. CASE BroadcastTimesOut
  <2>1. wire' \subseteq Txs
    BY <1>11, TxTypes DEF BroadcastTimesOut, Delayed, TypeOK, NodeType
  <2>2. /\ (send' = send \/ send' = NoSend) /\ (mn' = mn \/ mn' = NoMn)
        /\ UNCHANGED <<chain, accepted, registry, wallet>>
    BY <1>11 DEF BroadcastTimesOut, EndSend, EndMn
  <2>3. QED
    BY <2>1, <2>2, WalletKeepsTypes, Nothing DEF TypeOK, NodeType, OperationShape
<1>12. ASSUME NEW tx \in wire, LateArrival(tx) PROVE TypeIInv'
  <2>1. /\ chain' \in [Outputs -> {"absent", "pending", "confirmed", "spent"}]
        /\ accepted' \subseteq Collaterals
    BY <1>12, EffectType DEF LateArrival, TypeOK, NodeType
  <2>2. wire' \subseteq wire /\ UNCHANGED <<registry, wallet, send, mn>>
    BY <1>12 DEF LateArrival
  <2>3. QED
    BY <2>1, <2>2, WalletKeepsTypes DEF TypeOK, NodeType, OperationShape
<1>13. CASE RegistryChanges \/ \E o \in Outputs : Confirm(o)
  <2>1. NodeType' /\ UNCHANGED <<wallet, send, mn>>
    BY <1>13 DEF RegistryChanges, Confirm, TypeOK, NodeType
  <2>2. QED
    BY <2>1, WalletKeepsTypes DEF TypeOK, OperationShape
<1>14. CASE UNCHANGED vars
  <2>1. UNCHANGED <<node, wallet, send, mn>>
    BY <1>14 DEF vars, wallet, ops
  <2>2. QED
    BY <2>1, WalletKeepsTypes DEF node, TypeOK, NodeType, OperationShape
<1>15. QED
  BY <1>1, <1>2, <1>3, <1>4, <1>5, <1>6, <1>7, <1>8, <1>9, <1>10, <1>11, <1>12, <1>13, <1>14
     DEF Next, Sending, Masternode

LEMMA TypeIInvHolds == Spec => []TypeIInv
<1>1. TypeIInv /\ [Next]_vars => TypeIInv'
  BY TypeKept
<1>2. QED
  BY TypeInit, <1>1, PTL DEF Spec

\* Every variable keeps its type; a locked page holds no typed text, no
\* password and no staking session, and a stopped session no list.
THEOREM TypeCorrect == Spec => []TypeOK
<1>1. TypeIInv => TypeOK
  BY DEF TypeIInv
<1>2. QED
  BY <1>1, TypeIInvHolds, PTL

(***************************************************************************)
(* The copy of the records.                                                *)
(***************************************************************************)

\* Every action but those of an unlock, of the masternode operations and of
\* their refreshes leaves the copy, and what it is a copy of, alone.
CopyVars == <<records, recs, view, load, mn>>

LEMMA CopyUntouched ==
  ASSUME CoherenceIInv, UNCHANGED CopyVars
  PROVE  CoherenceIInv'
BY DEF CoherenceIInv, CopyVars

LEMMA CoherenceInit == Init => CoherenceIInv
BY DEF Init, CoherenceIInv, NoMn

LEMMA CoherenceKept ==
  ASSUME ~ReadsMayFail, TypeIInv, CoherenceIInv, [Next]_vars
  PROVE  CoherenceIInv'
<1>1. CASE Lock
  BY <1>1 DEF Lock, CoherenceIInv, ops
<1>2. CASE Unlock
  BY <1>2 DEF Unlock, CoherenceIInv
<1>3. CASE Loading
  BY <1>3 DEF Loading, LoadKeys, LoadRecords, LoadRegistry, LoadWallet, LoadFails,
              ReadRecords, CoherenceIInv
<1>4. CASE Refreshing
  BY <1>4 DEF Refreshing, RefreshRecords, RefreshRegistry, ReadRecords, CoherenceIInv
<1>0. mn \in Mns /\ OperationShape
  BY DEF TypeIInv, TypeOK
<1>5. ASSUME NEW op \in Kinds \cup {"export"}, NEW k \in Collaterals \cup {NoOutput},
             MnStart(op, k)
      PROVE  CoherenceIInv'
  <2>1. mn.op = "none" /\ mn'.op # "none"
        /\ mn'.at \notin {"wallet", "records"}
        /\ UNCHANGED <<records, recs, view, load>>
    BY <1>5 DEF MnStart, masternodeBusy, Kinds, desk
  <2>2. QED
    BY <1>0, <2>1 DEF CoherenceIInv, OperationShape
<1>6. CASE Masternode
  <2>1. CASE MnVerified \/ MnExported \/ MnFetched \/ MnDecrypted \/ MnAnswered \/ MnFails
    <3>1. /\ mn.op # "none" /\ mn.at \notin {"wallet", "records"}
          /\ mn' = NoMn \/ (mn'.op = mn.op /\ mn'.at \notin {"wallet", "records"})
          /\ UNCHANGED <<records, recs, view, load>>
      BY <1>0, <2>1, MnFetchedMoves
         DEF MnVerified, MnExported, MnDecrypted, MnAnswered, MnFails, MnFetched,
             EndMn, desk, TypeIInv, OperationShape, Mns
    <3>2. QED
      BY <3>1 DEF CoherenceIInv, NoMn
  <2>2. CASE NodeAnswersMn
    BY <1>0, <2>2 DEF NodeAnswersMn, EndMn, wallet, CoherenceIInv, NoMn, Mns
  <2>3. CASE MnSaved
    BY <1>0, <2>3 DEF MnSaved, desk, CoherenceIInv, Mns
  <2>4. CASE MnRefreshed
    BY <1>0, <2>4 DEF MnRefreshed, desk, CoherenceIInv, Mns
  <2>5. CASE MnReadsRecords
    BY <1>0, <2>5 DEF MnReadsRecords, ReadRecords, desk, CoherenceIInv, Mns
  <2>6. CASE MnReadsRegistry
    BY <2>6 DEF MnReadsRegistry, EndMn, desk, CoherenceIInv, NoMn
  <2>7. QED
    BY <1>6, <2>1, <2>2, <2>3, <2>4, <2>5, <2>6 DEF Masternode
<1>7. CASE BroadcastTimesOut
  BY <1>7 DEF BroadcastTimesOut, EndMn, wallet, CoherenceIInv, NoMn
<1>8. CASE FillForm \/ TypePassword \/ (\E id \in Tabs : SelectTab(id))
  BY <1>8, CopyUntouched DEF FillForm, TypePassword, SelectTab, ops, CopyVars
<1>9. CASE SendStart \/ Sending
  BY <1>9, CopyUntouched
     DEF SendStart, Sending, SendSelects, SendFails, NodeAnswersSend, SendAnswered,
         SendRefreshed, page, wallet, CopyVars
<1>10. CASE \/ StartStaking \/ StopStaking \/ StakeLists
            \/ \E o \in Outputs : StakeSigns(o) \/ Confirm(o)
  BY <1>10, CopyUntouched
     DEF StartStaking, StopStaking, StakeLists, StakeSigns, Confirm, spending, wallet,
         ops, CopyVars
<1>11. CASE (\E tx \in wire : LateArrival(tx)) \/ RegistryChanges
  BY <1>11, CopyUntouched DEF LateArrival, RegistryChanges, wallet, CopyVars
<1>12. CASE UNCHANGED vars
  BY <1>12, CopyUntouched DEF vars, ops, CopyVars
<1>13. QED
  BY <1>1, <1>2, <1>3, <1>4, <1>5, <1>6, <1>7, <1>8, <1>9, <1>10, <1>11, <1>12 DEF Next

\* Where reading IndexedDB back does not fail, the page's copy of its records is
\* what IndexedDB holds whenever no operation and no unlock is under way: lock,
\* tab switches and lost answers in between do not matter.
THEOREM CoherentAtRestHolds == ~ReadsMayFail => (Spec => []CoherentAtRest)
<1> SUFFICES ASSUME ~ReadsMayFail PROVE Spec => []CoherentAtRest
  OBVIOUS
<1>1. TypeIInv /\ CoherenceIInv /\ [Next]_vars => CoherenceIInv'
  BY CoherenceKept
<1>2. TypeIInv /\ CoherenceIInv => CoherentAtRest
  BY DEF TypeIInv, OperationShape, CoherenceIInv, CoherentAtRest, masternodeBusy
<1>3. QED
  BY CoherenceInit, TypeIInvHolds, <1>1, <1>2, PTL DEF Spec
\* Only the selection gives a send its coins.
LEMMA SendTakes ==
  ASSUME TypeIInv, [Next]_vars
  PROVE  SendSelects \/ send'.inputs = send.inputs \/ send'.inputs = {}
<1>0. send \in Sends
  BY DEF TypeIInv, TypeOK
<1>1. CASE SendStart \/ SendFails \/ SendAnswered \/ SendRefreshed
  BY <1>0, <1>1, Nothing
     DEF SendStart, SendFails, SendAnswered, SendRefreshed, EndSend, Sends
<1>2. CASE NodeAnswersSend \/ BroadcastTimesOut
  BY <1>2, Nothing DEF NodeAnswersSend, BroadcastTimesOut, EndSend
<1>3. CASE \/ Lock \/ Unlock \/ FillForm \/ TypePassword \/ Loading \/ Refreshing
           \/ \E id \in Tabs : SelectTab(id)
  BY <1>3
     DEF Lock, Unlock, FillForm, TypePassword, Loading, LoadKeys, LoadRecords,
         LoadRegistry, LoadWallet, LoadFails, Refreshing, RefreshRecords,
         RefreshRegistry, SelectTab, ops
<1>4. CASE Masternode \/ \E op \in Kinds \cup {"export"}, k \in Collaterals \cup {NoOutput} :
             MnStart(op, k)
  BY <1>4
     DEF Masternode, MnVerified, MnExported, MnFetched, MnDecrypted, NodeAnswersMn,
         MnAnswered, MnSaved, MnRefreshed, MnReadsRecords, MnReadsRegistry, MnFails,
         MnStart, desk
<1>5. CASE \/ StartStaking \/ StopStaking \/ StakeLists
           \/ \E o \in Outputs : StakeSigns(o) \/ Confirm(o)
  BY <1>5 DEF StartStaking, StopStaking, StakeLists, StakeSigns, Confirm, spending, ops
<1>6. CASE (\E tx \in wire : LateArrival(tx)) \/ RegistryChanges
  BY <1>6 DEF LateArrival, RegistryChanges
<1>7. CASE UNCHANGED vars
  BY <1>7 DEF vars, ops
<1>8. QED
  BY <1>1, <1>2, <1>3, <1>4, <1>5, <1>6, <1>7 DEF Next, Sending

\* So a send that selects its coins at rest takes no recorded collateral.
THEOREM RestedSendsSpareCollateralHolds ==
  ~ReadsMayFail => (Spec => RestedSendsSpareCollateral)
<1> SUFFICES ASSUME ~ReadsMayFail PROVE Spec => RestedSendsSpareCollateral
  OBVIOUS
<1> DEFINE Rested ==
      view = "unlocked" /\ ~masternodeBusy /\ load \notin {"keys", "records"}
<1>1. ASSUME TypeIInv, CoherentAtRest, [Next]_vars
      PROVE  Rested => SelectionOf(send) \cap Recorded = {}
  <2> SUFFICES ASSUME Rested PROVE SelectionOf(send) \cap Recorded = {}
    OBVIOUS
  <2>1. recs = records
    BY <1>1 DEF CoherentAtRest
  <2>2. CASE SendSelects
    <3>1. send'.inputs \subseteq Spendable
      BY <2>2 DEF SendSelects
    <3>2. Recorded \subseteq Reserved
      BY <2>1 DEF Recorded, Reserved
    <3>3. QED
      BY <3>1, <3>2 DEF Spendable, SelectionOf
  <2>3. CASE send'.inputs = send.inputs \/ send'.inputs = {}
    BY <2>3 DEF SelectionOf
  <2>4. QED
    BY <1>1, <2>2, <2>3, SendTakes
<1>2. Spec => []CoherentAtRest
  BY CoherentAtRestHolds
<1>3. QED
  BY <1>1, <1>2, TypeIInvHolds, PTL DEF Spec, RestedSendsSpareCollateral

(***************************************************************************)
(* Staking beside sends and masternode operations.                         *)
(***************************************************************************)

LEMMA StakingInit == Init => StakingIInv
BY DEF Init, StakingIInv, StakingExcludesSpending

\* While nothing is written and the session stays as it is, its list stays good.
LEMMA StakingUntouched ==
  ASSUME StakingIInv, UNCHANGED <<records, stakable>>, staking' => staking,
         staking' => send' = send /\ mn'.op = mn.op /\ tab' = tab
  PROVE  StakingIInv'
BY DEF StakingIInv, StakingExcludesSpending, sending, masternodeBusy, Recorded

\* A stopped session lists nothing, whatever is written then.
LEMMA StoppedListsNothing ==
  ASSUME ~staking', stakable' = {}
  PROVE  StakingIInv'
BY DEF StakingIInv, StakingExcludesSpending

LEMMA StakingKept ==
  ASSUME TypeIInv, StakingIInv, [Next]_vars
  PROVE  StakingIInv'
<1>0. mn \in Mns /\ OperationShape /\ (~staking => stakable = {})
  BY DEF TypeIInv, TypeOK, FlagsType
<1>a. staking => send.at = "idle" /\ mn.op = "none" /\ mn.at = "idle"
                 /\ tab \notin {"send", "masternodes"}
  BY <1>0 DEF StakingIInv, StakingExcludesSpending, sending, masternodeBusy, OperationShape
<1>1. CASE Lock \/ StopStaking
  BY <1>1, StoppedListsNothing DEF Lock, StopStaking
<1>2. CASE Unlock \/ FillForm \/ TypePassword \/ Refreshing
  BY <1>2, StakingUntouched
     DEF Unlock, FillForm, TypePassword, Refreshing, RefreshRecords, RefreshRegistry, ops
<1>3. CASE Loading
  <2>1. UNCHANGED <<records, stakable, staking, send, mn>> /\ (tab' = tab \/ tab' = "overview")
    BY <1>3 DEF Loading, LoadKeys, LoadRecords, LoadRegistry, LoadWallet, LoadFails
  <2>2. QED
    BY <2>1 DEF StakingIInv, StakingExcludesSpending, sending, masternodeBusy, Recorded
<1>4. ASSUME NEW id \in Tabs, SelectTab(id) PROVE StakingIInv'
  <2>1. CASE id \in {"send", "masternodes"}
    BY <1>4, <2>1, StoppedListsNothing DEF SelectTab
  <2>2. CASE id \notin {"send", "masternodes"}
    <3>1. UNCHANGED <<records, stakable, staking, send, mn>> /\ tab' = id
      BY <1>4, <2>2 DEF SelectTab
    <3>2. QED
      BY <2>2, <3>1
         DEF StakingIInv, StakingExcludesSpending, sending, masternodeBusy, Recorded
  <2>3. QED
    BY <2>1, <2>2
\* A send or an operation under way excludes the session, and so does its tab.
<1>5. CASE \/ SendStart \/ Sending \/ Masternode \/ BroadcastTimesOut
           \/ \E op \in Kinds \cup {"export"}, k \in Collaterals \cup {NoOutput} :
                MnStart(op, k)
  <2>1. ~staking
    BY <1>0, <1>a, <1>5
       DEF SendStart, Sending, SendSelects, SendFails, NodeAnswersSend, SendAnswered,
           SendRefreshed, Masternode, MnVerified, MnExported, MnFetched, MnDecrypted,
           NodeAnswersMn, MnAnswered, MnSaved, MnRefreshed, MnReadsRecords,
           MnReadsRegistry, MnFails, BroadcastTimesOut, MnStart, Offered
  <2>2. UNCHANGED <<staking, stakable>>
    BY <1>5
       DEF SendStart, Sending, SendSelects, SendFails, NodeAnswersSend, SendAnswered,
           SendRefreshed, Masternode, MnVerified, MnExported, MnFetched, MnDecrypted,
           NodeAnswersMn, MnAnswered, MnSaved, MnRefreshed, MnReadsRecords,
           MnReadsRegistry, MnFails, BroadcastTimesOut, MnStart, page, desk, wallet
  <2>3. QED
    BY <1>0, <2>1, <2>2, StoppedListsNothing
<1>6. CASE StartStaking
  BY <1>0, <1>6
     DEF StartStaking, spending, ops, busyOperation, StakingIInv, StakingExcludesSpending,
         sending, masternodeBusy, Recorded
<1>7. CASE StakeLists
  BY <1>7
     DEF StakeLists, spending, ops, StakingIInv, StakingExcludesSpending, sending,
         masternodeBusy, Recorded
<1>8. ASSUME NEW o \in Outputs, StakeSigns(o) PROVE StakingIInv'
  BY <1>8
     DEF StakeSigns, spending, ops, StakingIInv, StakingExcludesSpending, sending,
         masternodeBusy, Recorded
<1>9. CASE \/ (\E tx \in wire : LateArrival(tx)) \/ RegistryChanges
           \/ \E o \in Outputs : Confirm(o)
  BY <1>9, StakingUntouched DEF LateArrival, RegistryChanges, Confirm, wallet
<1>10. CASE UNCHANGED vars
  BY <1>10, StakingUntouched DEF vars, ops
<1>11. QED
  BY <1>1, <1>2, <1>3, <1>4, <1>5, <1>6, <1>7, <1>8, <1>9, <1>10 DEF Next

LEMMA StakingIInvHolds == Spec => []StakingIInv
<1>1. TypeIInv /\ StakingIInv /\ [Next]_vars => StakingIInv'
  BY StakingKept
<1>2. QED
  BY StakingInit, TypeIInvHolds, <1>1, PTL DEF Spec

\* The session never runs beside a send or a masternode operation, nor on
\* their tabs, whichever of them starts, ends or is given up when.
THEOREM StakingExcludesSpendingHolds == Spec => []StakingExcludesSpending
<1>1. StakingIInv => StakingExcludesSpending
  BY DEF StakingIInv
<1>2. QED
  BY <1>1, StakingIInvHolds, PTL

\* What the session signs is no collateral the wallet has a record of.
THEOREM StakingSparesCollateralHolds == Spec => StakingSparesCollateral
<1>1. ASSUME StakingIInv, [Next]_vars
      PROVE  (staked' \ staked) \cap Recorded = {} \/ UNCHANGED vars
  <2>1. ASSUME NEW o \in Outputs, StakeSigns(o)
        PROVE  (staked' \ staked) \cap Recorded = {}
    BY <1>1, <2>1 DEF StakeSigns, StakingIInv
  <2>2. CASE StopStaking \/ StakeLists
    BY <2>2 DEF StopStaking, StakeLists
  <2>3. CASE \/ Lock \/ Unlock \/ FillForm \/ TypePassword \/ Loading \/ Refreshing
             \/ \E id \in Tabs : SelectTab(id)
    BY <2>3
       DEF Lock, Unlock, FillForm, TypePassword, Loading, LoadKeys, LoadRecords,
           LoadRegistry, LoadWallet, LoadFails, Refreshing, RefreshRecords,
           RefreshRegistry, SelectTab
  <2>4. CASE SendStart \/ Sending
    BY <2>4
       DEF SendStart, Sending, SendSelects, SendFails, NodeAnswersSend, SendAnswered,
           SendRefreshed, page, wallet
  <2>5. CASE Masternode \/ \E op \in Kinds \cup {"export"}, k \in Collaterals \cup {NoOutput} :
               MnStart(op, k)
    BY <2>5
       DEF Masternode, MnVerified, MnExported, MnFetched, MnDecrypted, NodeAnswersMn,
           MnAnswered, MnSaved, MnRefreshed, MnReadsRecords, MnReadsRegistry, MnFails,
           MnStart, desk, wallet
  <2>6. CASE \/ StartStaking \/ BroadcastTimesOut \/ RegistryChanges
             \/ (\E tx \in wire : LateArrival(tx)) \/ \E o \in Outputs : Confirm(o)
    BY <2>6 DEF StartStaking, BroadcastTimesOut, RegistryChanges, LateArrival, Confirm, wallet
  <2>7. QED
    BY <1>1, <2>1, <2>2, <2>3, <2>4, <2>5, <2>6 DEF Next
<1>2. QED
  BY <1>1, StakingIInvHolds, PTL DEF Spec, StakingSparesCollateral
(***************************************************************************)
(* What the records say, and what the node accepted.                       *)
(***************************************************************************)

\* The node takes nothing back: an output there is stays, spent or not, and a
\* spent one stays spent, as long as only new outputs are created.
LEMMA EffectAdvances ==
  ASSUME TypeOK, NEW tx \in Txs, Effect(tx),
         tx.kind = "create" => chain[tx.target] = "absent"
  PROVE  /\ \A o \in Outputs : chain[o] # "absent" => chain'[o] # "absent"
         /\ \A o \in Outputs : chain[o] = "spent" => chain'[o] = "spent"
         /\ \A o \in tx.inputs : o \in Outputs => chain'[o] = "spent"
         /\ tx.kind = "create" /\ tx.target \in Outputs => chain'[tx.target] # "absent"
         /\ \A o \in Outputs : chain[o] = "absent" /\ o \notin tx.inputs
              /\ ~(tx.kind = "create" /\ o = tx.target) => chain'[o] = "absent"
         /\ accepted \subseteq accepted'
         /\ tx.kind = "register" => tx.target \in accepted'
BY DEF TypeOK, NodeType, Effect

\* What is absent cannot be spent.
LEMMA ValidInputs ==
  ASSUME NEW tx \in Txs, Valid(tx), NEW o \in tx.inputs
  PROVE  chain[o] \in {"pending", "confirmed"}
BY DEF Valid, Unspent

LEMMA RecordsInit == Init => RecordsIInv
<1> SUFFICES ASSUME Init PROVE RecordsIInv
  OBVIOUS
<1>1. mn = NoMn /\ mn.op = "none" /\ mn.at = "idle" /\ wire = {}
  BY Nothing DEF Init
<1>2. \A k \in Collaterals : records[k] = "none" /\ recs[k] = "none"
  BY DEF Init, NoRecs
<1>3. RecordsAreBacked /\ CopiesFollow
  BY <1>2 DEF RecordsAreBacked, CopiesFollow
<1>4. CreationsAreNew /\ OperationIsBacked
  BY <1>1 DEF CreationsAreNew, OperationIsBacked, AnswerStands
<1>5. QED
  BY <1>3, <1>4 DEF RecordsIInv

\* The node advances under an operation that takes no step.
LEMMA NodeAdvances ==
  ASSUME TypeIInv, RecordsIInv, UNCHANGED <<records, recs, mn>>,
         \A o \in Outputs : chain[o] # "absent" => chain'[o] # "absent",
         \A o \in Outputs : chain[o] = "spent" => chain'[o] = "spent",
         accepted \subseteq accepted',
         CreationsAreNew'
  PROVE  RecordsIInv'
<1>1. RecordsAreBacked'
  BY DEF RecordsIInv, RecordsAreBacked, Outputs
<1>2. CopiesFollow'
  BY DEF RecordsIInv, CopiesFollow
<1>3. AnswerStands'
  BY DEF RecordsIInv, OperationIsBacked, AnswerStands, Outputs
<1>4. OperationIsBacked'
  BY <1>3 DEF RecordsIInv, OperationIsBacked
<1>5. QED
  BY <1>1, <1>2, <1>4 DEF RecordsIInv

\* The operation ends, or goes on without an answer, with the copy as it was or
\* read again: nothing else changes.
LEMMA OperationMoves ==
  ASSUME RecordsIInv, UNCHANGED <<chain, accepted, wire, records>>,
         recs' = recs \/ recs' = records,
         \/ mn' = NoMn
         \/ /\ mn'.op = mn.op /\ mn'.target = mn.target
            /\ mn'.at \notin {"broadcast", "answered", "save"}
  PROVE  RecordsIInv'
<1>1. RecordsAreBacked' /\ CopiesFollow'
  BY DEF RecordsIInv, RecordsAreBacked, CopiesFollow
<1>2. CreationsAreNew'
  BY Nothing DEF RecordsIInv, CreationsAreNew
<1>3. OperationIsBacked'
  BY Nothing DEF RecordsIInv, OperationIsBacked, AnswerStands
<1>4. QED
  BY <1>1, <1>2, <1>3 DEF RecordsIInv

\* The page reads the records again, or forgets its copy.
LEMMA CopyMoves ==
  ASSUME RecordsIInv, UNCHANGED <<chain, accepted, wire, records, mn>>,
         recs' = recs \/ recs' = records \/ recs' = NoRecs
  PROVE  RecordsIInv'
<1>1. CopiesFollow'
  BY DEF RecordsIInv, CopiesFollow, NoRecs
<1>2. QED
  BY <1>1
     DEF RecordsIInv, RecordsAreBacked, CreationsAreNew, OperationIsBacked, AnswerStands

\* A transaction the node takes leaves the creations it has not seen new.
LEMMA CreationsStayNew ==
  ASSUME TypeIInv, CreationsAreNew, NEW tx \in Txs, Valid(tx), Effect(tx),
         tx.kind = "create" => chain[tx.target] = "absent",
         wire' \subseteq wire,
         tx.kind = "create" => \A other \in wire' :
           other.kind = "create" => other.target # tx.target,
         mn'.op = "create" /\ mn'.at = "broadcast" =>
           /\ mn' = mn
           /\ tx.kind = "create" => tx.target # mn.target
  PROVE  CreationsAreNew'
<1>1. \A k \in Collaterals :
        chain[k] = "absent" /\ ~(tx.kind = "create" /\ k = tx.target) => chain'[k] = "absent"
  <2> SUFFICES ASSUME NEW k \in Collaterals, chain[k] = "absent",
                      ~(tx.kind = "create" /\ k = tx.target)
               PROVE  chain'[k] = "absent"
    OBVIOUS
  <2>1. k \notin tx.inputs
    BY ValidInputs
  <2>2. QED
    BY <2>1, EffectAdvances DEF TypeIInv, Outputs
<1>2. \A other \in wire' : other.kind = "create" =>
         /\ other.target \in Collaterals /\ chain'[other.target] = "absent"
         /\ \A another \in wire' :
              another.kind = "create" /\ another.target = other.target => another = other
  BY <1>1 DEF CreationsAreNew
<1>3. mn'.op = "create" /\ mn'.at = "broadcast" =>
         /\ mn'.target \in Collaterals /\ chain'[mn'.target] = "absent"
         /\ \A other \in wire' : other.target # mn'.target
  BY <1>1 DEF CreationsAreNew
<1>4. QED
  BY <1>2, <1>3 DEF CreationsAreNew

LEMMA RecordsKept ==
  ASSUME TypeIInv, RecordsIInv, [Next]_vars
  PROVE  RecordsIInv'
<1>0. mn \in Mns /\ OperationShape /\ wire \subseteq Txs
  BY DEF TypeIInv, TypeOK, NodeType
\* Steps that touch neither the node nor the records nor an operation
<1>1. CASE \/ Lock \/ Unlock \/ FillForm \/ TypePassword \/ Loading \/ Refreshing
           \/ \E id \in Tabs : SelectTab(id)
  BY <1>1, CopyMoves
     DEF Lock, Unlock, FillForm, TypePassword, Loading, LoadKeys, LoadRecords,
         LoadRegistry, LoadWallet, LoadFails, Refreshing, RefreshRecords,
         RefreshRegistry, ReadRecords, SelectTab, node, ops
<1>2. CASE SendStart \/ SendSelects \/ SendFails \/ SendAnswered \/ SendRefreshed
  BY <1>2, CopyMoves
     DEF SendStart, SendSelects, SendFails, SendAnswered, SendRefreshed, page, node
<1>3. CASE StartStaking \/ StopStaking \/ StakeLists
  BY <1>3, CopyMoves DEF StartStaking, StopStaking, StakeLists, spending, node, ops
\* The masternode operations
<1>4. ASSUME NEW op \in Kinds \cup {"export"}, NEW k \in Collaterals \cup {NoOutput},
             MnStart(op, k)
      PROVE  RecordsIInv'
  <2>1. PICK at \in {"verify", "fetch"} :
          mn' = [op |-> op, at |-> at, inputs |-> {}, target |-> k]
    BY <1>4 DEF MnStart
  <2>2. op \in {"register", "withdraw"} => k \in Collaterals /\ records[k] # "none"
    BY <1>4 DEF MnStart, Offered, Live, RecordsIInv, CopiesFollow
  <2>3. OperationIsBacked'
    BY <1>4, <2>1, <2>2 DEF MnStart, OperationIsBacked, AnswerStands
  <2>4. CreationsAreNew'
    BY <1>4, <2>1 DEF MnStart, node, RecordsIInv, CreationsAreNew
  <2>5. QED
    BY <1>4, <2>3, <2>4 DEF MnStart, node, RecordsIInv, RecordsAreBacked, CopiesFollow
<1>5. CASE MnVerified \/ MnExported \/ MnRefreshed \/ MnReadsRegistry \/ MnFails
  <2>1. \/ mn' = NoMn
        \/ /\ mn'.op = mn.op /\ mn'.target = mn.target
           /\ mn'.at \in {"fetch", "records"}
    BY <1>0, <1>5
       DEF MnVerified, MnExported, MnRefreshed, MnReadsRegistry, MnFails, EndMn, Mns
  <2>2. UNCHANGED <<node, records, recs>>
    BY <1>5 DEF MnVerified, MnExported, MnRefreshed, MnReadsRegistry, MnFails
  <2>3. QED
    BY <2>1, <2>2, OperationMoves DEF node
<1>6. CASE MnFetched
  <2>1. UNCHANGED <<node, records, recs>>
    BY <1>6 DEF MnFetched
  <2>2. CASE mn.op = "create"
    <3>1. PICK inputs \in SUBSET (Spendable \cap Confirmed), k \in Collaterals :
            /\ chain[k] = "absent" /\ \A tx \in wire : tx.target # k
            /\ mn' = [mn EXCEPT !.at = "broadcast", !.inputs = inputs, !.target = k]
      BY <1>6, <2>2 DEF MnFetched
    <3>2. mn'.op = "create" /\ mn'.at = "broadcast" /\ mn'.target = k
      BY <1>0, <2>2, <3>1 DEF Mns
    <3>3. CreationsAreNew' /\ OperationIsBacked'
      BY <2>1, <3>1, <3>2
         DEF node, RecordsIInv, CreationsAreNew, OperationIsBacked, AnswerStands
    <3>4. QED
      BY <2>1, <3>3 DEF node, RecordsIInv, RecordsAreBacked, CopiesFollow
  <2>3. CASE mn.op = "register"
    <3>1. PICK inputs : MnSelects(inputs, "decrypt")
      BY <1>6, <2>3 DEF MnFetched
    <3>2. mn'.op = mn.op /\ mn'.target = mn.target /\ mn'.at = "decrypt"
      BY <1>0, <3>1 DEF MnSelects, Mns
    <3>3. QED
      BY <2>1, <3>2, OperationMoves DEF node
  <2>4. CASE mn.op = "withdraw"
    <3>1. mn' = [mn EXCEPT !.at = "broadcast", !.inputs = {mn.target}]
      BY <1>6, <2>4 DEF MnFetched, MnSelects
    <3>2. /\ mn'.op = "withdraw" /\ mn'.at = "broadcast"
          /\ mn'.target = mn.target /\ mn'.inputs = {mn.target}
      BY <1>0, <2>4, <3>1 DEF Mns
    <3>3. CreationsAreNew' /\ OperationIsBacked'
      BY <2>1, <2>4, <3>2
         DEF node, RecordsIInv, CreationsAreNew, OperationIsBacked, AnswerStands
    <3>4. QED
      BY <2>1, <3>3 DEF node, RecordsIInv, RecordsAreBacked, CopiesFollow
  <2>5. QED
    BY <1>6, <2>2, <2>3, <2>4 DEF MnFetched
<1>7. CASE MnDecrypted \/ MnAnswered
  <2>1. UNCHANGED <<node, records, recs>>
    BY <1>7 DEF MnDecrypted, MnAnswered
  <2>2. \/ mn' = NoMn
        \/ /\ mn.at = "decrypt" /\ mn.op = "register"
           /\ mn'.op = mn.op /\ mn'.target = mn.target /\ mn'.at = "broadcast"
        \/ /\ mn.at = "answered"
           /\ mn'.op = mn.op /\ mn'.target = mn.target /\ mn'.at = "save"
    BY <1>0, <1>7 DEF MnDecrypted, MnAnswered, EndMn, OperationShape, Mns
  <2>3. CASE mn' = NoMn
    BY <2>1, <2>3, OperationMoves DEF node
  <2>4. CASE /\ mn.at = "decrypt" /\ mn.op = "register"
             /\ mn'.op = mn.op /\ mn'.target = mn.target /\ mn'.at = "broadcast"
    <3>1. CreationsAreNew' /\ OperationIsBacked'
      BY <2>1, <2>4
         DEF node, RecordsIInv, CreationsAreNew, OperationIsBacked, AnswerStands
    <3>2. QED
      BY <2>1, <3>1 DEF node, RecordsIInv, RecordsAreBacked, CopiesFollow
  <2>5. CASE /\ mn.at = "answered"
             /\ mn'.op = mn.op /\ mn'.target = mn.target /\ mn'.at = "save"
    <3>1. CreationsAreNew' /\ OperationIsBacked'
      BY <2>1, <2>5
         DEF node, RecordsIInv, CreationsAreNew, OperationIsBacked, AnswerStands
    <3>2. QED
      BY <2>1, <3>1 DEF node, RecordsIInv, RecordsAreBacked, CopiesFollow
  <2>6. QED
    BY <2>2, <2>3, <2>4, <2>5
\* The record is written: it says what the node has answered.
<1>8. CASE MnSaved
  <2>1. /\ mn.target \in Collaterals /\ mn.op \in Kinds /\ AnswerStands /\ mn.at = "save"
        /\ UNCHANGED <<node, recs>>
    BY <1>0, <1>8
       DEF MnSaved, OperationShape, RecordsIInv, OperationIsBacked, AnswerStands
  <2>2. /\ records'[mn.target] = StatusAfter(mn.op)
        /\ \A k \in Collaterals : k # mn.target => records'[k] = records[k]
    BY <1>8, <2>1 DEF MnSaved, TypeIInv, TypeOK
  <2>3. /\ mn'.op = mn.op /\ mn'.target = mn.target
        /\ mn'.at \in {"wallet", "records"}
    BY <1>0, <1>8 DEF MnSaved, Mns
  <2>4. /\ StatusAfter(mn.op) # "none"
        /\ StatusAfter(mn.op) = "registered" => mn.target \in accepted
        /\ StatusAfter(mn.op) = "withdrawn" => chain[mn.target] = "spent"
        /\ chain[mn.target] # "absent"
    BY <2>1 DEF StatusAfter, Kinds, AnswerStands, RecordsIInv, RecordsAreBacked
  <2>5. RecordsAreBacked' /\ CopiesFollow'
    BY <2>1, <2>2, <2>4 DEF node, RecordsIInv, RecordsAreBacked, CopiesFollow
  <2>6. CreationsAreNew'
    BY <2>1, <2>3 DEF node, RecordsIInv, CreationsAreNew
  <2>7. OperationIsBacked'
    BY <2>1, <2>2, <2>3, <2>4 DEF OperationIsBacked, AnswerStands
  <2>8. QED
    BY <2>5, <2>6, <2>7 DEF RecordsIInv
<1>9. CASE MnReadsRecords
  BY <1>0, <1>9, OperationMoves DEF MnReadsRecords, ReadRecords, EndMn, node, Mns
\* The node
<1>10. CASE NodeAnswersMn
  <2>1. CASE ~Valid(MnTx)
    BY <1>10, <2>1, OperationMoves DEF NodeAnswersMn, EndMn, wallet
  <2>2. CASE Valid(MnTx)
    <3>1. /\ mn.at = "broadcast" /\ Effect(MnTx) /\ MnTx \in Txs /\ mn.op \in Kinds
          /\ UNCHANGED <<wire, records, recs>>
          /\ mn' = [mn EXCEPT !.at = "answered", !.inputs = {}]
      BY <1>0, <1>10, <2>2, TxTypes DEF NodeAnswersMn, wallet, OperationShape
    <3>2. mn'.at = "answered" /\ mn'.op = mn.op /\ mn'.target = mn.target
      BY <1>0, <3>1 DEF Mns
    <3>3. MnTx.kind = mn.op /\ MnTx.target = mn.target /\ MnTx.inputs = mn.inputs
      BY DEF MnTx
    <3>4. /\ mn.target \in Collaterals
          /\ mn.op = "create" => /\ chain[mn.target] = "absent"
                                /\ \A tx \in wire : tx.target # mn.target
      BY <3>1 DEF RecordsIInv, CreationsAreNew, OperationIsBacked, Kinds
    <3>5. CreationsAreNew'
      BY <2>2, <3>1, <3>2, <3>3, <3>4, CreationsStayNew DEF RecordsIInv
    <3>6. /\ \A o \in Outputs : chain[o] # "absent" => chain'[o] # "absent"
          /\ \A o \in Outputs : chain[o] = "spent" => chain'[o] = "spent"
          /\ \A o \in mn.inputs : o \in Outputs => chain'[o] = "spent"
          /\ mn.op = "create" => chain'[mn.target] # "absent"
          /\ accepted \subseteq accepted'
          /\ mn.op = "register" => mn.target \in accepted'
      BY <3>1, <3>3, <3>4, EffectAdvances DEF TypeIInv, Outputs
    <3>7. RecordsAreBacked' /\ CopiesFollow'
      BY <3>1, <3>6 DEF RecordsIInv, RecordsAreBacked, CopiesFollow, Outputs
    <3>8. records[mn.target] \in Statuses
      BY <3>4 DEF TypeIInv, TypeOK
    <3>9. CASE mn.op = "create"
      <4>1. records[mn.target] = "none"
        BY <3>4, <3>9 DEF RecordsIInv, RecordsAreBacked
      <4>2. AnswerStands' /\ OperationIsBacked'
        BY <3>1, <3>2, <3>4, <3>6, <3>9, <4>1 DEF AnswerStands, OperationIsBacked
      <4>3. QED
        BY <3>5, <3>7, <4>2 DEF RecordsIInv
    <3>10. CASE mn.op = "register"
      <4>1. chain[mn.target] = "confirmed" /\ mn.target \notin accepted
        BY <2>2, <3>3, <3>10 DEF Valid, Confirmed
      <4>2. records[mn.target] = "draft"
        BY <3>4, <3>8, <3>10, <4>1
           DEF RecordsIInv, RecordsAreBacked, OperationIsBacked, Statuses
      <4>3. AnswerStands' /\ OperationIsBacked'
        BY <3>1, <3>2, <3>4, <3>6, <3>10, <4>2 DEF AnswerStands, OperationIsBacked
      <4>4. QED
        BY <3>5, <3>7, <4>3 DEF RecordsIInv
    <3>11. CASE mn.op = "withdraw"
      <4>1. mn.inputs = {mn.target}
        BY <3>1, <3>11 DEF RecordsIInv, OperationIsBacked
      <4>2. chain[mn.target] # "spent" /\ chain'[mn.target] = "spent"
        BY <2>2, <3>1, <3>3, <3>4, <3>6, <4>1, ValidInputs DEF Outputs
      <4>3. Live(records[mn.target])
        BY <3>4, <3>8, <3>11, <4>2
           DEF RecordsIInv, RecordsAreBacked, OperationIsBacked, Statuses, Live
      <4>4. AnswerStands' /\ OperationIsBacked'
        BY <3>1, <3>2, <3>4, <3>11, <4>2, <4>3
           DEF AnswerStands, OperationIsBacked, Live
      <4>5. QED
        BY <3>5, <3>7, <4>4 DEF RecordsIInv
    <3>12. QED
      BY <3>1, <3>9, <3>10, <3>11 DEF Kinds
  <2>3. QED
    BY <2>1, <2>2
<1>11. CASE NodeAnswersSend
  <2>1. UNCHANGED <<wire, records, recs, mn>>
    BY <1>11 DEF NodeAnswersSend, wallet
  <2>2. CASE ~Valid(SendTx)
    BY <1>11, <2>1, <2>2, CopyMoves DEF NodeAnswersSend
  <2>3. CASE Valid(SendTx)
    <3>1. Effect(SendTx) /\ SendTx \in Txs /\ SendTx.kind = "send"
      BY <1>11, <2>3, TxTypes DEF NodeAnswersSend, SendTx
    <3>2. CreationsAreNew'
      BY <2>1, <2>3, <3>1, CreationsStayNew DEF RecordsIInv
    <3>3. QED
      BY <2>1, <3>1, <3>2, EffectAdvances, NodeAdvances DEF TypeIInv
  <2>4. QED
    BY <2>2, <2>3
<1>12. ASSUME NEW tx \in wire, LateArrival(tx) PROVE RecordsIInv'
  <2>1. tx \in Txs /\ wire' = wire \ {tx} /\ UNCHANGED <<records, recs, mn>>
    BY <1>0, <1>12 DEF LateArrival, wallet
  <2>2. tx.kind = "create" =>
          /\ chain[tx.target] = "absent"
          /\ \A other \in wire' : other.kind = "create" => other.target # tx.target
          /\ mn.op = "create" /\ mn.at = "broadcast" => tx.target # mn.target
    BY <2>1 DEF RecordsIInv, CreationsAreNew
  <2>3. CASE Valid(tx)
    <3>1. Effect(tx)
      BY <1>12, <2>3 DEF LateArrival
    <3>2. CreationsAreNew'
      BY <2>1, <2>2, <2>3, <3>1, CreationsStayNew DEF RecordsIInv
    <3>3. QED
      BY <2>1, <2>2, <3>1, <3>2, EffectAdvances, NodeAdvances DEF TypeIInv
  <2>4. CASE ~Valid(tx)
    <3>1. UNCHANGED <<chain, accepted>>
      BY <1>12, <2>4 DEF LateArrival
    <3>2. CreationsAreNew'
      BY <2>1, <3>1 DEF RecordsIInv, CreationsAreNew
    <3>3. QED
      BY <2>1, <3>1, <3>2, NodeAdvances
  <2>5. QED
    BY <2>3, <2>4
\* A request the page gave up joins those that may still arrive.
<1>13. CASE BroadcastTimesOut
  <2>1. UNCHANGED <<chain, accepted, records, recs>>
    BY <1>13 DEF BroadcastTimesOut, wallet
  <2>2. CASE wire' = wire
    <3>1. mn' = mn \/ mn' = NoMn
      BY <1>13 DEF BroadcastTimesOut, EndMn
    <3>2. QED
      BY <2>1, <2>2, <3>1, CopyMoves, OperationMoves
  <2>3. CASE wire' = wire \cup {SendTx} /\ mn' = mn
    <3>1. SendTx.kind = "send" /\ SendTx.target = NoOutput
      BY DEF SendTx
    <3>2. CreationsAreNew'
      BY <2>1, <2>3, <3>1, OutputsAssumption DEF RecordsIInv, CreationsAreNew
    <3>3. QED
      BY <2>1, <2>3, <3>2, NodeAdvances
  <2>4. CASE wire' = wire \cup {MnTx} /\ mn' = NoMn /\ mn.at = "broadcast"
    <3>1. MnTx.kind = mn.op /\ MnTx.target = mn.target
      BY DEF MnTx
    <3>2. CreationsAreNew'
      BY <2>1, <2>4, <3>1, Nothing DEF RecordsIInv, CreationsAreNew
    <3>3. OperationIsBacked'
      BY <2>4, Nothing DEF OperationIsBacked, AnswerStands
    <3>4. QED
      BY <2>1, <3>2, <3>3 DEF RecordsIInv, RecordsAreBacked, CopiesFollow
  <2>5. QED
    BY <1>13, <2>2, <2>3, <2>4 DEF BroadcastTimesOut, Delayed, EndMn
<1>14. CASE \E o \in Outputs : StakeSigns(o) \/ Confirm(o)
  <2>1. /\ \A o \in Outputs : chain[o] # "absent" => chain'[o] # "absent"
        /\ \A o \in Outputs : chain[o] = "spent" => chain'[o] = "spent"
        /\ \A o \in Outputs : chain[o] = "absent" => chain'[o] = "absent"
        /\ UNCHANGED <<accepted, wire, records, recs, mn>>
    BY <1>14
       DEF StakeSigns, Confirm, Confirmed, spending, wallet, ops, TypeIInv, TypeOK, NodeType
  <2>2. CreationsAreNew'
    BY <2>1 DEF RecordsIInv, CreationsAreNew, Outputs
  <2>3. QED
    BY <2>1, <2>2, NodeAdvances
<1>15. CASE RegistryChanges
  BY <1>15, CopyMoves DEF RegistryChanges, wallet
<1>16. CASE UNCHANGED vars
  BY <1>16, CopyMoves DEF vars, node, ops
<1>17. QED
  BY <1>1, <1>2, <1>3, <1>4, <1>5, <1>6, <1>7, <1>8, <1>9, <1>10, <1>11, <1>12, <1>13,
     <1>14, <1>15, <1>16 DEF Next, Sending, Masternode

\* Only the end of a masternode operation writes a record.
LEMMA RecordsWritten ==
  ASSUME [Next]_vars
  PROVE  MnSaved \/ records' = records
<1>1. CASE \/ Lock \/ Unlock \/ FillForm \/ TypePassword \/ Loading \/ Refreshing
           \/ \E id \in Tabs : SelectTab(id)
  BY <1>1
     DEF Lock, Unlock, FillForm, TypePassword, Loading, LoadKeys, LoadRecords,
         LoadRegistry, LoadWallet, LoadFails, Refreshing, RefreshRecords,
         RefreshRegistry, SelectTab
<1>2. CASE SendStart \/ Sending
  BY <1>2
     DEF SendStart, Sending, SendSelects, SendFails, NodeAnswersSend, SendAnswered,
         SendRefreshed, page, wallet
<1>3. CASE Masternode \/ \E op \in Kinds \cup {"export"}, k \in Collaterals \cup {NoOutput} :
             MnStart(op, k)
  BY <1>3
     DEF Masternode, MnVerified, MnExported, MnFetched, MnDecrypted, NodeAnswersMn,
         MnAnswered, MnRefreshed, MnReadsRecords, MnReadsRegistry, MnFails, MnStart,
         wallet
<1>4. CASE \/ StartStaking \/ StopStaking \/ StakeLists
           \/ \E o \in Outputs : StakeSigns(o) \/ Confirm(o)
  BY <1>4
     DEF StartStaking, StopStaking, StakeLists, StakeSigns, Confirm, spending, wallet
<1>5. CASE BroadcastTimesOut \/ (\E tx \in wire : LateArrival(tx)) \/ RegistryChanges
  BY <1>5 DEF BroadcastTimesOut, LateArrival, RegistryChanges, wallet
<1>6. CASE UNCHANGED vars
  BY <1>6 DEF vars
<1>7. QED
  BY <1>1, <1>2, <1>3, <1>4, <1>5, <1>6 DEF Next

LEMMA RecordsIInvHolds == Spec => []RecordsIInv
<1>1. TypeIInv /\ RecordsIInv /\ [Next]_vars => RecordsIInv'
  BY RecordsKept
<1>2. QED
  BY RecordsInit, TypeIInvHolds, <1>1, PTL DEF Spec

\* No record tells more than the node accepted, whatever answers were lost,
\* requests arrived late, reads failed and locks came between.
THEOREM RecordsAreBackedHolds == Spec => []RecordsAreBacked
<1>1. RecordsIInv => RecordsAreBacked
  BY DEF RecordsIInv
<1>2. QED
  BY <1>1, RecordsIInvHolds, PTL

\* A record goes from draft to registered to withdrawn and never back.
THEOREM RecordsAdvanceHolds == Spec => RecordsAdvance
<1> DEFINE Advances == \A k \in Collaterals : records'[k] # records[k] =>
       \/ records[k] = "none" /\ records'[k] = "draft"
       \/ records[k] = "draft" /\ records'[k] \in {"registered", "withdrawn"}
       \/ records[k] = "registered" /\ records'[k] = "withdrawn"
<1>1. ASSUME TypeIInv, RecordsIInv, [Next]_vars
      PROVE  Advances
  <2>1. CASE MnSaved
    <3>1. mn.op \in Kinds /\ AnswerStands /\ mn.at = "save"
      BY <1>1, <2>1 DEF MnSaved, TypeIInv, OperationShape, RecordsIInv, OperationIsBacked
    <3>2. /\ records' = [records EXCEPT ![mn.target] = StatusAfter(mn.op)]
          /\ records \in [Collaterals -> Statuses]
      BY <1>1, <2>1 DEF MnSaved, TypeIInv, TypeOK
    <3>3. QED
      BY <3>1, <3>2 DEF AnswerStands, StatusAfter, Kinds, Live
  <2>2. CASE records' = records
    BY <2>2
  <2>3. QED
    BY <1>1, <2>1, <2>2, RecordsWritten
<1>2. QED
  BY <1>1, TypeIInvHolds, RecordsIInvHolds, PTL DEF Spec, RecordsAdvance
=============================================================================
