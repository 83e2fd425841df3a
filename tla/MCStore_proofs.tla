----------------------------- MODULE MCStore_proofs -----------------------------
(***************************************************************************)
(* Theorems about the wallet that is stored and the page that shows it.    *)
(* The store: what PQWalletStore keeps, for any number of calls, tabs,     *)
(* passwords and keys.  The page: what it reveals, when it is busy, what   *)
(* its set-up stores and clears, and what its forms and tabs show.  Each   *)
(* part has an inductive invariant of its own; a step of one part leaves   *)
(* the others alone.                                                       *)
(***************************************************************************)
EXTENDS MCStore, FiniteSetTheorems, TLAPS

-----------------------------------------------------------------------------
\* The store

CallType == [op : Ops, at : Places, pw : SUBSET Passwords,
             read : SUBSET (Metas \cup {NoWallet}),
             file : SUBSET Files, record : SUBSET Records]
CallsOK == call \in [Calls -> CallType]

SeedsOK ==
  /\ seeds \in [Tabs -> [open : BOOLEAN, buffers : SUBSET Buffers]]
  /\ \A t \in Tabs : ~seeds[t].open => seeds[t].buffers = {}
  /\ unwiped \subseteq Buffers

StoresOK ==
  /\ wallet \in Metas \cup {NoWallet} /\ keys \in Metas \cup {NoWallet}
  /\ masternodes \subseteq Records
  /\ backups \subseteq Files

LEMMA TypeParts == TypeOK <=> StoresOK /\ SeedsOK /\ CallsOK
BY DEF TypeOK, StoresOK, SeedsOK, CallsOK, CallType

\* What a step of a call does to its record, by components.
LEMMA MoveType ==
  ASSUME CallsOK, NEW c \in Calls, NEW at \in Places, Move(c, at)
  PROVE  CallsOK'
<1>1. [call[c] EXCEPT !.at = at] \in CallType
  BY Zenon DEF CallsOK, CallType
<1>2. QED
  BY <1>1 DEF CallsOK, Move

LEMMA BeginType ==
  ASSUME CallsOK, NEW c \in Calls, NEW op \in Ops, NEW pw \in Passwords,
         NEW at \in Places, Begin(c, op, pw, at)
  PROVE  CallsOK'
<1>1. {pw} \in SUBSET Passwords
  OBVIOUS
<1>2. [call[c] EXCEPT !.op = op, !.pw = {pw}, !.at = at] \in CallType
  BY <1>1, Zenon DEF CallsOK, CallType
<1>3. QED
  BY <1>2 DEF CallsOK, Begin

LEMMA FileType ==
  ASSUME CallsOK, NEW c \in Calls, NEW at \in Places, NEW file \in SUBSET Files,
         call' = [call EXCEPT ![c].at = at, ![c].file = file]
  PROVE  CallsOK'
<1>1. [call[c] EXCEPT !.at = at, !.file = file] \in CallType
  BY Zenon DEF CallsOK, CallType
<1>2. QED
  BY <1>1 DEF CallsOK

\* The words a step writes are among the declared ones.
LEMMA Words ==
  /\ {"create", "import", "unlock", "delete", "record", "mark", "operator",
      "export"} \subseteq Ops
  /\ {"keys", "decrypt", "masternodes", "commit", "borrowed", "done", "failed"}
      \subseteq Places
  /\ Outcome \in Places
BY DEF Ops, Places, Outcome

\* A step of a call that goes on leaves the others alone, and its operation.
LEMMA CallGoesOn ==
  ASSUME CallsOK, NEW c \in Calls,
         \/ UnlockReadsKeys(c) \/ UnlockDecrypts(c) \/ UnlockFails(c)
         \/ RecordChecksAddresses(c) \/ RecordAdds(c) \/ MarkPuts(c)
         \/ OperatorReturns(c) \/ ExportReadsKeys(c) \/ ExportReadsMasternodes(c)
  PROVE  /\ \A d \in Calls \ {c} : call'[d] = call[d]
         /\ call'[c].op = call[c].op
<1> USE DEF CallsOK, CallType
<1>1. CASE UnlockReadsKeys(c)
  BY <1>1 DEF UnlockReadsKeys, Move
<1>2. CASE UnlockDecrypts(c)
  BY <1>2 DEF UnlockDecrypts, Move
<1>3. CASE UnlockFails(c) \/ OperatorReturns(c)
  BY <1>3 DEF UnlockFails, OperatorReturns, Move
<1>4. CASE RecordChecksAddresses(c)
  BY <1>4 DEF RecordChecksAddresses, Move
<1>5. CASE RecordAdds(c) \/ MarkPuts(c)
  BY <1>5 DEF RecordAdds, MarkPuts, Move
<1>6. CASE ExportReadsKeys(c) \/ ExportReadsMasternodes(c)
  BY <1>6 DEF ExportReadsKeys, ExportReadsMasternodes
<1>7. QED
  BY <1>1, <1>2, <1>3, <1>4, <1>5, <1>6

\* Two calls begin by reading.
LEMMA CallReads ==
  ASSUME CallsOK, NEW c \in Calls, MarkReads(c) \/ ExportReadsMeta(c)
  PROVE  /\ \A d \in Calls \ {c} : call'[d] = call[d]
         /\ call[c].at = "idle" /\ call'[c].at \in {"commit", "keys"}
         /\ UNCHANGED <<db, backups>>
<1> USE DEF CallsOK, CallType, Idle
<1>1. CASE MarkReads(c)
  <2>1. PICK copy :
          call' = [call EXCEPT ![c].op = "mark", ![c].at = "commit", ![c].record = {copy}]
    BY <1>1, Zenon DEF MarkReads
  <2>2. call'[c].at = "commit" /\ \A d \in Calls \ {c} : call'[d] = call[d]
    BY <2>1
  <2>3. QED
    BY <1>1, <2>2 DEF MarkReads
<1>2. CASE ExportReadsMeta(c)
  BY <1>2 DEF ExportReadsMeta
<1>3. QED
  BY <1>1, <1>2

LEMMA NextCallsOK ==
  ASSUME TypeOK, Next
  PROVE  CallsOK'
<1> USE TypeParts
<1>1. ASSUME NEW c \in Calls, NEW pw \in Passwords, NEW f \in backups,
             ImportChecks(c, f, pw)
      PROVE  CallsOK'
  <2>1. f \in Files
    BY DEF StoresOK
  <2> DEFINE at == IF wallet = NoWallet /\ Accepts(f, pw) THEN "commit" ELSE "failed"
  <2>2. at \in Places /\ "import" \in Ops
    BY Words
  <2>3. [[NoCall EXCEPT !.op = "import", !.pw = {pw}, !.file = {f}] EXCEPT !.at = at]
          \in CallType
    BY <2>1, <2>2, Zenon DEF NoCall, CallType
  <2>4. QED
    BY <1>1, <2>3 DEF ImportChecks, CallsOK
<1>2. ASSUME NEW c \in Calls, NEW pw \in Passwords,
             \/ CreateChecks(c, pw) \/ UnlockVerifies(c, pw)
             \/ DeleteVerifies(c, pw) \/ RecordVerifies(c, pw)
             \/ OperatorBorrows(c, pw)
      PROVE  CallsOK'
  <2>1. \E op \in Ops, at \in Places : Begin(c, op, pw, at)
    BY <1>2, Words DEF CreateChecks, UnlockVerifies, DeleteVerifies,
                       RecordVerifies, OperatorBorrows
  <2>2. QED
    BY <2>1, BeginType
<1>3. ASSUME NEW c \in Calls,
             \/ CreateCommits(c) \/ ImportCommits(c) \/ UnlockFails(c)
             \/ DeleteCommits(c) \/ RecordAdds(c) \/ MarkPuts(c)
             \/ OperatorReturns(c)
      PROVE  CallsOK'
  <2>1. \E at \in Places : Move(c, at)
    BY <1>3, Words DEF CreateCommits, ImportCommits, UnlockFails, DeleteCommits,
                       RecordAdds, MarkPuts, OperatorReturns
  <2>2. QED
    BY <2>1, MoveType
<1>4. ASSUME NEW c \in Calls, UnlockReadsKeys(c) PROVE CallsOK'
  <2>1. CASE Move(c, "done")
    BY <2>1, Words, MoveType
  <2>2. CASE call' = [call EXCEPT ![c].at = "decrypt", ![c].read = {keys}]
    <3>1. {keys} \in SUBSET (Metas \cup {NoWallet}) /\ "decrypt" \in Places
      BY Words DEF StoresOK
    <3>2. [call[c] EXCEPT !.at = "decrypt", !.read = {keys}] \in CallType
      BY <3>1, Zenon DEF CallsOK, CallType
    <3>3. QED
      BY <2>2, <3>2 DEF CallsOK
  <2>3. QED
    BY <1>4, <2>1, <2>2 DEF UnlockReadsKeys
<1>5. ASSUME NEW c \in Calls, UnlockDecrypts(c) PROVE CallsOK'
  BY <1>5, Words, MoveType DEF UnlockDecrypts, CallsOK
<1>6. ASSUME NEW c \in Calls, RecordChecksAddresses(c) PROVE CallsOK'
  <2>1. CASE Move(c, "failed")
    BY <2>1, Words, MoveType
  <2>2. ASSUME NEW owner \in Calls, NEW pw \in call[c].pw, NEW terms \in Terms,
               call' = [call EXCEPT ![c].at = "commit", ![c].record =
                 {[id |-> c, owner |-> owner, pw |-> pw, service |-> terms.service,
                   payout |-> terms.payout, status |-> "draft",
                   registration |-> FALSE, withdrawal |-> FALSE]}]
        PROVE  CallsOK'
    <3> DEFINE r == [id |-> c, owner |-> owner, pw |-> pw, service |-> terms.service,
                     payout |-> terms.payout, status |-> "draft",
                     registration |-> FALSE, withdrawal |-> FALSE]
    <3>1. pw \in Passwords
      BY DEF CallsOK, CallType
    <3>2. {r} \in SUBSET Records /\ "commit" \in Places
      <4>1. terms.service \in BOOLEAN /\ terms.payout \in BOOLEAN
        BY StoreAssumption
      <4>2. QED
        BY <3>1, <4>1, Words DEF Records
    <3>3. call' = [call EXCEPT ![c].at = "commit", ![c].record = {r}]
      BY <2>2
    <3> HIDE DEF r
    <3>4. [call[c] EXCEPT !.at = "commit", !.record = {r}] \in CallType
      BY <3>2, Zenon DEF CallsOK, CallType
    <3>5. QED
      BY <3>3, <3>4 DEF CallsOK
  <2>3. QED
    BY <1>6, <2>1, <2>2 DEF RecordChecksAddresses
<1>7. ASSUME NEW c \in Calls, MarkReads(c) PROVE CallsOK'
  <2>1. PICK r \in masternodes :
          \E copy \in {[r EXCEPT !.status = "registered", !.registration = TRUE],
                       [r EXCEPT !.status = "withdrawn", !.withdrawal = TRUE]} :
            call' = [call EXCEPT ![c].op = "mark", ![c].at = "commit",
                                 ![c].record = {copy}]
    BY <1>7 DEF MarkReads
  <2>2. PICK copy \in {[r EXCEPT !.status = "registered", !.registration = TRUE],
                       [r EXCEPT !.status = "withdrawn", !.withdrawal = TRUE]} :
            call' = [call EXCEPT ![c].op = "mark", ![c].at = "commit",
                                 ![c].record = {copy}]
    BY <2>1
  <2>3. r \in Records
    BY DEF StoresOK
  <2>4. copy \in Records
    BY <2>3 DEF Records
  <2>5. "mark" \in Ops /\ "commit" \in Places /\ {copy} \in SUBSET Records
    BY <2>4, Words
  <2>6. [call[c] EXCEPT !.op = "mark", !.at = "commit", !.record = {copy}] \in CallType
    BY <2>5, Zenon DEF CallsOK, CallType
  <2>7. QED
    BY <2>2, <2>6 DEF CallsOK
<1>8. ASSUME NEW c \in Calls, ExportReadsMeta(c) PROVE CallsOK'
  <2> DEFINE file == {[meta |-> wallet, keys |-> NoWallet, masternodes |-> {}]}
  <2>1. file \in SUBSET Files /\ "export" \in Ops /\ "keys" \in Places
    BY <1>8, Words DEF ExportReadsMeta, Files, StoresOK
  <2>2. call' = [call EXCEPT ![c].op = "export", ![c].at = "keys", ![c].file = file]
    BY <1>8 DEF ExportReadsMeta
  <2> HIDE DEF file
  <2>3. [call[c] EXCEPT !.op = "export", !.at = "keys", !.file = file] \in CallType
    BY <2>1, Zenon DEF CallsOK, CallType
  <2>4. QED
    BY <2>2, <2>3 DEF CallsOK
<1>9. ASSUME NEW c \in Calls, ExportReadsKeys(c) PROVE CallsOK'
  <2>1. \A f \in call[c].file : f \in Files
    BY DEF CallsOK, CallType
  <2>2. {[f EXCEPT !.keys = keys] : f \in call[c].file} \in SUBSET Files
    BY <2>1 DEF Files, StoresOK
  <2>3. QED
    BY <1>9, <2>2, Words, FileType DEF ExportReadsKeys
<1>10. ASSUME NEW c \in Calls, ExportReadsMasternodes(c) PROVE CallsOK'
  <2>1. {} \in SUBSET Files /\ "done" \in Places
    BY Words
  <2>2. call' = [call EXCEPT ![c].at = "done", ![c].file = {}]
    BY <1>10 DEF ExportReadsMasternodes
  <2>3. QED
    BY <2>1, <2>2, FileType
<1>11. ASSUME NEW t \in Tabs, Lock(t) PROVE CallsOK'
  BY <1>11 DEF Lock, CallsOK
<1>12. QED
  BY <1>1, <1>2, <1>3, <1>4, <1>5, <1>6, <1>7, <1>8, <1>9, <1>10,
     <1>11, Zenon DEF Next

-----------------------------------------------------------------------------
\* A seed is in the memory of the tab that decrypted it, and in no other.
TabsOwn == \A t \in Tabs : \A b \in seeds[t].buffers : TabOf[b[1]] = t

SeedsInv == SeedsOK /\ NoStraySeeds /\ UnlockedSeedsAreIntact /\ TabsOwn

\* A step of a call that holds no seed of its own and touches none.
LEMMA QuietKeepsSeedsInv ==
  ASSUME SeedsInv, NEW c \in Calls, UNCHANGED <<seeds, unwiped>>,
         call[c].at \notin {"decrypt", "borrowed"},
         \A d \in Calls \ {c} : call'[d] = call[d]
  PROVE  SeedsInv'
<1>1. \A b \in unwiped : b[1] \in Calls
  BY DEF SeedsInv, SeedsOK, Buffers
<1>2. NoStraySeeds'
  BY <1>1 DEF SeedsInv, NoStraySeeds
<1>3. QED
  BY <1>2 DEF SeedsInv, SeedsOK, UnlockedSeedsAreIntact, TabsOwn

\* An unlock that ends hands all it decrypted to its tab.
LEMMA ReplaceKeepsSeedsInv ==
  ASSUME SeedsInv, CallsOK, NEW c \in Calls, NEW have,
         have \subseteq {c} \X Keys, Own(c) \subseteq have,
         Replace(c, have), Move(c, "done")
  PROVE  SeedsInv'
<1> DEFINE t == TabOf[c]
<1>1. /\ t \in Tabs
      /\ seeds' = [seeds EXCEPT ![t] = [open |-> TRUE, buffers |-> have]]
      /\ unwiped' = (unwiped \ seeds[t].buffers) \cup have
  BY StoreAssumption DEF Replace
<1> HIDE DEF t
<1>2. have \subseteq Buffers /\ \A b \in have : b[1] = c
  BY DEF Buffers
<1>3. /\ seeds'[t] = [open |-> TRUE, buffers |-> have]
      /\ \A u \in Tabs \ {t} : seeds'[u] = seeds[u]
  BY <1>1 DEF SeedsInv, SeedsOK
<1>4. SeedsOK'
  BY <1>1, <1>2, <1>3 DEF SeedsInv, SeedsOK
<1>5. TabsOwn'
  BY <1>1, <1>2, <1>3, t = TabOf[c] DEF SeedsInv, TabsOwn, t
<1>6. UnlockedSeedsAreIntact'
  <2>1. ASSUME NEW u \in Tabs, NEW b \in seeds'[u].buffers PROVE b \in unwiped'
    <3>1. CASE u = t
      BY <3>1, <2>1, <1>1, <1>3
    <3>2. CASE u # t
      BY <3>2, <2>1, <1>1, <1>3 DEF SeedsInv, UnlockedSeedsAreIntact, TabsOwn
    <3>3. QED
      BY <3>1, <3>2
  <2>2. QED
    BY <2>1 DEF UnlockedSeedsAreIntact
<1>7. NoStraySeeds'
  <2>1. \A d \in Calls \ {c} : call'[d] = call[d]
    BY DEF Move, CallsOK
  <2>2. ASSUME NEW b \in unwiped', b \notin have,
               \A u \in Tabs : b \notin seeds'[u].buffers
        PROVE  call'[b[1]].at \in {"decrypt", "borrowed"}
    <3>1. b \in unwiped /\ b \notin seeds[t].buffers /\ b[1] \in Calls
      BY <2>2, <1>1 DEF SeedsInv, SeedsOK, Buffers
    <3>2. \A u \in Tabs : b \notin seeds[u].buffers
      BY <3>1, <2>2, <1>3
    <3>3. b[1] # c
      BY <3>1, <3>2, <2>2 DEF Own
    <3>4. QED
      BY <2>1, <3>1, <3>2, <3>3 DEF SeedsInv, NoStraySeeds
  <2>3. QED
    BY <2>2, <1>1, <1>3 DEF NoStraySeeds
<1>8. QED
  BY <1>4, <1>5, <1>6, <1>7 DEF SeedsInv

\* A call wipes the seeds it holds, and those of nobody else.
LEMMA WipeOwnKeepsSeedsInv ==
  ASSUME SeedsInv, CallsOK, NEW c \in Calls, NEW at, Move(c, at),
         unwiped' = unwiped \ Own(c), UNCHANGED seeds
  PROVE  SeedsInv'
<1>1. \A b \in unwiped : b[1] \in Calls
  BY DEF SeedsInv, SeedsOK, Buffers
<1>2. \A d \in Calls \ {c} : call'[d] = call[d]
  BY DEF Move, CallsOK
<1>3. NoStraySeeds'
  BY <1>1, <1>2 DEF SeedsInv, NoStraySeeds, Own
<1>4. QED
  BY <1>3 DEF SeedsInv, SeedsOK, UnlockedSeedsAreIntact, TabsOwn, Own

\* lockWallet() wipes what its tab held and forgets it.
LEMMA LockKeepsSeedsInv ==
  ASSUME SeedsInv, NEW t \in Tabs, Wipe(t),
         seeds' = [seeds EXCEPT ![t] = Locked],
         \A d \in Calls : call[d].at \in {"decrypt", "borrowed"} => call'[d] = call[d]
  PROVE  SeedsInv'
<1>1. /\ seeds'[t] = Locked
      /\ \A u \in Tabs \ {t} : seeds'[u] = seeds[u]
      /\ unwiped' = unwiped \ seeds[t].buffers
  BY DEF SeedsInv, SeedsOK, Wipe
<1>2. SeedsOK'
  BY <1>1 DEF SeedsInv, SeedsOK, Locked
<1>3. TabsOwn'
  BY <1>1 DEF SeedsInv, TabsOwn, Locked
<1>4. UnlockedSeedsAreIntact'
  <2>1. ASSUME NEW u \in Tabs, NEW b \in seeds'[u].buffers PROVE b \in unwiped'
    <3>1. u # t
      BY <1>1, <2>1 DEF Locked
    <3>2. QED
      BY <3>1, <2>1, <1>1 DEF SeedsInv, UnlockedSeedsAreIntact, TabsOwn
  <2>2. QED
    BY <2>1 DEF UnlockedSeedsAreIntact
<1>5. NoStraySeeds'
  <2>1. ASSUME NEW b \in unwiped', \A u \in Tabs : b \notin seeds'[u].buffers
        PROVE  call'[b[1]].at \in {"decrypt", "borrowed"}
    <3>1. b \in unwiped /\ b[1] \in Calls
      BY <1>1, <2>1 DEF SeedsInv, SeedsOK, Buffers
    <3>2. \A u \in Tabs : b \notin seeds[u].buffers
      BY <1>1, <2>1
    <3>3. QED
      BY <3>1, <3>2 DEF SeedsInv, NoStraySeeds
  <2>2. QED
    BY <2>1 DEF NoStraySeeds
<1>6. QED
  BY <1>2, <1>3, <1>4, <1>5 DEF SeedsInv

LEMMA InitInv == Init => TypeOK /\ SeedsInv
<1> SUFFICES ASSUME Init PROVE TypeOK /\ SeedsInv
  OBVIOUS
<1>1. NoCall \in CallType
  BY DEF NoCall, CallType, Ops, Places
<1>2. CallsOK /\ StoresOK
  BY <1>1 DEF Init, CallsOK, StoresOK
<1>3. SeedsInv
  BY DEF Init, SeedsInv, SeedsOK, NoStraySeeds, UnlockedSeedsAreIntact, TabsOwn,
         Locked
<1>4. QED
  BY <1>2, <1>3, TypeParts DEF SeedsInv

LEMMA NextSeedsInv ==
  ASSUME TypeOK, SeedsInv, Next
  PROVE  SeedsInv'
<1> USE TypeParts
<1>1. ASSUME NEW t \in Tabs, Lock(t) PROVE SeedsInv'
  BY <1>1, LockKeepsSeedsInv DEF Lock
<1>2. ASSUME NEW c \in Calls, NEW pw \in Passwords,
             \/ CreateChecks(c, pw) \/ UnlockVerifies(c, pw)
             \/ DeleteVerifies(c, pw) \/ RecordVerifies(c, pw)
             \/ \E f \in backups : ImportChecks(c, f, pw)
      PROVE  SeedsInv'
  BY <1>2, QuietKeepsSeedsInv DEF CreateChecks, UnlockVerifies, DeleteVerifies,
       RecordVerifies, ImportChecks, Begin, Idle, CallsOK
<1>3. ASSUME NEW c \in Calls, NEW pw \in Passwords, OperatorBorrows(c, pw)
      PROVE  SeedsInv'
  <2>1. /\ call[c].at = "idle" /\ UNCHANGED seeds
        /\ \A d \in Calls \ {c} : call'[d] = call[d]
    BY <1>3 DEF OperatorBorrows, Idle, Begin, CallsOK
  <2>2. CASE UNCHANGED unwiped
    BY <2>1, <2>2, QuietKeepsSeedsInv
  <2>3. ASSUME NEW k \in Keys, unwiped' = unwiped \cup {<<c, k>>},
               Begin(c, "operator", pw, "borrowed")
        PROVE  SeedsInv'
    <3>1. call'[c].at = "borrowed"
      BY <2>3 DEF Begin, CallsOK, CallType
    <3>2. \A b \in unwiped : b[1] \in Calls
      BY DEF SeedsInv, SeedsOK, Buffers
    <3>3. NoStraySeeds'
      BY <2>1, <2>3, <3>1, <3>2 DEF SeedsInv, NoStraySeeds
    <3>4. QED
      BY <2>1, <2>3, <3>3 DEF SeedsInv, SeedsOK, UnlockedSeedsAreIntact, TabsOwn,
                              Buffers
  <2>4. QED
    BY <1>3, <2>2, <2>3 DEF OperatorBorrows
<1>4. ASSUME NEW c \in Calls,
             \/ CreateCommits(c) \/ ImportCommits(c)
             \/ RecordChecksAddresses(c) \/ RecordAdds(c) \/ MarkReads(c)
             \/ MarkPuts(c) \/ ExportReadsMeta(c) \/ ExportReadsKeys(c)
             \/ ExportReadsMasternodes(c)
      PROVE  SeedsInv'
  BY <1>4, QuietKeepsSeedsInv DEF CreateCommits, ImportCommits,
       RecordChecksAddresses, RecordAdds, MarkReads, MarkPuts, ExportReadsMeta,
       ExportReadsKeys, ExportReadsMasternodes, At, Idle, Move, CallsOK
<1>5. ASSUME NEW c \in Calls, UnlockReadsKeys(c) PROVE SeedsInv'
  <2>1. CASE Move(c, "done") /\ Replace(c, {})
    <3>1. Own(c) = {}
      BY <1>5 DEF UnlockReadsKeys, At, Own, SeedsInv, NoStraySeeds
    <3>2. QED
      BY <2>1, <3>1, ReplaceKeepsSeedsInv
  <2>2. CASE UNCHANGED <<seeds, unwiped>> /\ \A d \in Calls \ {c} : call'[d] = call[d]
    BY <1>5, <2>2, QuietKeepsSeedsInv DEF UnlockReadsKeys, At
  <2>3. QED
    BY <1>5, <2>1, <2>2 DEF UnlockReadsKeys, CallsOK
<1>6. ASSUME NEW c \in Calls, UnlockDecrypts(c) PROVE SeedsInv'
  <2>1. PICK k \in Keys :
          LET have == Own(c) \cup {<<c, k>>}
          IN  IF \A j \in Keys : <<c, j>> \in have
              THEN Move(c, "done") /\ Replace(c, have)
              ELSE unwiped' = unwiped \cup {<<c, k>>} /\ UNCHANGED <<seeds, call>>
    BY <1>6 DEF UnlockDecrypts
  <2>2. Own(c) \subseteq {c} \X Keys
    BY DEF Own, SeedsInv, SeedsOK, Buffers
  <2>3. CASE Move(c, "done") /\ Replace(c, Own(c) \cup {<<c, k>>})
    BY <2>2, <2>3, ReplaceKeepsSeedsInv
  <2>4. CASE unwiped' = unwiped \cup {<<c, k>>} /\ UNCHANGED <<seeds, call>>
    <3>1. call[c].at = "decrypt"
      BY <1>6 DEF UnlockDecrypts, At
    <3>2. QED
      BY <2>4, <3>1 DEF SeedsInv, SeedsOK, NoStraySeeds, UnlockedSeedsAreIntact,
                        TabsOwn, Buffers
  <2>5. QED
    BY <2>1, <2>3, <2>4
<1>7. ASSUME NEW c \in Calls, UnlockFails(c) \/ OperatorReturns(c)
      PROVE  SeedsInv'
  BY <1>7, WipeOwnKeepsSeedsInv DEF UnlockFails, OperatorReturns
<1>8. ASSUME NEW c \in Calls, DeleteCommits(c) PROVE SeedsInv'
  <2>1. TabOf[c] \in Tabs
    BY StoreAssumption
  <2>2. \A d \in Calls : call[d].at \in {"decrypt", "borrowed"} => call'[d] = call[d]
    BY <1>8 DEF DeleteCommits, At, Move, CallsOK
  <2>3. QED
    BY <1>8, <2>1, <2>2, LockKeepsSeedsInv DEF DeleteCommits
<1>9. QED
  BY <1>1, <1>2, <1>3, <1>4, <1>5, <1>6, <1>7, <1>8, Zenon DEF Next

LEMMA NextStoresOK ==
  ASSUME TypeOK, Next
  PROVE  StoresOK'
<1> USE TypeParts
<1>1. ASSUME NEW c \in Calls, CreateCommits(c) PROVE StoresOK'
  <2>1. \A pw \in call[c].pw : [id |-> c, pw |-> pw] \in Metas
    BY DEF CallsOK, CallType, Metas
  <2>2. QED
    BY <1>1, <2>1 DEF CreateCommits, Store, StoresOK, db
<1>2. ASSUME NEW c \in Calls, ImportCommits(c) PROVE StoresOK'
  <2>1. \A f \in call[c].file : f.meta \in Metas /\ f.masternodes \subseteq Records
    BY DEF CallsOK, CallType, Files
  <2>2. QED
    BY <1>2, <2>1 DEF ImportCommits, Store, StoresOK, db
<1>3. ASSUME NEW c \in Calls, RecordAdds(c) \/ MarkPuts(c) PROVE StoresOK'
  <2>1. call[c].record \subseteq Records
    BY DEF CallsOK, CallType
  <2>2. masternodes' \subseteq Records
    BY <1>3, <2>1 DEF RecordAdds, MarkPuts, StoresOK
  <2>3. QED
    BY <1>3, <2>2 DEF RecordAdds, MarkPuts, StoresOK
<1>4. ASSUME NEW c \in Calls, ExportReadsMasternodes(c) PROVE StoresOK'
  <2>1. \A f \in call[c].file : f \in Files
    BY DEF CallsOK, CallType
  <2>4. masternodes \in SUBSET Records
    BY DEF StoresOK
  <2>2. \A f \in call[c].file : [f EXCEPT !.masternodes = masternodes] \in Files
    BY <2>1, <2>4 DEF Files
  <2>3. QED
    BY <1>4, <2>2 DEF ExportReadsMasternodes, StoresOK, db
<1>5. ASSUME NEW c \in Calls, DeleteCommits(c) PROVE StoresOK'
  BY <1>5 DEF DeleteCommits, StoresOK
<1>6. ASSUME UNCHANGED <<db, backups>> PROVE StoresOK'
  BY <1>6 DEF db, StoresOK
<1>7. QED
  BY <1>1, <1>2, <1>3, <1>4, <1>5, <1>6
     DEF Next, Lock, CreateChecks, ImportChecks, UnlockVerifies, UnlockReadsKeys,
         UnlockDecrypts, UnlockFails, DeleteVerifies, RecordVerifies,
         RecordChecksAddresses, MarkReads, OperatorBorrows, OperatorReturns,
         ExportReadsMeta, ExportReadsKeys

LEMMA StepInv == TypeOK /\ SeedsInv /\ [Next]_vars => TypeOK' /\ SeedsInv'
<1> SUFFICES ASSUME TypeOK, SeedsInv, [Next]_vars PROVE TypeOK' /\ SeedsInv'
  OBVIOUS
<1>1. CASE UNCHANGED vars
  BY <1>1 DEF vars, db, TypeOK, SeedsInv, SeedsOK, NoStraySeeds,
              UnlockedSeedsAreIntact, TabsOwn
<1>2. CASE Next
  <2>1. CallsOK' /\ StoresOK' /\ SeedsInv'
    BY <1>2, NextCallsOK, NextStoresOK, NextSeedsInv
  <2>2. TypeOK' <=> StoresOK' /\ SeedsOK' /\ CallsOK'
    BY DEF TypeOK, StoresOK, SeedsOK, CallsOK, CallType
  <2>3. QED
    BY <2>1, <2>2 DEF SeedsInv
<1>3. QED
  BY <1>1, <1>2

\* The stores, the tabs' memories and the calls keep their types.
THEOREM TypeCorrect == Spec => []TypeOK
<1>1. TypeOK /\ SeedsInv => TypeOK
  OBVIOUS
<1>2. QED
  BY InitInv, StepInv, <1>1, PTL DEF Spec

\* Whatever overlaps - unlocks, locks, deletions, failures half-way - every
\* decrypted seed is in use or zero-filled.
THEOREM NoStraySeedsHolds == Spec => []NoStraySeeds
<1>1. SeedsInv => NoStraySeeds
  BY DEF SeedsInv
<1>2. QED
  BY InitInv, StepInv, <1>1, PTL DEF Spec

\* No tab is left with an unlocked seed that has been zero-filled.
THEOREM UnlockedSeedsAreIntactHolds == Spec => []UnlockedSeedsAreIntact
<1>1. SeedsInv => UnlockedSeedsAreIntact
  BY DEF SeedsInv
<1>2. QED
  BY InitInv, StepInv, <1>1, PTL DEF Spec

-----------------------------------------------------------------------------
\* The keys are the stored wallet's.
KeysFollow == keys = wallet

\* A stored wallet stays or is erased, and its keys with it.
LEMMA NextWallet ==
  ASSUME KeysFollow, Next
  PROVE  /\ KeysFollow'
         /\ wallet # NoWallet /\ wallet' # wallet => wallet' = NoWallet
<1> DEFINE Follows == /\ KeysFollow'
                      /\ wallet # NoWallet /\ wallet' # wallet => wallet' = NoWallet
<1>1. ASSUME NEW meta, NEW records, Store(meta, records) PROVE Follows
  BY <1>1 DEF KeysFollow, Store, db
<1>2. ASSUME UNCHANGED <<wallet, keys>> PROVE Follows
  BY <1>2 DEF KeysFollow
<1>3. ASSUME NEW c \in Calls, CreateCommits(c) \/ ImportCommits(c) PROVE Follows
  BY <1>1, <1>3 DEF CreateCommits, ImportCommits
<1>4. ASSUME NEW c \in Calls, DeleteCommits(c) PROVE Follows
  BY <1>4 DEF KeysFollow, DeleteCommits
<1>5. ASSUME NEW c \in Calls, NEW pw \in Passwords,
             \/ CreateChecks(c, pw) \/ UnlockVerifies(c, pw) \/ DeleteVerifies(c, pw)
             \/ RecordVerifies(c, pw) \/ OperatorBorrows(c, pw)
             \/ \E f \in backups : ImportChecks(c, f, pw)
      PROVE  UNCHANGED <<wallet, keys>>
  BY <1>5 DEF CreateChecks, UnlockVerifies, DeleteVerifies, RecordVerifies,
              OperatorBorrows, ImportChecks, db
<1>6. ASSUME NEW c \in Calls,
             \/ UnlockReadsKeys(c) \/ UnlockDecrypts(c) \/ UnlockFails(c)
             \/ RecordChecksAddresses(c) \/ RecordAdds(c) \/ MarkReads(c)
             \/ MarkPuts(c) \/ OperatorReturns(c) \/ ExportReadsMeta(c)
             \/ ExportReadsKeys(c) \/ ExportReadsMasternodes(c)
      PROVE  UNCHANGED <<wallet, keys>>
  BY <1>6 DEF UnlockReadsKeys, UnlockDecrypts, UnlockFails, RecordChecksAddresses,
              RecordAdds, MarkReads, MarkPuts, OperatorReturns, ExportReadsMeta,
              ExportReadsKeys, ExportReadsMasternodes, db
<1>7. ASSUME NEW t \in Tabs, Lock(t) PROVE UNCHANGED <<wallet, keys>>
  BY <1>7 DEF Lock, db
<1>8. QED
  BY <1>2, <1>3, <1>4, <1>5, <1>6, <1>7, Zenon DEF Next

\* However the creations and restores of all tabs overlap, a stored wallet is
\* never replaced, only erased.
THEOREM NeverOverwrittenHolds == Spec => NeverOverwritten
<1>1. Init => KeysFollow
  BY DEF Init, KeysFollow
<1>2. KeysFollow /\ [Next]_vars => KeysFollow'
  BY NextWallet DEF vars, db, KeysFollow
<1>3. KeysFollow /\ KeysFollow' /\ [Next]_vars =>
        [/\ wallet # NoWallet /\ wallet' # wallet => wallet' = NoWallet
         /\ keys' = wallet']_vars
  BY NextWallet DEF KeysFollow
<1>4. QED
  BY <1>1, <1>2, <1>3, PTL DEF Spec, NeverOverwritten

-----------------------------------------------------------------------------
\* The wallets created and not erased: at most the stored one.
Winners == Ended({"create", "import"}, "done")
Erased  == Ended({"delete"}, "done")
WinnerInv ==
  Cardinality(Winners) <= Cardinality(Erased) + (IF wallet = NoWallet THEN 0 ELSE 1)

LEMMA EndedIsFinite ==
  /\ IsFiniteSet(Winners) /\ IsFiniteSet(Erased)
  /\ Cardinality(Winners) \in Nat /\ Cardinality(Erased) \in Nat
<1>1. Winners \subseteq Calls /\ Erased \subseteq Calls
  BY DEF Winners, Erased, Ended
<1>2. QED
  BY <1>1, StoreAssumption, FS_Subset, FS_CardinalityType

\* A step that ends no creation, restore or deletion well and leaves the wallet.
LEMMA OtherKeepsWinnerInv ==
  ASSUME WinnerInv, UNCHANGED wallet,
         \A d \in Calls :
           /\ call'[d].op \in {"create", "import"} /\ call'[d].at = "done"
                <=> call[d].op \in {"create", "import"} /\ call[d].at = "done"
           /\ call'[d].op = "delete" /\ call'[d].at = "done"
                <=> call[d].op = "delete" /\ call[d].at = "done"
  PROVE  WinnerInv'
<1>1. Winners' = Winners /\ Erased' = Erased
  BY DEF Winners, Erased, Ended
<1>2. QED
  BY <1>1 DEF WinnerInv

LEMMA CommitKeepsWinnerInv ==
  ASSUME WinnerInv, CallsOK, NEW c \in Calls, NEW meta \in Metas, NEW records,
         call[c].op \in {"create", "import"}, call[c].at = "commit",
         Store(meta, records), Move(c, Outcome)
  PROVE  WinnerInv'
<1>1. /\ \A d \in Calls \ {c} : call'[d] = call[d]
      /\ call'[c].op = call[c].op /\ call'[c].at = Outcome
  BY DEF Move, CallsOK, CallType
<1>2. CASE wallet = NoWallet
  <2>1. wallet' = meta /\ meta # NoWallet
    BY <1>2, StoreAssumption DEF Store, Metas
  <2>2. c \notin Winners /\ Winners' = Winners \cup {c} /\ Erased' = Erased
    BY <1>1, <1>2 DEF Outcome, Winners, Erased, Ended
  <2>3. Cardinality(Winners') = Cardinality(Winners) + 1
    BY <2>2, EndedIsFinite, FS_AddElement
  <2>4. QED
    BY <1>2, <2>1, <2>2, <2>3, EndedIsFinite DEF WinnerInv
<1>3. CASE wallet # NoWallet
  BY <1>1, <1>3, OtherKeepsWinnerInv DEF Store, Outcome, db
<1>4. QED
  BY <1>2, <1>3

LEMMA DeleteKeepsWinnerInv ==
  ASSUME WinnerInv, CallsOK, NEW c \in Calls, DeleteCommits(c)
  PROVE  WinnerInv'
<1>1. /\ \A d \in Calls \ {c} : call'[d] = call[d]
      /\ call[c].op = "delete" /\ call[c].at = "commit"
      /\ call'[c].op = "delete" /\ call'[c].at = "done"
      /\ wallet' = NoWallet
  BY DEF DeleteCommits, At, Move, CallsOK, CallType
<1>2. c \notin Erased /\ Erased' = Erased \cup {c} /\ Winners' = Winners
  BY <1>1 DEF Winners, Erased, Ended
<1>3. Cardinality(Erased') = Cardinality(Erased) + 1
  BY <1>2, EndedIsFinite, FS_AddElement
<1>4. QED
  BY <1>1, <1>2, <1>3, EndedIsFinite DEF WinnerInv

LEMMA NextWinnerInv ==
  ASSUME TypeOK, WinnerInv, Next
  PROVE  WinnerInv'
<1> USE TypeParts
<1>1. ASSUME NEW c \in Calls, CreateCommits(c) PROVE WinnerInv'
  <2>1. \A pw \in call[c].pw : [id |-> c, pw |-> pw] \in Metas
    BY DEF CallsOK, CallType, Metas
  <2>2. QED
    BY <1>1, <2>1, CommitKeepsWinnerInv DEF CreateCommits, At
<1>2. ASSUME NEW c \in Calls, ImportCommits(c) PROVE WinnerInv'
  <2>1. \A f \in call[c].file : f.meta \in Metas
    BY DEF CallsOK, CallType, Files
  <2>2. QED
    BY <1>2, <2>1, CommitKeepsWinnerInv DEF ImportCommits, At
<1>3. ASSUME NEW c \in Calls, DeleteCommits(c) PROVE WinnerInv'
  BY <1>3, DeleteKeepsWinnerInv
<1>4. ASSUME NEW t \in Tabs, Lock(t) PROVE WinnerInv'
  BY <1>4, OtherKeepsWinnerInv DEF Lock, db
<1>5. ASSUME NEW c \in Calls, NEW pw \in Passwords,
             \/ CreateChecks(c, pw) \/ UnlockVerifies(c, pw)
             \/ DeleteVerifies(c, pw) \/ RecordVerifies(c, pw)
             \/ OperatorBorrows(c, pw)
      PROVE  WinnerInv'
  <2>1. /\ call[c].at = "idle" /\ UNCHANGED wallet
        /\ \E op \in Ops, at \in Places \ {"done"} : Begin(c, op, pw, at)
    BY <1>5, Words DEF CreateChecks, UnlockVerifies, DeleteVerifies,
         RecordVerifies, OperatorBorrows, Idle, db
  <2>2. /\ \A d \in Calls \ {c} : call'[d] = call[d]
        /\ call'[c].at # "done"
    BY <2>1 DEF Begin, CallsOK, CallType
  <2>3. QED
    BY <2>1, <2>2, OtherKeepsWinnerInv
<1>6. ASSUME NEW c \in Calls, NEW pw \in Passwords, NEW f \in backups,
             ImportChecks(c, f, pw)
      PROVE  WinnerInv'
  <2>1. /\ \A d \in Calls \ {c} : call'[d] = call[d]
        /\ call[c].at = "idle" /\ call'[c].at # "done" /\ UNCHANGED wallet
    BY <1>6 DEF ImportChecks, NoCall, Idle, CallsOK, db
  <2>2. QED
    BY <2>1, OtherKeepsWinnerInv
<1>7. ASSUME NEW c \in Calls,
             \/ UnlockReadsKeys(c) \/ UnlockDecrypts(c) \/ UnlockFails(c)
             \/ RecordChecksAddresses(c) \/ RecordAdds(c) \/ MarkPuts(c)
             \/ OperatorReturns(c) \/ ExportReadsKeys(c)
             \/ ExportReadsMasternodes(c)
      PROVE  WinnerInv'
  <2>1. /\ call[c].op \in {"unlock", "record", "mark", "operator", "export"}
        /\ UNCHANGED wallet
    BY <1>7 DEF UnlockReadsKeys, UnlockDecrypts, UnlockFails,
         RecordChecksAddresses, RecordAdds, MarkPuts, OperatorReturns,
         ExportReadsKeys, ExportReadsMasternodes, At, db
  <2>2. /\ \A d \in Calls \ {c} : call'[d] = call[d]
        /\ call'[c].op = call[c].op
    BY <1>7, CallGoesOn
  <2>3. QED
    BY <2>1, <2>2, OtherKeepsWinnerInv
<1>8. ASSUME NEW c \in Calls, MarkReads(c) \/ ExportReadsMeta(c)
      PROVE  WinnerInv'
  <2>1. /\ \A d \in Calls \ {c} : call'[d] = call[d]
        /\ call[c].at = "idle" /\ call'[c].at # "done" /\ UNCHANGED wallet
    BY <1>8, CallReads DEF db
  <2>2. QED
    BY <2>1, OtherKeepsWinnerInv
<1>9. QED
  BY <1>1, <1>2, <1>3, <1>4, <1>5, <1>6, <1>7, <1>8, Zenon DEF Next

\* Of the creations and restores that overlap, in any number of tabs, one
\* succeeds for each time the store was empty.
THEOREM OneWinnerHolds == Spec => []OneWinner
<1>1. Init => WinnerInv
  <2>1. ASSUME Init PROVE Winners = {} /\ Erased = {} /\ wallet = NoWallet
    BY <2>1 DEF Init, NoCall, Winners, Erased, Ended
  <2>2. QED
    BY <2>1, FS_EmptySet DEF WinnerInv
<1>2. TypeOK /\ WinnerInv /\ [Next]_vars => WinnerInv'
  <2>1. CASE UNCHANGED vars
    BY <2>1 DEF vars, db, WinnerInv, Winners, Erased, Ended
  <2>2. QED
    BY <2>1, NextWinnerInv
<1>3. WinnerInv => OneWinner
  BY EndedIsFinite DEF WinnerInv, OneWinner, Winners, Erased
<1>4. QED
  BY <1>1, <1>2, <1>3, TypeCorrect, PTL DEF Spec

-----------------------------------------------------------------------------
\* An idle call has asked for nothing, so that whoever asked for an erasure is
\* seen for good.
IdleIsFresh == \A c \in Calls : call[c].at = "idle" => call[c].op # "delete"

\* What a call carries belongs to the stored wallet, or to the file's.
CallBelongs(c) ==
  /\ call[c].op = "record" /\ call[c].at = "keys" =>
       wallet # NoWallet /\ \A pw \in call[c].pw : pw = wallet.pw
  /\ call[c].op \in {"record", "mark"} /\ call[c].at = "commit" =>
       wallet # NoWallet /\ \A r \in call[c].record : Belongs(r, wallet)
  /\ call[c].op = "import" /\ call[c].at = "commit" =>
       \A f \in call[c].file : \A r \in f.masternodes : Belongs(r, f.meta)
  /\ call[c].op = "export" /\ call[c].at \in {"keys", "masternodes"} =>
       wallet # NoWallet /\ \A f \in call[c].file : f.meta = wallet
  /\ call[c].op = "export" /\ call[c].at = "masternodes" =>
       \A f \in call[c].file : f.keys = wallet

StoredBelong == \A r \in masternodes : wallet # NoWallet /\ Belongs(r, wallet)
FilesBelong ==
  \A f \in backups : f.keys = f.meta /\ \A r \in f.masternodes : Belongs(r, f.meta)

AllBelong == StoredBelong /\ FilesBelong /\ \A c \in Calls : CallBelongs(c)
BelongInv == KeysFollow /\ IdleIsFresh /\ (NoErasure => AllBelong)

LEMMA NextIdleIsFresh ==
  ASSUME TypeOK, IdleIsFresh, Next
  PROVE  IdleIsFresh' /\ (NoErasure' => NoErasure)
<1> USE TypeParts
<1> DEFINE Keeps == IdleIsFresh' /\ (NoErasure' => NoErasure)
<1>1. ASSUME NEW c \in Calls, \A d \in Calls \ {c} : call'[d] = call[d],
             call'[c].at # "idle",
             call[c].at = "idle" \/ call'[c].op = call[c].op
      PROVE  Keeps
  BY <1>1 DEF IdleIsFresh, NoErasure
<1>2. ASSUME UNCHANGED call PROVE Keeps
  BY <1>2 DEF IdleIsFresh, NoErasure
<1> HIDE DEF Keeps
<1>3. ASSUME NEW c \in Calls, NEW pw \in Passwords,
             \/ CreateChecks(c, pw) \/ UnlockVerifies(c, pw)
             \/ DeleteVerifies(c, pw) \/ RecordVerifies(c, pw)
             \/ OperatorBorrows(c, pw)
      PROVE  Keeps
  <2>1. /\ call[c].at = "idle"
        /\ \E op \in Ops, at \in Places \ {"idle"} : Begin(c, op, pw, at)
    BY <1>3, Words DEF CreateChecks, UnlockVerifies, DeleteVerifies,
         RecordVerifies, OperatorBorrows, Idle
  <2>2. /\ \A d \in Calls \ {c} : call'[d] = call[d]
        /\ call'[c].at # "idle"
    BY <2>1 DEF Begin, CallsOK, CallType
  <2>3. QED
    BY <2>1, <2>2, <1>1
<1>4. ASSUME NEW c \in Calls, NEW pw \in Passwords, NEW f \in backups,
             ImportChecks(c, f, pw)
      PROVE  Keeps
  BY <1>4, <1>1 DEF ImportChecks, NoCall, Idle, CallsOK
<1>5. ASSUME NEW c \in Calls,
             \/ CreateCommits(c) \/ ImportCommits(c)
             \/ UnlockReadsKeys(c) \/ UnlockFails(c) \/ DeleteCommits(c)
             \/ RecordChecksAddresses(c) \/ RecordAdds(c) \/ MarkPuts(c)
             \/ OperatorReturns(c) \/ ExportReadsKeys(c)
             \/ ExportReadsMasternodes(c)
      PROVE  Keeps
  <2>1. /\ \A d \in Calls \ {c} : call'[d] = call[d]
        /\ call'[c].op = call[c].op /\ call'[c].at # "idle"
    BY <1>5 DEF CreateCommits, ImportCommits, Outcome, UnlockReadsKeys,
         UnlockFails, DeleteCommits, RecordChecksAddresses, RecordAdds, MarkPuts,
         OperatorReturns, ExportReadsKeys, ExportReadsMasternodes, Move, CallsOK,
         CallType
  <2>2. QED
    BY <2>1, <1>1
<1>6. ASSUME NEW c \in Calls, UnlockDecrypts(c) PROVE Keeps
  <2>1. Move(c, "done") \/ UNCHANGED call
    BY <1>6 DEF UnlockDecrypts
  <2>2. CASE Move(c, "done")
    BY <2>2, <1>1 DEF Move, CallsOK, CallType
  <2>3. QED
    BY <2>1, <2>2, <1>2
<1>7. ASSUME NEW c \in Calls, MarkReads(c) \/ ExportReadsMeta(c) PROVE Keeps
  <2>1. /\ \A d \in Calls \ {c} : call'[d] = call[d]
        /\ call[c].at = "idle" /\ call'[c].at # "idle"
    BY <1>7, CallReads
  <2>2. QED
    BY <2>1, <1>1
<1>8. ASSUME NEW t \in Tabs, Lock(t) PROVE Keeps
  BY <1>8, <1>2 DEF Lock
<1>9. Keeps
  BY <1>3, <1>4, <1>5, <1>6, <1>7, <1>8, Zenon DEF Next
<1>10. QED
  BY <1>9 DEF Keeps

\* A step of one call that writes no store.
LEMMA ReadKeepsAllBelong ==
  ASSUME AllBelong, NEW c \in Calls, UNCHANGED <<db, backups>>,
         \A d \in Calls \ {c} : call'[d] = call[d], CallBelongs(c)'
  PROVE  AllBelong'
<1>1. UNCHANGED <<wallet, masternodes, backups>>
  BY DEF db
<1>2. \A d \in Calls \ {c} : CallBelongs(d)'
  BY <1>1 DEF AllBelong, CallBelongs
<1>3. QED
  BY <1>1, <1>2 DEF AllBelong, StoredBelong, FilesBelong

\* The transaction of a creation or a restore.
LEMMA StoreKeepsAllBelong ==
  ASSUME AllBelong, CallsOK, NEW c \in Calls, NEW meta \in Metas, NEW records,
         \A r \in records : Belongs(r, meta),
         Store(meta, records), Move(c, Outcome), UNCHANGED backups
  PROVE  AllBelong'
<1>1. /\ \A d \in Calls \ {c} : call'[d] = call[d]
      /\ call'[c].at \in {"done", "failed"}
  BY DEF Move, Outcome, CallsOK, CallType
<1>2. CallBelongs(c)'
  BY <1>1 DEF CallBelongs
<1>3. CASE wallet # NoWallet
  BY <1>1, <1>2, <1>3, ReadKeepsAllBelong DEF Store
<1>4. CASE wallet = NoWallet
  <2>1. wallet' = meta /\ masternodes' = records /\ meta # NoWallet
    BY <1>4, StoreAssumption DEF Store, Metas
  <2>2. \A d \in Calls \ {c} : CallBelongs(d)'
    BY <1>1, <1>4 DEF AllBelong, CallBelongs
  <2>3. QED
    BY <1>2, <2>1, <2>2 DEF AllBelong, StoredBelong, FilesBelong
<1>5. QED
  BY <1>3, <1>4

LEMMA NextAllBelong ==
  ASSUME TypeOK, BelongInv, AllBelong, NoErasure', Next
  PROVE  AllBelong'
<1> USE TypeParts DEF BelongInv
<1>1. \A d \in Calls : call'[d].op # "delete"
  BY DEF NoErasure
<1>2. ASSUME NEW c \in Calls, CreateCommits(c) PROVE AllBelong'
  <2>1. \A pw \in call[c].pw : [id |-> c, pw |-> pw] \in Metas
    BY DEF CallsOK, CallType, Metas
  <2>2. QED
    BY <1>2, <2>1, StoreKeepsAllBelong DEF CreateCommits
<1>3. ASSUME NEW c \in Calls, ImportCommits(c) PROVE AllBelong'
  <2>1. \A f \in call[c].file :
          f.meta \in Metas /\ \A r \in f.masternodes : Belongs(r, f.meta)
    BY <1>3 DEF ImportCommits, At, CallsOK, CallType, Files, AllBelong, CallBelongs
  <2>2. QED
    BY <1>3, <2>1, StoreKeepsAllBelong DEF ImportCommits
<1>4. ASSUME NEW c \in Calls, NEW pw \in Passwords,
             CreateChecks(c, pw) \/ UnlockVerifies(c, pw) \/ OperatorBorrows(c, pw)
      PROVE  AllBelong'
  <2>1. /\ UNCHANGED <<db, backups>>
        /\ \E op \in {"create", "unlock", "operator"}, at \in Places :
             Begin(c, op, pw, at)
    BY <1>4, Words DEF CreateChecks, UnlockVerifies, OperatorBorrows
  <2>2. /\ \A d \in Calls \ {c} : call'[d] = call[d]
        /\ call'[c].op \in {"create", "unlock", "operator"}
    BY <2>1 DEF Begin, CallsOK, CallType
  <2>3. CallBelongs(c)'
    BY <2>2 DEF CallBelongs
  <2>4. QED
    BY <2>1, <2>2, <2>3, ReadKeepsAllBelong
<1>5. ASSUME NEW c \in Calls, NEW pw \in Passwords, RecordVerifies(c, pw)
      PROVE  AllBelong'
  <2>1. /\ UNCHANGED <<db, backups>>
        /\ \A d \in Calls \ {c} : call'[d] = call[d]
        /\ call'[c].op = "record" /\ call'[c].pw = {pw}
        /\ call'[c].at = IF Verified(pw) THEN "keys" ELSE "failed"
    BY <1>5 DEF RecordVerifies, Begin, CallsOK, CallType
  <2>2. CallBelongs(c)'
    BY <2>1 DEF CallBelongs, Verified, db
  <2>3. QED
    BY <2>1, <2>2, ReadKeepsAllBelong
<1>6. ASSUME NEW c \in Calls, NEW pw \in Passwords, NEW f \in backups,
             ImportChecks(c, f, pw)
      PROVE  AllBelong'
  <2>1. /\ UNCHANGED <<db, backups>>
        /\ \A d \in Calls \ {c} : call'[d] = call[d]
        /\ call'[c].op = "import" /\ call'[c].file = {f}
        /\ call'[c].at = "commit" => Accepts(f, pw)
    BY <1>6 DEF ImportChecks, NoCall, CallsOK
  <2>2. CallBelongs(c)'
    BY <2>1 DEF CallBelongs, Accepts
  <2>3. QED
    BY <2>1, <2>2, ReadKeepsAllBelong
<1>7. ASSUME NEW c \in Calls, RecordChecksAddresses(c) PROVE AllBelong'
  <2>1. PICK owner \in Calls, pw \in call[c].pw, terms \in Terms :
          IF keys # NoWallet /\ keys.id = owner
          THEN call' = [call EXCEPT ![c].at = "commit", ![c].record =
                 {[id |-> c, owner |-> owner, pw |-> pw, service |-> terms.service,
                   payout |-> terms.payout, status |-> "draft",
                   registration |-> FALSE, withdrawal |-> FALSE]}]
          ELSE Move(c, "failed")
    BY <1>7 DEF RecordChecksAddresses
  <2>2. UNCHANGED <<db, backups>> /\ call[c].op = "record" /\ call[c].at = "keys"
    BY <1>7 DEF RecordChecksAddresses, At
  <2>3. wallet # NoWallet /\ wallet.pw = pw /\ keys = wallet
    BY <2>1, <2>2 DEF AllBelong, CallBelongs, KeysFollow
  <2>4. CASE keys # NoWallet /\ keys.id = owner
    <3>1. /\ \A d \in Calls \ {c} : call'[d] = call[d]
          /\ call'[c].op = "record" /\ call'[c].at = "commit"
          /\ \A r \in call'[c].record : r.owner = owner /\ r.pw = pw
      BY <2>1, <2>2, <2>4 DEF CallsOK, CallType
    <3>2. CallBelongs(c)'
      BY <2>2, <2>3, <2>4, <3>1 DEF CallBelongs, Belongs, db
    <3>3. QED
      BY <2>2, <3>1, <3>2, ReadKeepsAllBelong
  <2>5. CASE Move(c, "failed")
    <3>1. /\ \A d \in Calls \ {c} : call'[d] = call[d]
          /\ call'[c].at = "failed"
      BY <2>5 DEF Move, CallsOK, CallType
    <3>2. CallBelongs(c)'
      BY <3>1 DEF CallBelongs
    <3>3. QED
      BY <2>2, <3>1, <3>2, ReadKeepsAllBelong
  <2>6. QED
    BY <2>1, <2>4, <2>5
<1>8. ASSUME NEW c \in Calls, RecordAdds(c) \/ MarkPuts(c) PROVE AllBelong'
  <2>1. /\ call[c].op \in {"record", "mark"} /\ call[c].at = "commit"
        /\ masternodes' \subseteq masternodes \cup call[c].record
        /\ UNCHANGED <<wallet, backups>>
        /\ \A d \in Calls \ {c} : call'[d] = call[d]
        /\ call'[c].at = "done"
    BY <1>8 DEF RecordAdds, MarkPuts, At, Move, CallsOK, CallType
  <2>2. StoredBelong'
    BY <2>1 DEF AllBelong, StoredBelong, CallBelongs
  <2>3. \A d \in Calls : CallBelongs(d)'
    BY <2>1 DEF AllBelong, CallBelongs
  <2>4. QED
    BY <2>1, <2>2, <2>3 DEF AllBelong, FilesBelong
<1>9. ASSUME NEW c \in Calls, MarkReads(c) PROVE AllBelong'
  <2>1. PICK r \in masternodes :
          \E copy \in {[r EXCEPT !.status = "registered", !.registration = TRUE],
                       [r EXCEPT !.status = "withdrawn", !.withdrawal = TRUE]} :
            call' = [call EXCEPT ![c].op = "mark", ![c].at = "commit",
                                 ![c].record = {copy}]
    BY <1>9 DEF MarkReads
  <2>2. PICK copy \in {[r EXCEPT !.status = "registered", !.registration = TRUE],
                       [r EXCEPT !.status = "withdrawn", !.withdrawal = TRUE]} :
            call' = [call EXCEPT ![c].op = "mark", ![c].at = "commit",
                                 ![c].record = {copy}]
    BY <2>1
  <2>3. r \in Records
    BY DEF StoresOK
  <2>4. copy.owner = r.owner /\ copy.pw = r.pw
    BY <2>3 DEF Records
  <2>5. wallet # NoWallet /\ Belongs(copy, wallet)
    BY <2>4 DEF AllBelong, StoredBelong, Belongs
  <2>6. /\ UNCHANGED <<db, backups>>
        /\ \A d \in Calls \ {c} : call'[d] = call[d]
        /\ call'[c].op = "mark" /\ call'[c].at = "commit"
        /\ call'[c].record = {copy}
    BY <1>9, <2>2 DEF MarkReads, CallsOK, CallType
  <2>7. CallBelongs(c)'
    BY <2>5, <2>6 DEF CallBelongs, db
  <2>8. QED
    BY <2>6, <2>7, ReadKeepsAllBelong
<1>10. ASSUME NEW c \in Calls, ExportReadsMeta(c) PROVE AllBelong'
  <2>1. /\ UNCHANGED <<db, backups>> /\ wallet # NoWallet
        /\ \A d \in Calls \ {c} : call'[d] = call[d]
        /\ call'[c].op = "export" /\ call'[c].at = "keys"
        /\ \A f \in call'[c].file : f.meta = wallet
    BY <1>10 DEF ExportReadsMeta, CallsOK, CallType
  <2>2. CallBelongs(c)'
    BY <2>1 DEF CallBelongs, db
  <2>3. QED
    BY <2>1, <2>2, ReadKeepsAllBelong
<1>11. ASSUME NEW c \in Calls, ExportReadsKeys(c) PROVE AllBelong'
  <2>1. /\ call[c].op = "export" /\ call[c].at = "keys"
        /\ UNCHANGED <<db, backups>>
    BY <1>11 DEF ExportReadsKeys, At
  <2>2. call' = [call EXCEPT ![c].at = "masternodes",
                   ![c].file = {[f EXCEPT !.keys = keys] : f \in call[c].file}]
    BY <1>11 DEF ExportReadsKeys
  <2>3. /\ \A d \in Calls \ {c} : call'[d] = call[d]
        /\ call'[c].op = "export" /\ call'[c].at = "masternodes"
        /\ call'[c].file = {[f EXCEPT !.keys = keys] : f \in call[c].file}
    BY <2>1, <2>2 DEF CallsOK, CallType
  <2>4. \A f \in call[c].file : f \in Files /\ f.meta = wallet
    BY <2>1 DEF AllBelong, CallBelongs, CallsOK, CallType
  <2>5. \A f \in call'[c].file : f.meta = wallet /\ f.keys = keys
    BY <2>3, <2>4 DEF Files
  <2>6. wallet # NoWallet /\ keys = wallet
    BY <2>1 DEF AllBelong, CallBelongs, KeysFollow
  <2>7. CallBelongs(c)'
    BY <2>1, <2>3, <2>5, <2>6 DEF CallBelongs, db
  <2>8. QED
    BY <2>1, <2>3, <2>7, ReadKeepsAllBelong
<1>12. ASSUME NEW c \in Calls, ExportReadsMasternodes(c) PROVE AllBelong'
  <2>1. /\ call[c].op = "export" /\ call[c].at = "masternodes" /\ UNCHANGED db
        /\ backups' = backups \cup
             {[f EXCEPT !.masternodes = masternodes] : f \in call[c].file}
        /\ \A d \in Calls \ {c} : call'[d] = call[d]
        /\ call'[c].at = "done"
    BY <1>12 DEF ExportReadsMasternodes, At, CallsOK, CallType
  <2>2. \A f \in call[c].file : f \in Files /\ f.meta = wallet /\ f.keys = wallet
    BY <2>1 DEF AllBelong, CallBelongs, CallsOK, CallType
  <2>3. \A f \in backups' \ backups :
          f.meta = wallet /\ f.keys = wallet /\ f.masternodes = masternodes
    BY <2>1, <2>2 DEF Files
  <2>4. FilesBelong'
    BY <2>1, <2>3 DEF AllBelong, FilesBelong, StoredBelong
  <2>5. \A d \in Calls : CallBelongs(d)'
    BY <2>1 DEF AllBelong, CallBelongs, db
  <2>6. QED
    BY <2>1, <2>4, <2>5 DEF AllBelong, StoredBelong, db
<1>13. ASSUME NEW c \in Calls,
              \/ UnlockReadsKeys(c) \/ UnlockDecrypts(c) \/ UnlockFails(c)
              \/ OperatorReturns(c)
       PROVE  AllBelong'
  <2>1. /\ call[c].op \in {"unlock", "operator"} /\ UNCHANGED <<db, backups>>
        /\ \A d \in Calls \ {c} : call'[d] = call[d]
        /\ call'[c].op = call[c].op
    BY <1>13, CallGoesOn
       DEF UnlockReadsKeys, UnlockDecrypts, UnlockFails, OperatorReturns, At
  <2>2. CallBelongs(c)'
    BY <2>1 DEF CallBelongs
  <2>3. QED
    BY <2>1, <2>2, ReadKeepsAllBelong
<1>14. ASSUME NEW c \in Calls, NEW pw \in Passwords,
              DeleteVerifies(c, pw)
       PROVE  FALSE
  BY <1>1, <1>14 DEF DeleteVerifies, Begin, CallsOK, CallType
<1>15. ASSUME NEW t \in Tabs, Lock(t) PROVE AllBelong'
  BY <1>15 DEF Lock, AllBelong, StoredBelong, FilesBelong, CallBelongs, db
<1>16. ASSUME NEW c \in Calls, DeleteCommits(c) PROVE FALSE
  BY <1>1, <1>16 DEF DeleteCommits, At, Move, CallsOK, CallType
<1>17. QED
  BY <1>2, <1>3, <1>4, <1>5, <1>6, <1>7, <1>8, <1>9, <1>10, <1>11, <1>12, <1>13,
     <1>14, <1>15, <1>16, Zenon DEF Next

LEMMA BelongInvHolds == Spec => [](TypeOK /\ BelongInv)
<1>1. Init => BelongInv
  <2> SUFFICES ASSUME Init PROVE BelongInv
    OBVIOUS
  <2>1. \A c \in Calls : call[c] = NoCall
    BY DEF Init
  <2>2. \A c \in Calls : CallBelongs(c)
    BY <2>1 DEF NoCall, CallBelongs
  <2>3. QED
    BY <2>1, <2>2 DEF Init, NoCall, BelongInv, KeysFollow, IdleIsFresh, AllBelong,
                      StoredBelong, FilesBelong
<1>2. TypeOK /\ BelongInv /\ [Next]_vars => BelongInv'
  <2>1. CASE UNCHANGED vars
    BY <2>1 DEF vars, db, BelongInv, KeysFollow, IdleIsFresh, NoErasure, AllBelong,
                StoredBelong, FilesBelong, CallBelongs
  <2>2. ASSUME TypeOK, BelongInv, Next PROVE BelongInv'
    <3>1. KeysFollow' /\ IdleIsFresh' /\ (NoErasure' => NoErasure)
      BY <2>2, NextWallet, NextIdleIsFresh DEF BelongInv
    <3>2. ASSUME NoErasure' PROVE AllBelong'
      BY <2>2, <3>1, <3>2, NextAllBelong DEF BelongInv
    <3>3. QED
      BY <3>1, <3>2 DEF BelongInv
  <2>3. QED
    BY <2>1, <2>2
<1>3. QED
  BY <1>1, <1>2, TypeCorrect, PTL DEF Spec

\* While nobody erases the wallet, the masternode records in the store are the
\* wallet's, and its password opens their seeds.
THEOREM RecordsBelongHolds == Spec => []RecordsBelong
<1>1. BelongInv => RecordsBelong
  BY DEF BelongInv, AllBelong, StoredBelong, RecordsBelong
<1>2. QED
  BY BelongInvHolds, <1>1, PTL

\* While nobody erases the wallet, a backup made of three separate reads is one
\* wallet's: it is refused for what its records are by themselves or not at all.
THEOREM RefusedOnlyForRecordsHolds == Spec => []RefusedOnlyForRecords
<1>1. BelongInv => RefusedOnlyForRecords
  <2> SUFFICES ASSUME BelongInv, NoErasure, NEW f \in backups,
                      ~TooLong(f),
                      \A r \in f.masternodes : Canonical(r)
               PROVE  Accepts(f, f.meta.pw)
    BY DEF RefusedOnlyForRecords
  <2>1. QED
    BY DEF BelongInv, AllBelong, FilesBelong, Accepts
<1>2. QED
  BY BelongInvHolds, <1>1, PTL


-----------------------------------------------------------------------------
\* The page

PlacesOfSetup == {"store", "open", "addresses"}
StartTask == [op |-> "start", at |-> "check", gen |-> 0]

PageShape ==
  /\ task \in [Page!Tasks -> [op : Page!Ops, at : Page!Places, gen : Nat]]
  /\ gen \in [Kinds -> Nat] /\ shown \in [Kinds -> Nat]
  /\ handle \in [Kinds -> Nat] /\ armed \in [Kinds -> SUBSET Nat]

\* The page starts up once, with nothing else suspended and nothing decrypted.
StartsAlone ==
  /\ \A t \in Page!Tasks :
       task[t].op = "start" \/ task[t].at = "check" =>
         task[t] = StartTask /\ view = "loading"
  /\ view = "loading" =>
       /\ ~open
       /\ \A t \in Page!Tasks : task[t] = Page!NoTask \/ (t = 1 /\ task[t] = StartTask)

\* While there is no wallet, all that runs is one set-up; once there is one on
\* the screen, no set-up is still to store or open it.
SetsUpAlone ==
  /\ \A t \in Page!Tasks : task[t].at = "store" => task[t].op = "setup"
  /\ \A t \in Page!Tasks :
       task[t].op = "setup" /\ task[t].at \in PlacesOfSetup => view = "none"
  /\ view = "none" =>
       /\ \A t \in Page!Tasks : task[t] # Page!NoTask =>
            busy /\ task[t].op = "setup" /\ task[t].at \in PlacesOfSetup
       /\ \A t, u \in Page!Tasks :
            task[t] # Page!NoTask /\ task[u] # Page!NoTask => t = u

\* What is revealed is the latest request's, and its timeout is armed.
RevealedIsTimed == Page!RevealedIsTimed

PageIInv ==
  /\ PageShape /\ StartsAlone /\ SetsUpAlone
  /\ RevealsDieWithTheView /\ RevealedIsTimed /\ BusyIsBacked

LEMMA LoadedPage == Page!Init => PageIInv
<1> SUFFICES ASSUME Page!Init PROVE PageIInv
  OBVIOUS
<1> USE DEF Page!Init, Page!Loaded, Page!NoReveals, Page!NoTask, StartTask
<1>1. \A t \in Page!Tasks :
        task[t] \in {StartTask, Page!NoTask} /\ (t # 1 => task[t] = Page!NoTask)
  OBVIOUS
<1>2. PageShape
  BY <1>1 DEF PageShape, Page!Ops, Page!Places
<1>3. StartsAlone /\ SetsUpAlone
  BY <1>1 DEF StartsAlone, SetsUpAlone, PlacesOfSetup
<1>4. RevealsDieWithTheView /\ RevealedIsTimed /\ BusyIsBacked
  BY DEF RevealsDieWithTheView, RevealedIsTimed, BusyIsBacked,
         Page!RevealsDieWithTheView, Page!RevealedIsTimed, Page!BusyIsBacked
<1>5. QED
  BY <1>2, <1>3, <1>4 DEF PageIInv

\* A suspended handler goes on.
LEMMA ResumingKeepsPageIInv ==
  ASSUME PageIInv, NEW t \in Page!Tasks, Page!Resume(t)
  PROVE  PageIInv'
<1> USE KindsAssumption
    DEF PageIInv, PageShape, StartsAlone, SetsUpAlone, RevealsDieWithTheView,
        RevealedIsTimed, BusyIsBacked, Page!RevealsDieWithTheView,
        Page!RevealedIsTimed, Page!BusyIsBacked, Page!Running, Page!reveals,
        StartTask, PlacesOfSetup, Page!NoTask, Page!Ops, Page!Places
<1>1. CASE Page!StartChecks(t)
  BY <1>1 DEF Page!StartChecks, Page!Proceed, Page!End
<1>2. CASE Page!StartFails(t)
  BY <1>2 DEF Page!StartFails, Page!End
<1>3. CASE Page!SetupStores(t)
  BY <1>3 DEF Page!SetupStores, Page!Proceed
<1>4. CASE Page!Opens(t)
  BY <1>4 DEF Page!Opens, Page!Proceed
<1>5. CASE Page!Enters(t)
  BY <1>5 DEF Page!Enters, Page!Proceed
<1>6. CASE Page!Loads(t)
  <2> USE <1>6 DEF Page!Loads, Page!Proceed
  <2>1. PageShape'
    OBVIOUS
  <2>2. StartsAlone'
    OBVIOUS
  <2>3. SetsUpAlone'
    OBVIOUS
  <2>4. RevealsDieWithTheView' /\ RevealedIsTimed'
    OBVIOUS
  <2>5. BusyIsBacked'
    <3>1. CASE view = "unlocked"
      BY <3>1
    <3>2. CASE view # "unlocked"
      BY <3>2
    <3>3. QED
      BY <3>1, <3>2
  <2>6. QED
    BY <2>1, <2>2, <2>3, <2>4, <2>5
<1>7. CASE Page!BalanceArrives(t)
  <2> USE <1>7 DEF Page!BalanceArrives, Page!Proceed, Page!End
  <2>1. PageShape'
    OBVIOUS
  <2>2. StartsAlone' /\ SetsUpAlone'
    <3>1. view # "loading" /\ view # "none"
      OBVIOUS
    <3>2. StartsAlone'
      BY <3>1
    <3>3. SetsUpAlone'
      BY <3>1
    <3>4. QED
      BY <3>2, <3>3
  <2>3. RevealsDieWithTheView' /\ RevealedIsTimed'
    OBVIOUS
  <2>4. BusyIsBacked'
    OBVIOUS
  <2>5. QED
    BY <2>1, <2>2, <2>3, <2>4
<1>8. CASE Page!Receives(t)
  BY <1>8 DEF Page!Receives, Page!End, Page!Release
<1>9. CASE Page!BackupEnds(t)
  BY <1>9 DEF Page!BackupEnds, Page!End, Page!Release
<1>10. CASE Page!Fails(t)
  BY <1>10 DEF Page!Fails, Page!End, Page!Release
<1>11. ASSUME NEW k \in Kinds, Page!RevealAnswers(t, k) PROVE PageIInv'
  <2> USE <1>11 DEF Page!RevealAnswers, Page!End, Page!Release
  <2>1. PageShape'
    <3>1. task[t].gen \in Nat /\ task' \in [Page!Tasks -> [op : Page!Ops, at : Page!Places, gen : Nat]]
      OBVIOUS
    <3>2. shown' \in [Kinds -> Nat] /\ handle' \in [Kinds -> Nat]
      BY <3>1 DEF Page!Arm
    <3>3. armed' \in [Kinds -> SUBSET Nat]
      BY <3>1 DEF Page!Arm
    <3>4. QED
      BY <3>1, <3>2, <3>3
  <2>2. StartsAlone' /\ SetsUpAlone'
    OBVIOUS
  <2>3. RevealsDieWithTheView'
    BY DEF Page!MayShow
  <2>4. RevealedIsTimed'
    <3>1. CASE Page!MayShow(k, task[t].gen)
      <4>1. /\ task[t].gen = gen[k] /\ UNCHANGED gen
            /\ shown' = [shown EXCEPT ![k] = gen[k]] /\ handle' = [handle EXCEPT ![k] = gen[k]]
            /\ armed' = [armed EXCEPT ![k] = (@ \ {handle[k]}) \cup {gen[k]}]
        BY <3>1 DEF Page!MayShow, Page!Arm
      <4>2. QED
        BY <4>1
    <3>2. CASE UNCHANGED <<shown, handle, armed>>
      BY <3>2
    <3>3. QED
      BY <3>1, <3>2
  <2>5. BusyIsBacked'
    OBVIOUS
  <2>6. QED
    BY <2>1, <2>2, <2>3, <2>4, <2>5
<1>12. ASSUME NEW k \in Kinds, Page!RevealFails(t, k) PROVE PageIInv'
  BY <1>12 DEF Page!RevealFails, Page!End, Page!Release
<1>13. QED
  BY <1>1, <1>2, <1>3, <1>4, <1>5, <1>6, <1>7, <1>8, <1>9, <1>10, <1>11, <1>12 DEF Page!Resume

\* The user begins something.
LEMMA BeginningKeepsPageIInv ==
  ASSUME PageIInv, NEW t \in Page!Tasks,
         \/ Page!Setup(t) \/ Page!Unlock(t) \/ Page!Refresh(t) \/ Page!Backup(t)
         \/ \E k \in Kinds : Page!Reveal(t, k)
  PROVE  PageIInv'
<1> USE KindsAssumption
    DEF PageIInv, PageShape, StartsAlone, SetsUpAlone, RevealsDieWithTheView,
        RevealedIsTimed, BusyIsBacked, Page!RevealsDieWithTheView,
        Page!RevealedIsTimed, Page!BusyIsBacked, Page!Running, Page!reveals,
        StartTask, PlacesOfSetup, Page!NoTask, Page!Ops, Page!Places
<1> USE DEF Page!Run
<1>1. CASE Page!Setup(t)
  BY <1>1 DEF Page!Setup
<1>2. CASE Page!Unlock(t)
  BY <1>2 DEF Page!Unlock, Page!UnlockOffered
<1>3. CASE Page!Refresh(t)
  BY <1>3 DEF Page!Refresh, Page!RefreshOffered
<1>4. CASE Page!Backup(t)
  BY <1>4 DEF Page!Backup, Page!BackupOffered
<1>5. ASSUME NEW k \in Kinds, Page!Reveal(t, k) PROVE PageIInv'
  BY <1>5 DEF Page!Reveal, Page!RevealOffered
<1>6. QED
  BY <1>1, <1>2, <1>3, <1>4, <1>5

\* What is revealed is hidden, or the page is left.
LEMMA HidingKeepsPageIInv ==
  ASSUME PageIInv,
         \/ \E k \in Kinds : Page!HideReveal(k) \/ \E g \in Page!Gens : Page!HideTimeout(k, g)
         \/ \E id \in {"overview", "backup", "other"} : Page!SelectTab(id)
         \/ Page!Lock \/ Page!Hide \/ Page!Reload \/ Page!StoredElsewhere
  PROVE  PageIInv'
<1> USE KindsAssumption
    DEF PageIInv, PageShape, StartsAlone, SetsUpAlone, RevealsDieWithTheView,
        RevealedIsTimed, BusyIsBacked, Page!RevealsDieWithTheView,
        Page!RevealedIsTimed, Page!BusyIsBacked, Page!Running, Page!reveals,
        StartTask, PlacesOfSetup, Page!NoTask, Page!Ops, Page!Places
<1> USE DEF Page!ClearReveals, Page!Bumped, Page!LockWallet
<1>1. ASSUME NEW k \in Kinds, Page!HideReveal(k) PROVE PageIInv'
  BY <1>1 DEF Page!HideReveal
<1>2. ASSUME NEW k \in Kinds, NEW g \in Page!Gens, Page!HideTimeout(k, g) PROVE PageIInv'
  BY <1>2 DEF Page!HideTimeout
<1>3. ASSUME NEW id, Page!SelectTab(id) PROVE PageIInv'
  BY <1>3 DEF Page!SelectTab
<1>4. CASE Page!Lock
  BY <1>4 DEF Page!Lock
<1>5. CASE Page!Hide
  BY <1>5 DEF Page!Hide
<1>6. CASE Page!Reload
  BY <1>6 DEF Page!Reload
<1>7. CASE Page!StoredElsewhere
  BY <1>7 DEF Page!StoredElsewhere
<1>8. QED
  BY <1>1, <1>2, <1>3, <1>4, <1>5, <1>6, <1>7

LEMMA RestingKeepsPageIInv == PageIInv /\ UNCHANGED pageVars => PageIInv'
BY DEF pageVars, PageIInv, PageShape, StartsAlone, SetsUpAlone, RevealsDieWithTheView,
       RevealedIsTimed, BusyIsBacked, Page!RevealsDieWithTheView,
       Page!RevealedIsTimed, Page!BusyIsBacked, Page!Running

LEMMA PageInvariance == StoreSpec => []PageIInv
<1>1. StoreInit => PageIInv
  BY LoadedPage DEF StoreInit
<1>2. PageIInv /\ Page!Next => PageIInv'
  BY ResumingKeepsPageIInv, BeginningKeepsPageIInv, HidingKeepsPageIInv DEF Page!Next
<1>3. [StoreNext]_<<part, vars, pageVars, setupVars, formVars, tabVars>>
        => Page!Next \/ UNCHANGED pageVars
  BY DEF StoreNext
<1>4. PageIInv /\ [StoreNext]_<<part, vars, pageVars, setupVars, formVars, tabVars>>
        => PageIInv'
  BY <1>2, <1>3, RestingKeepsPageIInv
<1>5. QED
  BY <1>1, <1>4, PTL DEF StoreSpec

\* No revealed secret survives a lock, a hidden page or a change of tab, whatever
\* handlers are suspended: none of them reveals it, or shows the page, unseen.
THEOREM RevealsDieWithTheViewHolds == StoreSpec => []RevealsDieWithTheView
<1>1. PageIInv => RevealsDieWithTheView
  BY DEF PageIInv
<1>2. QED
  BY <1>1, PageInvariance, PTL

\* A page that is busy has a handler that will release it: no order of overlapping
\* handlers leaves the buttons disabled for good.
THEOREM BusyIsBackedHolds == StoreSpec => []BusyIsBacked
<1>1. PageIInv => BusyIsBacked
  BY DEF PageIInv
<1>2. QED
  BY <1>1, PageInvariance, PTL

\* What is revealed is the latest request's, and the timeout that hides it is
\* armed: an earlier reveal's timeout neither hides nor replaces it.
THEOREM RevealedIsTimedHolds == StoreSpec => []RevealedIsTimed
<1>1. PageIInv => RevealedIsTimed
  BY DEF PageIInv
<1>2. QED
  BY <1>1, PageInvariance, PTL

-----------------------------------------------------------------------------
\* The set-up

TextsOfFields == {"", "short", "one", "two", "bad", "good"}
JobType == [op : {"create", "mnemonic", "backup"}, at : {"store", "unlock", "enter"},
            phrase : Nat, password : TextsOfFields]
WalletType == [phrase : Nat, password : TextsOfFields]

SetupShape ==
  /\ screen \in {"none", "locked", "unlocked"}
  /\ setupMode \in {"choices", "create", "recovery", "restore"}
  /\ restoreMode \in {"mnemonic", "backup"}
  /\ form \in [Setup!Fields -> TextsOfFields]
  /\ phrases \in Nat /\ pending \in Nat
  /\ job # Setup!NoJob => job \in JobType
  /\ kept \in WalletType

\* A wallet, stored or about to be, is one that the user has confirmed.
ConfirmedWallet(wanted) ==
  /\ wanted.phrase \in 1 .. MaxPhrases => wanted.phrase \in ticked
  /\ wanted.phrase \in 1 .. Setup!Typed => wanted.password \in repeated

ConfirmsFirst ==
  /\ saved => pending \in ticked
  /\ setupMode = "recovery" /\ pending # 0 => form["createPassword"] \in repeated
  /\ job # Setup!NoJob => ConfirmedWallet(job)
  /\ ConfirmedWallet(kept)

\* A handler that stores or unlocks still has its screen under it, unless the
\* page was hidden, and it clears all that this screen can hold.
HoldsScreen ==
  job # Setup!NoJob =>
    /\ screen = "none"
    /\ job.at \in {"store", "unlock"} =>
         \/ setupMode = "choices"
         \/ job.op = "create" /\ setupMode = "recovery"
         \/ job.op # "create" /\ setupMode = "restore" /\ restoreMode = job.op

\* What was typed is on the screen, whether a handler runs or not.
TypedIsShown ==
  /\ screen = "locked" => form = Setup!Blank /\ pending = 0
  /\ screen = "none" =>
       /\ \A f \in Setup!Fields : form[f] # "" =>
            Setup!Shown(f) \/ (setupMode = "recovery" /\ f \in Setup!Clears("create"))
       /\ pending # 0 => setupMode = "recovery"

SetupIInv == SetupShape /\ ConfirmsFirst /\ HoldsScreen /\ TypedIsShown

\* The fields are named once: which screen shows them, and which handler clears them.
LEMMA FieldsOfScreens ==
  /\ "createPassword" \in Setup!Fields
  /\ \A f \in Setup!Fields :
       /\ Setup!Shown(f) <=> screen = "none" /\
            \/ setupMode = "create" /\ f \in Setup!Clears("create")
            \/ setupMode = "restore" /\ restoreMode = "mnemonic" /\ f \in Setup!Clears("mnemonic")
            \/ setupMode = "restore" /\ restoreMode = "backup" /\ f \in Setup!Clears("backup")
BY DEF Setup!Fields, Setup!Shown, Setup!Clears

LEMMA NoPhrase == 0 \notin 1 .. MaxPhrases /\ 0 \notin 1 .. Setup!Typed
BY PhrasesAssumption

LEMMA FirstScreen == Setup!SetupInit => SetupIInv
<1> SUFFICES ASSUME Setup!SetupInit PROVE SetupIInv
  OBVIOUS
<1> USE DEF Setup!SetupInit, Setup!NoStoredWallet
<1>1. SetupShape
  BY DEF SetupShape, WalletType, TextsOfFields, Setup!Blank
<1>2. ConfirmsFirst
  <2>1. /\ ~saved /\ setupMode # "recovery" /\ job = Setup!NoJob
    OBVIOUS
  <2>2. kept.phrase = 0
    OBVIOUS
  <2>3. QED
    BY <2>1, <2>2, NoPhrase DEF ConfirmsFirst, ConfirmedWallet
<1>3. HoldsScreen /\ TypedIsShown
  BY DEF HoldsScreen, TypedIsShown, Setup!Blank
<1>4. QED
  BY <1>1, <1>2, <1>3 DEF SetupIInv

\* The user types.
LEMMA TypingKeepsSetupIInv ==
  ASSUME SetupIInv, NEW f \in Setup!Fields, Setup!Type(f)
  PROVE  SetupIInv'
<1> USE DEF SetupIInv
<1>1. PICK text \in TextsOfFields : form' = [form EXCEPT ![f] = text]
  BY DEF Setup!Type, Setup!Texts, TextsOfFields
<1>2. /\ Setup!Shown(f)
      /\ UNCHANGED <<screen, setupMode, restoreMode, pending, saved, job, kept,
                     phrases, ticked, repeated>>
  BY DEF Setup!Type
<1>3. SetupShape'
  BY <1>1, <1>2 DEF SetupShape
<1>4. setupMode = "recovery" => form'["createPassword"] = form["createPassword"]
  BY <1>1, <1>2, FieldsOfScreens
<1>5. ConfirmsFirst'
  BY <1>2, <1>4 DEF ConfirmsFirst, ConfirmedWallet
<1>6. HoldsScreen'
  BY <1>2 DEF HoldsScreen
<1>7. TypedIsShown'
  BY <1>1, <1>2 DEF TypedIsShown, SetupShape, Setup!Shown
<1>8. QED
  BY <1>3, <1>5, <1>6, <1>7

\* The user goes from screen to screen, which clears what the next does not show.
LEMMA ScreensKeepSetupIInv ==
  ASSUME SetupIInv,
         \/ \E mode \in {"create", "restore"} : Setup!OpenSetup(mode)
         \/ \E mode \in {"mnemonic", "backup"} : Setup!SelectRestoreMode(mode)
         \/ Setup!ReturnToChoices \/ Setup!ReturnToCreatePassword
         \/ Setup!PrepareCreate \/ Setup!TickSaved \/ Setup!HideSetup
  PROVE  SetupIInv'
<1> USE DEF SetupIInv, Setup!busySetup
<1>1. ASSUME NEW mode \in {"create", "restore"}, Setup!OpenSetup(mode) PROVE SetupIInv'
  <2>1. SetupShape'
    BY <1>1 DEF Setup!OpenSetup, SetupShape
  <2>2. ConfirmsFirst'
    BY <1>1 DEF Setup!OpenSetup, ConfirmsFirst, ConfirmedWallet
  <2>3. HoldsScreen'
    BY <1>1 DEF Setup!OpenSetup, HoldsScreen
  <2>4. TypedIsShown'
    BY <1>1 DEF Setup!OpenSetup, TypedIsShown, SetupShape, Setup!Blank,
                Setup!Clears, Setup!Shown, Setup!Fields
  <2>5. QED
    BY <2>1, <2>2, <2>3, <2>4
<1>2. ASSUME NEW mode \in {"mnemonic", "backup"}, Setup!SelectRestoreMode(mode) PROVE SetupIInv'
  <2>1. SetupShape'
    BY <1>2 DEF Setup!SelectRestoreMode, Setup!Clear, SetupShape, TextsOfFields
  <2>2. ConfirmsFirst'
    BY <1>2 DEF Setup!SelectRestoreMode, ConfirmsFirst, ConfirmedWallet
  <2>3. HoldsScreen'
    BY <1>2 DEF Setup!SelectRestoreMode, HoldsScreen
  <2>4. TypedIsShown'
    BY <1>2 DEF Setup!SelectRestoreMode, Setup!Clear, TypedIsShown, SetupShape,
                Setup!Blank, Setup!Clears, Setup!Shown, Setup!Fields
  <2>5. QED
    BY <2>1, <2>2, <2>3, <2>4
<1>3. CASE Setup!ReturnToChoices
  <2>1. SetupShape'
    BY <1>3 DEF Setup!ReturnToChoices, SetupShape, TextsOfFields, Setup!Blank
  <2>2. ConfirmsFirst'
    BY <1>3 DEF Setup!ReturnToChoices, ConfirmsFirst, ConfirmedWallet, SetupShape
  <2>3. HoldsScreen'
    BY <1>3 DEF Setup!ReturnToChoices, HoldsScreen
  <2>4. TypedIsShown'
    BY <1>3 DEF Setup!ReturnToChoices, TypedIsShown, SetupShape, Setup!Blank,
                Setup!Clears, Setup!Shown, Setup!Fields
  <2>5. QED
    BY <2>1, <2>2, <2>3, <2>4
<1>4. CASE Setup!ReturnToCreatePassword
  <2>1. SetupShape'
    BY <1>4 DEF Setup!ReturnToCreatePassword, SetupShape
  <2>2. ConfirmsFirst'
    BY <1>4 DEF Setup!ReturnToCreatePassword, ConfirmsFirst, ConfirmedWallet
  <2>3. HoldsScreen'
    BY <1>4 DEF Setup!ReturnToCreatePassword, HoldsScreen
  <2>4. TypedIsShown'
    BY <1>4 DEF Setup!ReturnToCreatePassword, TypedIsShown, SetupShape, Setup!Blank,
                Setup!Clears, Setup!Shown, Setup!Fields
  <2>5. QED
    BY <2>1, <2>2, <2>3, <2>4
<1>5. CASE Setup!PrepareCreate
  <2>1. SetupShape'
    BY <1>5 DEF Setup!PrepareCreate, SetupShape
  <2>2. ConfirmsFirst'
    BY <1>5 DEF Setup!PrepareCreate, ConfirmsFirst, ConfirmedWallet
  <2>3. HoldsScreen'
    BY <1>5 DEF Setup!PrepareCreate, HoldsScreen
  <2>4. TypedIsShown'
    BY <1>5 DEF Setup!PrepareCreate, Setup!LongEnough, TypedIsShown, SetupShape,
                Setup!Blank, Setup!Clears, Setup!Shown, Setup!Fields
  <2>5. QED
    BY <2>1, <2>2, <2>3, <2>4
<1>6. CASE Setup!TickSaved
  <2>1. SetupShape'
    BY <1>6 DEF Setup!TickSaved, SetupShape
  <2>2. ConfirmsFirst'
    BY <1>6 DEF Setup!TickSaved, ConfirmsFirst, ConfirmedWallet
  <2>3. HoldsScreen'
    BY <1>6 DEF Setup!TickSaved, HoldsScreen
  <2>4. TypedIsShown'
    BY <1>6 DEF Setup!TickSaved, TypedIsShown, SetupShape, Setup!Blank,
                Setup!Clears, Setup!Shown, Setup!Fields
  <2>5. QED
    BY <2>1, <2>2, <2>3, <2>4
<1>7. CASE Setup!HideSetup
  <2>1. SetupShape'
    BY <1>7 DEF Setup!HideSetup, Setup!ClearWalletState, SetupShape, TextsOfFields,
                Setup!Blank
  <2>2. ConfirmsFirst'
    BY <1>7 DEF Setup!HideSetup, Setup!ClearWalletState, ConfirmsFirst,
                ConfirmedWallet, SetupShape
  <2>3. HoldsScreen'
    BY <1>7 DEF Setup!HideSetup, HoldsScreen
  <2>4. TypedIsShown'
    BY <1>7 DEF Setup!HideSetup, Setup!ClearWalletState, TypedIsShown, SetupShape,
                Setup!Blank, Setup!Clears, Setup!Shown, Setup!Fields
  <2>5. QED
    BY <2>1, <2>2, <2>3, <2>4
<1>8. QED
  BY <1>1, <1>2, <1>3, <1>4, <1>5, <1>6, <1>7

\* A handler runs: it starts, stores the wallet, unlocks and enters it.
LEMMA HandlersKeepSetupIInv ==
  ASSUME SetupIInv,
         \/ Setup!HandleCreate \/ Setup!HandleRestoreMnemonic
         \/ Setup!HandleRestoreBackup \/ Setup!Stores \/ Setup!StoreRefuses
         \/ Setup!UnlockAfterSetup \/ Setup!EnterUnlocked
  PROVE  SetupIInv'
<1> USE DEF SetupIInv, Setup!busySetup
<1>1. CASE Setup!HandleCreate
  <2>1. SetupShape'
    BY <1>1 DEF Setup!HandleCreate, Setup!Starts, SetupShape, JobType, WalletType,
                Setup!Fields
  <2>2. ConfirmsFirst'
    BY <1>1 DEF Setup!HandleCreate, Setup!Starts, ConfirmsFirst, ConfirmedWallet
  <2>3. HoldsScreen'
    BY <1>1 DEF Setup!HandleCreate, Setup!Starts, HoldsScreen
  <2>4. TypedIsShown'
    BY <1>1 DEF Setup!HandleCreate, Setup!Starts, TypedIsShown, SetupShape,
                Setup!Shown
  <2>5. QED
    BY <2>1, <2>2, <2>3, <2>4
<1>2. CASE Setup!HandleRestoreMnemonic
  <2>1. SetupShape'
    <3>1. form["restoreMnemonicPassword"] \in TextsOfFields
      BY DEF SetupShape, Setup!Fields
    <3>2. job' \in JobType
      BY <1>2, <3>1, PhrasesAssumption DEF Setup!HandleRestoreMnemonic,
         Setup!Starts, Setup!Typed, JobType
    <3>3. QED
      BY <1>2, <3>2 DEF Setup!HandleRestoreMnemonic, SetupShape
  <2>2. ConfirmsFirst'
    BY <1>2, PhrasesAssumption DEF Setup!HandleRestoreMnemonic, Setup!Starts,
       Setup!RepeatedToo, ConfirmsFirst, ConfirmedWallet, Setup!Typed
  <2>3. HoldsScreen'
    BY <1>2 DEF Setup!HandleRestoreMnemonic, Setup!Starts, HoldsScreen
  <2>4. TypedIsShown'
    BY <1>2 DEF Setup!HandleRestoreMnemonic, Setup!Starts, Setup!LongEnough,
                Setup!RepeatedToo, TypedIsShown, SetupShape, Setup!Shown
  <2>5. QED
    BY <2>1, <2>2, <2>3, <2>4
<1>3. CASE Setup!HandleRestoreBackup
  <2>1. SetupShape'
    <3>1. form["restorePassword"] \in TextsOfFields
      BY DEF SetupShape, Setup!Fields
    <3>2. job' \in JobType
      BY <1>3, <3>1, PhrasesAssumption DEF Setup!HandleRestoreBackup, Setup!Starts,
         Setup!Filed, JobType
    <3>3. QED
      BY <1>3, <3>2 DEF Setup!HandleRestoreBackup, SetupShape
  <2>2. ConfirmsFirst'
    BY <1>3, PhrasesAssumption DEF Setup!HandleRestoreBackup, Setup!Starts,
       ConfirmsFirst, ConfirmedWallet, Setup!Typed, Setup!Filed
  <2>3. HoldsScreen'
    BY <1>3 DEF Setup!HandleRestoreBackup, Setup!Starts, HoldsScreen
  <2>4. TypedIsShown'
    BY <1>3 DEF Setup!HandleRestoreBackup, Setup!Starts, Setup!LongEnough,
                TypedIsShown, SetupShape, Setup!Shown
  <2>5. QED
    BY <2>1, <2>2, <2>3, <2>4
<1>4. CASE Setup!Stores
  <2>1. SetupShape'
    BY <1>4 DEF Setup!Stores, SetupShape, JobType, WalletType, Setup!Fields
  <2>2. ConfirmsFirst'
    BY <1>4 DEF Setup!Stores, ConfirmsFirst, ConfirmedWallet
  <2>3. HoldsScreen'
    BY <1>4 DEF Setup!Stores, HoldsScreen
  <2>4. TypedIsShown'
    BY <1>4 DEF Setup!Stores, TypedIsShown, SetupShape, Setup!Shown
  <2>5. QED
    BY <2>1, <2>2, <2>3, <2>4
<1>5. CASE Setup!StoreRefuses
  <2>1. SetupShape'
    BY <1>5 DEF Setup!StoreRefuses, SetupShape, JobType, WalletType, Setup!Fields
  <2>2. ConfirmsFirst'
    BY <1>5 DEF Setup!StoreRefuses, ConfirmsFirst, ConfirmedWallet
  <2>3. HoldsScreen'
    BY <1>5 DEF Setup!StoreRefuses, HoldsScreen
  <2>4. TypedIsShown'
    BY <1>5 DEF Setup!StoreRefuses, TypedIsShown, SetupShape, Setup!Shown
  <2>5. QED
    BY <2>1, <2>2, <2>3, <2>4
<1>6. CASE Setup!UnlockAfterSetup
  <2>1. SetupShape'
    <3>0. pending' \in Nat
      BY <1>6 DEF Setup!UnlockAfterSetup, SetupShape
    <3>1. form' \in [Setup!Fields -> TextsOfFields]
      BY <1>6 DEF Setup!UnlockAfterSetup, Setup!Clear, SetupShape, TextsOfFields
    <3>2. job' # Setup!NoJob => job' \in JobType
      BY <1>6 DEF Setup!UnlockAfterSetup, SetupShape, JobType
    <3>3. QED
      BY <1>6, <3>0, <3>1, <3>2 DEF Setup!UnlockAfterSetup, SetupShape
  <2>2. ConfirmsFirst'
    BY <1>6, PhrasesAssumption DEF Setup!UnlockAfterSetup, Setup!Clear,
                                   ConfirmsFirst, ConfirmedWallet, SetupShape,
                                   Setup!Typed, JobType, WalletType, Setup!Fields,
                                   Setup!Clears
  <2>3. HoldsScreen'
    BY <1>6 DEF Setup!UnlockAfterSetup, HoldsScreen, JobType, SetupShape
  <2>4. TypedIsShown'
    <3> USE <1>6 DEF Setup!UnlockAfterSetup
    <3>1. job.op \in {"create", "mnemonic", "backup"} /\ screen = "none"
      BY DEF SetupShape, HoldsScreen, JobType
    <3>2. \A f \in Setup!Fields :
            form'[f] = IF f \in Setup!Clears(job.op) THEN "" ELSE form[f]
      BY DEF Setup!Clear
    <3>3. CASE setupMode = "choices"
      BY <3>1, <3>2, <3>3 DEF TypedIsShown, Setup!Shown, Setup!Clear, Setup!Blank
    <3>4. CASE job.op = "create" /\ setupMode = "recovery"
      BY <3>1, <3>2, <3>4 DEF TypedIsShown, Setup!Shown, Setup!Clear, Setup!Blank
    <3>5. CASE job.op # "create" /\ setupMode = "restore" /\ restoreMode = job.op
      BY <3>1, <3>2, <3>5, FieldsOfScreens DEF TypedIsShown, Setup!Shown,
         Setup!Clear, Setup!Clears, Setup!Blank, Setup!Fields
    <3>6. QED
      BY <3>1, <3>3, <3>4, <3>5 DEF HoldsScreen
  <2>5. QED
    BY <2>1, <2>2, <2>3, <2>4
<1>7. CASE Setup!EnterUnlocked
  <2>1. SetupShape'
    BY <1>7 DEF Setup!EnterUnlocked, SetupShape, JobType, WalletType, Setup!Fields
  <2>2. ConfirmsFirst'
    BY <1>7 DEF Setup!EnterUnlocked, ConfirmsFirst, ConfirmedWallet
  <2>3. HoldsScreen'
    BY <1>7 DEF Setup!EnterUnlocked, HoldsScreen
  <2>4. TypedIsShown'
    BY <1>7 DEF Setup!EnterUnlocked, TypedIsShown, SetupShape, Setup!Shown
  <2>5. QED
    BY <2>1, <2>2, <2>3, <2>4
<1>8. QED
  BY <1>1, <1>2, <1>3, <1>4, <1>5, <1>6, <1>7

LEMMA RestingKeepsSetupIInv == SetupIInv /\ UNCHANGED setupVars => SetupIInv'
<1> SUFFICES ASSUME SetupIInv, UNCHANGED setupVars PROVE SetupIInv'
  OBVIOUS
<1> USE DEF SetupIInv, setupVars
<1>1. SetupShape' /\ HoldsScreen'
  BY DEF SetupShape, HoldsScreen
<1>2. ConfirmsFirst'
  BY DEF ConfirmsFirst, ConfirmedWallet
<1>3. TypedIsShown'
  BY DEF TypedIsShown, Setup!Shown
<1>4. QED
  BY <1>1, <1>2, <1>3

LEMMA SetupInvariance == StoreSpec => []SetupIInv
<1>1. StoreInit => SetupIInv
  BY FirstScreen DEF StoreInit
<1>2. SetupIInv /\ Setup!SetupNext => SetupIInv'
  BY TypingKeepsSetupIInv, ScreensKeepSetupIInv, HandlersKeepSetupIInv
     DEF Setup!SetupNext
<1>3. [StoreNext]_<<part, vars, pageVars, setupVars, formVars, tabVars>>
        => Setup!SetupNext \/ UNCHANGED setupVars
  BY DEF StoreNext
<1>4. SetupIInv /\ [StoreNext]_<<part, vars, pageVars, setupVars, formVars, tabVars>>
        => SetupIInv'
  BY <1>2, <1>3, RestingKeepsSetupIInv
<1>5. QED
  BY <1>1, <1>4, PTL DEF StoreSpec

\* A new wallet has the phrase that was on the screen when the user said it was
\* saved, and a password typed twice: hiding the page, going back and typing on
\* while a handler awaits do not change what it stores.
THEOREM SetupIsConfirmedHolds == StoreSpec => []SetupIsConfirmed
<1>1. SetupIInv => SetupIsConfirmed
  BY DEF SetupIInv, ConfirmsFirst, ConfirmedWallet, SetupIsConfirmed,
         Setup!SetupIsConfirmed
<1>2. QED
  BY <1>1, SetupInvariance, PTL

\* Passwords and phrases are gone on the lock screen, and stay no longer than
\* the screen they were typed on.
THEOREM FormsAreClearedHolds == StoreSpec => []FormsAreCleared
<1>1. SetupIInv => FormsAreCleared
  BY DEF SetupIInv, TypedIsShown, FormsAreCleared, Setup!FormsAreCleared
<1>2. QED
  BY <1>1, SetupInvariance, PTL

-----------------------------------------------------------------------------
\* The form and the tabs

PreviewIsCurrent == SendForm!PreviewIsCurrent

LEMMA EmptyForm == SendForm!SendFormInit => PreviewIsCurrent
BY DEF SendForm!SendFormInit, PreviewIsCurrent, SendForm!PreviewIsCurrent,
       SendForm!canSend

\* A change of the fields or of the coins empties the preview, and so does a lock;
\* a preview that is made is made of the form as it is.
LEMMA PreviewStaysCurrent ==
  ASSUME PreviewIsCurrent, SendForm!SendFormNext \/ UNCHANGED formVars
  PROVE  PreviewIsCurrent'
<1> USE DEF PreviewIsCurrent, SendForm!PreviewIsCurrent, SendForm!FormSelection,
            SendForm!canSend, SendForm!recipientValid
<1>1. CASE SendForm!TypeRecipient \/ SendForm!TypeAmount \/ SendForm!CoinsChange
  BY <1>1 DEF SendForm!TypeRecipient, SendForm!TypeAmount, SendForm!CoinsChange,
              SendForm!Schedule
<1>2. CASE SendForm!PreviewFires \/ SendForm!PreviewAnswers
  BY <1>2 DEF SendForm!PreviewFires, SendForm!PreviewAnswers, SendForm!Preview
<1>3. CASE SendForm!SendPressed \/ SendForm!SendFetches \/ SendForm!SendIsAnswered
           \/ SendForm!SendIsRefused
  <2>1. CASE SendForm!SendPressed
    BY <2>1 DEF SendForm!SendPressed
  <2>2. CASE SendForm!SendFetches
    BY <2>2 DEF SendForm!SendFetches, SendForm!Schedule
  <2>3. CASE SendForm!SendIsAnswered
    BY <2>3 DEF SendForm!SendIsAnswered
  <2>4. CASE SendForm!SendIsRefused
    BY <2>4 DEF SendForm!SendIsRefused
  <2>5. QED
    BY <1>3, <2>1, <2>2, <2>3, <2>4
<1>4. CASE SendForm!ShowWallet \/ SendForm!RateArrives \/ SendForm!LockForm
  BY <1>4 DEF SendForm!ShowWallet, SendForm!RateArrives, SendForm!LockForm
<1>5. CASE UNCHANGED formVars
  BY <1>5 DEF formVars
<1>6. QED
  BY <1>1, <1>2, <1>3, <1>4, <1>5 DEF SendForm!SendFormNext

\* Of the checks in flight only those of this opening count, and a locked page
\* shows no code.
TabsIInv ==
  /\ checkGeneration \in Nat
  /\ \A generation \in checks : generation \in Nat /\ generation <= checkGeneration
  /\ ~opened => qr = 0 /\ checkGeneration \notin checks
  /\ TabBar!LatestIsShown

LEMMA FirstTab == TabBar!TabsInit => TabsIInv
BY DEF TabBar!TabsInit, TabsIInv, TabBar!LatestIsShown

LEMMA TabsKeepTabsIInv ==
  ASSUME TabsIInv, TabBar!TabsNext \/ UNCHANGED tabVars
  PROVE  TabsIInv'
<1> USE DEF TabsIInv, TabBar!LatestIsShown, TabBar!checkVars, TabBar!receiveVars,
            TabBar!activityVars
<1>1. ASSUME NEW id \in TabBar!TabNames, TabBar!OpenTab(id) PROVE TabsIInv'
  BY <1>1 DEF TabBar!OpenTab, TabBar!Check
<1>2. ASSUME NEW generation \in checks, TabBar!CheckAnswers(generation) PROVE TabsIInv'
  <2>1. PICK enabled \in BOOLEAN :
          /\ checks' = checks \ {generation}
          /\ IF generation = checkGeneration
             THEN stakingReady' = enabled /\ stakingChecking' = FALSE
             ELSE UNCHANGED <<stakingReady, stakingChecking>>
          /\ lastCheck' = IF generation = checkGeneration THEN enabled ELSE lastCheck
          /\ UNCHANGED <<checkGeneration, opened, activeTab, receiveAddress, qr, drawing>>
    BY <1>2 DEF TabBar!CheckAnswers, TabBar!LatestCheck
  <2>2. CASE generation = checkGeneration
    BY <2>1, <2>2
  <2>3. CASE generation # checkGeneration
    BY <2>1, <2>3
  <2>4. QED
    BY <2>2, <2>3
<1>3. CASE TabBar!NewReceiveAddress \/ TabBar!ReceiveAnswers \/ TabBar!DrawQR
  <2>1. CASE TabBar!NewReceiveAddress
    BY <2>1 DEF TabBar!NewReceiveAddress
  <2>2. CASE TabBar!ReceiveAnswers
    BY <2>2 DEF TabBar!ReceiveAnswers
  <2>3. CASE TabBar!DrawQR
    BY <2>3 DEF TabBar!DrawQR
  <2>4. QED
    BY <1>3, <2>1, <2>2, <2>3
<1>4. CASE TabBar!Reload \/ TabBar!LoadAnswers \/ TabBar!ActivityIsOld
  BY <1>4 DEF TabBar!Reload, TabBar!LoadAnswers, TabBar!ActivityIsOld
<1>5. CASE TabBar!OpenWallet \/ TabBar!LockTabs
  <2>1. CASE TabBar!OpenWallet
    BY <2>1 DEF TabBar!OpenWallet
  <2>2. CASE TabBar!LockTabs
    BY <2>2 DEF TabBar!LockTabs
  <2>3. QED
    BY <1>5, <2>1, <2>2
<1>6. CASE UNCHANGED tabVars
  BY <1>6 DEF tabVars
<1>7. QED
  BY <1>1, <1>2, <1>3, <1>4, <1>5, <1>6 DEF TabBar!TabsNext

\* The fee and change of the preview are those of the form as it is, and the
\* staking service and the code on the screen are the latest asked for, in
\* whatever order timers fire and answers arrive.
THEOREM LatestIsShownHolds == StoreSpec => []LatestIsShown
<1>1. StoreInit => PreviewIsCurrent /\ TabsIInv
  BY EmptyForm, FirstTab DEF StoreInit
<1>2. [StoreNext]_<<part, vars, pageVars, setupVars, formVars, tabVars>>
        => /\ SendForm!SendFormNext \/ UNCHANGED formVars
           /\ TabBar!TabsNext \/ UNCHANGED tabVars
  BY DEF StoreNext
<1>3. /\ PreviewIsCurrent /\ TabsIInv
      /\ [StoreNext]_<<part, vars, pageVars, setupVars, formVars, tabVars>>
      => PreviewIsCurrent' /\ TabsIInv'
  BY <1>2, PreviewStaysCurrent, TabsKeepTabsIInv
<1>4. PreviewIsCurrent /\ TabsIInv => LatestIsShown
  BY DEF PreviewIsCurrent, TabsIInv, LatestIsShown
<1>5. QED
  BY <1>1, <1>3, <1>4, PTL DEF StoreSpec
================================================================================
