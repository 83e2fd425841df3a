---------------------------- MODULE PQWalletStore ----------------------------
(***************************************************************************)
(* The encrypted seed store of pqwallet-store.js: one IndexedDB database   *)
(* shared by every tab of the browser, and the decrypted seeds each tab    *)
(* keeps in memory.                                                        *)
(*                                                                         *)
(* A call of the store's API is a process that makes IndexedDB requests    *)
(* with encryption and key derivation (PBKDF2: slow, and awaited) between  *)
(* them; every request sees the database as the other calls left it.  Each *)
(* call runs once.  A wallet is named by the call that created it, and a   *)
(* ciphertext by the password that opens it.                               *)
(***************************************************************************)
EXTENDS Naturals, FiniteSets

CONSTANTS
  Calls, Tabs, TabOf,   \* TabOf: the tab each call runs in
  Passwords, Keys,      \* Keys: the indices of a wallet's keys
  NoWallet,
  MaxRecords,           \* masternode records a backup may hold (MAX_KEYS)
  Terms,                \* what is typed of a masternode's service and payout
  Erasable              \* whether deleteWallet is called (the page never does)

ASSUME StoreAssumption ==
  /\ TabOf \in [Calls -> Tabs] /\ Erasable \in BOOLEAN
  /\ IsFiniteSet(Calls) /\ IsFiniteSet(Keys) /\ Keys # {}
  /\ NoWallet \notin [id : Calls, pw : Passwords]
  /\ MaxRecords \in Nat /\ Terms \subseteq [service : BOOLEAN, payout : BOOLEAN]

VARIABLES
  wallet, keys, masternodes,  \* the three object stores
  backups,                    \* the backup files downloaded so far
  seeds,                      \* each tab's unlockedSeeds: null, or its buffers
  unwiped,                    \* seed buffers decrypted and not zero-filled
  call                        \* each call's progress and locals

db   == <<wallet, keys, masternodes>>
vars == <<db, backups, seeds, unwiped, call>>

Metas   == [id : Calls, pw : Passwords]
Records == [id : Calls, owner : Calls, pw : Passwords,
            service : BOOLEAN, payout : BOOLEAN,
            status : {"draft", "registered", "withdrawn"},
            registration : BOOLEAN, withdrawal : BOOLEAN]
Files   == [meta : Metas, keys : Metas \cup {NoWallet},
            masternodes : SUBSET Records]
Buffers == Calls \X Keys
Ops == {"none", "create", "import", "unlock", "delete", "record", "mark",
        "operator", "export"}
Places == {"idle", "keys", "decrypt", "masternodes", "commit", "borrowed",
           "done", "failed"}

\* What a call remembers across its awaits: the password it was given, the
\* metadata and keys it read, its file to import or its record to write.
NoCall == [op |-> "none", at |-> "idle", pw |-> {}, read |-> {}, file |-> {},
           record |-> {}]

TypeOK ==
  /\ wallet \in Metas \cup {NoWallet} /\ keys \in Metas \cup {NoWallet}
  /\ masternodes \subseteq Records
  /\ backups \subseteq Files
  /\ seeds \in [Tabs -> [open : BOOLEAN, buffers : SUBSET Buffers]]
  /\ \A t \in Tabs : ~seeds[t].open => seeds[t].buffers = {}
  /\ unwiped \subseteq Buffers
  /\ call \in [Calls -> [op : Ops, at : Places, pw : SUBSET Passwords,
                         read : SUBSET (Metas \cup {NoWallet}),
                         file : SUBSET Files, record : SUBSET Records]]

-----------------------------------------------------------------------------
Locked == [open |-> FALSE, buffers |-> {}]
Own(c) == {b \in unwiped : b[1] = c /\ \A t \in Tabs : b \notin seeds[t].buffers}

\* A record's lifecycle as the restore of a backup checks it.
LifecycleIsValid(r) ==
  \/ r.status = "draft" /\ ~r.registration /\ ~r.withdrawal
  \/ r.status = "registered" /\ r.registration /\ ~r.withdrawal
  \/ r.status = "withdrawn" /\ r.registration /\ r.withdrawal

\* What canonicalMasternodeRecord() asks of a record by itself: its service is
\* an address and port that validService() takes, an operator's reward has an
\* address to be paid to, and its transactions are those of its status.
Canonical(r) == r.service /\ r.payout /\ LifecycleIsValid(r)

\* importBackup() accepts the file with this password: its keys belong to its
\* recovery phrase, its masternode records are canonical, not too many and
\* belong to its keys, and all decrypt.
Belongs(r, meta) == r.owner = meta.id /\ r.pw = meta.pw
TooLong(f) == Cardinality(f.masternodes) > MaxRecords
Accepts(f, pw) ==
  /\ f.keys = f.meta /\ f.meta.pw = pw /\ ~TooLong(f)
  /\ \A r \in f.masternodes : Belongs(r, f.meta) /\ Canonical(r)

Move(c, at)  == call' = [call EXCEPT ![c].at = at]
Begin(c, op, pw, at) ==
  call' = [call EXCEPT ![c].op = op, ![c].pw = {pw}, ![c].at = at]
Idle(c) == call[c].at = "idle"
At(c, op, at) == call[c].op = op /\ call[c].at = at

Init ==
  /\ wallet = NoWallet /\ keys = NoWallet /\ masternodes = {}
  /\ backups = {} /\ unwiped = {}
  /\ seeds = [t \in Tabs |-> Locked]
  /\ call = [c \in Calls |-> NoCall]

-----------------------------------------------------------------------------
\* createWallet() and importBackup(): check that there is no wallet, encrypt
\* for a while, then write everything in one transaction whose add() fails -
\* and rolls all of it back - if another call stored a wallet meanwhile.

CreateChecks(c, pw) ==
  /\ Idle(c)
  /\ Begin(c, "create", pw, IF wallet = NoWallet THEN "commit" ELSE "failed")
  /\ UNCHANGED <<db, backups, seeds, unwiped>>

ImportChecks(c, f, pw) ==
  /\ Idle(c)
  /\ call' = [call EXCEPT ![c] =
       [NoCall EXCEPT !.op = "import", !.pw = {pw}, !.file = {f},
          !.at = IF wallet = NoWallet /\ Accepts(f, pw) THEN "commit" ELSE "failed"]]
  /\ UNCHANGED <<db, backups, seeds, unwiped>>

\* Mistake: put() instead of add() replaces the other call's wallet.
StoreReplaces(meta, records) ==
  wallet' = meta /\ keys' = meta /\ masternodes' = records

\* Mistake: the keys are written in a transaction of their own, and it fails.
StoreWithoutKeys(meta, records) ==
  IF wallet = NoWallet
  THEN wallet' = meta /\ masternodes' = records /\ UNCHANGED keys
  ELSE UNCHANGED db

\* The transaction: clear, add, put.
Store(meta, records) ==
  IF wallet = NoWallet
  THEN wallet' = meta /\ keys' = meta /\ masternodes' = records
  ELSE UNCHANGED db

Outcome == IF wallet = NoWallet THEN "done" ELSE "failed"

CreateCommits(c) ==
  /\ At(c, "create", "commit")
  /\ \E pw \in call[c].pw : Store([id |-> c, pw |-> pw], {})
  /\ Move(c, Outcome)
  /\ UNCHANGED <<backups, seeds, unwiped>>

ImportCommits(c) ==
  /\ At(c, "import", "commit")
  /\ \E f \in call[c].file : Store(f.meta, f.masternodes)
  /\ Move(c, Outcome)
  /\ UNCHANGED <<backups, seeds, unwiped>>

-----------------------------------------------------------------------------
\* lockWallet(): zero-fill and forget.  It runs in one go, at any moment.
Wipe(t) == unwiped' = unwiped \ seeds[t].buffers

Lock(t) ==
  /\ seeds[t].open
  /\ Wipe(t)
  /\ seeds' = [seeds EXCEPT ![t] = Locked]
  /\ UNCHANGED <<db, backups, call>>

\* Mistake: any password is taken while there is a wallet.
VerifiedAlways(pw) == wallet # NoWallet

\* verifyPassword() reads the metadata and tries the password on it.
Verified(pw) == wallet # NoWallet /\ wallet.pw = pw

\* unlockWallet(): verify, read the keys, decrypt them one by one, then replace
\* whatever seeds the tab held.
UnlockVerifies(c, pw) ==
  /\ Idle(c)
  /\ Begin(c, "unlock", pw, IF Verified(pw) THEN "keys" ELSE "failed")
  /\ UNCHANGED <<db, backups, seeds, unwiped>>

\* Mistake: the new seeds are in place when lockWallet() wipes.
ReplaceThenLock(c, buffers) ==
  LET t == TabOf[c]
  IN  /\ seeds' = [seeds EXCEPT ![t] = [open |-> TRUE, buffers |-> buffers]]
      /\ unwiped' = unwiped \ (seeds[t].buffers \cup buffers)

Replace(c, buffers) ==
  LET t == TabOf[c]
  IN  /\ seeds' = [seeds EXCEPT ![t] = [open |-> TRUE, buffers |-> buffers]]
      /\ unwiped' = (unwiped \ seeds[t].buffers) \cup buffers

\* A wallet erased meanwhile has no keys to decrypt: the seeds are empty.
UnlockReadsKeys(c) ==
  /\ At(c, "unlock", "keys")
  /\ IF keys = NoWallet
     THEN Move(c, "done") /\ Replace(c, {})
     ELSE /\ call' = [call EXCEPT ![c].at = "decrypt", ![c].read = {keys}]
          /\ UNCHANGED <<seeds, unwiped>>
  /\ UNCHANGED <<db, backups>>

\* The next key decrypts.  With the last one the seeds become the tab's.
UnlockDecrypts(c) ==
  /\ At(c, "unlock", "decrypt")
  /\ \A meta \in call[c].read : meta.pw \in call[c].pw
  /\ \E k \in Keys :
       LET have == Own(c) \cup {<<c, k>>}
       IN  /\ <<c, k>> \notin Own(c)
           /\ IF \A j \in Keys : <<c, j>> \in have
              THEN Move(c, "done") /\ Replace(c, have)
              ELSE unwiped' = unwiped \cup {<<c, k>>} /\ UNCHANGED <<seeds, call>>
  /\ UNCHANGED <<db, backups>>

\* Mistake: a failure half-way forgets the seeds decrypted before it.
UnlockFailsUnwiped(c) ==
  /\ At(c, "unlock", "decrypt")
  /\ Move(c, "failed")
  /\ UNCHANGED <<db, backups, seeds, unwiped>>

\* Another wallet's key, or a corrupted one: every decrypted seed is wiped.
UnlockFails(c) ==
  /\ At(c, "unlock", "decrypt")
  /\ unwiped' = unwiped \ Own(c)
  /\ Move(c, "failed")
  /\ UNCHANGED <<db, backups, seeds>>

\* deleteWallet(): verify, then clear the three stores and lock this tab.
DeleteVerifies(c, pw) ==
  /\ Erasable /\ Idle(c)
  /\ Begin(c, "delete", pw, IF Verified(pw) THEN "commit" ELSE "failed")
  /\ UNCHANGED <<db, backups, seeds, unwiped>>

DeleteCommits(c) ==
  /\ At(c, "delete", "commit")
  /\ wallet' = NoWallet /\ keys' = NoWallet /\ masternodes' = {}
  /\ Wipe(TabOf[c])
  /\ seeds' = [seeds EXCEPT ![TabOf[c]] = Locked]
  /\ Move(c, "done")
  /\ UNCHANGED backups

-----------------------------------------------------------------------------
\* createMasternodeRecord(): verify, check that the addresses it was given are
\* this wallet's, encrypt the operator seed with the password, add a draft.  The
\* service is stored as it was typed, and a reward without its payout address.
RecordVerifies(c, pw) ==
  /\ Idle(c)
  /\ Begin(c, "record", pw, IF Verified(pw) THEN "keys" ELSE "failed")
  /\ UNCHANGED <<db, backups, seeds, unwiped>>

RecordChecksAddresses(c) ==
  /\ At(c, "record", "keys")
  /\ \E owner \in Calls, pw \in call[c].pw, terms \in Terms :
       IF keys # NoWallet /\ keys.id = owner
       THEN call' = [call EXCEPT ![c].at = "commit", ![c].record =
              {[id |-> c, owner |-> owner, pw |-> pw, service |-> terms.service,
                payout |-> terms.payout, status |-> "draft",
                registration |-> FALSE, withdrawal |-> FALSE]}]
       ELSE Move(c, "failed")
  /\ UNCHANGED <<db, backups, seeds, unwiped>>

RecordAdds(c) ==
  /\ At(c, "record", "commit")
  /\ masternodes' = masternodes \cup call[c].record
  /\ Move(c, "done")
  /\ UNCHANGED <<wallet, keys, backups, seeds, unwiped>>

\* markMasternodeRegistered() and markMasternodeCollateralWithdrawn(): read the
\* record, then put the changed copy back in a transaction of its own.
MarkReads(c) ==
  /\ Idle(c)
  /\ \E r \in masternodes :
       \E copy \in {[r EXCEPT !.status = "registered", !.registration = TRUE],
                    [r EXCEPT !.status = "withdrawn", !.withdrawal = TRUE]} :
         call' = [call EXCEPT ![c].op = "mark", ![c].at = "commit",
                              ![c].record = {copy}]
  /\ UNCHANGED <<db, backups, seeds, unwiped>>

MarkPuts(c) ==
  /\ At(c, "mark", "commit")
  /\ \E copy \in call[c].record :
       masternodes' = {r \in masternodes : r.id # copy.id} \cup {copy}
  /\ Move(c, "done")
  /\ UNCHANGED <<wallet, keys, backups, seeds, unwiped>>

\* withMasternodeOperatorSeed(): the seed is lent to a callback, then wiped.
OperatorBorrows(c, pw) ==
  /\ Idle(c)
  /\ \E k \in Keys :
       IF Verified(pw) /\ \E r \in masternodes : r.pw = pw
       THEN Begin(c, "operator", pw, "borrowed") /\ unwiped' = unwiped \cup {<<c, k>>}
       ELSE Begin(c, "operator", pw, "failed") /\ UNCHANGED unwiped
  /\ UNCHANGED <<db, backups, seeds>>

OperatorReturns(c) ==
  /\ At(c, "operator", "borrowed")
  /\ unwiped' = unwiped \ Own(c)
  /\ \E at \in {"done", "failed"} : Move(c, at)
  /\ UNCHANGED <<db, backups, seeds>>

-----------------------------------------------------------------------------
\* exportBackup(): three reads, each in a transaction of its own.
ExportReadsMeta(c) ==
  /\ Idle(c) /\ wallet # NoWallet
  /\ call' = [call EXCEPT ![c].op = "export", ![c].at = "keys", ![c].file =
       {[meta |-> wallet, keys |-> NoWallet, masternodes |-> {}]}]
  /\ UNCHANGED <<db, backups, seeds, unwiped>>

ExportReadsKeys(c) ==
  /\ At(c, "export", "keys")
  /\ call' = [call EXCEPT ![c].at = "masternodes",
                          ![c].file = {[f EXCEPT !.keys = keys] : f \in @}]
  /\ UNCHANGED <<db, backups, seeds, unwiped>>

ExportReadsMasternodes(c) ==
  /\ At(c, "export", "masternodes")
  /\ backups' = backups \cup
       {[f EXCEPT !.masternodes = masternodes] : f \in call[c].file}
  /\ call' = [call EXCEPT ![c].at = "done", ![c].file = {}]
  /\ UNCHANGED <<db, seeds, unwiped>>

-----------------------------------------------------------------------------
Next ==
  \/ \E t \in Tabs : Lock(t)
  \/ \E c \in Calls :
       \/ \E pw \in Passwords :
            \/ CreateChecks(c, pw) \/ UnlockVerifies(c, pw)
            \/ DeleteVerifies(c, pw) \/ RecordVerifies(c, pw)
            \/ OperatorBorrows(c, pw)
            \/ \E f \in backups : ImportChecks(c, f, pw)
       \/ CreateCommits(c) \/ ImportCommits(c)
       \/ UnlockReadsKeys(c) \/ UnlockDecrypts(c) \/ UnlockFails(c)
       \/ DeleteCommits(c)
       \/ RecordChecksAddresses(c) \/ RecordAdds(c)
       \/ MarkReads(c) \/ MarkPuts(c) \/ OperatorReturns(c)
       \/ ExportReadsMeta(c) \/ ExportReadsKeys(c) \/ ExportReadsMasternodes(c)

Spec == Init /\ [][Next]_vars

-----------------------------------------------------------------------------
\* A stored wallet is never replaced by another one, and its keys come and go
\* with it: two tabs that create or restore at the same time do not destroy
\* each other's keys.
NeverOverwritten ==
  [][/\ wallet # NoWallet /\ wallet' # wallet => wallet' = NoWallet
     /\ keys' = wallet']_vars

\* A creation or a restore that reports success is the wallet in the store: of
\* several that overlap, one succeeds for each time the store was empty.
Ended(op, at) == {c \in Calls : call[c].op \in op /\ call[c].at = at}
OneWinner ==
  Cardinality(Ended({"create", "import"}, "done"))
    <= 1 + Cardinality(Ended({"delete"}, "done"))

\* Every seed ever decrypted is zero-filled, or in its tab's memory of unlocked
\* seeds, or in a call that is still using it: failures half-way, locks during
\* an unlock and overlapping unlocks leave no copy behind.
NoStraySeeds ==
  \A b \in unwiped :
    \/ \E t \in Tabs : b \in seeds[t].buffers
    \/ call[b[1]].at \in {"decrypt", "borrowed"}

\* No unlocked buffer has been wiped under the tab that would sign with it.
UnlockedSeedsAreIntact == \A t \in Tabs : seeds[t].buffers \subseteq unwiped

\* Nobody has asked for the wallet to be erased, as in the shipped page.
NoErasure == \A c \in Calls : call[c].op # "delete"

\* As long as nobody erases the wallet, every masternode record belongs to it
\* and its operator seed opens with the wallet's password.
RecordsBelong ==
  NoErasure => \A r \in masternodes : wallet # NoWallet /\ Belongs(r, wallet)

\* A backup is three reads while other tabs write.  If nobody erases the wallet
\* it is nevertheless one wallet's: restoring it with that wallet's password is
\* refused only for what its masternode records are by themselves.
RefusedOnlyForRecords ==
  NoErasure => \A f \in backups :
    Accepts(f, f.meta.pw) \/ TooLong(f) \/ \E r \in f.masternodes : ~Canonical(r)

\* README.md:12: an exported backup can be restored.
EveryBackupRestores == \A f \in backups : Accepts(f, f.meta.pw)
=============================================================================
