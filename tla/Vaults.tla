-------------------------------- MODULE Vaults --------------------------------
(***************************************************************************)
(* The vaults of the legacy wallet: scripts/vault.js, the store useWallets  *)
(* of scripts/composables/use_wallet.js, what dashboard/Dashboard.vue and   *)
(* dashboard/MultiWallet.vue make of them, and what IndexedDB keeps.        *)
(*                                                                         *)
(* A vault is named by the key it exports, of its first account; its other  *)
(* accounts are generated from a seed.  Between two steps of an operation   *)
(* lies an await: of IndexedDB, of the encryption or of the user.           *)
(***************************************************************************)
EXTENDS Integers, FiniteSets, SequencesExt

CONSTANTS
  VaultKeys, HDKeys,  \* those that export an address have no seed
  ImportedSecrets,    \* pairs of a key and its kind: phrase, private or public
  Passwords, NoPassword, NoVault, Idle,
  MaxAccounts, MaxVaults, MaxUserMoves  \* bounds

VARIABLES
  vaultsDB, accountsDB, encWif,  \* object stores; encWif of first accounts
  objects,      \* every Vault made since the page was loaded
  vaults, rawVaults,             \* the two lists of useWallets and wallet.js
  activeVault, activeWallet,
  wallet,       \* of wallet.js: the one that signs
  imports,      \* importWallet and importFromDatabase
  encrypting, unlocking, adding, removing,
  showEncryptModal, closing,     \* closing: the timer of onEncryptModalClose
  restoring,    \* the unlock dialog and the operation that waits for it
  pendingWalletSave,
  promised,     \* history: encryptions the user was told of
  torn,         \* history: keys of vaults that broke off or were renumbered, see Reload and RemoveVault
  disturbed,    \* history: since the page was loaded a vault was removed, or two vaults or two
                \* wallets of a vault were added at once
  userMoves

storeVars == <<vaultsDB, accountsDB, encWif>>
listVars == <<objects, vaults, rawVaults, activeVault, activeWallet, wallet>>
modalVars == <<showEncryptModal, closing, restoring, pendingWalletSave>>
historyVars == <<promised, torn, disturbed>>
vaultVars == <<storeVars, listVars, imports, encrypting, unlocking, adding, removing,
               modalVars, historyVars, userMoves>>

Importers == {"login", "start"}
Slots == {1, 2}
NoOne == [vault |-> 0, account |-> 0]

-----------------------------------------------------------------------------
\* The values the variables take

Kinds == {"phrase", "private", "public"}
MaybePassword == Passwords \cup {NoPassword}
StoredVault == [secret : MaybePassword, wallets : Seq(Nat)]
Loadable == [key : VaultKeys, wallets : Seq(Nat)]
Wif == [password : MaybePassword, genuine : BOOLEAN]
Promise == [key : VaultKeys, password : Passwords]
Object == [key : VaultKeys, seed : BOOLEAN, held : SUBSET Nat, own : BOOLEAN,
           xpubs : Seq(Nat), cached : SUBSET Nat, wallets : Seq(Nat) \ {<<>>},
           isEncrypted : BOOLEAN, canGenerateMore : BOOLEAN]
LoginTask == [at : {"parse", "xpub", "save"}, key : VaultKeys, kind : Kinds, id : Nat, n : Nat]
StartTask == [at : {"next", "xpub", "save"}, rest : SUBSET Loadable, id : Nat, n : Nat]
CheckTask == [at : {"check"}, id : Nat, password : Passwords, current : Passwords]
EncryptTask == [at : {"store", "save"}, id : Nat, password : Passwords,
                secret : {"seed", "key", "random"}, spoilt : BOOLEAN]
UnlockTask == [id : Nat, seed : BOOLEAN, genuine : BOOLEAN]
AddTask == [at : {"make", "xpub", "save"}, id : Nat, n : Nat]
RestoreTask == [id : Nat]

\* What is imported has a key and a kind, there is a password, and what stands
\* for nothing is not a thing of its kind.
ASSUME VaultsAssumption ==
  /\ ImportedSecrets \subseteq VaultKeys \X Kinds
  /\ Passwords # {} /\ NoPassword \notin Passwords
  /\ NoVault \notin StoredVault
  /\ Idle \notin LoginTask \cup StartTask \cup CheckTask \cup EncryptTask \cup UnlockTask
                   \cup AddTask \cup RestoreTask

-----------------------------------------------------------------------------
\* What a secret of a kind holds; a wiped vault holds nothing.
ParsedKey(kind) == [seed |-> kind = "phrase", held |-> IF kind = "public" THEN {} ELSE {0}]
wipePrivateData(o) == [o EXCEPT !.seed = FALSE, !.held = {}]

\* xpubs are the keys its first accounts export; wallets are the accounts it
\* lists, by number; those that can be had without the seed are cached.
NewVault(key, kind, xpubs) ==
  [key |-> key, seed |-> ParsedKey(kind).seed, held |-> ParsedKey(kind).held,
   own |-> TRUE, xpubs |-> xpubs, cached |-> {p - 1 : p \in DOMAIN xpubs},
   wallets |-> <<0>>, isEncrypted |-> FALSE, canGenerateMore |-> ParsedKey(kind).seed]

\* A loaded account exports the key it was stored with until it is unlocked.
XpubOf(o, n) == IF n < Len(o.xpubs) THEN o.xpubs[n + 1] ELSE n

\* What was never encrypted is not decrypted either.
decrypt(encryptedWith, password) == encryptedWith # NoPassword /\ encryptedWith = password

isViewOnly(o) == 0 \notin o.held
Xpubs(o) == [p \in DOMAIN o.wallets |-> XpubOf(o, o.wallets[p])]
KeyOf(id) == objects[id].key

Stored(key) == vaultsDB[key] # NoVault
Saved(key, xpub) == accountsDB' = [accountsDB EXCEPT ![key] = @ \cup {xpub}]

\* The page has its dialog for the password while a vault is active.  Nothing
\* but a dialog can be clicked while it is shown.
EncryptModalShown == showEncryptModal /\ activeVault # 0
UserMoves ==
  /\ ~EncryptModalShown /\ restoring = Idle
  /\ userMoves < MaxUserMoves /\ userMoves' = userMoves + 1

needsToEncrypt(os, active) ==
  active # 0 => ~isViewOnly(os[active]) /\ ~os[active].isEncrypted

\* What is left to load at the start.
ToLoad(rest) == IF rest = {} THEN Idle ELSE [at |-> "next", rest |-> rest, id |-> 0, n |-> 0]

\* The imports and additions between addXpubToVault and save, and what they save.
Imports(who) == imports[who] # Idle /\ imports[who].at \in {"xpub", "save"}
BeingSaved(key) ==
  {XpubOf(objects[imports[who].id], imports[who].n) :
     who \in {w \in Importers : /\ imports[w] # Idle /\ imports[w].at = "save"
                                /\ KeyOf(imports[w].id) = key}}
  \cup {XpubOf(objects[adding[s].id], adding[s].n) :
     s \in {t \in Slots : /\ adding[t] # Idle /\ adding[t].at = "save"
                           /\ KeyOf(adding[t].id) = key}}

-----------------------------------------------------------------------------
\* useWallets.addVault

\* A vault replaces the one with its key, at the same index of both lists.
Enter(o) ==
  LET id == Len(objects) + 1
      p == {q \in DOMAIN vaults : KeyOf(vaults[q]) = o.key} IN
  /\ id <= MaxVaults
  /\ objects' = Append(objects, o)
  /\ IF p = {}
     THEN vaults' = Append(vaults, id) /\ rawVaults' = Append(rawVaults, id)
     ELSE /\ vaults' = [q \in DOMAIN vaults |-> IF q \in p THEN id ELSE vaults[q]]
          /\ rawVaults' = [q \in DOMAIN rawVaults |-> IF q \in p THEN id ELSE rawVaults[q]]
  /\ disturbed' = (disturbed \/ \E who \in Importers : Imports(who))

\* What a vault knows of the database arrives before its first addXpubToVault.
Known(o) ==
  [o EXCEPT !.isEncrypted = @ \/ Stored(o.key),
            !.canGenerateMore = @ \/ (Stored(o.key) /\ vaultsDB[o.key].secret # NoPassword)]

addXpubToVault(key, xpub) ==
  vaultsDB' = IF Stored(key) /\ xpub \notin Range(vaultsDB[key].wallets)
              THEN [vaultsDB EXCEPT ![key].wallets = Append(@, xpub)]
              ELSE vaultsDB

ImportXpub(who) ==
  LET id == imports[who].id
      n == imports[who].n IN
  /\ imports[who].at = "xpub"
  /\ objects' = IF n = 0 THEN [objects EXCEPT ![id] = Known(@)] ELSE objects
  /\ addXpubToVault(KeyOf(id), XpubOf(objects[id], n))
  /\ imports' = [imports EXCEPT ![who].at = "save"]
  /\ UNCHANGED <<accountsDB, encWif, vaults, rawVaults, activeVault, activeWallet, wallet,
                 encrypting, unlocking, adding, removing, modalVars, historyVars, userMoves>>

\* Wallet.save reads the account and writes it, which AccountRecords takes
\* apart.  The wallet is then the active one, and after the last wallet the
\* vault is the active one too.
ImportSave(who) ==
  LET id == imports[who].id
      o == objects[id]
      n == imports[who].n IN
  /\ imports[who].at = "save"
  /\ Saved(o.key, XpubOf(o, n))
  /\ wallet' = [vault |-> id, account |-> n] /\ activeWallet' = wallet'
  /\ IF n + 1 < Cardinality(o.cached)
     THEN /\ objects' = [objects EXCEPT ![id].wallets = Append(@, n + 1)]
          /\ imports' = [imports EXCEPT ![who].at = "xpub", ![who].n = n + 1]
          /\ UNCHANGED <<activeVault, showEncryptModal, pendingWalletSave>>
     ELSE /\ activeVault' = id
          /\ IF who = "login"
             THEN /\ imports' = [imports EXCEPT !["login"] = Idle]
                  /\ pendingWalletSave' = (pendingWalletSave \/ needsToEncrypt(objects, id))
                  /\ showEncryptModal' = (showEncryptModal \/ needsToEncrypt(objects, id))
             ELSE /\ imports' = [imports EXCEPT !["start"] = ToLoad(@.rest)]
                  /\ UNCHANGED <<showEncryptModal, pendingWalletSave>>
          /\ UNCHANGED objects
  /\ UNCHANGED <<vaultsDB, encWif, vaults, rawVaults, encrypting, unlocking, adding, removing,
                 closing, restoring, historyVars, userMoves>>

-----------------------------------------------------------------------------
\* importWallet, importFromDatabase

Import(key, kind) ==
  /\ UserMoves
  /\ imports["login"] = Idle
  /\ imports' = [imports EXCEPT !["login"] = [at |-> "parse", key |-> key, kind |-> kind, id |-> 0, n |-> 0]]
  /\ UNCHANGED <<storeVars, listVars, encrypting, unlocking, adding, removing, modalVars, historyVars>>

ParsedSecret ==
  /\ imports["login"] # Idle /\ imports["login"].at = "parse"
  /\ Enter(NewVault(imports["login"].key, imports["login"].kind, <<0>>))
  /\ imports' = [imports EXCEPT !["login"].at = "xpub", !["login"].id = Len(objects'), !["login"].n = 0]
  /\ UNCHANGED <<storeVars, activeVault, activeWallet, wallet, encrypting, unlocking, adding,
                 removing, modalVars, promised, torn, userMoves>>

ParseFails ==
  /\ imports["login"] # Idle /\ imports["login"].at = "parse"
  /\ imports' = [imports EXCEPT !["login"] = Idle]
  /\ UNCHANGED <<storeVars, listVars, encrypting, unlocking, adding, removing, modalVars,
                 historyVars, userMoves>>

\* A vault one of whose accounts is missing is not loaded, and hides no other.
\* They come in the order of their keys, which may be any.
LoadNext ==
  /\ imports["start"] # Idle /\ imports["start"].at = "next"
  /\ \E v \in imports["start"].rest :
       LET rest == imports["start"].rest \ {v} IN
       IF Range(v.wallets) \subseteq accountsDB[v.key]
       THEN /\ Enter(NewVault(v.key, "public", v.wallets))
            /\ imports' = [imports EXCEPT !["start"] =
                             [at |-> "xpub", rest |-> rest, id |-> Len(objects'), n |-> 0]]
            /\ UNCHANGED <<activeVault, activeWallet, wallet>>
       ELSE /\ imports' = [imports EXCEPT !["start"] = ToLoad(rest)]
            /\ UNCHANGED <<listVars, disturbed>>
  /\ UNCHANGED <<storeVars, encrypting, unlocking, adding, removing, modalVars, promised, torn, userMoves>>

-----------------------------------------------------------------------------
\* encryptWallet

OpenEncrypt ==
  /\ UserMoves /\ activeVault # 0
  /\ showEncryptModal' = TRUE
  /\ UNCHANGED <<storeVars, listVars, imports, encrypting, unlocking, adding, removing,
                 closing, restoring, pendingWalletSave, historyVars>>

onEncryptModalClose ==
  /\ EncryptModalShown
  /\ showEncryptModal' = FALSE /\ closing' = TRUE
  /\ UNCHANGED <<storeVars, listVars, imports, encrypting, unlocking, adding, removing,
                 restoring, pendingWalletSave, historyVars, userMoves>>

ReopenUnsaved ==
  /\ closing /\ closing' = FALSE
  /\ showEncryptModal' = (showEncryptModal \/ (pendingWalletSave /\ needsToEncrypt(objects, activeVault)))
  /\ UNCHANGED <<storeVars, listVars, imports, encrypting, unlocking, adding, removing,
                 restoring, pendingWalletSave, historyVars, userMoves>>

\* A key that was wiped: that of an HD wallet throws, that of an address is a
\* new random one.
keyToBackup(o) ==
  IF 0 \in o.held THEN "key" ELSE IF o.key \in HDKeys THEN "throws" ELSE "random"
getSecretToExport(o) == IF o.seed THEN "seed" ELSE keyToBackup(o)

\* The vault that is active now gives its secret.  One whose key was replaced
\* is saved under an address that is no key of the model.
EncryptActive(password) ==
  LET o == objects[activeVault] IN
  encrypting' = IF getSecretToExport(o) = "throws" \/ ~o.own THEN Idle
                ELSE [at |-> "store", id |-> activeVault, password |-> password,
                      secret |-> getSecretToExport(o), spoilt |-> FALSE]

encryptWallet(password, currentPassword) ==
  /\ EncryptModalShown /\ encrypting = Idle
  /\ userMoves < MaxUserMoves /\ userMoves' = userMoves + 1
  /\ IF objects[activeVault].isEncrypted
     THEN encrypting' = [at |-> "check", id |-> activeVault, password |-> password,
                         current |-> currentPassword]
     ELSE EncryptActive(password)
  /\ UNCHANGED <<storeVars, listVars, imports, unlocking, adding, removing, modalVars, historyVars>>

\* checkDecryptPassword knows encrypted seeds only.
Checked ==
  /\ encrypting # Idle /\ encrypting.at = "check"
  /\ LET key == KeyOf(encrypting.id) IN
     IF Stored(key) /\ decrypt(vaultsDB[key].secret, encrypting.current) /\ activeVault # 0
     THEN EncryptActive(encrypting.password)
     ELSE encrypting' = Idle
  /\ UNCHANGED <<storeVars, listVars, imports, unlocking, adding, removing, modalVars,
                 historyVars, userMoves>>

\* Mistake: that the vault is there already passes for success.
AddVaultAnyway ==
  /\ encrypting # Idle /\ encrypting.at = "store"
  /\ LET key == KeyOf(encrypting.id) IN
     vaultsDB' = IF Stored(key) THEN vaultsDB
                 ELSE [vaultsDB EXCEPT ![key] =
                         [secret |-> IF encrypting.secret = "seed" THEN encrypting.password
                                     ELSE NoPassword,
                          wallets |-> Xpubs(objects[encrypting.id])]]
  /\ encrypting' = [encrypting EXCEPT !.at = "save"]
  /\ UNCHANGED <<accountsDB, encWif, listVars, imports, unlocking, adding, removing, modalVars,
                 historyVars, userMoves>>

\* Database.addVault refuses a key it has.
AddVault ==
  /\ encrypting # Idle /\ encrypting.at = "store"
  /\ LET key == KeyOf(encrypting.id) IN
     IF Stored(key) THEN encrypting' = Idle /\ UNCHANGED vaultsDB
     ELSE /\ vaultsDB' = [vaultsDB EXCEPT ![key] =
                            [secret |-> IF encrypting.secret = "seed" THEN encrypting.password
                                        ELSE NoPassword,
                             wallets |-> Xpubs(objects[encrypting.id])]]
          /\ encrypting' = [encrypting EXCEPT !.at = "save"]
  /\ UNCHANGED <<accountsDB, encWif, listVars, imports, unlocking, adding, removing, modalVars,
                 historyVars, userMoves>>

\* The accounts are saved, and the user is told.
SaveAccounts ==
  /\ encrypting # Idle /\ encrypting.at = "save"
  /\ LET id == encrypting.id
         key == KeyOf(id)
         seeded == encrypting.secret = "seed" IN
     /\ accountsDB' = [accountsDB EXCEPT ![key] = @ \cup Range(Xpubs(objects[id]))]
     /\ encWif' = IF seeded THEN encWif
                  ELSE [encWif EXCEPT ![key] = [password |-> encrypting.password,
                                                genuine |-> encrypting.secret = "key"]]
     /\ objects' = [objects EXCEPT ![id].isEncrypted = TRUE, ![id].canGenerateMore = @ \/ seeded]
     /\ promised' = IF encrypting.secret = "random" \/ encrypting.spoilt THEN promised
                    ELSE {r \in promised : r.key # key}
                           \cup {[key |-> key, password |-> encrypting.password]}
  /\ encrypting' = Idle /\ pendingWalletSave' = FALSE /\ showEncryptModal' = FALSE
  /\ UNCHANGED <<vaultsDB, vaults, rawVaults, activeVault, activeWallet, wallet, imports,
                 unlocking, adding, removing, closing, restoring, torn, disturbed, userMoves>>

-----------------------------------------------------------------------------
\* lockWallet, and the dialog that unlocks

LockWallet ==
  /\ UserMoves /\ activeVault # 0
  /\ objects' = [objects EXCEPT ![activeVault] = wipePrivateData(@)]
  /\ UNCHANGED <<storeVars, vaults, rawVaults, activeVault, activeWallet, wallet, imports,
                 encrypting, unlocking, adding, removing, modalVars, historyVars>>

\* Vault.getWallet makes an account that is not there from the seed; the
\* wallet is added when its shield was made.
AddAccount(id) ==
  LET o == objects[id]
      n == Len(o.wallets)
      slot == CHOOSE s \in Slots : adding[s] = Idle IN
  /\ IF n \in o.cached
     THEN /\ adding' = [adding EXCEPT ![slot] = [at |-> "xpub", id |-> id, n |-> n]]
          /\ objects' = [objects EXCEPT ![id].wallets = Append(@, n)]
     ELSE /\ adding' = IF o.seed /\ n < MaxAccounts
                       THEN [adding EXCEPT ![slot] = [at |-> "make", id |-> id, n |-> n]] ELSE adding
          /\ UNCHANGED objects
  /\ disturbed' = (disturbed \/ (\E who \in Importers : Imports(who) /\ imports[who].id = id)
                              \/ \E s \in Slots : adding[s] # Idle /\ adding[s].id = id)

\* The button "+" of a vault, which asks to unlock the active one.
AddWallet(id) ==
  /\ UserMoves /\ activeVault # 0
  /\ id \in Range(vaults) /\ objects[id].canGenerateMore
  /\ Idle \in Range(adding)
  /\ IF isViewOnly(objects[activeVault])
     THEN /\ restoring' = IF objects[activeVault].isEncrypted THEN [id |-> id] ELSE Idle
          /\ UNCHANGED <<objects, adding, disturbed>>
     ELSE AddAccount(id) /\ UNCHANGED restoring
  /\ UNCHANGED <<storeVars, vaults, rawVaults, activeVault, activeWallet, wallet, imports, encrypting,
                 unlocking, removing, showEncryptModal, closing, pendingWalletSave, promised, torn>>

\* The vault may have been locked since: its new account is not.
Derived(o, n) == [o EXCEPT !.cached = @ \cup {n}, !.held = @ \cup {n}, !.wallets = Append(@, n)]
Made(slot) ==
  /\ adding[slot] # Idle /\ adding[slot].at = "make"
  /\ objects' = [objects EXCEPT ![adding[slot].id] = Derived(@, adding[slot].n)]
  /\ adding' = [adding EXCEPT ![slot].at = "xpub"]
  /\ UNCHANGED <<storeVars, vaults, rawVaults, activeVault, activeWallet, wallet, imports,
                 encrypting, unlocking, removing, modalVars, historyVars, userMoves>>

Listed(slot) ==
  /\ adding[slot] # Idle /\ adding[slot].at = "xpub"
  /\ addXpubToVault(KeyOf(adding[slot].id), XpubOf(objects[adding[slot].id], adding[slot].n))
  /\ adding' = [adding EXCEPT ![slot].at = "save"]
  /\ UNCHANGED <<accountsDB, encWif, listVars, imports, encrypting, unlocking, removing,
                 modalVars, historyVars, userMoves>>

Added(slot) ==
  /\ adding[slot] # Idle /\ adding[slot].at = "save"
  /\ Saved(KeyOf(adding[slot].id), XpubOf(objects[adding[slot].id], adding[slot].n))
  /\ adding' = [adding EXCEPT ![slot] = Idle]
  /\ UNCHANGED <<vaultsDB, encWif, listVars, imports, encrypting, unlocking, removing,
                 modalVars, historyVars, userMoves>>

\* The unlock dialog of MultiWallet is shown; decrypt of the active vault.
Unlock(password) ==
  /\ restoring # Idle /\ unlocking = Idle /\ activeVault # 0
  /\ userMoves < MaxUserMoves /\ userMoves' = userMoves + 1
  /\ LET key == KeyOf(activeVault) IN
     unlocking' =
       IF ~Stored(key) THEN Idle
       ELSE IF vaultsDB[key].secret # NoPassword
       THEN IF decrypt(vaultsDB[key].secret, password) THEN [id |-> activeVault, seed |-> TRUE, genuine |-> TRUE]
            ELSE Idle
       ELSE IF decrypt(encWif[key].password, password)
       THEN [id |-> activeVault, seed |-> FALSE, genuine |-> encWif[key].genuine]
       ELSE Idle
  /\ UNCHANGED <<storeVars, listVars, imports, encrypting, adding, removing, modalVars, historyVars>>

\* Every account of a seed is loaded as the account of its number.
Loaded(o) ==
  IF unlocking.seed
  THEN [o EXCEPT !.seed = TRUE, !.held = @ \cup Range(o.wallets),
                 !.xpubs = [p \in DOMAIN @ |-> IF p - 1 \in Range(o.wallets) THEN p - 1 ELSE @[p]]]
  ELSE [o EXCEPT !.held = @ \cup {0}, !.own = unlocking.genuine]

Unlocked ==
  /\ unlocking # Idle
  /\ objects' = [objects EXCEPT ![unlocking.id] = Loaded(@)]
  /\ unlocking' = Idle
  /\ UNCHANGED <<storeVars, vaults, rawVaults, activeVault, activeWallet, wallet, imports, encrypting,
                 adding, removing, modalVars, historyVars, userMoves>>

\* The dialog closes, and what waited for it goes on.
GoesOn ==
  /\ restoring # Idle /\ activeVault # 0 /\ ~isViewOnly(objects[activeVault]) /\ Idle \in Range(adding)
  /\ restoring' = Idle
  /\ AddAccount(restoring.id)
  /\ UNCHANGED <<storeVars, vaults, rawVaults, activeVault, activeWallet, wallet, imports, encrypting,
                 unlocking, removing, showEncryptModal, closing, pendingWalletSave, promised, torn, userMoves>>

CancelUnlock ==
  /\ restoring # Idle /\ (activeVault # 0 => isViewOnly(objects[activeVault]))
  /\ restoring' = Idle
  /\ UNCHANGED <<storeVars, listVars, imports, encrypting, unlocking, adding, removing,
                 showEncryptModal, closing, pendingWalletSave, historyVars, userMoves>>

-----------------------------------------------------------------------------
\* logOut, selectWallet, and a reload of the page

\* Which vault of vaults, which wallet of rawVaults: by index.
SelectFrom(list, id, xpub) ==
  LET q == CHOOSE q \in DOMAIN list : list[q] = id
      p == Min({p \in DOMAIN objects[id].wallets : Xpubs(objects[id])[p] = xpub})
      o == objects[rawVaults[q]] IN
  IF p - 1 \in o.cached \/ o.seed
  THEN /\ wallet' = [vault |-> rawVaults[q], account |-> p - 1]
       /\ activeWallet' = [vault |-> id, account |-> objects[id].wallets[p]]
       /\ activeVault' = id
       /\ objects' = [objects EXCEPT ![rawVaults[q]].cached = @ \cup {p - 1},
                                     ![rawVaults[q]].held =
                                       IF p - 1 \in o.cached THEN @ ELSE @ \cup {p - 1}]
  ELSE UNCHANGED <<wallet, activeWallet, activeVault, objects>>

selectWallet(id, p) ==
  /\ UserMoves
  /\ id \in Range(vaults) /\ p \in DOMAIN objects[id].wallets
  /\ SelectFrom(vaults, id, Xpubs(objects[id])[p])
  /\ UNCHANGED <<storeVars, vaults, rawVaults, imports, encrypting, unlocking, adding, removing,
                 modalVars, historyVars>>

\* An encryption that is under way may now save what is being removed.
Forget(key) ==
  /\ promised' = {r \in promised : r.key # key}
  /\ encrypting' = IF encrypting # Idle /\ encrypting.at # "check"
                   THEN [encrypting EXCEPT !.spoilt = @ \/ KeyOf(encrypting.id) = key] ELSE encrypting

logOut ==
  /\ UserMoves /\ activeVault # 0 /\ removing = 0
  /\ removing' = activeVault
  /\ LET key == KeyOf(activeVault) IN
     vaultsDB' = [vaultsDB EXCEPT ![key] = NoVault] /\ Forget(key)
  /\ UNCHANGED <<accountsDB, encWif, listVars, imports, unlocking, adding, modalVars, torn, disturbed>>

\* An account was loaded under the number of another, since two of them had been
\* listed in the order in which their additions ended.
Renumbered(key) ==
  \E id \in DOMAIN objects :
    KeyOf(id) = key /\ \E p \in DOMAIN objects[id].xpubs : objects[id].xpubs[p] # p - 1

\* A list without the vault of a key, which it has once.
Without(list, key) ==
  LET here == {q \in DOMAIN list : KeyOf(list[q]) = key}
  IN  IF here = {} THEN list ELSE RemoveAt(list, Min(here))

\* rawVaults keeps the vault.
RemoveVault ==
  /\ removing # 0 /\ removing' = 0 /\ disturbed' = TRUE
  /\ LET o == objects[removing]
         left == Without(vaults, o.key) IN
     /\ torn' = IF Renumbered(o.key) THEN torn \cup {o.key} ELSE torn
     /\ accountsDB' = [accountsDB EXCEPT ![o.key] = @ \ (IF o.own THEN Range(Xpubs(o)) ELSE {})]
     /\ encWif' = IF o.own THEN [encWif EXCEPT ![o.key].password = NoPassword] ELSE encWif
     /\ Forget(o.key)
     /\ vaults' = left
     /\ IF KeyOf(activeVault) # o.key THEN UNCHANGED <<objects, activeVault, activeWallet, wallet>>
        ELSE IF left # <<>>
        THEN SelectFrom(left, left[1], Xpubs(objects[left[1]])[1])
        ELSE activeVault' = 0 /\ activeWallet' = NoOne /\ wallet' = NoOne /\ UNCHANGED objects
  /\ UNCHANGED <<vaultsDB, rawVaults, imports, unlocking, adding, modalVars, userMoves>>

getVaults ==
  {[key |-> k, wallets |-> vaultsDB[k].wallets] : k \in {j \in VaultKeys : Stored(j)}}

Fresh ==
  /\ objects' = <<>> /\ vaults' = <<>> /\ rawVaults' = <<>> /\ activeVault' = 0
  /\ activeWallet' = NoOne /\ wallet' = NoOne
  /\ encrypting' = Idle /\ unlocking' = Idle /\ adding' = [s \in Slots |-> Idle] /\ removing' = 0
  /\ showEncryptModal' = FALSE /\ closing' = FALSE /\ restoring' = Idle /\ pendingWalletSave' = FALSE
  /\ disturbed' = FALSE

\* The page is reloaded between any two steps, and loads what is stored.
Reload ==
  /\ userMoves < MaxUserMoves /\ userMoves' = userMoves + 1
  /\ Fresh
  /\ imports' = [who \in Importers |-> IF who = "start" THEN ToLoad(getVaults) ELSE Idle]
  /\ torn' = torn \cup {k \in VaultKeys : ~(BeingSaved(k) \subseteq accountsDB[k])}
  /\ UNCHANGED <<storeVars, promised>>

-----------------------------------------------------------------------------
\* The first visit, or one after a vault was encrypted.
Visits == {{}} \cup {{k} : k \in VaultKeys}
FirstPassword == CHOOSE p \in Passwords : TRUE

VaultsInit ==
  /\ \E stored \in Visits :
       /\ vaultsDB = [k \in VaultKeys |->
                        IF k \in stored
                        THEN [secret |-> IF k \in HDKeys THEN FirstPassword ELSE NoPassword,
                              wallets |-> <<0>>]
                        ELSE NoVault]
       /\ accountsDB = [k \in VaultKeys |-> IF k \in stored THEN {0} ELSE {}]
       /\ encWif = [k \in VaultKeys |->
                      [password |-> IF k \in stored \ HDKeys THEN FirstPassword ELSE NoPassword,
                       genuine |-> TRUE]]
       /\ promised = {[key |-> k, password |-> FirstPassword] : k \in stored}
  /\ objects = <<>> /\ vaults = <<>> /\ rawVaults = <<>>
  /\ activeVault = 0 /\ activeWallet = NoOne /\ wallet = NoOne
  /\ imports = [who \in Importers |-> IF who = "start" THEN ToLoad(getVaults) ELSE Idle]
  /\ encrypting = Idle /\ unlocking = Idle /\ adding = [s \in Slots |-> Idle] /\ removing = 0
  /\ showEncryptModal = FALSE /\ closing = FALSE /\ restoring = Idle /\ pendingWalletSave = FALSE
  /\ torn = {} /\ disturbed = FALSE /\ userMoves = 0

VaultsNext ==
  \/ \E s \in ImportedSecrets : Import(s[1], s[2])
  \/ ParsedSecret \/ ParseFails \/ LoadNext
  \/ \E who \in Importers : imports[who] # Idle /\ (ImportXpub(who) \/ ImportSave(who))
  \/ OpenEncrypt \/ onEncryptModalClose \/ ReopenUnsaved
  \/ \E p, q \in Passwords : encryptWallet(p, q)
  \/ Checked \/ AddVault \/ SaveAccounts
  \/ LockWallet
  \/ \E p \in Passwords : Unlock(p)
  \/ Unlocked \/ CancelUnlock \/ GoesOn
  \/ \E s \in Slots : Made(s) \/ Listed(s) \/ Added(s)
  \/ \E id \in DOMAIN objects : AddWallet(id)
  \/ \E id \in DOMAIN objects, p \in 1 .. MaxAccounts + 1 : selectWallet(id, p)
  \/ logOut \/ RemoveVault \/ Reload

VaultsSpec == VaultsInit /\ [][VaultsNext]_vaultVars

-----------------------------------------------------------------------------
\* Properties

\* An encryption that the user was told of can be opened with its password,
\* until the vault is removed, whatever is imported, locked, encrypted again
\* or interrupted since.
SavedOpens ==
  \A r \in promised :
    /\ Stored(r.key)
    /\ IF vaultsDB[r.key].secret # NoPassword THEN vaultsDB[r.key].secret = r.password
       ELSE encWif[r.key] = [password |-> r.password, genuine |-> TRUE]

\* And the next start finds the accounts it lists, but for those that are being
\* saved, unless the page was reloaded between the two writes that add one, or
\* the vault was removed while its accounts were loaded under other numbers.
SavedLoads ==
  \A r \in promised :
    r.key \in torn
      \/ Range(vaultsDB[r.key].wallets) \subseteq accountsDB[r.key] \cup BeingSaved(r.key)

\* The wallet that signs is the one that is shown, and belongs to the vault
\* that is shown, as long as no vault was removed and nothing was added to two
\* vaults, or twice to one, at once.
WalletsAgree ==
  disturbed \/ activeVault = 0 \/ (\E who \in Importers : Imports(who)) \/
    (wallet = activeWallet /\ wallet.vault = activeVault /\ activeVault \in Range(vaults))

VaultsAreKept == SavedOpens /\ SavedLoads /\ WalletsAgree
===============================================================================
