---------------------------- MODULE AccountRecords ----------------------------
(***************************************************************************)
(* The accounts of scripts/database.js and everything that rewrites them:  *)
(* the contacts of scripts/contacts-book.js, the lists that                *)
(* scripts/composables/use_masternode.js watches, and Wallet.save of       *)
(* scripts/wallet.js.                                                      *)
(*                                                                         *)
(* Every operation reads an account, changes its copy and calls            *)
(* updateAccount, which reads the account again and puts the copy over it. *)
(* IndexedDB answers in the order of the requests; dialogs wait for the    *)
(* user.  A request has its effect, or its result, when it is made.        *)
(***************************************************************************)
EXTENDS Integers, Sequences, FiniteSets

CONSTANTS
  Keys,             \* public keys of the wallets, the keys of the accounts
  Labels, Pubkeys,  \* of contacts
  NoAccount,
  MaxEdits          \* bound: operations started

VARIABLES
  accounts,   \* the object store
  active,     \* the key of the active wallet
  lists,      \* localProposals and deterministicMasternodes of useMasternode
  requests,   \* the operations that await IndexedDB, in the order of their requests
  dialog,     \* the operations that await the user: one at most
  edits       \* operations started

accountVars == <<accounts, active, lists, requests, dialog, edits>>

\* A record or proposal is named by the wallet it was made with.
Contacts == [label : Labels, pubkey : Pubkeys]
Account == [encWif : BOOLEAN, name : BOOLEAN, contacts : SUBSET Contacts,
            localProposals : SUBSET Keys, deterministicMasternodes : SUBSET Keys]
Lists == {"localProposals", "deterministicMasternodes"}
Empty == [encWif |-> FALSE, name |-> FALSE, contacts |-> {},
          localProposals |-> {}, deterministicMasternodes |-> {}]
Fields == DOMAIN Empty

\* Accounts of an earlier visit, with one contact at most.
Earlier == {NoAccount, Empty} \cup {[Empty EXCEPT !.contacts = {c}] : c \in Contacts}
AccountsInit ==
  /\ accounts \in [Keys -> Earlier]
  /\ active \in Keys
  /\ lists = [l \in Lists |-> {}]
  /\ requests = <<>> /\ dialog = {} /\ edits = 0

-----------------------------------------------------------------------------
\* Requests of Database

\* getAccount of an operation, and its first request.
Get(op, key, arg) ==
  [op |-> op, key |-> key, arg |-> arg, at |-> "get", copy |-> accounts[key],
   account |-> Empty]

\* updateAccount: it reads the account again.
Update(r, account) ==
  [r EXCEPT !.at = "update", !.copy = accounts[r.key], !.account = account]

\* addAccount reads it too.
Add(r, account) ==
  [r EXCEPT !.at = "add", !.copy = accounts[r.key], !.account = account]

\* Only these may empty a field (allowDeletion).
MayDelete(op) == op \in {"remove"} \cup Lists

Overlay(fresh, account, allowDeletion) ==
  [f \in Fields |->
     IF ~allowDeletion /\ account[f] = Empty[f] THEN fresh[f] ELSE account[f]]

Put(r) ==
  accounts' = IF r.at = "add"
              THEN IF r.copy = NoAccount THEN [accounts EXCEPT ![r.key] = r.account]
                   ELSE accounts
              ELSE IF r.copy = NoAccount THEN accounts
                   ELSE [accounts EXCEPT ![r.key] =
                           Overlay(r.copy, r.account, MayDelete(r.op))]

-----------------------------------------------------------------------------
\* Contacts

GetContactBy(account, field, value) ==
  {c \in account.contacts : c[field] = value}

\* guiAddContact, guiAddContactPrompt: neither the name nor the key is known.
IsNew(account, c) ==
  GetContactBy(account, "label", c.label) \cup
    GetContactBy(account, "pubkey", c.pubkey) = {}

\* Mistake: a name is compared when the dialog opens, not when it is confirmed.
MayRenameAlways(account, label) == TRUE

MayRename(account, label) == GetContactBy(account, "label", label) = {}

AddContact(account, c) == [account EXCEPT !.contacts = @ \cup {c}]
RemoveContact(account, c) ==
  [account EXCEPT !.contacts = {d \in @ : d.pubkey # c.pubkey}]
RenameContact(account, c, label) ==
  [account EXCEPT !.contacts = (@ \ {c}) \cup {[c EXCEPT !.label = label]}]

-----------------------------------------------------------------------------
\* Operations begin

Starts(queue) == edits < MaxEdits /\ edits' = edits + 1 /\ requests' = queue
Request(op, arg) == Starts(Append(requests, Get(op, active, arg)))

\* A button of the contacts, while no dialog is open.
BeginContact(op, arg) ==
  /\ dialog = {} /\ Request(op, arg)
  /\ UNCHANGED <<accounts, active, lists, dialog>>

BeginContacts ==
  \/ \E c \in Contacts : BeginContact("add", c) \/ BeginContact("offer", c)
  \/ \E op \in {"rename", "image", "remove", "name"} : BeginContact(op, Empty)

\* Wallet.save, Wallet.encrypt: with an encrypted key or without.
BeginSave ==
  /\ \E k \in Keys, encWif \in BOOLEAN :
       Starts(Append(requests, Get("save", k, encWif)))
  /\ UNCHANGED <<accounts, active, lists, dialog>>

\* The watcher of a list: it writes the new value to the active account.
Watch(list, value) == Get(list, active, value)

\* A proposal or a record is added, or one is removed.
EditList ==
  \E l \in Lists :
    \E value \in {lists[l] \cup {active}} \cup {lists[l] \ {k} : k \in lists[l]} :
      /\ lists' = [lists EXCEPT ![l] = value]
      /\ Starts(Append(requests, Watch(l, value)))
      /\ UNCHANGED <<accounts, active, dialog>>

\* 'wallet-selected': the records are read again, the proposals are not.
SelectWallet(k) ==
  /\ k # active /\ active' = k
  /\ Starts(Append(requests, Get("fetch", k, "deterministicMasternodes")))
  /\ UNCHANGED <<accounts, lists, dialog>>

\* 'wallet-import'
ImportWallet(k) ==
  /\ active' = k
  /\ Starts(requests \o <<Get("fetch", k, "localProposals"),
                          Get("fetch", k, "deterministicMasternodes")>>)
  /\ UNCHANGED <<accounts, lists, dialog>>

\* removeAccount, of a removed vault.
RemoveAccount(k) ==
  /\ k # active /\ accounts[k] # NoAccount
  /\ accounts' = [accounts EXCEPT ![k] = NoAccount]
  /\ Starts(requests)
  /\ UNCHANGED <<active, lists, dialog>>

-----------------------------------------------------------------------------
\* IndexedDB answers the oldest request

First == Head(requests)
Found == First.copy # NoAccount
Ends == requests' = Tail(requests) /\ UNCHANGED <<accounts, lists, dialog>>
Goes(r) == requests' = Append(Tail(requests), r) /\ UNCHANGED <<accounts, lists, dialog>>

SaveRead ==
  /\ First.op = "save"
  /\ LET account == [Empty EXCEPT !.encWif = First.arg \/ (Found /\ First.copy.encWif)]
     IN  IF Found THEN Goes(Update(First, account)) ELSE Goes(Add(First, account))

ContactRead ==
  /\ First.op = "add"
  /\ IF Found /\ IsNew(First.copy, First.arg)
     THEN Goes(Update(First, AddContact(First.copy, First.arg)))
     ELSE Ends

NameRead ==
  /\ First.op = "name"
  /\ IF Found THEN Goes(Update(First, [First.copy EXCEPT !.name = TRUE])) ELSE Ends

\* The dialog is shown with the copy it will write, if there is a contact to
\* show, or one that may be offered.
Shown(r) ==
  IF r.copy = NoAccount THEN {}
  ELSE IF r.op = "offer" THEN {c \in {r.arg} : IsNew(r.copy, c)}
  ELSE r.copy.contacts
DialogOpens ==
  /\ First.op \in {"offer", "rename", "image", "remove"}
  /\ IF Shown(First) = {} THEN Ends
     ELSE /\ \E c \in Shown(First) : dialog' = {[First EXCEPT !.arg = c]}
          /\ requests' = Tail(requests) /\ UNCHANGED <<accounts, lists>>

\* The list is replaced, which its watcher notices at once.
ListFetched ==
  /\ First.op = "fetch"
  /\ LET value == IF Found THEN First.copy[First.arg] ELSE {}
     IN  /\ lists' = [lists EXCEPT ![First.arg] = value]
         /\ requests' = Append(Tail(requests), Watch(First.arg, value))
  /\ UNCHANGED <<accounts, dialog>>

ListRead ==
  /\ First.op \in Lists
  /\ IF Found THEN Goes(Update(First, [First.copy EXCEPT ![First.op] = First.arg])) ELSE Ends

Answer ==
  /\ requests # <<>>
  /\ \/ First.at = "get" /\ (SaveRead \/ ContactRead \/ NameRead \/ DialogOpens
                              \/ ListFetched \/ ListRead)
     \/ First.at # "get" /\ Put(First) /\ requests' = Tail(requests)
                         /\ UNCHANGED <<lists, dialog>>
  /\ UNCHANGED <<active, edits>>

-----------------------------------------------------------------------------
\* The user answers the dialog

Changed(d) ==
  CASE d.op = "offer" -> {AddContact(d.copy, d.arg)}
    [] d.op = "rename" -> {RenameContact(d.copy, d.arg, l) :
                             l \in {x \in Labels : MayRename(d.copy, x)}}
    [] d.op = "image" -> {d.copy}
    [] d.op = "remove" -> {RemoveContact(d.copy, d.arg)}

Confirm ==
  \E d \in dialog : \E account \in Changed(d) :
    /\ dialog' = {} /\ requests' = Append(requests, Update(d, account))
    /\ UNCHANGED <<accounts, active, lists, edits>>
Cancel ==
  /\ dialog # {} /\ dialog' = {}
  /\ UNCHANGED <<accounts, active, lists, requests, edits>>

AccountsNext ==
  \/ BeginContacts \/ BeginSave \/ EditList
  \/ \E k \in Keys : SelectWallet(k) \/ ImportWallet(k) \/ RemoveAccount(k)
  \/ Answer \/ Confirm \/ Cancel
AccountsSpec == AccountsInit /\ [][AccountsNext]_accountVars

-----------------------------------------------------------------------------
\* Properties

\* However reads, dialogs and writes overlap, no account holds two contacts of
\* one name or one key: a whole list replaces another whole list, and each was
\* compared before it grew.  A payment to a name has one meaning.
NamesAreUnique ==
  \A k \in Keys : accounts[k] # NoAccount =>
    \A c, d \in accounts[k].contacts :
      c.label = d.label \/ c.pubkey = d.pubkey => c = d

\* An encrypted key that is in the database stays there until its account is
\* removed (wallet.js: "knowing the key is safe in their database").
SecretIsKept ==
  [][\A k \in Keys : accounts[k] # NoAccount /\ accounts[k].encWif =>
       accounts'[k] = NoAccount \/ accounts'[k].encWif]_accounts
=============================================================================
