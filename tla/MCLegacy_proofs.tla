---------------------------- MODULE MCLegacy_proofs ----------------------------
(***************************************************************************)
(* Theorems about the parts of the legacy wallet.  Each part has an        *)
(* inductive invariant of its own; a step of one leaves the others alone.  *)
(***************************************************************************)
EXTENDS MCLegacy, FiniteSetTheorems, SequenceTheorems, WellFoundedInduction, TLAPS

allVars == <<part, vars, balanceVars, netVars, accountVars, promoVars, giftVars, listVars>>

-----------------------------------------------------------------------------
\* The accounts

\* No two contacts of an account share a name or a key.
Unique(account) ==
  \A c, d \in account.contacts :
    c.label = d.label \/ c.pubkey = d.pubkey => c = d

UniqueAccounts == {account \in Records!Account : Unique(account)}
Copies == UniqueAccounts \cup {NoAccount}

\* Operations that await IndexedDB: each works on a copy of an account.
RequestType ==
  [op : {"add", "offer", "rename", "image", "remove", "name", "save", "fetch"}
          \cup Records!Lists,
   key : Keys,
   arg : Records!Contacts \cup {Records!Empty} \cup BOOLEAN \cup Records!Lists
           \cup SUBSET Keys,
   at : {"get", "update", "add"}, copy : Copies, account : UniqueAccounts]
Requests ==
  {r \in RequestType :
     /\ r.op \in {"add", "offer"} => r.arg \in Records!Contacts
     /\ r.op = "save" => r.arg \in BOOLEAN
     /\ r.op = "fetch" => r.arg \in Records!Lists
     /\ r.op \in Records!Lists => r.arg \in SUBSET Keys}

\* Operations that await the user: what is confirmed was compared with the copy
\* it changes.
Dialogs ==
  {d \in RequestType :
     /\ d.op \in {"offer", "rename", "image", "remove"}
     /\ d.arg \in Records!Contacts /\ d.copy # NoAccount
     /\ d.op = "offer" => Records!IsNew(d.copy, d.arg)
     /\ d.op \in {"rename", "remove"} => d.arg \in d.copy.contacts}

AccountsIInv ==
  /\ accounts \in [Keys -> Copies] /\ active \in Keys
  /\ lists \in [Records!Lists -> SUBSET Keys]
  /\ requests \in Seq(Requests) /\ dialog \subseteq Dialogs

-----------------------------------------------------------------------------
\* What the operations make of an account.

LEMMA EmptyIsUnique ==
  /\ Records!Empty \in UniqueAccounts
  /\ \A c \in Records!Contacts : [Records!Empty EXCEPT !.contacts = {c}] \in UniqueAccounts
BY DEF UniqueAccounts, Unique, Records!Account, Records!Empty, Records!Contacts

LEMMA AddingKeepsUnique ==
  ASSUME NEW account \in UniqueAccounts, NEW c \in Records!Contacts,
         Records!IsNew(account, c)
  PROVE  Records!AddContact(account, c) \in UniqueAccounts
BY DEF UniqueAccounts, Unique, Records!Account, Records!IsNew, Records!GetContactBy,
       Records!AddContact, Records!Contacts

LEMMA RemovingKeepsUnique ==
  ASSUME NEW account \in UniqueAccounts, NEW c \in Records!Contacts
  PROVE  Records!RemoveContact(account, c) \in UniqueAccounts
BY DEF UniqueAccounts, Unique, Records!Account, Records!RemoveContact

LEMMA RenamingKeepsUnique ==
  ASSUME NEW account \in UniqueAccounts, NEW c \in account.contacts,
         NEW label \in Labels, Records!MayRename(account, label)
  PROVE  Records!RenameContact(account, c, label) \in UniqueAccounts
BY DEF UniqueAccounts, Unique, Records!Account, Records!RenameContact,
       Records!MayRename, Records!GetContactBy, Records!Contacts

LEMMA OverlayKeepsUnique ==
  ASSUME NEW fresh \in UniqueAccounts, NEW account \in UniqueAccounts,
         NEW deletes \in BOOLEAN
  PROVE  Records!Overlay(fresh, account, deletes) \in UniqueAccounts
BY DEF UniqueAccounts, Unique, Records!Account, Records!Overlay, Records!Empty,
       Records!Fields

\* The other fields have no part in it.
LEMMA OtherFieldsKeepUnique ==
  ASSUME NEW account \in UniqueAccounts
  PROVE  /\ [account EXCEPT !.name = TRUE] \in UniqueAccounts
         /\ \A b \in BOOLEAN : [account EXCEPT !.encWif = b] \in UniqueAccounts
         /\ \A l \in Records!Lists, value \in SUBSET Keys :
              [account EXCEPT ![l] = value] \in UniqueAccounts
BY DEF UniqueAccounts, Unique, Records!Account, Records!Lists

-----------------------------------------------------------------------------
\* Requests

LEMMA GetIsARequest ==
  ASSUME AccountsIInv, NEW key \in Keys
  PROVE  /\ \A c \in Records!Contacts :
              /\ Records!Get("add", key, c) \in Requests
              /\ Records!Get("offer", key, c) \in Requests
         /\ \A op \in {"rename", "image", "remove", "name"} :
              Records!Get(op, key, Records!Empty) \in Requests
         /\ \A b \in BOOLEAN : Records!Get("save", key, b) \in Requests
         /\ \A l \in Records!Lists : Records!Get("fetch", key, l) \in Requests
         /\ \A l \in Records!Lists, value \in SUBSET Keys :
              Records!Get(l, key, value) \in Requests
BY EmptyIsUnique
   DEF AccountsIInv, Requests, RequestType, Records!Get, Records!Lists

LEMMA UpdateIsARequest ==
  ASSUME AccountsIInv, NEW r \in Requests \cup Dialogs, NEW account \in UniqueAccounts
  PROVE  /\ Records!Update(r, account) \in Requests
         /\ Records!Add(r, account) \in Requests
<1>1. r \in RequestType /\ accounts[r.key] \in Copies
  BY DEF AccountsIInv, Requests, Dialogs, RequestType
<1>2. Records!Update(r, account) \in RequestType /\ Records!Add(r, account) \in RequestType
  BY <1>1 DEF RequestType, Records!Update, Records!Add
<1>3. /\ Records!Update(r, account).op = r.op /\ Records!Update(r, account).arg = r.arg
      /\ Records!Add(r, account).op = r.op /\ Records!Add(r, account).arg = r.arg
  BY <1>1 DEF RequestType, Records!Update, Records!Add
<1>4. /\ r.op \in {"add", "offer"} => r.arg \in Records!Contacts
      /\ r.op = "save" => r.arg \in BOOLEAN
      /\ r.op = "fetch" => r.arg \in Records!Lists
      /\ r.op \in Records!Lists => r.arg \in SUBSET Keys
  BY DEF Requests, Dialogs, Records!Lists
<1>5. QED
  BY <1>2, <1>3, <1>4 DEF Requests

\* Operations begin.
LEMMA BeginningKeepsAccountsIInv ==
  ASSUME AccountsIInv,
         \/ Records!BeginContacts \/ Records!BeginSave \/ Records!EditList
         \/ \E k \in Keys : \/ Records!SelectWallet(k) \/ Records!ImportWallet(k)
                            \/ Records!RemoveAccount(k)
  PROVE  AccountsIInv'
<1> USE DEF Records!Starts
<1>1. ASSUME NEW op, NEW arg, Records!BeginContact(op, arg), Records!Get(op, active, arg) \in Requests
      PROVE  AccountsIInv'
  BY <1>1 DEF AccountsIInv, Records!BeginContact, Records!Request
<1>2. CASE Records!BeginContacts
  BY <1>1, <1>2, GetIsARequest DEF AccountsIInv, Records!BeginContacts
<1>3. CASE Records!BeginSave
  BY <1>3, GetIsARequest DEF AccountsIInv, Records!BeginSave
<1>4. CASE Records!EditList
  <2>0. PICK l \in Records!Lists :
          \E value \in {lists[l] \cup {active}} \cup {lists[l] \ {k} : k \in lists[l]} :
            /\ lists' = [lists EXCEPT ![l] = value]
            /\ requests' = Append(requests, Records!Watch(l, value))
            /\ UNCHANGED <<accounts, active, dialog>>
    BY <1>4, Zenon DEF Records!EditList
  <2>5. PICK value \in {lists[l] \cup {active}} \cup {lists[l] \ {k} : k \in lists[l]} :
            /\ lists' = [lists EXCEPT ![l] = value]
            /\ requests' = Append(requests, Records!Watch(l, value))
            /\ UNCHANGED <<accounts, active, dialog>>
    BY <2>0, Zenon
  <2>1. value \in SUBSET Keys
    BY <2>5 DEF AccountsIInv
  <2>2. Records!Watch(l, value) \in Requests
    BY <2>1, GetIsARequest DEF AccountsIInv, Records!Watch
  <2>3. QED
    BY <2>5, <2>1, <2>2 DEF AccountsIInv
<1>5. ASSUME NEW k \in Keys, Records!SelectWallet(k) PROVE AccountsIInv'
  BY <1>5, GetIsARequest DEF AccountsIInv, Records!SelectWallet, Records!Lists
<1>6. ASSUME NEW k \in Keys, Records!ImportWallet(k) PROVE AccountsIInv'
  <2>1. /\ Records!Get("fetch", k, "localProposals") \in Requests
        /\ Records!Get("fetch", k, "deterministicMasternodes") \in Requests
    BY GetIsARequest DEF Records!Lists
  <2>2. QED
    BY <1>6, <2>1 DEF AccountsIInv, Records!ImportWallet
<1>7. ASSUME NEW k \in Keys, Records!RemoveAccount(k) PROVE AccountsIInv'
  BY <1>7 DEF AccountsIInv, Records!RemoveAccount, Copies
<1>8. QED
  BY <1>2, <1>3, <1>4, <1>5, <1>6, <1>7

\* IndexedDB answers the oldest request.
LEMMA AnswersKeepAccountsIInv ==
  ASSUME AccountsIInv, Records!Answer
  PROVE  AccountsIInv'
<1> DEFINE first == Records!First
<1>1. /\ requests # <<>> /\ Tail(requests) \in Seq(Requests)
      /\ first \in Requests /\ first \in RequestType
      /\ UNCHANGED <<active, edits>>
  BY DEF AccountsIInv, Records!Answer, Records!First, Requests
<1>2. first.copy # NoAccount => first.copy \in UniqueAccounts
  BY <1>1 DEF RequestType, Copies
<1>3. ASSUME Records!Ends PROVE AccountsIInv'
  BY <1>1, <1>3 DEF AccountsIInv, Records!Ends
<1>4. ASSUME NEW r \in Requests, Records!Goes(r) PROVE AccountsIInv'
  BY <1>1, <1>4 DEF AccountsIInv, Records!Goes
<1>5. ASSUME NEW account \in UniqueAccounts
      PROVE  /\ Records!Update(first, account) \in Requests
             /\ Records!Add(first, account) \in Requests
  BY <1>1, <1>5, UpdateIsARequest
<1>6. CASE Records!SaveRead
  <2> DEFINE account == [Records!Empty EXCEPT !.encWif =
                           first.arg \/ (first.copy # NoAccount /\ first.copy.encWif)]
  <2>1. first.arg \in BOOLEAN
    BY <1>1, <1>6 DEF Requests, Records!SaveRead
  <2>2. account \in UniqueAccounts
    BY <2>1, EmptyIsUnique, OtherFieldsKeepUnique
  <2>3. Records!Goes(Records!Update(first, account)) \/ Records!Goes(Records!Add(first, account))
    BY <1>6 DEF Records!SaveRead, Records!Found
  <2>4. QED
    BY <1>4, <1>5, <2>2, <2>3
<1>7. CASE Records!ContactRead
  BY <1>1, <1>2, <1>3, <1>4, <1>5, <1>7, AddingKeepsUnique
     DEF Records!ContactRead, Records!Found, Requests
<1>8. CASE Records!NameRead
  BY <1>2, <1>3, <1>4, <1>5, <1>8, OtherFieldsKeepUnique DEF Records!NameRead, Records!Found
<1>9. CASE Records!DialogOpens
  <2>1. CASE Records!Shown(first) = {}
    BY <1>3, <1>9, <2>1 DEF Records!DialogOpens
  <2>2. CASE Records!Shown(first) # {}
    <3>1. PICK c \in Records!Shown(first) :
            dialog' = {[first EXCEPT !.arg = c]}
      BY <1>9, <2>2 DEF Records!DialogOpens
    <3>2. first.copy \in UniqueAccounts /\ first.copy # NoAccount
      BY <1>2, <2>2 DEF Records!Shown
    <3>3. c \in Records!Contacts
      BY <1>1, <3>1, <3>2 DEF Records!Shown, Requests, UniqueAccounts, Records!Account
    <3>4. [first EXCEPT !.arg = c] \in Dialogs
      BY <1>1, <1>9, <3>2, <3>3
         DEF Dialogs, RequestType, Records!Shown, Records!DialogOpens
    <3>5. QED
      BY <1>1, <1>9, <2>2, <3>1, <3>4 DEF AccountsIInv, Records!DialogOpens
  <2>3. QED
    BY <2>1, <2>2
<1>10. CASE Records!ListFetched
  <2>1. first.arg \in Records!Lists
    BY <1>1, <1>10 DEF Requests, Records!ListFetched
  <2> DEFINE value == IF first.copy # NoAccount THEN first.copy[first.arg] ELSE {}
  <2>2. value \in SUBSET Keys
    BY <1>2, <2>1 DEF UniqueAccounts, Records!Account, Records!Lists
  <2>3. Records!Watch(first.arg, value) \in Requests
    BY <2>1, <2>2, GetIsARequest DEF AccountsIInv, Records!Watch
  <2> HIDE DEF value
  <2>4. /\ lists' = [lists EXCEPT ![first.arg] = value]
        /\ requests' = Append(Tail(requests), Records!Watch(first.arg, value))
        /\ UNCHANGED <<accounts, dialog>>
    BY <1>10 DEF Records!ListFetched, Records!Found, value
  <2>5. QED
    BY <1>1, <2>1, <2>2, <2>3, <2>4 DEF AccountsIInv
<1>11. CASE Records!ListRead
  <2>1. first.op \in Records!Lists /\ first.arg \in SUBSET Keys
    BY <1>1, <1>11 DEF Requests, Records!ListRead
  <2>2. QED
    BY <1>2, <1>3, <1>4, <1>5, <1>11, <2>1, OtherFieldsKeepUnique
       DEF Records!ListRead, Records!Found
<1>12. CASE Records!Put(first) /\ requests' = Tail(requests) /\ UNCHANGED <<lists, dialog>>
  <2>1. /\ first.key \in Keys /\ first.account \in UniqueAccounts
        /\ Records!MayDelete(first.op) \in BOOLEAN
    BY <1>1 DEF RequestType, Records!MayDelete
  <2>2. first.copy # NoAccount =>
          Records!Overlay(first.copy, first.account, Records!MayDelete(first.op)) \in UniqueAccounts
    BY <1>2, <2>1, OverlayKeepsUnique
  <2>3. accounts' \in [Keys -> Copies]
    BY <1>12, <2>1, <2>2 DEF AccountsIInv, Records!Put, Copies
  <2>4. QED
    BY <1>1, <1>12, <2>3 DEF AccountsIInv
<1>13. QED
  BY <1>6, <1>7, <1>8, <1>9, <1>10, <1>11, <1>12 DEF Records!Answer

\* The user answers the dialog.
LEMMA DialogsKeepAccountsIInv ==
  ASSUME AccountsIInv, Records!Confirm \/ Records!Cancel
  PROVE  AccountsIInv'
<1>1. CASE Records!Confirm
  <2>1. PICK d \in dialog : \E account \in Records!Changed(d) :
          /\ dialog' = {} /\ requests' = Append(requests, Records!Update(d, account))
          /\ UNCHANGED <<accounts, active, lists, edits>>
    BY <1>1 DEF Records!Confirm
  <2>2. PICK account \in Records!Changed(d) :
          /\ dialog' = {} /\ requests' = Append(requests, Records!Update(d, account))
          /\ UNCHANGED <<accounts, active, lists, edits>>
    BY <2>1
  <2>3. d \in Dialogs /\ d.copy \in UniqueAccounts
    BY DEF AccountsIInv, Dialogs, RequestType, Copies
  <2>4. account \in UniqueAccounts
    BY <2>2, <2>3, AddingKeepsUnique, RemovingKeepsUnique, RenamingKeepsUnique
       DEF Dialogs, Records!Changed
  <2>5. Records!Update(d, account) \in Requests
    BY <2>3, <2>4, UpdateIsARequest
  <2>6. QED
    BY <2>2, <2>5 DEF AccountsIInv
<1>2. CASE Records!Cancel
  BY <1>2 DEF AccountsIInv, Records!Cancel
<1>3. QED
  BY <1>1, <1>2

LEMMA StoredAccounts == Records!AccountsInit => AccountsIInv
<1> SUFFICES ASSUME Records!AccountsInit PROVE AccountsIInv
  OBVIOUS
<1>1. Records!Earlier \subseteq Copies
  BY EmptyIsUnique DEF Records!Earlier, Copies
<1>2. QED
  BY <1>1 DEF Records!AccountsInit, AccountsIInv

LEMMA AccountsInvariance == LegacySpec => []AccountsIInv
<1>1. LegacyInit => AccountsIInv
  BY StoredAccounts DEF LegacyInit, RestingAccounts
<1>2. AccountsIInv /\ Records!AccountsNext => AccountsIInv'
  BY BeginningKeepsAccountsIInv, AnswersKeepAccountsIInv, DialogsKeepAccountsIInv
     DEF Records!AccountsNext
<1>3. AccountsIInv /\ UNCHANGED accountVars => AccountsIInv'
  BY DEF AccountsIInv, accountVars
<1>4. [LegacyNext]_allVars => Records!AccountsNext \/ UNCHANGED accountVars
  BY DEF LegacyNext, Others, allVars
<1>5. AccountsIInv /\ [LegacyNext]_allVars => AccountsIInv'
  BY <1>2, <1>3, <1>4
<1>6. QED
  BY <1>1, <1>5, PTL DEF LegacySpec, allVars

\* No account ever holds two contacts of one name or one key, however reads,
\* dialogs and writes of the accounts overlap.
THEOREM NamesAreUniqueHolds == LegacySpec => []NamesAreUnique
<1>1. AccountsIInv => NamesAreUnique
  BY DEF AccountsIInv, Copies, UniqueAccounts, Unique, NamesAreUnique,
         Records!NamesAreUnique
<1>2. QED
  BY <1>1, AccountsInvariance, PTL

-----------------------------------------------------------------------------
\* Sums

\* The least-number principle, for induction on sizes.
LEMMA Least ==
  ASSUME NEW T \in SUBSET Nat, T # {}
  PROVE  \E x \in T : \A y \in T : x <= y
<1> DEFINE R == OpToRel(<, Nat)
<1>1. \A x, y \in Nat : x < y => <<x,y>> \in R
  BY DEF OpToRel
<1>2. IsWellFoundedOn(R, Nat)
  BY NatLessThanWellFounded
<1> HIDE DEF R
<1>3. PICK x \in T : \A y \in T : ~(<<y,x>> \in R)
  BY <1>2, WFMin
<1>4. \A y \in T : ~(y < x)
  BY <1>1, <1>3
<1>5. QED BY <1>4

First(s) == CHOOSE x \in s : TRUE
Smaller(s) == s \ {First(s)}
Sum(g, s) == IF s = {} THEN 0 ELSE Worth[First(s)] + g[Smaller(s)]
Sums(g, D) == \A s \in D : g[s] = Sum(g, s)
UpToSize(S, n) == {s \in SUBSET S : Cardinality(s) <= n}

LEMMA Sizes == 
  ASSUME NEW S \in SUBSET Coins
  PROVE  /\ Cardinality(S) \in Nat
         /\ \A s \in SUBSET S : Cardinality(s) \in 0 .. Cardinality(S)
         /\ \A s \in SUBSET S : s = {} \/ Cardinality(s) # 0
         /\ \A s \in (SUBSET S) \ {{}} :
              /\ Worth[First(s)] \in Nat /\ Smaller(s) \in SUBSET S
              /\ Cardinality(Smaller(s)) = Cardinality(s) - 1
<1>1. \A s \in SUBSET S : IsFiniteSet(s) /\ Cardinality(s) <= Cardinality(S)
  <2>1. IsFiniteSet(S)
    BY CoinsAssumption, FS_Subset
  <2>2. QED
    BY <2>1, FS_Subset
<1>2. \A s \in SUBSET S : Cardinality(s) \in Nat
  BY <1>1, FS_CardinalityType
<1>3. \A s \in SUBSET S : s = {} \/ Cardinality(s) # 0
  BY <1>1, FS_EmptySet
<1>4. ASSUME NEW s \in SUBSET S, s # {}
      PROVE  /\ Worth[First(s)] \in Nat /\ Smaller(s) \in SUBSET S
             /\ Cardinality(Smaller(s)) = Cardinality(s) - 1
  <2>1. First(s) \in s
    BY <1>4 DEF First
  <2>2. QED
    BY <1>1, <2>1, CoinsAssumption, FS_RemoveElement DEF Smaller
<1>5. QED
  BY <1>1, <1>2, <1>3, <1>4

\* A sum over the sets of each size exists, one element at a time.
LEMMA SumsExist == 
  ASSUME NEW S \in SUBSET Coins
  PROVE \E g \in [SUBSET S -> Nat] : Sums(g, SUBSET S)
<1> USE Sizes
<1> DEFINE Has(n) == \E g \in [SUBSET S -> Nat] : Sums(g, UpToSize(S, n))
           Without == {n \in Nat : ~Has(n)}
<1>1. Has(0)
  <2> DEFINE zero == [s \in SUBSET S |-> 0]
  <2>1. \A s \in UpToSize(S, 0) : s = {}
    BY Sizes DEF UpToSize
  <2>2. \A s \in UpToSize(S, 0) : zero[s] = Sum(zero, s)
    BY <2>1 DEF Sum
  <2>3. zero \in [SUBSET S -> Nat]
    OBVIOUS
  <2>4. QED
    BY <2>2, <2>3 DEF Sums
<1>2. ASSUME NEW n \in Nat, Has(n) PROVE Has(n + 1)
  <2>1. PICK g \in [SUBSET S -> Nat] : Sums(g, UpToSize(S, n))
    BY <1>2
  <2> DEFINE h == [s \in SUBSET S |-> Sum(g, s)]
  <2>2. ASSUME NEW s \in SUBSET S PROVE Sum(g, s) \in Nat
    <3>1. CASE s = {}
      BY <3>1 DEF Sum
    <3>2. CASE s # {}
      <4>1. Worth[First(s)] \in Nat /\ g[Smaller(s)] \in Nat
        BY <3>2
      <4>2. QED
        BY <3>2, <4>1 DEF Sum
    <3>3. QED
      BY <3>1, <3>2
  <2>3. \A s \in UpToSize(S, n) : h[s] = g[s]
    BY <2>1 DEF Sums, UpToSize
  <2>4. \A s \in UpToSize(S, n + 1) : s # {} => Smaller(s) \in UpToSize(S, n)
    BY Sizes DEF UpToSize
  <2>5. \A s \in UpToSize(S, n + 1) : h[s] = Sum(h, s)
    BY <2>3, <2>4 DEF Sum, UpToSize
  <2>6. h \in [SUBSET S -> Nat]
    BY <2>2
  <2> HIDE DEF h
  <2>7. QED
    BY <2>5, <2>6 DEF Sums
<1>3. Without = {}
  <2> SUFFICES ASSUME Without # {} PROVE FALSE
    OBVIOUS
  <2>1. PICK n \in Without : \A m \in Without : n <= m
    BY Least
  <2> HIDE DEF Has
  <2>2. n # 0 /\ n \in Nat /\ ~Has(n)
    BY <1>1
  <2>3. n - 1 \in Nat /\ Has(n - 1)
    BY <2>1, <2>2
  <2>4. QED
    BY <2>2, <2>3, <1>2
<1>4. UpToSize(S, Cardinality(S)) = SUBSET S /\ Cardinality(S) \in Nat
  BY Sizes DEF UpToSize
<1>5. Has(Cardinality(S))
  BY <1>3, <1>4
<1>6. QED
  BY <1>4, <1>5

LEMMA SumsAreNat ==
  ASSUME NEW S \in SUBSET Coins, NEW g, Sums(g, SUBSET S)
  PROVE  g[S] \in Nat
<1> DEFINE Bad == {n \in Nat : \E s \in SUBSET S : Cardinality(s) = n /\ g[s] \notin Nat}
<1>1. Bad = {}
  <2> SUFFICES ASSUME Bad # {} PROVE FALSE
    OBVIOUS
  <2>1. PICK n \in Bad : \A m \in Bad : n <= m
    BY Least
  <2>2. PICK s \in SUBSET S : Cardinality(s) = n /\ g[s] \notin Nat
    OBVIOUS
  <2>3. s # {}
    BY <2>2 DEF Sums, Sum
  <2>4. Cardinality(Smaller(s)) = n - 1 /\ n - 1 \in Nat /\ Smaller(s) \in SUBSET S /\ Worth[First(s)] \in Nat
    BY <2>2, <2>3, Sizes
  <2>5. g[Smaller(s)] \in Nat
    BY <2>1, <2>4
  <2>6. QED
    BY <2>2, <2>3, <2>4, <2>5 DEF Sums, Sum
<1>2. QED
  BY <1>1, Sizes

LEMMA TotalIsNat == ASSUME NEW S \in SUBSET Coins PROVE Balance!TotalWorth(S) \in Nat
<1> DEFINE g == CHOOSE f : f = [s \in SUBSET S |-> Sum(f, s)]
<1>1. Balance!TotalWorth(S) = g[S]
  BY DEF Balance!TotalWorth, Balance!MapThenSumSet, Balance!MapThenFoldSet,
         Sum, First, Smaller
<1>2. PICK f \in [SUBSET S -> Nat] : Sums(f, SUBSET S)
  BY SumsExist
<1>3. f = [s \in SUBSET S |-> Sum(f, s)]
  BY <1>2 DEF Sums
<1>4. g = [s \in SUBSET S |-> Sum(g, s)]
  BY <1>3
<1>5. Sums(g, SUBSET S)
  BY <1>4 DEF Sums
<1>6. QED
  BY <1>1, <1>5, SumsAreNat
-----------------------------------------------------------------------------
\* The balances

PoolType ==
  [height : [Coins -> Int], state : [Coins -> SUBSET {"spent", "locked"}],
   cache : [Balance!Names -> Int]]

Count(m, h, kinds, immature) == Balance!BalanceInternal(m, h, kinds, immature)

\* The cached balances of m are those of a count at height h.
Counted(m, h) ==
  /\ m.cache.balance \in {Balance!Invalid, Count(m, h, {"p2pkh"}, FALSE)}
  /\ m.cache.coldBalance \in {Balance!Invalid, Count(m, h, {"p2cs"}, FALSE)}
  /\ m.cache.immatureBalance \in
       {Balance!Invalid, Count(m, h, {"p2pkh", "p2cs"}, TRUE)
          - Count(m, h, {"p2pkh"}, FALSE) - Count(m, h, {"p2cs"}, FALSE)}

\* The immature coins are never counted before the delegated ones: the count
\* of these without a height would otherwise take their place.
ColdFirst(m) == m.cache.immatureBalance # Balance!Invalid => m.cache.coldBalance # Balance!Invalid

BalancesIInv ==
  /\ pool \in PoolType /\ chainHeight \in Nat /\ settling \in BOOLEAN /\ ColdFirst(pool)
  /\ ~settling => Counted(pool, chainHeight)

LEMMA CountIsNat ==
  ASSUME NEW m, NEW h, NEW kinds, NEW immature
  PROVE  Count(m, h, kinds, immature) \in Nat
BY TotalIsNat DEF Count, Balance!BalanceInternal, Balance!Unspent

LEMMA CountsCoinsOnly ==
  ASSUME NEW m, NEW n, NEW h, NEW kinds, NEW immature,
         m.height = n.height, m.state = n.state
  PROVE  Count(m, h, kinds, immature) = Count(n, h, kinds, immature)
BY DEF Count, Balance!BalanceInternal, Balance!Unspent, Balance!IsImmature

LEMMA SameCoinsCount ==
  ASSUME NEW m, NEW n, NEW h, m.height = n.height, m.state = n.state,
         m.cache.balance = n.cache.balance, m.cache.coldBalance = n.cache.coldBalance,
         m.cache.immatureBalance = n.cache.immatureBalance, Counted(m, h)
  PROVE  Counted(n, h)
<1>1. \A kinds, immature : Count(m, h, kinds, immature) = Count(n, h, kinds, immature)
  BY CountsCoinsOnly
<1>2. QED
  BY <1>1 DEF Counted

\* What each read leaves in the cache: it counts what is not there.
Caches(m, n, name, value) ==
  /\ n \in PoolType /\ n.height = m.height /\ n.state = m.state
  /\ n.cache[name] = value
  /\ \A other \in Balance!Names \ {name} : n.cache[other] = m.cache[other]

LEMMA CacheOf ==
  ASSUME NEW m \in PoolType, NEW name \in Balance!Names, NEW value \in Int
  PROVE  Caches(m, [m EXCEPT !.cache[name] = value], name, value)
BY DEF PoolType, Caches

Reads(m, n, h) ==
  /\ n \in PoolType /\ n.height = m.height /\ n.state = m.state
  /\ ColdFirst(m) => ColdFirst(n)
  /\ Counted(m, h) => Counted(n, h)
  /\ \A name \in Balance!Names :
       m.cache[name] # Balance!Invalid => n.cache[name] # Balance!Invalid

LEMMA BalanceReads ==
  ASSUME NEW m \in PoolType, NEW h
  PROVE  /\ Reads(m, Balance!GetBalance(m, h), h)
         /\ Balance!GetBalance(m, h).cache.balance # Balance!Invalid
<1> DEFINE n == Balance!GetBalance(m, h)
           count == Count(m, h, {"p2pkh"}, FALSE)
<1>1. CASE m.cache.balance # Balance!Invalid
  BY <1>1 DEF Balance!GetBalance, Reads
<1>0. count \in Nat
  BY CountIsNat, Zenon
<1> HIDE DEF count
<1>2. CASE m.cache.balance = Balance!Invalid
  <2>1. Caches(m, n, "balance", count)
    <3>1. n = [m EXCEPT !.cache["balance"] = count]
      BY <1>2 DEF Balance!GetBalance, Count, count
    <3>2. Caches(m, [m EXCEPT !.cache["balance"] = count], "balance", count)
      BY <1>0, CacheOf DEF Balance!Names
    <3>3. QED
      BY <3>1, <3>2, Zenon
  <2> HIDE DEF n
  <2>2. \A kinds, immature : Count(m, h, kinds, immature) = Count(n, h, kinds, immature)
    BY <2>1, CountsCoinsOnly DEF Caches
  <2>3. ColdFirst(m) => ColdFirst(n)
    BY <2>1 DEF ColdFirst, Balance!Names, Caches
  <2>4. Counted(m, h) => Counted(n, h)
    BY <2>1, <2>2 DEF Counted, Balance!Names, Caches, count
  <2>5. n.cache.balance # Balance!Invalid
    BY <1>0, <2>1 DEF Caches, Balance!Invalid
  <2>6. QED
    BY <1>2, <2>1, <2>3, <2>4, <2>5 DEF Reads, Caches, n
<1>3. QED
  BY <1>1, <1>2

LEMMA ColdReads ==
  ASSUME NEW m \in PoolType, NEW h
  PROVE  /\ Reads(m, Balance!GetColdBalance(m, h), h)
         /\ Balance!GetColdBalance(m, h).cache.coldBalance # Balance!Invalid
<1> DEFINE n == Balance!GetColdBalance(m, h)
           count == Count(m, h, {"p2cs"}, FALSE)
<1>1. CASE m.cache.coldBalance # Balance!Invalid
  BY <1>1 DEF Balance!GetColdBalance, Reads
<1>0. count \in Nat
  BY CountIsNat, Zenon
<1> HIDE DEF count
<1>2. CASE m.cache.coldBalance = Balance!Invalid
  <2>1. Caches(m, n, "coldBalance", count)
    <3>1. n = [m EXCEPT !.cache["coldBalance"] = count]
      BY <1>2 DEF Balance!GetColdBalance, Count, count
    <3>2. Caches(m, [m EXCEPT !.cache["coldBalance"] = count], "coldBalance", count)
      BY <1>0, CacheOf DEF Balance!Names
    <3>3. QED
      BY <3>1, <3>2, Zenon
  <2> HIDE DEF n
  <2>2. \A kinds, immature : Count(m, h, kinds, immature) = Count(n, h, kinds, immature)
    BY <2>1, CountsCoinsOnly DEF Caches
  <2>3. ColdFirst(m) => ColdFirst(n)
    BY <1>0, <2>1 DEF ColdFirst, Balance!Names, Balance!Invalid, Caches
  <2>4. Counted(m, h) => Counted(n, h)
    BY <2>1, <2>2 DEF Counted, Balance!Names, Caches, count
  <2>5. n.cache.coldBalance # Balance!Invalid
    BY <1>0, <2>1 DEF Caches, Balance!Invalid
  <2>6. QED
    BY <1>2, <2>1, <2>3, <2>4, <2>5 DEF Reads, Caches, n
<1>3. QED
  BY <1>1, <1>2

\* The three others are read one through the other.
LEMMA ReadsThrough ==
  ASSUME NEW m, NEW n, NEW o, NEW h, Reads(m, n, h), Reads(n, o, h)
  PROVE  Reads(m, o, h)
BY DEF Reads

LEMMA ImmatureReads ==
  ASSUME NEW m \in PoolType, NEW h
  PROVE  /\ Reads(m, Balance!GetImmatureBalance(m, h), h)
         /\ ColdFirst(m) => Balance!GetImmatureBalance(m, h).cache.coldBalance # Balance!Invalid
<1> DEFINE n == Balance!GetColdBalance(Balance!GetBalance(m, h), h)
           spendable == Count(n, h, {"p2pkh"}, FALSE)
           cold == Count(n, h, {"p2cs"}, FALSE)
           all == Count(n, h, {"p2pkh", "p2cs"}, TRUE)
           rest == all - n.cache.balance - n.cache.coldBalance
           o == [n EXCEPT !.cache["immatureBalance"] = rest]
<1>1. CASE m.cache.immatureBalance # Balance!Invalid
  BY <1>1 DEF Balance!GetImmatureBalance, Reads, ColdFirst
<1>2. CASE m.cache.immatureBalance = Balance!Invalid
  <2>1. Balance!GetImmatureBalance(m, h) = o
    BY <1>2 DEF Balance!GetImmatureBalance, Count
  <2>2. /\ Reads(m, n, h)
        /\ n.cache.balance # Balance!Invalid /\ n.cache.coldBalance # Balance!Invalid
    <3> DEFINE first == Balance!GetBalance(m, h)
    <3>1. Reads(m, first, h) /\ first.cache.balance # Balance!Invalid /\ first \in PoolType
      BY BalanceReads DEF Reads
    <3> HIDE DEF first
    <3>2. /\ Reads(first, Balance!GetColdBalance(first, h), h)
          /\ Balance!GetColdBalance(first, h).cache.coldBalance # Balance!Invalid
      BY <3>1, ColdReads
    <3>3. Balance!GetColdBalance(first, h).cache.balance # Balance!Invalid
      BY <3>1, <3>2 DEF Reads, Balance!Names
    <3>4. QED
      BY <3>1, <3>2, <3>3, ReadsThrough DEF first
  <2>3. spendable \in Nat /\ cold \in Nat /\ all \in Nat
    BY CountIsNat, Zenon
  <2>4. Counted(n, h) =>
          n.cache.balance \in {Balance!Invalid, spendable}
            /\ n.cache.coldBalance \in {Balance!Invalid, cold}
    BY DEF Counted
  <2> HIDE DEF n, spendable, cold, all
  <2>5. n \in PoolType /\ n.cache.balance \in Int /\ n.cache.coldBalance \in Int
    BY <2>2 DEF Reads, PoolType, Balance!Names
  <2>6. Caches(n, o, "immatureBalance", rest)
    BY <2>3, <2>5, CacheOf DEF Balance!Names
  <2>7. Counted(n, h) => rest = all - spendable - cold
    BY <2>2, <2>4
  <2> HIDE DEF o, rest
  <2>8. \A kinds, immature : Count(n, h, kinds, immature) = Count(o, h, kinds, immature)
    BY <2>6, CountsCoinsOnly DEF Caches
  <2>9. Counted(n, h) => Counted(o, h)
    BY <2>6, <2>7, <2>8 DEF Counted, Balance!Names, Caches, all, spendable, cold
  <2>10. ColdFirst(o) /\ o.cache.coldBalance # Balance!Invalid
    BY <2>2, <2>6 DEF ColdFirst, Balance!Names, Caches
  <2>11. Reads(n, o, h) \/ n.cache.immatureBalance # Balance!Invalid
    BY <2>2, <2>6, <2>9, <2>10 DEF Reads, Caches, Balance!Names
  <2>12. QED
    BY <1>2, <2>1, <2>2, <2>6, <2>9, <2>10 DEF Reads, Caches, Balance!Names
<1>3. QED
  BY <1>1, <1>2

\* The immature delegated balance finds the delegated one in the cache.
LEMMA ImmatureColdReads ==
  ASSUME NEW m \in PoolType, NEW h, m.cache.coldBalance # Balance!Invalid
  PROVE  Reads(m, Balance!GetImmatureColdBalance(m, h), h)
<1> DEFINE all == Count(m, h, {"p2cs"}, TRUE)
           rest == all - m.cache.coldBalance
           o == [m EXCEPT !.cache["immatureColdBalance"] = rest]
<1>1. CASE m.cache.immatureColdBalance # Balance!Invalid
  BY <1>1 DEF Balance!GetImmatureColdBalance, Reads
<1>2. CASE m.cache.immatureColdBalance = Balance!Invalid
  <2>1. Balance!GetImmatureColdBalance(m, h) = o
    BY <1>2 DEF Balance!GetImmatureColdBalance, Count
  <2>2. all \in Nat
    BY CountIsNat, Zenon
  <2> HIDE DEF all
  <2>3. rest \in Int
    BY <2>2 DEF PoolType, Balance!Names
  <2>4. Caches(m, o, "immatureColdBalance", rest)
    BY <2>3, CacheOf DEF Balance!Names
  <2> HIDE DEF o, rest
  <2>5. Counted(m, h) => Counted(o, h)
    BY <2>4, SameCoinsCount DEF Caches, Balance!Names
  <2>6. QED
    BY <1>2, <2>1, <2>4, <2>5 DEF Reads, Caches, ColdFirst, Balance!Names
<1>3. QED
  BY <1>1, <1>2

LEMMA ThreeReads ==
  ASSUME NEW m \in PoolType, NEW h, ColdFirst(m)
  PROVE  Reads(m, Balance!ReadThree(m, h), h)
<1> DEFINE n == Balance!GetBalance(m, h)
           o == Balance!GetImmatureBalance(n, h)
<1>1. Reads(m, n, h)
  BY BalanceReads
<1> HIDE DEF n
<1>2. Reads(n, o, h) /\ o.cache.coldBalance # Balance!Invalid
  BY <1>1, ImmatureReads DEF Reads
<1> HIDE DEF o
<1>3. Reads(o, Balance!GetImmatureColdBalance(o, h), h)
  BY <1>2, ImmatureColdReads DEF Reads
<1>4. QED
  BY <1>1, <1>2, <1>3, ReadsThrough DEF Balance!ReadThree, n, o

\* Whatever coins it is about, an invalidated cache is a true one.
LEMMA InvalidatedIsCounted ==
  ASSUME NEW m \in PoolType, NEW h
  PROVE  /\ Balance!Invalidated(m) \in PoolType
         /\ ColdFirst(Balance!Invalidated(m)) /\ Counted(Balance!Invalidated(m), h)
<1> DEFINE n == Balance!Invalidated(m)
<1>1. /\ n \in PoolType /\ n.cache.balance = Balance!Invalid
      /\ n.cache.coldBalance = Balance!Invalid /\ n.cache.immatureBalance = Balance!Invalid
  <2> DEFINE cache == [m.cache EXCEPT !["balance"] = Balance!Invalid,
                         !["coldBalance"] = Balance!Invalid,
                         !["immatureBalance"] = Balance!Invalid]
  <2>1. m.cache \in [Balance!Names -> Int] /\ Balance!Invalid \in Int
    BY DEF PoolType, Balance!Invalid
  <2>2. /\ cache \in [Balance!Names -> Int] /\ cache["balance"] = Balance!Invalid
        /\ cache["coldBalance"] = Balance!Invalid
        /\ cache["immatureBalance"] = Balance!Invalid
    BY <2>1 DEF Balance!Names
  <2>3. n = [m EXCEPT !.cache = cache]
    BY DEF Balance!Invalidated, PoolType
  <2> HIDE DEF n, cache
  <2>4. QED
    BY <2>2, <2>3 DEF PoolType
<1> HIDE DEF n
<1>2. QED
  BY <1>1 DEF ColdFirst, Counted, n

LEMMA BalancesKeepIInv ==
  ASSUME BalancesIInv, Balance!BalancesNext
  PROVE  BalancesIInv'
<1> USE DEF BalancesIInv
<1>1. ASSUME NEW m \in PoolType, NEW h, ColdFirst(m), pool' = Balance!ReadThree(m, h)
      PROVE  pool' \in PoolType /\ ColdFirst(pool)' /\ (Counted(m, h) => Counted(pool', h))
  BY <1>1, ThreeReads DEF Reads
<1>2. ASSUME NEW m \in PoolType, NEW h, Balance!Refresh(Balance!Invalidated(m), h)
      PROVE  pool' \in PoolType /\ ColdFirst(pool)' /\ Counted(pool', h)
  BY <1>2, <1>1, InvalidatedIsCounted DEF Balance!Refresh
<1>3. ASSUME NEW c \in Coins, Balance!Receive(c) PROVE BalancesIInv'
  <2>1. [pool EXCEPT !.height[c] = chainHeight] \in PoolType
    BY DEF PoolType
  <2>2. QED
    BY <1>2, <1>3, <2>1 DEF Balance!Receive
<1>4. ASSUME NEW c \in Coins, Balance!Spend(c) PROVE BalancesIInv'
  <2>1. [pool EXCEPT !.state[c] = @ \cup {"spent"}] \in PoolType
    BY DEF PoolType
  <2>2. QED
    BY <1>2, <1>4, <2>1 DEF Balance!Spend
<1>5. ASSUME NEW c \in Coins, Balance!LockCoin(c) \/ Balance!UnlockCoin(c) PROVE BalancesIInv'
  <2>1. /\ [pool EXCEPT !.state[c] = @ \cup {"locked"}] \in PoolType
        /\ [pool EXCEPT !.state[c] = @ \ {"locked"}] \in PoolType
    BY DEF PoolType
  <2>2. QED
    BY <1>5, <2>1, InvalidatedIsCounted DEF Balance!LockCoin, Balance!UnlockCoin
<1>6. CASE Balance!Publish
  BY <1>6, ColdReads DEF Balance!Publish, Reads
<1>7. CASE Balance!NewBlock
  BY <1>1, <1>7 DEF Balance!NewBlock, Balance!Refresh
<1>8. CASE Balance!Settle
  BY <1>8, InvalidatedIsCounted DEF Balance!Settle
<1>9. QED
  BY <1>3, <1>4, <1>5, <1>6, <1>7, <1>8 DEF Balance!BalancesNext

\* Whatever is received, spent, locked and read, in whatever order blocks and
\* reads alternate: between the blocks no cached balance is an old count.
THEOREM CachedIsTrueHolds == LegacySpec => []CachedIsTrue
<1>1. LegacyInit => BalancesIInv
  <2> SUFFICES ASSUME Balance!BalancesInit PROVE BalancesIInv
    BY DEF LegacyInit
  <2>1. pool \in PoolType
    BY DEF Balance!BalancesInit, PoolType, Balance!Invalid
  <2>2. /\ pool.cache.balance = Balance!Invalid /\ pool.cache.coldBalance = Balance!Invalid
        /\ pool.cache.immatureBalance = Balance!Invalid
    BY DEF Balance!BalancesInit, Balance!Names
  <2>3. QED
    BY <2>1, <2>2 DEF Balance!BalancesInit, BalancesIInv, ColdFirst, Counted
<1>2. BalancesIInv /\ [LegacyNext]_allVars => BalancesIInv'
  <2>1. BalancesIInv /\ UNCHANGED balanceVars => BalancesIInv'
    BY DEF BalancesIInv, balanceVars
  <2>2. [LegacyNext]_allVars => Balance!BalancesNext \/ UNCHANGED balanceVars
    BY DEF LegacyNext, Others, allVars
  <2>3. QED
    BY <2>1, <2>2, BalancesKeepIInv
<1>3. BalancesIInv => CachedIsTrue
  BY DEF BalancesIInv, CachedIsTrue, Balance!CachedIsTrue, Counted, Count
<1>4. QED
  BY <1>1, <1>2, <1>3, PTL DEF LegacySpec, allVars

-----------------------------------------------------------------------------
\* The networks

Objects == [strUrl : STRING, isRpc : BOOLEAN, gen : Nat]
Distinct(list) == \A i, j \in DOMAIN list : list[i] = list[j] => i = j
Lists == {list \in Seq(Objects) : Distinct(list)}

LEMMA ObjectsAreDistinct ==
  ASSUME NEW urls \in {Explorers, Nodes}, NEW isRpc \in BOOLEAN, NEW gen \in Nat
  PROVE  /\ Net!NetworkObject(urls, isRpc, gen) \in Lists
         /\ Len(Net!NetworkObject(urls, isRpc, gen)) = Len(urls)
         /\ \A i \in 1 .. Len(urls) : Net!NetworkObject(urls, isRpc, gen)[i].isRpc = isRpc
<1> DEFINE list == Net!NetworkObject(urls, isRpc, gen)
<1>0. urls \in Seq(STRING) /\ IsInjective(urls)
  BY NetworksAssumption
<1>1. \A i \in 1 .. Len(urls) : list[i] = [strUrl |-> urls[i], isRpc |-> isRpc, gen |-> gen]
  BY <1>0 DEF Net!NetworkObject
<1>2. list \in Seq(Objects) /\ Len(list) = Len(urls)
  BY <1>0 DEF Net!NetworkObject, Objects
<1>3. \A i, j \in 1 .. Len(urls) : urls[i] = urls[j] => i = j
  BY <1>0 DEF IsInjective
<1>4. \A i \in 1 .. Len(urls) : list[i].strUrl = urls[i] /\ list[i].isRpc = isRpc
  BY <1>0 DEF Net!NetworkObject
<1> HIDE DEF list
<1>5. Distinct(list)
  BY <1>2, <1>3, <1>4 DEF Distinct
<1>6. QED
  BY <1>2, <1>4, <1>5 DEF Lists, list

LEMMA StartsDistinct ==
  ASSUME NEW gen \in Nat PROVE Net!Started(gen) \in Lists
<1> DEFINE e == Net!NetworkObject(Explorers, FALSE, gen)
           n == Net!NetworkObject(Nodes, TRUE, gen)
<1>1. /\ e \in Lists /\ \A i \in 1 .. Len(e) : e[i].isRpc = FALSE
      /\ n \in Lists /\ \A i \in 1 .. Len(n) : n[i].isRpc = TRUE
  <2>0. FALSE \in BOOLEAN /\ TRUE \in BOOLEAN
    OBVIOUS
  <2>1. /\ e \in Lists /\ Len(e) = Len(Explorers)
        /\ \A i \in 1 .. Len(Explorers) : e[i].isRpc = FALSE
    BY <2>0, ObjectsAreDistinct
  <2>2. /\ n \in Lists /\ Len(n) = Len(Nodes)
        /\ \A i \in 1 .. Len(Nodes) : n[i].isRpc = TRUE
    BY <2>0, ObjectsAreDistinct
  <2> HIDE DEF e, n
  <2>3. QED
    BY <2>1, <2>2
<1>2. Net!Started(gen) = e \o n
  BY DEF Net!Started
<1> HIDE DEF e, n
<1>3. /\ e \in Seq(Objects) /\ n \in Seq(Objects)
      /\ \A i, j \in 1 .. Len(e) : e[i] = e[j] => i = j
      /\ \A i, j \in 1 .. Len(n) : n[i] = n[j] => i = j
      /\ \A i \in 1 .. Len(e), j \in 1 .. Len(n) : e[i] # n[j]
  BY <1>1 DEF Lists, Distinct
<1>4. /\ e \o n \in Seq(Objects) /\ Len(e \o n) = Len(e) + Len(n)
      /\ \A i \in 1 .. Len(e) + Len(n) :
           (e \o n)[i] = IF i <= Len(e) THEN e[i] ELSE n[i - Len(e)]
  BY <1>3, ConcatProperties
<1>5. ASSUME NEW i \in 1 .. Len(e) + Len(n), NEW j \in 1 .. Len(e) + Len(n),
             (e \o n)[i] = (e \o n)[j]
      PROVE  i = j
  <2>1. /\ Len(e) \in Nat /\ Len(n) \in Nat
        /\ i <= Len(e) => i \in 1 .. Len(e)
        /\ ~(i <= Len(e)) => i - Len(e) \in 1 .. Len(n)
        /\ j <= Len(e) => j \in 1 .. Len(e)
        /\ ~(j <= Len(e)) => j - Len(e) \in 1 .. Len(n)
    BY <1>3
  <2>2. CASE i <= Len(e) /\ j <= Len(e)
    BY <1>3, <1>4, <1>5, <2>1, <2>2
  <2>3. CASE ~(i <= Len(e)) /\ ~(j <= Len(e))
    <3>1. n[i - Len(e)] = n[j - Len(e)]
      BY <1>4, <1>5, <2>3
    <3>2. i - Len(e) = j - Len(e)
      BY <1>3, <2>1, <2>3, <3>1
    <3>3. QED
      BY <2>1, <3>2
  <2>4. CASE ~(i <= Len(e) <=> j <= Len(e))
    BY <1>3, <1>4, <1>5, <2>1, <2>4
  <2>5. QED
    BY <2>2, <2>3, <2>4
<1>6. Distinct(e \o n)
  BY <1>4, <1>5 DEF Distinct
<1>7. QED
  BY <1>2, <1>4, <1>6 DEF Lists

\* Numbers have a least one, and so an element has a first place in a list.
LEMMA MinIsThere ==
  ASSUME NEW T \in SUBSET Nat, T # {}
  PROVE  Min(T) \in T
BY Least DEF Min

\* The k-th element of a set of places is the one that k - 1 of them precede.
LEMMA Counting ==
  ASSUME NEW n \in Nat, NEW P \in SUBSET (1 .. n), NEW k \in 1 .. Cardinality(P)
  PROVE  \E i \in P : Cardinality({j \in P : j < i}) = k - 1
<1> DEFINE Before(i) == {j \in P : j < i}
           size == Cardinality(P)
           f == [i \in P |-> Cardinality(Before(i))]
<1>1. IsFiniteSet(P) /\ size \in Nat
  <2>1. IsFiniteSet(1 .. n)
    BY FS_Interval
  <2>2. IsFiniteSet(P)
    BY <2>1, FS_Subset
  <2>3. QED
    BY <2>2, FS_CardinalityType
<1> HIDE DEF size
<1>2. ASSUME NEW i \in P
      PROVE  IsFiniteSet(Before(i)) /\ Cardinality(Before(i)) \in 0 .. size - 1
  <2>1. IsFiniteSet(P \ {i}) /\ Cardinality(P \ {i}) = size - 1
    BY <1>1, FS_RemoveElement DEF size
  <2>2. Before(i) \in SUBSET (P \ {i})
    OBVIOUS
  <2>3. IsFiniteSet(Before(i)) /\ Cardinality(Before(i)) <= size - 1
    BY <2>1, <2>2, FS_Subset
  <2>4. Cardinality(Before(i)) \in Nat
    BY <2>3, FS_CardinalityType
  <2>5. QED
    BY <2>3, <2>4, <1>1
<1>3. ASSUME NEW i \in P, NEW j \in P, i < j
      PROVE  Cardinality(Before(i)) < Cardinality(Before(j))
  <2>1. Before(i) \cup {i} \in SUBSET Before(j) /\ i \notin Before(i)
    <3>1. \A x \in Before(i) : x < j
      BY <1>3
    <3>2. \A x \in Before(i) \cup {i} : x \in Before(j)
      BY <1>3, <3>1
    <3>3. i \notin Before(i)
      OBVIOUS
    <3>4. QED
      BY <3>2, <3>3
  <2>2. Cardinality(Before(i) \cup {i}) = Cardinality(Before(i)) + 1
    BY <2>1, <1>2, FS_AddElement
  <2>3. Cardinality(Before(i) \cup {i}) <= Cardinality(Before(j))
    BY <2>1, <1>2, FS_Subset
  <2>4. QED
    BY <2>2, <2>3, <1>2
<1>4. f \in Injection(P, 0 .. size - 1)
  <2>1. f \in [P -> 0 .. size - 1]
    BY <1>2
  <2>2. \A i, j \in P : f[i] = f[j] => i = j
    BY <1>2, <1>3
  <2> HIDE DEF f
  <2>3. QED
    BY <2>1, <2>2 DEF Injection, IsInjective
<1>5. IsFiniteSet(0 .. size - 1) /\ Cardinality(0 .. size - 1) = size
  BY <1>1, FS_Interval
<1>6. f \in Surjection(P, 0 .. size - 1)
  <2> HIDE DEF f
  <2>1. QED
    BY <1>4, <1>5, FS_Injection DEF size
<1>7. PICK i \in P : f[i] = k - 1
  <2>1. k - 1 \in 0 .. size - 1
    BY <1>1 DEF size
  <2> HIDE DEF f
  <2>2. QED
    BY <1>6, <2>1 DEF Surjection
<1>8. QED
  BY <1>7

LEMMA CandidatesAreDistinct ==
  ASSUME networks \in Lists, NEW isRpc \in BOOLEAN
  PROVE  Net!Candidates(isRpc) \in Lists
<1> DEFINE P == {i \in 1 .. Len(networks) : networks[i].isRpc = isRpc}
           At(k) == CHOOSE i \in P : Cardinality({j \in P : j < i}) = k - 1
           list == [k \in 1 .. Cardinality(P) |-> networks[At(k)]]
<1>1. Len(networks) \in Nat /\ Cardinality(P) \in Nat
  <2>1. Len(networks) \in Nat /\ IsFiniteSet(1 .. Len(networks))
    BY FS_Interval DEF Lists
  <2>2. IsFiniteSet(P)
    BY <2>1, FS_Subset
  <2>3. QED
    BY <2>1, <2>2, FS_CardinalityType
<1>2. \A k \in 1 .. Cardinality(P) :
        At(k) \in P /\ Cardinality({j \in P : j < At(k)}) = k - 1
  <2> HIDE DEF P
  <2>0. P \in SUBSET (1 .. Len(networks))
    BY DEF P
  <2>1. \A k \in 1 .. Cardinality(P) : \E i \in P : Cardinality({j \in P : j < i}) = k - 1
    BY <1>1, <2>0, Counting
  <2>2. QED
    BY <2>1
<1> HIDE DEF At
<1>3. list \in Seq(Objects)
  <2>1. \A k \in 1 .. Cardinality(P) : At(k) \in 1 .. Len(networks)
    BY <1>2
  <2>2. \A k \in 1 .. Cardinality(P) : networks[At(k)] \in Objects
    BY <2>1 DEF Lists
  <2>3. QED
    BY <1>1, <2>2
<1>4. \A k, l \in 1 .. Cardinality(P) : At(k) = At(l) => k = l
  <2>1. \A k, l \in 1 .. Cardinality(P) : At(k) = At(l) => k - 1 = l - 1
    BY <1>2
  <2>2. QED
    BY <2>1, <1>1
<1>5. \A k, l \in 1 .. Cardinality(P) : networks[At(k)] = networks[At(l)] => k = l
  <2>1. \A k \in 1 .. Cardinality(P) : At(k) \in 1 .. Len(networks)
    BY <1>2
  <2>2. QED
    BY <1>4, <2>1 DEF Lists, Distinct
<1>6. Distinct(list)
  BY <1>5 DEF Distinct
<1>7. Net!Candidates(isRpc) = list
  BY DEF Net!Candidates, At, Net!Cardinality, Cardinality, Net!IsFiniteSet, IsFiniteSet
<1>8. QED
  BY <1>3, <1>6, <1>7 DEF Lists

-----------------------------------------------------------------------------
\* Calls

Funcs == Net!AskNodes \cup Net!AskExplorers
Calls ==
  [func : Funcs, at : {"asking", "pausing", "resting", "returned", "failed"},
   isRpc : BOOLEAN, list : Lists, i : Nat, attempts : Nat, trial : Int,
   asked : SUBSET Objects, answer : {"none", "result", "an error's body", "throws"}]

\* The k-th attempt, from 0: its place in a list of n of which the i-th is
\* preferred, and its network.
Place(n, i, k) == ((i - 1 + k) % n) + 1
Nth(c, k) == c.list[Place(Len(c.list), c.i, k)]
AskedIn(c, n) == {Nth(c, k) : k \in 0 .. n - 1}

\* What a call has asked is the networks of its attempts so far, each once.
Walks(c) ==
  /\ c.at \in {"asking", "pausing"} => c.i \in 1 .. Len(c.list) /\ c.attempts \in 1 .. Len(c.list)
  /\ c.at = "asking" => c.asked = AskedIn(c, c.attempts - 1)
  /\ c.at = "pausing" => c.attempts < Len(c.list) /\ c.asked = AskedIn(c, c.attempts)
  /\ c.at \in {"resting", "failed"} => c.asked = {c.list[i] : i \in 1 .. Len(c.list)}

NetIInv ==
  /\ switches \in Nat /\ networks \in Lists
  /\ DOMAIN calls = 1 .. MaxCalls
  /\ \A c \in 1 .. MaxCalls : calls[c] = Net!Idle \/ (calls[c] \in Calls /\ Walks(calls[c]))

LEMMA Places ==
  ASSUME NEW n \in Nat, n > 0, NEW i \in 1 .. n
  PROVE  /\ \A k \in 0 .. n - 1 : Place(n, i, k) \in 1 .. n
         /\ \A k, l \in 0 .. n - 1 : Place(n, i, k) = Place(n, i, l) => k = l
         /\ \A p \in 1 .. n : \E k \in 0 .. n - 1 : Place(n, i, k) = p
<1>1. \A k \in 0 .. n - 1 : Place(n, i, k) = IF i + k <= n THEN i + k ELSE i + k - n
  BY DEF Place
<1>2. \A k \in 0 .. n - 1 : Place(n, i, k) \in 1 .. n
  BY <1>1
<1>3. \A k, l \in 0 .. n - 1 : Place(n, i, k) = Place(n, i, l) => k = l
  BY <1>1
<1>4. ASSUME NEW p \in 1 .. n PROVE \E k \in 0 .. n - 1 : Place(n, i, k) = p
  <2>1. CASE p >= i
    <3>1. p - i \in 0 .. n - 1 /\ Place(n, i, p - i) = p
      BY <1>1, <2>1
    <3>2. QED
      BY <3>1
  <2>2. CASE p < i
    <3>1. p - i + n \in 0 .. n - 1 /\ Place(n, i, p - i + n) = p
      BY <1>1, <2>2
    <3>2. QED
      BY <3>1
  <2>3. QED
    BY <2>1, <2>2
<1>5. QED
  BY <1>2, <1>3, <1>4

\* The attempts go through the list, each network in its turn.
LEMMA AttemptsDiffer ==
  ASSUME NEW c \in Calls, c.i \in 1 .. Len(c.list)
  PROVE  /\ \A k \in 0 .. Len(c.list) - 1 : Nth(c, k) \in Objects
         /\ \A k, l \in 0 .. Len(c.list) - 1 : Nth(c, k) = Nth(c, l) => k = l
         /\ AskedIn(c, Len(c.list)) = {c.list[i] : i \in 1 .. Len(c.list)}
<1> DEFINE n == Len(c.list)
<1>1. c.list \in Seq(Objects) /\ Distinct(c.list)
  BY DEF Calls, Lists
<1>2. n \in Nat /\ n > 0 /\ DOMAIN c.list = 1 .. n /\ \A p \in 1 .. n : c.list[p] \in Objects
  BY <1>1
<1> HIDE DEF n
<1>3. /\ \A k \in 0 .. n - 1 : Place(n, c.i, k) \in 1 .. n
      /\ \A k, l \in 0 .. n - 1 : Place(n, c.i, k) = Place(n, c.i, l) => k = l
      /\ \A p \in 1 .. n : \E k \in 0 .. n - 1 : Place(n, c.i, k) = p
  BY <1>2, Places DEF n
<1>4. \A k \in 0 .. n - 1 : Nth(c, k) \in Objects
  BY <1>2, <1>3 DEF Nth, n
<1>5. \A k, l \in 0 .. n - 1 : Nth(c, k) = Nth(c, l) => k = l
  BY <1>1, <1>2, <1>3 DEF Nth, Distinct, n
<1>6. AskedIn(c, n) = {c.list[p] : p \in 1 .. n}
  <2>1. \A k \in 0 .. n - 1 : Nth(c, k) = c.list[Place(n, c.i, k)]
    BY DEF Nth, n
  <2>2. \A x \in AskedIn(c, n) : x \in {c.list[p] : p \in 1 .. n}
    BY <1>3, <2>1 DEF AskedIn
  <2>3. \A p \in 1 .. n : c.list[p] \in AskedIn(c, n)
    BY <1>3, <2>1 DEF AskedIn
  <2>4. QED
    BY <2>2, <2>3
<1>7. QED
  BY <1>4, <1>5, <1>6 DEF n

\* A call begins.
LEMMA AttemptBegins ==
  ASSUME networks \in Lists, NEW func \in Funcs, NEW isRpc \in BOOLEAN, NEW trial \in Int
  PROVE  LET c == Net!Attempting(func, isRpc, trial)
         IN  c \in Calls /\ Walks(c)
<1> DEFINE list == Net!Candidates(isRpc)
           T == {i \in 1 .. Len(list) : list[i] = current[Net!KindOf(isRpc)]}
           i == IF (IF T # {} THEN Min(T) ELSE 0) = 0 THEN 1 ELSE IF T # {} THEN Min(T) ELSE 0
           at == IF list = <<>> THEN Net!Exhausted(func) ELSE "asking"
           c == Net!Attempting(func, isRpc, trial)
<1>1. c = [func |-> func, at |-> at, isRpc |-> isRpc, list |-> list, i |-> i,
           attempts |-> 1, trial |-> trial, asked |-> {}, answer |-> "none"]
  BY DEF Net!Attempting, Net!SelectInSeq, Net!Min, Min
<1>2. list \in Lists
  BY CandidatesAreDistinct
<1>3. T \in SUBSET (1 .. Len(list))
  OBVIOUS
<1> HIDE DEF list, T
<1>4. list \in Seq(Objects)
  BY <1>2 DEF Lists
<1>5. list # <<>> => Len(list) \in Nat /\ Len(list) > 0 /\ i \in 1 .. Len(list)
  <2>1. T # {} => Min(T) \in T
    <3>1. T \in SUBSET Nat
      BY <1>3, <1>4
    <3>2. QED
      BY <3>1, MinIsThere
  <2>2. i \in {1} \cup T
    BY <2>1
  <2>3. list # <<>> => Len(list) \in Nat /\ Len(list) > 0
    BY <1>4, EmptySeq
  <2> HIDE DEF i
  <2>4. QED
    BY <1>3, <2>2, <2>3
<1>6. i \in Nat
  <2>0. T \in SUBSET Nat
    BY <1>3, <1>4
  <2>1. T # {} => Min(T) \in Nat
    BY <2>0, MinIsThere
  <2>2. QED
    BY <2>1
<1>7. at \in {"asking", "resting", "failed"} /\ (list = <<>> <=> at # "asking")
  BY DEF Net!Exhausted
<1> HIDE DEF i, at, c
<1>8. c \in Calls
  BY <1>1, <1>2, <1>6, <1>7 DEF Calls
<1>9. Walks(c)
  <2>1. CASE list = <<>>
    <3>1. {list[p] : p \in 1 .. Len(list)} = {}
      BY <2>1
    <3>2. QED
      BY <1>1, <1>7, <2>1, <3>1 DEF Walks
  <2>2. CASE list # <<>>
    <3>1. AskedIn(c, 0) = {}
      BY DEF AskedIn
    <3>2. c.at = "asking" /\ c.attempts = 1 /\ c.attempts - 1 = 0 /\ c.list = list
          /\ c.i = i /\ c.asked = {}
      BY <1>1, <1>7, <2>2
    <3>3. c.i \in 1 .. Len(c.list) /\ c.attempts \in 1 .. Len(c.list)
      BY <1>5, <2>2, <3>2
    <3>4. QED
      BY <3>1, <3>2, <3>3 DEF Walks
  <2>3. QED
    BY <2>1, <2>2
<1>10. QED
  BY <1>8, <1>9 DEF c

\* An answer arrives.
LEMMA MissKeepsWalk ==
  ASSUME NEW c \in Calls, Walks(c), c.at = "asking"
  PROVE  Net!Missed(c) \in Calls /\ Walks(Net!Missed(c))
<1> DEFINE n == Len(c.list)
           next == IF c.attempts < n THEN "pausing" ELSE Net!Exhausted(c.func)
           d == [c EXCEPT !.asked = @ \cup {Net!AttemptNet(c)}, !.at = next]
<1>1. /\ c.i \in 1 .. n /\ c.attempts \in 1 .. n /\ c.asked = AskedIn(c, c.attempts - 1)
      /\ n \in Nat
  <2>1. c.list \in Seq(Objects)
    BY DEF Calls, Lists
  <2>2. n \in Nat
    BY <2>1
  <2>3. QED
    BY <2>2 DEF Walks
<1>2. Net!AttemptNet(c) = Nth(c, c.attempts - 1)
  BY <1>1 DEF Net!AttemptNet, Nth, Place
<1>3. Net!Missed(c) = d
  BY DEF Net!Missed, Calls
<1>4. Net!AttemptNet(c) \in Objects
  BY <1>1, <1>2, AttemptsDiffer
<1>5. next \in {"pausing", "resting", "failed"}
  BY DEF Net!Exhausted
<1> HIDE DEF next
<1>6. d \in Calls
  BY <1>4, <1>5 DEF Calls
<1>7. d.asked = AskedIn(c, c.attempts)
  <2>1. d.asked = AskedIn(c, c.attempts - 1) \cup {Nth(c, c.attempts - 1)}
    BY <1>1, <1>2 DEF Calls
  <2> DEFINE a == c.attempts
  <2>2. a \in Nat /\ a > 0 /\ 0 .. a - 1 = (0 .. (a - 1) - 1) \cup {a - 1}
    BY <1>1
  <2>3. AskedIn(c, a) = AskedIn(c, a - 1) \cup {Nth(c, a - 1)}
    <3> HIDE DEF a
    <3>1. QED
      BY <2>2 DEF AskedIn
  <2>4. QED
    BY <2>1, <2>3
<1>8. d.list = c.list /\ d.i = c.i /\ d.attempts = c.attempts /\ d.at = next
  BY DEF Calls
<1>9. AskedIn(d, d.attempts) = AskedIn(c, c.attempts)
  BY <1>8 DEF AskedIn, Nth
<1>10. Walks(d)
  <2>1. CASE c.attempts < n
    BY <1>1, <1>7, <1>8, <1>9, <2>1 DEF Walks, next
  <2>2. CASE ~(c.attempts < n)
    <3>1. c.attempts = n /\ next \in {"resting", "failed"}
      BY <1>1, <2>2 DEF next, Net!Exhausted
    <3>2. d.asked = {c.list[p] : p \in 1 .. n}
      BY <1>1, <1>7, <3>1, AttemptsDiffer
    <3>3. QED
      BY <1>8, <3>1, <3>2 DEF Walks
  <2>3. QED
    BY <2>1, <2>2
<1>11. QED
  BY <1>3, <1>6, <1>10

LEMMA OthersKeepWalk ==
  ASSUME NEW c \in Calls, Walks(c)
  PROVE  /\ c.at = "asking" => \A answer \in {"result", "an error's body", "throws"} :
              Net!Returned(c, answer) \in Calls /\ Walks(Net!Returned(c, answer))
         /\ c.at = "pausing" =>
              LET d == [c EXCEPT !.at = "asking", !.attempts = @ + 1]
              IN  d \in Calls /\ Walks(d)
         /\ c.at = "resting" => LET d == [c EXCEPT !.at = "failed"] IN d \in Calls /\ Walks(d)
<1>1. ASSUME c.at = "asking", NEW answer \in {"result", "an error's body", "throws"}
      PROVE  Net!Returned(c, answer) \in Calls /\ Walks(Net!Returned(c, answer))
  BY DEF Net!Returned, Calls, Walks
<1>2. ASSUME c.at = "pausing"
      PROVE  LET d == [c EXCEPT !.at = "asking", !.attempts = @ + 1]
             IN  d \in Calls /\ Walks(d)
  <2> DEFINE d == [c EXCEPT !.at = "asking", !.attempts = @ + 1]
  <2>1. /\ c.i \in 1 .. Len(c.list) /\ c.attempts \in 1 .. Len(c.list)
        /\ c.attempts < Len(c.list) /\ c.asked = AskedIn(c, c.attempts)
    BY <1>2 DEF Walks
  <2>2. Len(c.list) \in Nat
    <3>1. c.list \in Seq(Objects)
      BY DEF Calls, Lists
    <3>2. QED
      BY <3>1
  <2>3. /\ d \in Calls /\ d.list = c.list /\ d.i = c.i /\ d.asked = c.asked
        /\ d.attempts = c.attempts + 1 /\ d.at = "asking"
    <3>1. c.attempts \in Nat /\ c.attempts + 1 \in Nat
      BY <2>1, <2>2
    <3>2. QED
      BY <3>1 DEF Calls
  <2>4. AskedIn(d, c.attempts) = AskedIn(c, c.attempts)
    BY <2>3 DEF AskedIn, Nth
  <2> HIDE DEF d
  <2>5. d.attempts - 1 = c.attempts /\ d.attempts \in 1 .. Len(d.list)
    BY <2>1, <2>2, <2>3
  <2>6. Walks(d)
    BY <2>1, <2>3, <2>4, <2>5 DEF Walks
  <2>7. QED
    BY <2>3, <2>6 DEF d
<1>3. ASSUME c.at = "resting"
      PROVE  LET d == [c EXCEPT !.at = "failed"] IN d \in Calls /\ Walks(d)
  <2> DEFINE d == [c EXCEPT !.at = "failed"]
  <2>1. d \in Calls /\ d.at = "failed" /\ d.list = c.list /\ d.asked = c.asked
    BY DEF Calls
  <2> HIDE DEF d
  <2>2. Walks(d)
    BY <1>3, <2>1 DEF Walks
  <2>3. QED
    BY <2>1, <2>2 DEF d
<1>4. QED
  BY <1>1, <1>2, <1>3

\* One call takes a step, or the list and the selection change.
LEMMA CallsKeepNetIInv ==
  ASSUME NetIInv, NEW c \in 1 .. MaxCalls, UNCHANGED <<switches, networks>>,
         NEW d, d = Net!Idle \/ (d \in Calls /\ Walks(d)),
         calls' = [calls EXCEPT ![c] = d]
  PROVE  NetIInv'
BY DEF NetIInv

LEMMA SelectionKeepsNetIInv ==
  ASSUME NetIInv, Net!NetNext, UNCHANGED calls
  PROVE  NetIInv'
<1>1. switches' \in {switches, switches + 1} /\ networks' \in {networks, <<>>, Net!ListOf(networks)}
  BY DEF Net!NetNext, Net!RotateNetworks, Net!ToggleTestnet, Net!FillSelects, Net!SetExplorer,
         Net!SetNode, Net!SettingsWritten, Net!SetNetwork, Net!Call, Net!Reply, Net!NextAttempt,
         Net!Rested, Net!FallBack, Net!Return, Net!selection
<1>2. <<>> \in Lists /\ Net!ListOf(networks) \in Lists
  BY StartsDistinct DEF NetIInv, Net!ListOf, Lists, Distinct
<1>3. QED
  BY <1>1, <1>2 DEF NetIInv

LEMMA NetKeepsIInv ==
  ASSUME NetIInv, Net!NetNext
  PROVE  NetIInv'
<1> USE DEF Net!selection
<1>1. ASSUME NEW c \in 1 .. MaxCalls, NEW f \in Funcs, Net!Call(c, f) PROVE NetIInv'
  <2>1. Net!Attempting(f, f \in Net!AskNodes, 1) \in Calls
        /\ Walks(Net!Attempting(f, f \in Net!AskNodes, 1))
    <3>1. (f \in Net!AskNodes) \in BOOLEAN /\ 1 \in Int /\ networks \in Lists
      BY DEF NetIInv
    <3> DEFINE asksNodes == f \in Net!AskNodes
    <3> HIDE DEF asksNodes
    <3>2. Net!Attempting(f, asksNodes, 1) \in Calls /\ Walks(Net!Attempting(f, asksNodes, 1))
      BY <3>1, AttemptBegins DEF asksNodes
    <3>3. QED
      BY <3>2 DEF asksNodes
  <2>2. QED
    BY <1>1, <2>1, CallsKeepNetIInv DEF Net!Call
<1>2. ASSUME NEW c \in 1 .. MaxCalls, NEW r \in Net!Replies, Net!Reply(c, r) PROVE NetIInv'
  <2>1. calls[c].at = "asking" /\ calls[c] \in Calls /\ Walks(calls[c])
    BY <1>2 DEF NetIInv, Net!Reply, Net!Idle
  <2> DEFINE outcome == Net!Outcome(calls[c].func, calls[c].isRpc, r)
             d == IF outcome = "throws" THEN Net!Missed(calls[c])
                  ELSE Net!Returned(calls[c], outcome)
  <2>2. outcome \in {"result", "an error's body", "throws"}
    BY DEF Net!Outcome, Net!NodeOutcome, Net!CallRPC, Net!SendOutcome, Net!ExplorerOutcome
  <2>3. calls' = [calls EXCEPT ![c] = d] /\ UNCHANGED <<switches, networks>>
    BY <1>2 DEF Net!Reply, NetIInv
  <2> HIDE DEF outcome
  <2>4. d \in Calls /\ Walks(d)
    BY <2>1, <2>2, MissKeepsWalk, OthersKeepWalk
  <2>5. QED
    BY <2>3, <2>4, CallsKeepNetIInv
<1>3. ASSUME NEW c \in 1 .. MaxCalls, Net!NextAttempt(c) PROVE NetIInv'
  <2>1. calls[c].at = "pausing" /\ calls[c] \in Calls /\ Walks(calls[c])
    BY <1>3 DEF NetIInv, Net!NextAttempt, Net!Idle
  <2> DEFINE d == [calls[c] EXCEPT !.at = "asking", !.attempts = @ + 1]
  <2>2. d \in Calls /\ Walks(d)
    BY <2>1, OthersKeepWalk
  <2>3. calls' = [calls EXCEPT ![c] = d]
    BY <1>3 DEF Net!NextAttempt, NetIInv
  <2> HIDE DEF d
  <2>4. QED
    BY <1>3, <2>2, <2>3, CallsKeepNetIInv DEF Net!NextAttempt
<1>4. ASSUME NEW c \in 1 .. MaxCalls, Net!Rested(c) PROVE NetIInv'
  <2>1. calls[c].at = "resting" /\ calls[c] \in Calls /\ Walks(calls[c])
    BY <1>4 DEF NetIInv, Net!Rested, Net!Idle
  <2> DEFINE over == [calls[c] EXCEPT !.at = "failed"]
             again == Net!Attempting(calls[c].func, calls[c].isRpc, calls[c].trial + 1)
  <2>2. over \in Calls /\ Walks(over)
    BY <2>1, OthersKeepWalk
  <2>3. again \in Calls /\ Walks(again)
    <3>1. calls[c].func \in Funcs /\ calls[c].isRpc \in BOOLEAN /\ calls[c].trial \in Int
      BY <2>1 DEF Calls
    <3>2. QED
      BY <3>1, AttemptBegins DEF NetIInv
  <2>4. \/ calls' = [calls EXCEPT ![c] = over]
        \/ calls' = [calls EXCEPT ![c] = again]
    BY <1>4 DEF Net!Rested, NetIInv
  <2> HIDE DEF over, again
  <2>5. UNCHANGED <<switches, networks>>
    BY <1>4 DEF Net!Rested
  <2>6. QED
    BY <2>2, <2>3, <2>4, <2>5, CallsKeepNetIInv
<1>5. ASSUME NEW c \in 1 .. MaxCalls, Net!FallBack(c) PROVE NetIInv'
  <2>1. calls[c] \in Calls
    BY <1>5 DEF NetIInv, Net!FallBack, Net!Idle
  <2> DEFINE again == Net!Attempting(calls[c].func, FALSE, 1)
  <2>2. again \in Calls /\ Walks(again)
    <3>1. calls[c].func \in Funcs
      BY <2>1 DEF Calls
    <3>2. FALSE \in BOOLEAN /\ 1 \in Int /\ networks \in Lists
      BY DEF NetIInv
    <3>3. QED
      BY <3>1, <3>2, AttemptBegins
  <2>3. calls' = [calls EXCEPT ![c] = again]
    BY <1>5 DEF Net!FallBack, NetIInv
  <2> HIDE DEF again
  <2>4. QED
    BY <1>5, <2>2, <2>3, CallsKeepNetIInv DEF Net!FallBack
<1>6. ASSUME NEW c \in 1 .. MaxCalls, Net!Return(c) PROVE NetIInv'
  BY <1>6, CallsKeepNetIInv DEF Net!Return
<1>7. CASE UNCHANGED calls
  BY <1>7, SelectionKeepsNetIInv
<1>8. QED
  BY <1>1, <1>2, <1>3, <1>4, <1>5, <1>6, <1>7
     DEF Net!NetNext, Funcs, Net!RotateNetworks, Net!ToggleTestnet, Net!FillSelects,
         Net!SetExplorer, Net!SetNode, Net!SettingsWritten

LEMMA NetFails ==
  ASSUME NetIInv, NEW c \in 1 .. MaxCalls
  PROVE  /\ calls[c].at \in {"resting", "failed"} =>
              Len(calls[c].list) = Cardinality(calls[c].asked)
         /\ calls[c].at = "asking" => Net!AttemptNet(calls[c]) \notin calls[c].asked
<1>1. ASSUME calls[c].at \in {"resting", "failed"}
      PROVE  Len(calls[c].list) = Cardinality(calls[c].asked)
  <2> DEFINE list == calls[c].list
  <2>1. calls[c] \in Calls /\ calls[c].asked = {list[i] : i \in 1 .. Len(list)}
    BY <1>1 DEF NetIInv, Walks, Net!Idle
  <2>2. list \in Seq(Objects) /\ Distinct(list)
    BY <2>1 DEF Calls, Lists
  <2> HIDE DEF list
  <2>3. list \in Bijection(1 .. Len(list), {list[i] : i \in 1 .. Len(list)})
    <3>1. list \in [1 .. Len(list) -> {list[i] : i \in 1 .. Len(list)}]
      BY <2>2
    <3>2. QED
      BY <2>2, <3>1 DEF Bijection, Injection, Surjection, IsInjective, Distinct
  <2>4. IsFiniteSet(1 .. Len(list)) /\ Cardinality(1 .. Len(list)) = Len(list)
    <3>1. Len(list) \in Nat
      BY <2>2
    <3>2. \A n \in Nat : IsFiniteSet(1 .. n) /\ Cardinality(1 .. n) = n
      BY FS_Interval
    <3>3. QED
      BY <3>1, <3>2
  <2>5. QED
    BY <2>1, <2>3, <2>4, FS_Bijection DEF ExistsBijection, list
<1>2. ASSUME calls[c].at = "asking"
      PROVE  Net!AttemptNet(calls[c]) \notin calls[c].asked
  <2> DEFINE d == calls[c]
  <2>1. /\ d \in Calls /\ d.i \in 1 .. Len(d.list) /\ d.attempts \in 1 .. Len(d.list)
        /\ d.asked = AskedIn(d, d.attempts - 1)
    BY <1>2 DEF NetIInv, Walks, Net!Idle
  <2> HIDE DEF d
  <2>2. Net!AttemptNet(d) = Nth(d, d.attempts - 1)
    <3>1. d.attempts \in Int /\ d.i \in Int
      BY <2>1
    <3>2. QED
      BY <3>1 DEF Net!AttemptNet, Nth, Place
  <2>3. \A k, l \in 0 .. Len(d.list) - 1 : Nth(d, k) = Nth(d, l) => k = l
    BY <2>1, AttemptsDiffer
  <2>4. Len(d.list) \in Nat
    <3>1. d.list \in Seq(Objects)
      BY <2>1 DEF Calls, Lists
    <3>2. QED
      BY <3>1
  <2>5. \A k \in 0 .. (d.attempts - 1) - 1 : Nth(d, k) # Nth(d, d.attempts - 1)
    BY <2>1, <2>3, <2>4
  <2>6. QED
    BY <2>1, <2>2, <2>5 DEF AskedIn, d
<1>3. QED
  BY <1>1, <1>2

\* No network is skipped or asked twice before a call fails, whatever is
\* selected, rotated or replaced while it is under way.
THEOREM FailsOnlyAfterAllHolds == LegacySpec => []FailsOnlyAfterAll
<1>1. LegacyInit => NetIInv
  BY DEF LegacyInit, Net!NetInit, NetIInv, Lists, Distinct, Net!Idle
<1>2. NetIInv /\ UNCHANGED netVars => NetIInv'
  BY DEF NetIInv, netVars, Walks, Nth
<1>3. [LegacyNext]_allVars => Net!NetNext \/ UNCHANGED netVars
  BY DEF LegacyNext, Others, allVars
<1>4. NetIInv /\ [LegacyNext]_allVars => NetIInv'
  BY <1>2, <1>3, NetKeepsIInv
<1>5. NetIInv => FailsOnlyAfterAll
  BY NetFails
     DEF FailsOnlyAfterAll, Net!FailsOnlyAfterAll, Net!Cardinality, Cardinality,
         Net!IsFiniteSet, IsFiniteSet
<1>6. QED
  BY <1>1, <1>4, <1>5, PTL DEF LegacySpec, allVars

-----------------------------------------------------------------------------
\* The gifts and the list of promos

GiftIInv == timers \in Nat /\ Gift!BoxReturns /\ promoThread \in Gifts \cup {NoGift}

LEMMA GiftKeepsIInv == ASSUME GiftIInv, Gift!RedeemNext PROVE GiftIInv'
<1> USE PromosAssumption DEF GiftIInv, Gift!BoxReturns, Gift!resetRedeemPromo, Gift!Told
<1>1. ASSUME NEW code \in Gifts, Gift!redeemPromoCode(code) PROVE GiftIInv'
  BY <1>1 DEF Gift!redeemPromoCode
<1>2. ASSUME NEW code \in Gifts, Gift!Verified(code) PROVE GiftIInv'
  <2>1. /\ box' = box /\ promoThread' = promoThread
        /\ \/ UNCHANGED <<cPromoWallet, timers>>
           \/ timers' = timers + 1
    BY <1>2 DEF Gift!Verified
  <2>2. QED BY <2>1
<1>3. CASE Gift!Unwrapped
  BY <1>3 DEF Gift!Unwrapped
<1>4. CASE Gift!ResetFires
  BY <1>4 DEF Gift!ResetFires
<1>5. CASE Gift!Claimed
  BY <1>5 DEF Gift!Claimed
<1>6. ASSUME NEW t \in Taps, Gift!sweepPromoCode(t) PROVE GiftIInv'
  BY <1>6 DEF Gift!sweepPromoCode
<1>7. ASSUME NEW t \in Taps, Gift!Swept(t) PROVE GiftIInv'
  BY <1>7 DEF Gift!Swept
<1>8. ASSUME NEW t \in Taps, Gift!SweepEnds(t) PROVE GiftIInv'
  BY <1>8 DEF Gift!SweepEnds
<1>9. QED
  BY <1>1, <1>2, <1>3, <1>4, <1>5, <1>6, <1>7, <1>8 DEF Gift!RedeemNext

\* fLock keeps the requests of one code apart, so that what an answer tells is
\* no older than what was heard before.
Memory == [fLock : BOOLEAN, fSynced : BOOLEAN, utxos : Int]
ListIInv ==
  /\ chain \in [StoredCodes -> Nat] /\ heard \in [StoredCodes -> Nat]
  /\ arrPromoCodes \in [StoredCodes -> Memory \cup {NoPromo}]
  /\ flights \subseteq [code : StoredCodes, number : Int, answer : Int] /\ listings \in Int
  /\ \A c \in StoredCodes :
       /\ heard[c] <= chain[c]
       /\ arrPromoCodes[c] # NoPromo => arrPromoCodes[c].utxos = heard[c]
       /\ arrPromoCodes[c] = NoPromo => heard[c] = List!Nothing
  /\ \A f \in flights :
       /\ arrPromoCodes[f.code] # NoPromo /\ arrPromoCodes[f.code].fLock
       /\ f.answer = List!Unmade \/ f.answer \in heard[f.code] .. chain[f.code]
       /\ \A g \in flights : f.code = g.code => f = g

LEMMA ListKeepsIInv == ASSUME ListIInv, List!ListNext PROVE ListIInv'
<1> USE PromosAssumption DEF ListIInv, Memory, List!Unmade, List!Nothing
<1>1. CASE List!renderSavedPromos
  <2> DEFINE free == {c \in StoredCodes : List!MaySync(List!Promo(c))}
             New(c) == [code |-> c, number |-> listings, answer |-> List!Unmade]
  <2>1. /\ listings' \in Int /\ UNCHANGED <<chain, heard>>
        /\ arrPromoCodes' = [c \in StoredCodes |->
             IF c \in free THEN [List!Promo(c) EXCEPT !.fLock = TRUE] ELSE List!Promo(c)]
        /\ flights' = flights \cup {New(c) : c \in free}
    BY <1>1 DEF List!renderSavedPromos
  <2>2. \A c \in StoredCodes :
          /\ List!Promo(c) \in Memory /\ List!Promo(c).utxos = heard[c]
          /\ arrPromoCodes[c] # NoPromo => List!Promo(c) = arrPromoCodes[c]
          /\ arrPromoCodes[c] = NoPromo => ~List!Promo(c).fLock
          /\ c \in free <=> ~List!Promo(c).fLock
    BY DEF List!Promo, List!InMemory, List!MaySync
  <2>3. \A c \in StoredCodes :
          /\ arrPromoCodes'[c] \in Memory /\ arrPromoCodes'[c].fLock
          /\ arrPromoCodes'[c].utxos = heard[c]
    <3>1. ASSUME NEW p \in Memory
          PROVE  LET locks == [p EXCEPT !.fLock = TRUE]
                 IN  locks \in Memory /\ locks.fLock /\ locks.utxos = p.utxos
      OBVIOUS
    <3>2. ASSUME NEW c \in StoredCodes
          PROVE  /\ arrPromoCodes'[c] \in Memory /\ arrPromoCodes'[c].fLock
                 /\ arrPromoCodes'[c].utxos = heard[c]
      <4> DEFINE p == List!Promo(c)
                 locks == [p EXCEPT !.fLock = TRUE]
      <4>1. arrPromoCodes'[c] = IF c \in free THEN locks ELSE p
        BY <2>1
      <4>2. p \in Memory /\ p.utxos = heard[c] /\ (c \notin free => p.fLock)
        BY <2>2
      <4>3. locks \in Memory /\ locks.fLock /\ locks.utxos = p.utxos
        BY <3>1, <4>2
      <4> HIDE DEF p, locks, free, Memory
      <4>4. QED
        BY <4>1, <4>2, <4>3
    <3>3. QED
      BY <3>2
  <2>4. \A f \in flights : f.code \in StoredCodes \ free
    BY <2>2
  <2> HIDE DEF free
  <2>5. \A c \in StoredCodes : New(c) \in [code : StoredCodes, number : Int, answer : Int]
                               /\ New(c).code = c /\ New(c).answer = List!Unmade
    OBVIOUS
  <2> HIDE DEF New
  <2>6. \A f, g \in flights' : f.code = g.code => f = g
    BY <2>1, <2>4, <2>5 DEF free
  <2>7. arrPromoCodes' \in [StoredCodes -> Memory \cup {NoPromo}]
    BY <2>1, <2>3
  <2>8. \A f \in flights' : f \in flights \/ \E c \in StoredCodes : f = New(c)
    BY <2>1 DEF free
  <2>9. flights' \subseteq [code : StoredCodes, number : Int, answer : Int]
    BY <2>5, <2>8
  <2>10. \A f \in flights' : f.answer = List!Unmade \/ f.answer \in heard'[f.code] .. chain'[f.code]
    BY <2>1, <2>5, <2>8
  <2>11. \A c \in StoredCodes : arrPromoCodes'[c] # NoPromo
    BY <2>3 DEF Memory
  <2>12. /\ chain' \in [StoredCodes -> Nat] /\ heard' \in [StoredCodes -> Nat]
         /\ \A c \in StoredCodes : heard'[c] <= chain'[c]
    BY <2>1
  <2>13. /\ \A c \in StoredCodes : arrPromoCodes'[c].utxos = heard'[c]
         /\ \A f \in flights' : f.code \in StoredCodes /\ arrPromoCodes'[f.code].fLock
    BY <2>1, <2>3, <2>9
  <2>14. QED
    BY <2>1, <2>6, <2>7, <2>9, <2>10, <2>11, <2>12, <2>13, Zenon
<1>2. CASE List!World
  BY <1>2 DEF List!World
<1>3. ASSUME NEW f \in flights, List!Answers(f) PROVE ListIInv'
  BY <1>3 DEF List!Answers
<1>4. ASSUME NEW f \in flights, List!Synced(f) PROVE ListIInv'
  <2> DEFINE c == f.code
             new == [fLock |-> FALSE, fSynced |-> TRUE, utxos |-> f.answer]
  <2>0. /\ f.answer # List!Unmade /\ flights' = flights \ {f}
        /\ chain' = chain /\ listings' = listings
        /\ arrPromoCodes' = [arrPromoCodes EXCEPT ![c] = new]
        /\ heard' = [heard EXCEPT ![c] = IF f.answer > heard[c] THEN f.answer ELSE heard[c]]
    BY <1>4, Zenon DEF List!Synced
  <2>1. /\ c \in StoredCodes /\ heard[c] \in Nat /\ f.answer \in Int /\ f.answer \in heard[c] .. chain[c]
    BY <2>0
  <2>2. /\ f.answer \in Nat /\ new \in Memory /\ new # NoPromo
        /\ heard' = [heard EXCEPT ![c] = f.answer]
    <3>1. f.answer \in Nat /\ f.answer >= heard[c]
      BY <2>1
    <3>2. (IF f.answer > heard[c] THEN f.answer ELSE heard[c]) = f.answer
      BY <3>1, <2>1
    <3>3. new \in Memory
      BY <3>1
    <3>4. QED
      BY <2>0, <3>1, <3>2, <3>3
  <2>3. \A g \in flights' : g \in flights /\ g.code \in StoredCodes /\ g.code # c
    BY <2>0
  <2>4. \A d \in StoredCodes : d # c => arrPromoCodes'[d] = arrPromoCodes[d] /\ heard'[d] = heard[d]
    BY <2>0, <2>1, <2>2
  <2>5. arrPromoCodes'[c] = new /\ heard'[c] = f.answer
    BY <2>0, <2>1, <2>2
  <2>6. /\ heard' \in [StoredCodes -> Nat]
        /\ arrPromoCodes' \in [StoredCodes -> Memory \cup {NoPromo}]
    BY <2>0, <2>1, <2>2
  <2>7. \A d \in StoredCodes :
          /\ heard'[d] <= chain'[d]
          /\ arrPromoCodes'[d] # NoPromo => arrPromoCodes'[d].utxos = heard'[d]
          /\ arrPromoCodes'[d] = NoPromo => heard'[d] = List!Nothing
    BY <2>0, <2>1, <2>2, <2>4, <2>5
  <2>8. \A g \in flights' :
          /\ arrPromoCodes'[g.code] # NoPromo /\ arrPromoCodes'[g.code].fLock
          /\ g.answer = List!Unmade \/ g.answer \in heard'[g.code] .. chain'[g.code]
          /\ \A h \in flights' : g.code = h.code => g = h
    BY <2>0, <2>1, <2>2, <2>3, <2>4, <2>5
  <2>9. QED
    BY <2>0, <2>2, <2>6, <2>7, <2>8
<1>5. ASSUME NEW f \in flights, List!Fails(f) PROVE ListIInv'
  BY <1>5 DEF List!Fails
<1>6. QED
  BY <1>1, <1>2, <1>3, <1>4, <1>5 DEF List!ListNext

LEMMA ListFollows == ListIInv => List!ListIsLatest
BY DEF ListIInv, List!ListIsLatest, List!promosToCSV, List!InMemory, List!getBalance

-----------------------------------------------------------------------------
\* The codes that are made: threads, and the ticks that pay and store them.

CreationType ==
  [pc : {"idle", "checking", "refused", "deriving", "derived", "terminated"},
   code : PromoCodes, key : BOOLEAN, end_state : {"", "Done", "Cancelled"}]
TickType ==
  [pc : {"idle", "listing", "rendering", "unlocking", "sending", "drawn", "saving"},
   from : {"call", "timer", "mode"}, i : Nat, id : Creations \cup {0}]

PromosTypeOK ==
  /\ creation \in [Creations -> CreationType] /\ creating \in Seq(Creations)
  /\ promosDB \subseteq PromoCodes /\ paid \in [PromoCodes -> Nat]
  /\ locked \in BOOLEAN /\ orderly \in BOOLEAN
  /\ ticks \in [Ticks -> TickType]

\* Of a tick: between renderSavedPromos and its end, it pays, it stores.
OnWalk(tick) == tick.pc \notin {"idle", "listing"}
Pays(tick) == tick.pc \in {"unlocking", "sending"}
Saves(tick) == tick.pc = "saving"

\* What is stored was paid, as is what is to be stored.
MayStore(tick) ==
  /\ Pays(tick) \/ Saves(tick) => tick.id \in Creations
  /\ Saves(tick) => paid[creation[tick.id].code] > 0
StoresPaid ==
  /\ \A c \in promosDB : paid[c] > 0
  /\ \A id \in Creations : creation[id].end_state = "Done" => paid[creation[id].code] > 0
  /\ \A t \in Ticks : MayStore(ticks[t])

\* One tick at a time walks over the threads, its code keeps its place among
\* them, and those it did not come to yet are not paid.
OneTick == \A t, u \in Ticks : OnWalk(ticks[t]) /\ OnWalk(ticks[u]) => t = u
InPlace(tick) ==
  /\ Pays(tick) => /\ tick.i \in DOMAIN creating /\ creating[tick.i] = tick.id
                   /\ creation[tick.id].end_state = ""
  /\ tick.pc = "unlocking" => locked
  /\ Saves(tick) => \E j \in DOMAIN creating : creating[j] = tick.id
\* The next code to pay, from a place on.
Paying(tick, i) ==
  /\ tick.i \in DOMAIN creating /\ tick.i >= i /\ creating[tick.i] = tick.id
  /\ tick.id \in Creations /\ creation[tick.id].end_state = ""
PlaceIsKept == \A t \in Ticks : InPlace(ticks[t])
PaidOnce ==
  /\ \A c \in PromoCodes :
       /\ paid[c] <= 1
       /\ paid[c] = 1 => \/ c \in promosDB
                         \/ \E j \in DOMAIN creating : creation[creating[j]].code = c
  /\ \A j \in DOMAIN creating :
       creation[creating[j]].end_state = "" => paid[creation[creating[j]].code] = 0

ThreadsDiffer ==
  \A i, j \in DOMAIN creating : creation[creating[i]].code = creation[creating[j]].code => i = j

PromosIInv ==
  /\ PromosTypeOK /\ ThreadsDiffer /\ StoresPaid
  /\ orderly => OneTick /\ PlaceIsKept /\ PaidOnce /\ deleting = {}

\* A sequence without one of its elements.
LEMMA Removed ==
  ASSUME NEW S, NEW s \in Seq(S), NEW n \in 1 .. Len(s)
  PROVE  LET r == Promo!RemoveAt(s, n)
         IN  /\ r \in Seq(S) /\ Len(r) = Len(s) - 1
             /\ \A j \in 1 .. Len(r) : r[j] = IF j < n THEN s[j] ELSE s[j + 1]
<1> DEFINE a == SubSeq(s, 1, n - 1)
           b == SubSeq(s, n + 1, Len(s))
           r == Promo!RemoveAt(s, n)
<1>1. Len(s) \in Nat /\ n \in Nat /\ n >= 1 /\ n <= Len(s)
  OBVIOUS
<1>2. /\ a \in Seq(S) /\ Len(a) = n - 1
      /\ \A j \in 1 .. n - 1 : a[j] = s[j]
  BY <1>1
<1>3. /\ b \in Seq(S) /\ Len(b) = Len(s) - n
      /\ \A j \in 1 .. Len(s) - n : b[j] = s[n + j]
  BY <1>1
<1> HIDE DEF a, b
<1>4. r = a \o b
  BY DEF a, b, Promo!RemoveAt
<1>5. r \in Seq(S) /\ Len(r) = Len(s) - 1
  <2>1. a \o b \in Seq(S) /\ Len(a \o b) = Len(a) + Len(b)
    BY <1>2, <1>3, ConcatProperties, Zenon
  <2>2. Len(a) + Len(b) = Len(s) - 1
    BY <1>1, <1>2, <1>3
  <2>3. QED
    BY <1>4, <2>1, <2>2, Zenon
<1>6. ASSUME NEW j \in 1 .. Len(r)
      PROVE  r[j] = IF j < n THEN s[j] ELSE s[j + 1]
  <2>1. CASE j < n
    BY <1>1, <1>2, <1>3, <1>4, <1>5, <2>1
  <2>2. CASE ~(j < n)
    <3>1. r[j] = b[j - (n - 1)] /\ j - (n - 1) \in 1 .. Len(s) - n
      BY <1>1, <1>2, <1>3, <1>4, <1>5, <2>2
    <3>2. n + (j - (n - 1)) = j + 1
      BY <1>1
    <3>3. QED
      BY <1>3, <2>2, <3>1, <3>2
  <2>3. QED
    BY <2>1, <2>2
<1>7. QED
  BY <1>5, <1>6

\* A thread that leaves the list takes no other one with it, unless its code is
\* not there.
LEMMA Spliced ==
  ASSUME PromosTypeOK, ThreadsDiffer, NEW code
  PROVE  LET s == Promo!SpliceCode(code)
         IN  /\ s \in Seq(Creations)
             /\ \A i, j \in DOMAIN s : creation[s[i]].code = creation[s[j]].code => i = j
             /\ \A k, l \in DOMAIN creating :
                  /\ creation[creating[k]].code = code /\ creation[creating[l]].code # code
                  => \E j \in DOMAIN s : s[j] = creating[l]
             /\ \A j \in DOMAIN s : \E k \in DOMAIN creating : s[j] = creating[k]
<1> DEFINE found == {i \in DOMAIN creating : creation[creating[i]].code = code}
           n == IF found = {} THEN Len(creating) ELSE Min(found)
           s == Promo!SpliceCode(code)
<1>1. creating \in Seq(Creations) /\ Len(creating) \in Nat /\ DOMAIN creating = 1 .. Len(creating)
  BY DEF PromosTypeOK
<1>2. s = IF creating = <<>> THEN creating ELSE Promo!RemoveAt(creating, n)
  BY DEF Promo!SpliceCode, Promo!Thread, Promo!Min, Min
<1> HIDE DEF s
<1>3. CASE creating = <<>>
  <2>1. s = creating /\ DOMAIN s = {} /\ DOMAIN creating = {}
    BY <1>1, <1>2, <1>3, EmptySeq
  <2>2. QED
    BY <1>1, <2>1 DEF s
<1>4. CASE creating # <<>>
  <2>1. found \in SUBSET Nat
    BY <1>1
  <2>2. found # {} => Min(found) \in found
    BY <2>1, MinIsThere
  <2>3. n \in 1 .. Len(creating)
    BY <1>1, <1>4, <2>2, EmptySeq
  <2> HIDE DEF n
  <2>4. /\ s \in Seq(Creations) /\ Len(s) = Len(creating) - 1
        /\ \A j \in 1 .. Len(s) : s[j] = IF j < n THEN creating[j] ELSE creating[j + 1]
    BY <1>1, <1>2, <1>4, <2>3, Removed
  <2>5. DOMAIN s = 1 .. Len(creating) - 1
    BY <1>1, <2>4
  <2>6. \A j \in DOMAIN s : s[j] = creating[IF j < n THEN j ELSE j + 1]
    BY <2>4, <2>5
  <2>7. \A j \in DOMAIN s : (IF j < n THEN j ELSE j + 1) \in DOMAIN creating
    BY <1>1, <2>3, <2>5
  <2>8. ASSUME NEW i \in DOMAIN s, NEW j \in DOMAIN s, creation[s[i]].code = creation[s[j]].code
        PROVE  i = j
    <3>1. (IF i < n THEN i ELSE i + 1) = (IF j < n THEN j ELSE j + 1)
      BY <2>6, <2>7, <2>8 DEF ThreadsDiffer
    <3>2. QED
      BY <1>1, <2>3, <2>5, <3>1
  <2>9. ASSUME NEW k \in DOMAIN creating, NEW l \in DOMAIN creating,
               creation[creating[k]].code = code, creation[creating[l]].code # code
        PROVE  \E j \in DOMAIN s : s[j] = creating[l]
    <3>1. found # {} /\ n \in found
      BY <2>2, <2>9 DEF n
    <3>2. l # n
      BY <2>9, <3>1
    <3>3. CASE l < n
      BY <1>1, <2>3, <2>5, <2>6, <3>3
    <3>4. CASE l > n
      <4>1. l - 1 \in DOMAIN s /\ ~(l - 1 < n) /\ (l - 1) + 1 = l
        BY <1>1, <2>3, <2>5, <3>4
      <4>2. QED
        BY <2>6, <4>1
    <3>5. QED
      BY <1>1, <2>3, <3>2, <3>3, <3>4
  <2>10. QED
    <3>1. s \in Seq(Creations)
      BY <2>4
    <3>2. \A j \in DOMAIN s : \E k \in DOMAIN creating : s[j] = creating[k]
      BY <2>6, <2>7
    <3>3. QED
      BY <2>8, <2>9, <3>1, <3>2, Zenon DEF s
<1>5. QED
  BY <1>3, <1>4 DEF s

\* Where a tick goes on to pay.
LEMMA PaysNext ==
  ASSUME PromosTypeOK, NEW t \in Ticks, NEW i \in Nat \ {0}, locked' \in BOOLEAN, Promo!PayFrom(t, i)
  PROVE  \E r \in TickType :
           /\ ticks' = [ticks EXCEPT ![t] = r]
           /\ \/ r.pc = "drawn"
              \/ r.pc = (IF locked' THEN "unlocking" ELSE "sending") /\ Paying(r, i)
<1> DEFINE js == {j \in i .. Len(creating) : creating[j] \in {id \in Creations : Promo!Unpaid(id)}}
<1>1. ticks' = IF js = {} THEN [ticks EXCEPT ![t].pc = "drawn", ![t].i = 0, ![t].id = 0]
               ELSE [ticks EXCEPT ![t].pc = IF locked' THEN "unlocking" ELSE "sending",
                                  ![t].i = Min(js), ![t].id = creating[Min(js)]]
  BY DEF Promo!PayFrom, Promo!From, Promo!Min, Min
<1>2. ticks[t] \in TickType /\ t \in DOMAIN ticks
  BY DEF PromosTypeOK
<1>3. Len(creating) \in Nat /\ DOMAIN creating = 1 .. Len(creating)
  BY DEF PromosTypeOK
<1>4. CASE js = {}
  <2> DEFINE r == [ticks[t] EXCEPT !.pc = "drawn", !.i = 0, !.id = 0]
  <2>1. r \in TickType /\ r.pc = "drawn"
    BY <1>2 DEF TickType
  <2>2. ticks' = [ticks EXCEPT ![t] = r]
    BY <1>1, <1>2, <1>4 DEF TickType
  <2>3. QED
    BY <2>1, <2>2
<1>5. CASE js # {}
  <2> DEFINE m == Min(js)
             pc == IF locked' THEN "unlocking" ELSE "sending"
             r == [ticks[t] EXCEPT !.pc = pc, !.i = m, !.id = creating[m]]
  <2>1. js \in SUBSET Nat
    BY <1>3
  <2>2. m \in js
    BY <1>5, <2>1, MinIsThere
  <2> HIDE DEF m
  <2>3. /\ m \in Nat /\ m >= i /\ m \in DOMAIN creating
        /\ creating[m] \in Creations /\ creation[creating[m]].end_state = ""
    <3>1. m \in i .. Len(creating)
      BY <2>2, Zenon
    <3>2. creating[m] \in Creations
      BY <2>2, Zenon
    <3>3. creation[creating[m]].end_state = ""
      BY <2>2, Zenon DEF Promo!Unpaid, Promo!Thread
    <3>4. m \in Nat /\ m >= i /\ m \in 1 .. Len(creating)
      BY <1>3, <3>1
    <3>5. QED
      BY <1>3, <3>2, <3>3, <3>4, Zenon
  <2>4. ticks' = [ticks EXCEPT ![t].pc = pc, ![t].i = m, ![t].id = creating[m]]
    BY <1>1, <1>5 DEF m
  <2> HIDE DEF js
  <2>5. r \in TickType /\ r.pc = pc /\ r.i = m /\ r.id = creating[m]
    BY <1>2, <2>3 DEF TickType
  <2>6. ticks' = [ticks EXCEPT ![t] = r]
    BY <1>2, <2>4 DEF TickType
  <2>7. Paying(r, i)
    BY <2>3, <2>5 DEF Paying
  <2>8. QED
    BY <2>5, <2>6, <2>7
<1>6. QED
  BY <1>4, <1>5

\* Where it goes on to store.
LEMMA StoresNext ==
  ASSUME PromosTypeOK, NEW t \in Ticks, NEW i \in Nat \ {0}, NEW threads \in Seq(Creations),
         Promo!StoreFrom(t, i, threads)
  PROVE  \E r \in TickType :
           /\ ticks' = [ticks EXCEPT ![t] = r]
           /\ \/ r.pc = "idle"
              \/ /\ r.pc = "saving" /\ r.id \in Creations /\ creation[r.id].end_state = "Done"
                 /\ \E j \in DOMAIN threads : threads[j] = r.id
<1> DEFINE js == {j \in i .. Len(threads) : threads[j] \in {id \in Creations : Promo!Done(id)}}
<1>1. ticks' = IF js = {} THEN [ticks EXCEPT ![t] = Promo!Idle]
               ELSE [ticks EXCEPT ![t].pc = "saving", ![t].i = Min(js), ![t].id = threads[Min(js)]]
  BY DEF Promo!StoreFrom, Promo!From, Promo!Min, Min
<1>2. ticks[t] \in TickType /\ t \in DOMAIN ticks
  BY DEF PromosTypeOK
<1>3. Len(threads) \in Nat /\ DOMAIN threads = 1 .. Len(threads)
  OBVIOUS
<1>4. CASE js = {}
  <2>1. Promo!Idle \in TickType /\ Promo!Idle.pc = "idle"
    BY DEF TickType, Promo!Idle
  <2>2. ticks' = [ticks EXCEPT ![t] = Promo!Idle]
    BY <1>1, <1>4
  <2>3. QED
    BY <2>1, <2>2
<1>5. CASE js # {}
  <2> DEFINE m == Min(js)
             r == [ticks[t] EXCEPT !.pc = "saving", !.i = m, !.id = threads[m]]
  <2>1. js \in SUBSET Nat
    BY <1>3
  <2>2. m \in js
    BY <1>5, <2>1, MinIsThere
  <2> HIDE DEF m
  <2>3. /\ m \in Nat /\ m \in DOMAIN threads
        /\ threads[m] \in Creations /\ creation[threads[m]].end_state = "Done"
    BY <1>3, <2>2 DEF Promo!Done, Promo!Thread
  <2>4. ticks' = [ticks EXCEPT ![t].pc = "saving", ![t].i = m, ![t].id = threads[m]]
    BY <1>1, <1>5 DEF m
  <2> HIDE DEF js
  <2>5. r \in TickType /\ r.pc = "saving" /\ r.id = threads[m]
    BY <1>2, <2>3 DEF TickType
  <2>6. ticks' = [ticks EXCEPT ![t] = r]
    BY <1>2, <2>4 DEF TickType
  <2>7. QED
    BY <2>3, <2>5, <2>6
<1>6. QED
  BY <1>4, <1>5

-----------------------------------------------------------------------------
\* Steps of the ticks and of the threads

\* A tick that takes the only step of a walk.
LEMMA TickSteps ==
  ASSUME PromosIInv, NEW t \in Ticks, NEW r \in TickType, ticks' = [ticks EXCEPT ![t] = r],
         \A id \in Creations : creation'[id].code = creation[id].code,
         \A c \in PromoCodes : paid'[c] >= paid[c], paid' \in [PromoCodes -> Nat],
         MayStore(r)',
         orderly' => /\ orderly /\ InPlace(r)'
                     /\ \A u \in Ticks \ {t} : ~OnWalk(ticks[u])
  PROVE  /\ ticks' \in [Ticks -> TickType]
         /\ \A u \in Ticks : MayStore(ticks[u])'
         /\ orderly' => (OneTick /\ PlaceIsKept)'
<1>1. ticks \in [Ticks -> TickType] /\ creation \in [Creations -> CreationType]
      /\ paid \in [PromoCodes -> Nat]
  BY DEF PromosIInv, PromosTypeOK
<1>2. /\ ticks' \in [Ticks -> TickType] /\ ticks'[t] = r
      /\ \A u \in Ticks \ {t} : ticks'[u] = ticks[u]
  BY <1>1
<1>3. ASSUME NEW u \in Ticks PROVE MayStore(ticks[u])'
  <2>1. CASE u = t
    BY <1>2, <2>1 DEF MayStore, Pays, Saves
  <2>2. CASE u # t
    <3>1. MayStore(ticks[u]) /\ ticks'[u] = ticks[u]
      BY <1>2, <2>2 DEF PromosIInv, StoresPaid
    <3>2. \A id \in Creations :
            /\ creation[id].code \in PromoCodes /\ creation'[id].code = creation[id].code
            /\ paid[creation[id].code] \in Nat /\ paid'[creation[id].code] \in Nat
            /\ paid'[creation[id].code] >= paid[creation[id].code]
      BY <1>1 DEF CreationType
    <3>3. QED
      BY <3>1, <3>2 DEF MayStore, Pays, Saves
  <2>3. QED
    BY <2>1, <2>2
<1>4. orderly' => \A u \in Ticks : u # t => ~OnWalk(ticks[u])'
  BY <1>2 DEF OnWalk
<1>5. orderly' => OneTick'
  BY <1>4 DEF OneTick
<1>6. ASSUME orderly', NEW u \in Ticks PROVE InPlace(ticks[u])'
  <2>1. CASE u = t
    BY <1>2, <1>6, <2>1 DEF InPlace, Pays, Saves
  <2>2. CASE u # t
    BY <1>4, <1>6, <2>2 DEF InPlace, Pays, Saves, OnWalk
  <2>3. QED
    BY <2>1, <2>2
<1>7. QED
  BY <1>2, <1>3, <1>5, <1>6 DEF PlaceIsKept

\* While the threads and what is paid and stored stay as they are.
LEMMA WalkKeepsPromosIInv ==
  ASSUME PromosIInv, NEW t \in Ticks, NEW r \in TickType, ticks' = [ticks EXCEPT ![t] = r],
         UNCHANGED <<creation, creating, promosDB, paid, deleting>>,
         locked' \in BOOLEAN, orderly' \in BOOLEAN, MayStore(r)',
         orderly' => /\ orderly /\ InPlace(r)'
                     /\ \A u \in Ticks \ {t} : ~OnWalk(ticks[u])
  PROVE  PromosIInv'
<1>1. \A c \in PromoCodes : paid'[c] >= paid[c]
  BY DEF PromosIInv, PromosTypeOK
<1>2. PromosTypeOK /\ paid' \in [PromoCodes -> Nat]
  BY DEF PromosIInv, PromosTypeOK
<1>3. /\ ticks' \in [Ticks -> TickType]
      /\ \A u \in Ticks : MayStore(ticks[u])'
      /\ orderly' => (OneTick /\ PlaceIsKept)'
  BY <1>1, <1>2, TickSteps
<1>4. PromosTypeOK'
  BY <1>2, <1>3 DEF PromosTypeOK
<1>5. ThreadsDiffer' /\ StoresPaid'
  BY <1>3 DEF PromosIInv, ThreadsDiffer, StoresPaid
<1>6. orderly' => PaidOnce' /\ deleting' = {}
  BY DEF PromosIInv, PaidOnce
<1>7. QED
  BY <1>3, <1>4, <1>5, <1>6 DEF PromosIInv

LEMMA TicksBegin ==
  ASSUME PromosIInv, NEW t \in Ticks, NEW from \in {"call", "timer"}, Promo!BeginTick(t, from)
  PROVE  \E r \in TickType :
           /\ ticks' = [ticks EXCEPT ![t] = r] /\ r.pc = "rendering"
           /\ orderly' \in BOOLEAN
           /\ orderly' => orderly /\ \A u \in Ticks : ~OnWalk(ticks[u])
<1> DEFINE r == [Promo!Idle EXCEPT !.pc = "rendering", !.from = from]
<1>1. r \in TickType /\ r.pc = "rendering"
  BY DEF TickType, Promo!Idle
<1>2. /\ ticks' = [ticks EXCEPT ![t] = r] 
      /\ orderly' = (orderly /\ \A u \in Ticks : Promo!FreeTick(u))
  BY Zenon DEF Promo!BeginTick
<1>3. orderly' \in BOOLEAN
  BY <1>2, Zenon
<1>4. orderly' => orderly /\ \A u \in Ticks : ~OnWalk(ticks[u])
  BY <1>2 DEF Promo!FreeTick, OnWalk
<1>5. QED
  BY <1>1, <1>2, <1>3, <1>4

\* A tick that leaves its walk, or that is not on one yet.
LEMMA AwayKeepsPromosIInv ==
  ASSUME PromosIInv, NEW t \in Ticks, NEW r \in TickType, ticks' = [ticks EXCEPT ![t] = r], ~OnWalk(r),
         UNCHANGED <<creation, creating, promosDB, paid, locked, deleting, orderly>>
  PROVE  PromosIInv'
<1>1. ticks \in [Ticks -> TickType] /\ PromosTypeOK
  BY DEF PromosIInv, PromosTypeOK
<1>2. /\ ticks' \in [Ticks -> TickType] /\ ticks'[t] = r
      /\ \A u \in Ticks \ {t} : ticks'[u] = ticks[u]
  BY <1>1
<1>3. PromosTypeOK'
  BY <1>1, <1>2 DEF PromosTypeOK
<1>4. \A u \in Ticks : MayStore(ticks[u])'
  BY <1>2 DEF PromosIInv, StoresPaid, MayStore, Pays, Saves, OnWalk
<1>5. orderly' => OneTick'
  BY <1>2 DEF PromosIInv, OneTick, OnWalk
<1>6. orderly' => PlaceIsKept'
  BY <1>2 DEF PromosIInv, PlaceIsKept, InPlace, Pays, Saves, OnWalk
<1>7. ThreadsDiffer' /\ StoresPaid'
  BY <1>4 DEF PromosIInv, ThreadsDiffer, StoresPaid
<1>8. orderly' => PaidOnce' /\ deleting' = {}
  BY DEF PromosIInv, PaidOnce
<1>9. QED
  BY <1>3, <1>5, <1>6, <1>7, <1>8 DEF PromosIInv

LEMMA setPromoModeKeeps ==
  ASSUME PromosIInv, NEW t \in Ticks, Promo!setPromoMode(t)
  PROVE  PromosIInv'
<1>1. PICK r \in TickType : r = [Promo!Idle EXCEPT !.pc = "listing", !.from = "mode"]
  BY DEF TickType, Promo!Idle
<1>2. ticks' = [ticks EXCEPT ![t] = r] /\ ~OnWalk(r)
  BY <1>1 DEF Promo!setPromoMode, Promo!Idle, OnWalk
<1>3. QED
  BY <1>2, AwayKeepsPromosIInv DEF Promo!setPromoMode

LEMMA TimerFiresKeeps ==
  ASSUME PromosIInv, NEW t \in Ticks, Promo!TimerFires(t)
  PROVE  PromosIInv'
<1>1. Promo!BeginTick(t, "timer") /\ UNCHANGED <<creation, creating, promosDB, paid, locked, deleting>>
  BY DEF Promo!TimerFires
<1>2. PICK r \in TickType :
        /\ ticks' = [ticks EXCEPT ![t] = r] /\ r.pc = "rendering"
        /\ orderly' \in BOOLEAN
        /\ orderly' => orderly /\ \A u \in Ticks : ~OnWalk(ticks[u])
  BY <1>1, TicksBegin
<1>3. MayStore(r)' /\ InPlace(r)'
  BY <1>2 DEF MayStore, InPlace, Pays, Saves
<1>4. locked' \in BOOLEAN
  BY <1>1 DEF PromosIInv, PromosTypeOK
<1>5. QED
  BY <1>1, <1>2, <1>3, <1>4, WalkKeepsPromosIInv

LEMMA RenderedKeeps ==
  ASSUME PromosIInv, NEW t \in Ticks, Promo!Rendered(t)
  PROVE  PromosIInv'
<1>1. UNCHANGED <<creation, creating, promosDB, paid, locked, deleting>>
  BY DEF Promo!Rendered
<1>2. PromosTypeOK /\ ticks[t] \in TickType /\ locked' \in BOOLEAN /\ orderly \in BOOLEAN
  BY <1>1 DEF PromosIInv, PromosTypeOK
<1>3. CASE ticks[t].pc = "rendering" /\ Promo!PayFrom(t, 1) /\ UNCHANGED orderly
  <2>1. PICK r \in TickType :
          /\ ticks' = [ticks EXCEPT ![t] = r]
          /\ \/ r.pc = "drawn"
             \/ r.pc = (IF locked' THEN "unlocking" ELSE "sending") /\ Paying(r, 1)
    <3>1. 1 \in Nat \ {0}
      OBVIOUS
    <3>2. QED
      BY <1>2, <1>3, <3>1, PaysNext
  <2>2. MayStore(r)' /\ InPlace(r)'
    BY <1>1, <1>2, <2>1 DEF MayStore, InPlace, Pays, Saves, Paying
  <2>3. orderly' => \A u \in Ticks \ {t} : ~OnWalk(ticks[u])
    BY <1>3 DEF PromosIInv, OneTick, OnWalk
  <2>4. QED
    BY <1>1, <1>2, <1>3, <2>1, <2>2, <2>3, WalkKeepsPromosIInv
<1>4. CASE ticks' = [ticks EXCEPT ![t] = Promo!Idle] /\ UNCHANGED orderly /\ ticks[t].pc = "listing"
  <2>1. Promo!Idle \in TickType /\ Promo!Idle.pc = "idle"
    BY DEF TickType, Promo!Idle
  <2>2. QED
    BY <1>1, <1>4, <2>1, AwayKeepsPromosIInv DEF OnWalk
<1>5. CASE /\ ticks' = [ticks EXCEPT ![t].pc = "rendering"]
           /\ orderly' = (orderly /\ \A u \in Ticks \ {t} : Promo!FreeTick(u))
  <2>1. PICK r \in TickType : r = [ticks[t] EXCEPT !.pc = "rendering"] /\ r.pc = "rendering"
    <3> DEFINE r == [ticks[t] EXCEPT !.pc = "rendering"]
    <3>1. r \in TickType /\ r.pc = "rendering"
      BY <1>2 DEF TickType
    <3>2. QED
      BY <3>1
  <2>2. ticks' = [ticks EXCEPT ![t] = r]
    BY <1>5, <2>1
  <2>3. MayStore(r)' /\ InPlace(r)'
    BY <2>1 DEF MayStore, InPlace, Pays, Saves
  <2>4. orderly' \in BOOLEAN
    BY <1>5, Zenon
  <2>5. orderly' => orderly /\ \A u \in Ticks \ {t} : ~OnWalk(ticks[u])
    BY <1>5 DEF Promo!FreeTick, OnWalk
  <2>6. QED
    BY <1>1, <1>2, <2>1, <2>2, <2>3, <2>4, <2>5, WalkKeepsPromosIInv
<1>6. QED
  BY <1>3, <1>4, <1>5, Zenon DEF Promo!Rendered

LEMMA DrawnKeeps ==
  ASSUME PromosIInv, NEW t \in Ticks, Promo!Drawn(t)
  PROVE  PromosIInv'
<1>1. /\ UNCHANGED <<creation, creating, promosDB, paid, locked, deleting, orderly>>
      /\ ticks[t].pc = "drawn" /\ Promo!StoreFrom(t, 1, creating)
  BY DEF Promo!Drawn
<1>2. /\ PromosTypeOK /\ locked' \in BOOLEAN /\ orderly' \in BOOLEAN /\ creating \in Seq(Creations)
  BY <1>1 DEF PromosIInv, PromosTypeOK
<1>3. PICK r \in TickType :
        /\ ticks' = [ticks EXCEPT ![t] = r]
        /\ \/ r.pc = "idle"
           \/ /\ r.pc = "saving" /\ r.id \in Creations /\ creation[r.id].end_state = "Done"
              /\ \E j \in DOMAIN creating : creating[j] = r.id
  BY <1>1, <1>2, StoresNext
<1>4. MayStore(r)' /\ InPlace(r)'
  BY <1>1, <1>3 DEF PromosIInv, StoresPaid, MayStore, InPlace, Pays, Saves
<1>5. orderly' => orderly /\ \A u \in Ticks \ {t} : ~OnWalk(ticks[u])
  BY <1>1 DEF PromosIInv, OneTick, OnWalk
<1>6. QED
  BY <1>1, <1>2, <1>3, <1>4, <1>5, WalkKeepsPromosIInv

\* What a code is called and how it ended stay as they are.
LEMMA QuietKeepsPromosIInv ==
  ASSUME PromosIInv, creation' \in [Creations -> CreationType],
         \A id \in Creations : /\ creation'[id].code = creation[id].code
                               /\ creation'[id].end_state = creation[id].end_state,
         UNCHANGED <<creating, promosDB, paid, ticks, deleting, orderly>>,
         locked' \in BOOLEAN, locked => locked'
  PROVE  PromosIInv'
<1>1. PromosTypeOK
  BY DEF PromosIInv
<1>2. PromosTypeOK'
  BY <1>1 DEF PromosTypeOK
<1>3. \A j \in DOMAIN creating : creating[j] \in Creations
  BY <1>1 DEF PromosTypeOK
<1>4. ThreadsDiffer'
  BY <1>3 DEF PromosIInv, ThreadsDiffer
<1>5. StoresPaid'
  BY DEF PromosIInv, StoresPaid, MayStore
<1>6. orderly' => OneTick' /\ deleting' = {}
  BY DEF PromosIInv, OneTick
<1>7. orderly' => PlaceIsKept'
  <2>1. ASSUME orderly', NEW u \in Ticks PROVE InPlace(ticks[u])'
    <3>1. InPlace(ticks[u]) /\ MayStore(ticks[u])
      BY <2>1 DEF PromosIInv, PlaceIsKept, StoresPaid
    <3>2. QED
      BY <3>1 DEF InPlace, MayStore
  <2>2. QED
    BY <2>1 DEF PlaceIsKept
<1>8. ASSUME orderly' PROVE PaidOnce'
  <2>1. PaidOnce
    BY <1>8 DEF PromosIInv
  <2>2. \A j \in DOMAIN creating :
          /\ creation'[creating[j]].code = creation[creating[j]].code
          /\ creation'[creating[j]].end_state = creation[creating[j]].end_state
    BY <1>3
  <2>3. ASSUME NEW c \in PromoCodes
        PROVE  /\ paid'[c] <= 1
               /\ paid'[c] = 1 => \/ c \in promosDB'
                                 \/ \E j \in DOMAIN creating' : creation'[creating'[j]].code = c
    <3>1. paid[c] <= 1 /\ (paid[c] = 1 => c \in promosDB \/ \E j \in DOMAIN creating : creation[creating[j]].code = c)
      BY <2>1, Zenon DEF PaidOnce
    <3>2. UNCHANGED <<paid, promosDB, creating>>
      OBVIOUS
    <3>3. QED
      BY <2>2, <3>1, <3>2, Zenon
  <2>4. ASSUME NEW j \in DOMAIN creating', creation'[creating'[j]].end_state = ""
        PROVE  paid'[creation'[creating'[j]].code] = 0
    BY <2>1, <2>2, <2>4 DEF PaidOnce
  <2>5. QED
    BY <2>3, <2>4, Zenon DEF PaidOnce
<1>9. QED
  BY <1>2, <1>4, <1>5, <1>6, <1>7, <1>8 DEF PromosIInv

\* A call of createPromoCode goes on.
LEMMA CreationIsQuiet ==
  ASSUME creation \in [Creations -> CreationType], NEW id \in Creations,
         NEW c \in CreationType, creation' = [creation EXCEPT ![id] = c],
         c.code = creation[id].code, c.end_state = creation[id].end_state
  PROVE  /\ creation' \in [Creations -> CreationType]
         /\ \A i \in Creations : /\ creation'[i].code = creation[i].code
                                 /\ creation'[i].end_state = creation[i].end_state
OBVIOUS

LEMMA CreationGoesOn ==
  ASSUME creation \in [Creations -> CreationType], NEW id \in Creations,
         NEW pc \in {"checking", "refused", "deriving", "derived", "terminated"},
         NEW key \in BOOLEAN,
         \/ creation' = [creation EXCEPT ![id].pc = pc]
         \/ creation' = [creation EXCEPT ![id].pc = pc, ![id].key = key]
  PROVE  /\ creation' \in [Creations -> CreationType]
         /\ \A i \in Creations : /\ creation'[i].code = creation[i].code
                                 /\ creation'[i].end_state = creation[i].end_state
<1>1. creation[id] \in CreationType
  OBVIOUS
<1>2. CASE creation' = [creation EXCEPT ![id].pc = pc]
  <2> DEFINE c == [creation[id] EXCEPT !.pc = pc]
  <2>1. c \in CreationType /\ c.code = creation[id].code /\ c.end_state = creation[id].end_state
    BY <1>1 DEF CreationType
  <2>2. creation' = [creation EXCEPT ![id] = c]
    BY <1>2
  <2> HIDE DEF c
  <2>3. QED
    BY <2>1, <2>2, CreationIsQuiet
<1>3. CASE creation' = [creation EXCEPT ![id].pc = pc, ![id].key = key]
  <2> DEFINE c == [creation[id] EXCEPT !.pc = pc, !.key = key]
  <2>1. c \in CreationType /\ c.code = creation[id].code /\ c.end_state = creation[id].end_state
    BY <1>1 DEF CreationType
  <2>2. creation' = [creation EXCEPT ![id] = c]
    BY <1>3
  <2> HIDE DEF c
  <2>3. QED
    BY <2>1, <2>2, CreationIsQuiet
<1>4. QED
  BY <1>2, <1>3

LEMMA createPromoCodeKeeps ==
  ASSUME PromosIInv, NEW id \in Creations, Promo!createPromoCode(id) \/ Promo!Derived(id)
  PROVE  PromosIInv'
<1>1. creation \in [Creations -> CreationType] /\ locked \in BOOLEAN
  BY DEF PromosIInv, PromosTypeOK
<1>2. /\ UNCHANGED <<creating, promosDB, paid, ticks, deleting, orderly, locked>>
      /\ \/ creation' = [creation EXCEPT ![id].pc = "checking"]
         \/ creation' = [creation EXCEPT ![id].pc = "derived", ![id].key = TRUE]
  BY DEF Promo!createPromoCode, Promo!Derived
<1>3. /\ creation' \in [Creations -> CreationType]
      /\ \A i \in Creations : /\ creation'[i].code = creation[i].code
                              /\ creation'[i].end_state = creation[i].end_state
  BY <1>1, <1>2, CreationGoesOn, Zenon
<1>4. QED
  BY <1>1, <1>2, <1>3, QuietKeepsPromosIInv

LEMMA LockWalletKeeps ==
  ASSUME PromosIInv, Promo!LockWallet
  PROVE  PromosIInv'
<1>1. creation \in [Creations -> CreationType]
  BY DEF PromosIInv, PromosTypeOK
<1>2. /\ locked' = TRUE
      /\ UNCHANGED <<creation, creating, promosDB, paid, ticks, deleting, orderly>>
  BY DEF Promo!LockWallet
<1>3. QED
  BY <1>1, <1>2, QuietKeepsPromosIInv

LEMMA CheckedKeeps ==
  ASSUME PromosIInv, NEW id \in Creations, NEW t \in Ticks, Promo!Checked(id, t)
  PROVE  PromosIInv'
<1>1. UNCHANGED <<promosDB, paid, locked, deleting>>
  BY DEF Promo!Checked
<1>2. /\ PromosTypeOK /\ creation \in [Creations -> CreationType] /\ locked \in BOOLEAN
      /\ creating \in Seq(Creations) /\ Len(creating) \in Nat /\ DOMAIN creating = 1 .. Len(creating)
      /\ paid \in [PromoCodes -> Nat]
  BY DEF PromosIInv, PromosTypeOK
<1>3. CASE creation' = [creation EXCEPT ![id].pc = "refused"] /\ UNCHANGED <<creating, ticks, orderly>>
  <2>1. /\ creation' \in [Creations -> CreationType]
        /\ \A i \in Creations : /\ creation'[i].code = creation[i].code
                                /\ creation'[i].end_state = creation[i].end_state
    BY <1>2, <1>3, CreationGoesOn, Zenon
  <2>2. QED
    BY <1>1, <1>2, <1>3, <2>1, QuietKeepsPromosIInv
<1>4. CASE /\ ~Promo!AlreadyCreated(id)
           /\ creation' = [creation EXCEPT ![id].pc = "deriving"]
           /\ creating' = Append(creating, id)
           /\ Promo!BeginTick(t, "call")
  <2>1. /\ creation' \in [Creations -> CreationType]
        /\ \A i \in Creations : /\ creation'[i].code = creation[i].code
                                /\ creation'[i].end_state = creation[i].end_state
    BY <1>2, <1>4, CreationGoesOn, Zenon
  <2>2. PICK r \in TickType :
          /\ ticks' = [ticks EXCEPT ![t] = r] /\ r.pc = "rendering"
          /\ orderly' \in BOOLEAN
          /\ orderly' => orderly /\ \A u \in Ticks : ~OnWalk(ticks[u])
    BY <1>4, TicksBegin
  <2>3. MayStore(r)' /\ InPlace(r)'
    BY <2>2 DEF MayStore, InPlace, Pays, Saves
  <2>4. \A c \in PromoCodes : paid'[c] >= paid[c]
    BY <1>1, <1>2
  <2>5. /\ ticks' \in [Ticks -> TickType]
        /\ \A u \in Ticks : MayStore(ticks[u])'
        /\ orderly' => (OneTick /\ PlaceIsKept)'
    BY <1>1, <1>2, <2>1, <2>2, <2>3, <2>4, TickSteps
  <2>6. /\ creating' \in Seq(Creations) /\ DOMAIN creating' = 1 .. Len(creating) + 1
        /\ creating'[Len(creating) + 1] = id
        /\ \A j \in DOMAIN creating : creating'[j] = creating[j] /\ creating[j] \in Creations
    BY <1>2, <1>4
  <2>7. PromosTypeOK'
    BY <1>1, <1>2, <2>1, <2>2, <2>5, <2>6 DEF PromosTypeOK
  <2>8. /\ creation[id].code \notin promosDB
        /\ \A j \in DOMAIN creating : creation[creating[j]].code # creation[id].code
    BY <1>4 DEF Promo!AlreadyCreated, Promo!AlreadyStored, Promo!CodesOf, Promo!Thread, Promo!Range
  <2>9. \A j \in DOMAIN creating' : j \in DOMAIN creating \/ j = Len(creating) + 1
    BY <1>2, <2>6
  <2>10. ThreadsDiffer'
    BY <2>1, <2>6, <2>8, <2>9 DEF PromosIInv, ThreadsDiffer
  <2>11. StoresPaid'
    BY <1>1, <2>1, <2>5 DEF PromosIInv, StoresPaid
  <2>12. ASSUME orderly' PROVE PaidOnce' /\ deleting' = {}
    <3>1. PaidOnce /\ deleting = {}
      BY <2>2, <2>12 DEF PromosIInv
    <3>2. creation[id].code \in PromoCodes
      BY <1>2 DEF CreationType
    <3>3. paid[creation[id].code] = 0
      <4>1. paid[creation[id].code] \in Nat
        BY <1>2, <3>2
      <4>2. paid[creation[id].code] <= 1 /\ paid[creation[id].code] # 1
        BY <2>8, <3>1, <3>2 DEF PaidOnce
      <4>3. QED
        BY <4>1, <4>2
    <3>4. \A j \in DOMAIN creating : j \in DOMAIN creating'
      BY <1>2, <2>6
    <3>5. \A j \in DOMAIN creating' : creating'[j] \in Creations
      BY <2>6
    <3>6. ASSUME NEW c \in PromoCodes, paid[c] = 1
          PROVE  c \in promosDB \/ \E j \in DOMAIN creating' : creation'[creating'[j]].code = c
      <4>1. CASE \E j \in DOMAIN creating : creation[creating[j]].code = c
        BY <2>1, <2>6, <3>4, <4>1
      <4>2. QED
        BY <3>1, <3>6, <4>1 DEF PaidOnce
    <3>7. ASSUME NEW j \in DOMAIN creating', creation'[creating'[j]].end_state = ""
          PROVE  paid[creation'[creating'[j]].code] = 0
      <4>1. CASE j \in DOMAIN creating
        <5>1. creating'[j] = creating[j] /\ creating[j] \in Creations
          BY <2>6, <4>1
        <5>2. /\ creation'[creating[j]].code = creation[creating[j]].code
              /\ creation[creating[j]].end_state = ""
          BY <2>1, <3>7, <5>1
        <5>3. paid[creation[creating[j]].code] = 0
          BY <3>1, <4>1, <5>2 DEF PaidOnce
        <5>4. QED
          BY <5>1, <5>2, <5>3
      <4>2. CASE j = Len(creating) + 1
        BY <2>1, <2>6, <3>3, <4>2
      <4>3. QED
        BY <2>9, <4>1, <4>2
    <3>8. QED
      BY <1>1, <3>1, <3>6, <3>7 DEF PaidOnce
  <2>13. QED
    BY <2>5, <2>7, <2>10, <2>11, <2>12 DEF PromosIInv
<1>5. QED
  BY <1>3, <1>4, Zenon DEF Promo!Checked

LEMMA deletePromoCodeKeeps ==
  ASSUME PromosIInv, NEW code \in PromoCodes, Promo!deletePromoCode(code)
  PROVE  PromosIInv'
<1> DEFINE threads == {id \in Promo!Range(creating) : Promo!Thread(id).code = code}
<1>1. UNCHANGED <<promosDB, paid, locked, ticks>> /\ orderly' = FALSE
  BY DEF Promo!deletePromoCode
<1>2. /\ PromosTypeOK /\ ThreadsDiffer /\ creation \in [Creations -> CreationType] /\ creating \in Seq(Creations)
  BY DEF PromosIInv, PromosTypeOK
<1>3. /\ threads = {} => UNCHANGED <<creation, creating>>
      /\ threads # {} => /\ Promo!Terminated(CHOOSE id \in threads : TRUE)
                         /\ creating' = Promo!SpliceCode(code)
  BY DEF Promo!deletePromoCode
<1>4. /\ creation' \in [Creations -> CreationType]
      /\ \A i \in Creations : /\ creation'[i].code = creation[i].code
                              /\ creation'[i].end_state = creation[i].end_state
  <2>1. ASSUME NEW id \in Creations, Promo!Terminated(id)
        PROVE  /\ creation' \in [Creations -> CreationType]
               /\ \A i \in Creations : /\ creation'[i].code = creation[i].code
                                       /\ creation'[i].end_state = creation[i].end_state
    <3>1. CASE creation[id].pc = "deriving"
      <4>1. creation' = [creation EXCEPT ![id].pc = "terminated"]
        BY <2>1, <3>1, Zenon DEF Promo!Terminated
      <4>2. QED
        BY <1>2, <4>1, CreationGoesOn, Zenon
    <3>2. CASE creation[id].pc # "deriving"
      <4>1. creation' = [creation EXCEPT ![id] = creation[id]] /\ creation[id] \in CreationType
        BY <1>2, <2>1, <3>2 DEF Promo!Terminated, CreationType
      <4>2. QED
        BY <1>2, <4>1, CreationIsQuiet
    <3>3. QED
      BY <3>1, <3>2
  <2>3. threads # {} => (CHOOSE id \in threads : TRUE) \in Creations
    BY <1>2 DEF Promo!Range
  <2>2. QED
    BY <1>2, <1>3, <2>1, <2>3
<1>5. /\ creating' \in Seq(Creations)
      /\ \A i, j \in DOMAIN creating' :
           creation[creating'[i]].code = creation[creating'[j]].code => i = j
  <2>1. CASE threads = {}
    BY <1>2, <1>3, <2>1 DEF ThreadsDiffer
  <2>2. CASE threads # {}
    BY <1>2, <1>3, <2>2, Spliced
  <2>3. QED
    BY <2>1, <2>2
<1>6. PromosTypeOK'
  BY <1>1, <1>2, <1>4, <1>5 DEF PromosTypeOK
<1>7. \A j \in DOMAIN creating' : creating'[j] \in Creations
  BY <1>5
<1>8. ThreadsDiffer'
  BY <1>4, <1>5, <1>7 DEF ThreadsDiffer
<1>9. StoresPaid'
  BY <1>1, <1>4 DEF PromosIInv, StoresPaid, MayStore
<1>10. QED
  BY <1>1, <1>6, <1>8, <1>9 DEF PromosIInv

LEMMA DeletedKeeps ==
  ASSUME PromosIInv, NEW code \in PromoCodes, NEW t \in Ticks, Promo!Deleted(code, t)
  PROVE  PromosIInv'
<1>1. /\ UNCHANGED <<creation, creating, paid, locked>> /\ promosDB' = promosDB \ {code}
      /\ code \in deleting /\ Promo!BeginTick(t, "call")
  BY DEF Promo!Deleted
<1>2. PICK r \in TickType :
        /\ ticks' = [ticks EXCEPT ![t] = r] /\ r.pc = "rendering"
        /\ orderly' \in BOOLEAN
        /\ orderly' => orderly /\ \A u \in Ticks : ~OnWalk(ticks[u])
  BY <1>1, TicksBegin
<1>3. ~orderly'
  BY <1>1, <1>2 DEF PromosIInv
<1>4. PromosTypeOK
  BY DEF PromosIInv
<1>5. paid' \in [PromoCodes -> Nat] /\ \A c \in PromoCodes : paid'[c] >= paid[c]
  BY <1>1, <1>4 DEF PromosTypeOK
<1>6. MayStore(r)'
  BY <1>2 DEF MayStore, Pays, Saves
<1>7. ticks' \in [Ticks -> TickType] /\ \A u \in Ticks : MayStore(ticks[u])'
  BY <1>1, <1>2, <1>3, <1>5, <1>6, TickSteps
<1>8. PromosTypeOK' /\ ThreadsDiffer' /\ StoresPaid'
  BY <1>1, <1>2, <1>4, <1>7 DEF PromosIInv, PromosTypeOK, ThreadsDiffer, StoresPaid
<1>9. QED
  BY <1>3, <1>8 DEF PromosIInv

\* A code ends, paid or not, and its tick goes on.
Ends(t, paying, e, r) ==
  /\ Pays(ticks[t]) /\ (e = "Done" => paying = 1)
  /\ creation' = [creation EXCEPT ![ticks[t].id].end_state = e]
  /\ paid' \in [PromoCodes -> Nat]
  /\ paid'[creation[ticks[t].id].code] = paid[creation[ticks[t].id].code] + paying
  /\ \A c \in PromoCodes \ {creation[ticks[t].id].code} : paid'[c] = paid[c]
  /\ UNCHANGED <<creating, promosDB, deleting, orderly>> /\ locked' \in BOOLEAN
  /\ ticks' = [ticks EXCEPT ![t] = r]
  /\ ~Saves(r) /\ (Pays(r) => r.id \in Creations) /\ (r.pc = "unlocking" => locked')
  /\ orderly /\ Pays(r) => Paying(r, ticks[t].i + 1)

LEMMA EndsKeepPromosIInv ==
  ASSUME PromosIInv, NEW t \in Ticks, NEW k \in 0 .. 1, NEW e \in {"Done", "Cancelled"}, NEW r \in TickType,
         Ends(t, k, e, r)
  PROVE  PromosIInv'
<1> DEFINE id == ticks[t].id
           code == creation[id].code
<1>a. Pays(ticks[t]) /\ (e = "Done" => k = 1)
  BY Zenon DEF Ends
<1>b. /\ UNCHANGED <<creating, promosDB, deleting, orderly>> /\ locked' \in BOOLEAN
      /\ ticks' = [ticks EXCEPT ![t] = r]
      /\ paid' \in [PromoCodes -> Nat]
  BY Zenon DEF Ends
<1>c. /\ ~Saves(r) /\ (Pays(r) => r.id \in Creations) /\ (r.pc = "unlocking" => locked')
      /\ orderly /\ Pays(r) => Paying(r, ticks[t].i + 1)
  BY Zenon DEF Ends
<1>1. /\ PromosTypeOK /\ creation \in [Creations -> CreationType] /\ creating \in Seq(Creations)
      /\ ticks[t] \in TickType /\ paid \in [PromoCodes -> Nat] /\ promosDB \subseteq PromoCodes
  BY DEF PromosIInv, PromosTypeOK
<1>2. id \in Creations /\ code \in PromoCodes
  <2>1. id \in Creations
    BY <1>a DEF PromosIInv, StoresPaid, MayStore
  <2>2. QED
    BY <1>1, <2>1 DEF CreationType
<1> HIDE DEF id, code
<1>3. /\ creation' \in [Creations -> CreationType] /\ creation'[id].end_state = e
      /\ \A i \in Creations : /\ creation'[i].code = creation[i].code
                              /\ i # id => creation'[i].end_state = creation[i].end_state
  <2> DEFINE c == [creation[id] EXCEPT !.end_state = e]
  <2>1. c \in CreationType /\ c.code = creation[id].code /\ c.end_state = e
    <3>1. creation[id] \in CreationType
      BY <1>1, <1>2
    <3>2. QED
      BY <3>1 DEF CreationType
  <2>2. creation' = [creation EXCEPT ![id] = c]
    BY DEF Ends, id
  <2> HIDE DEF c
  <2>3. QED
    BY <1>1, <1>2, <2>1, <2>2
<1>4. /\ \A c \in PromoCodes : paid'[c] >= paid[c] /\ paid[c] \in Nat
      /\ paid'[code] = paid[code] + k
      /\ \A c \in PromoCodes : c # code => paid'[c] = paid[c]
  <2>1. paid'[code] = paid[code] + k
    BY Zenon DEF Ends, code, id
  <2>2. \A c \in PromoCodes : c # code => paid'[c] = paid[c]
    BY Zenon DEF Ends, code, id
  <2>3. \A c \in PromoCodes : paid[c] \in Nat
    BY <1>1
  <2>4. QED
    BY <1>2, <2>1, <2>2, <2>3
<1>5. \A j \in DOMAIN creating : creating[j] \in Creations
  BY <1>1
<1>6. orderly => OneTick /\ InPlace(ticks[t]) /\ PaidOnce
  BY DEF PromosIInv, PlaceIsKept
<1>7. orderly => /\ ticks[t].i \in DOMAIN creating /\ creating[ticks[t].i] = id
                 /\ creation[id].end_state = ""
  BY <1>6, <1>a DEF InPlace, id
<1>8. ASSUME orderly, Pays(r) PROVE creation'[r.id].end_state = ""
  <2>1. r.i # ticks[t].i /\ r.i \in DOMAIN creating /\ creating[r.i] = r.id
    <3>1. r.i \in Nat /\ ticks[t].i \in Nat /\ r.i >= ticks[t].i + 1
      BY <1>1, <1>8, <1>c DEF TickType, Paying
    <3>2. r.i # ticks[t].i
      BY <3>1
    <3>3. QED
      BY <1>8, <1>c, <3>2, Zenon DEF Paying
  <2>2. r.id # id
    BY <1>7, <1>8, <2>1 DEF PromosIInv, ThreadsDiffer
  <2>3. QED
    BY <1>3, <1>8, <1>c, <2>2 DEF Paying
<1>9. orderly' => InPlace(r)'
  BY <1>8, <1>b, <1>c DEF InPlace, Paying
<1>10. MayStore(r)'
  BY <1>c DEF MayStore
<1>11. orderly' => orderly /\ \A u \in Ticks \ {t} : ~OnWalk(ticks[u])
  BY <1>6, <1>a, <1>b DEF OneTick, OnWalk, Pays
<1>12. /\ ticks' \in [Ticks -> TickType]
       /\ \A u \in Ticks : MayStore(ticks[u])'
       /\ orderly' => (OneTick /\ PlaceIsKept)'
  BY <1>3, <1>4, <1>9, <1>10, <1>11, <1>b, TickSteps
<1>13. PromosTypeOK'
  BY <1>1, <1>3, <1>12, <1>b DEF PromosTypeOK
<1>14. ThreadsDiffer'
  <2>1. ThreadsDiffer /\ \A j \in DOMAIN creating : creation'[creating[j]].code = creation[creating[j]].code
    BY <1>3, <1>5 DEF PromosIInv
  <2>2. QED
    BY <2>1, <1>b DEF ThreadsDiffer
<1>15. StoresPaid'
  <2>1. \A c \in promosDB' : paid'[c] > 0
    <3>1. \A c \in promosDB : paid[c] > 0 /\ paid'[c] >= paid[c] /\ paid[c] \in Nat /\ paid'[c] \in Nat
      BY <1>1, <1>4, <1>b DEF PromosIInv, StoresPaid
    <3>2. QED
      BY <3>1, <1>b
  <2>2. ASSUME NEW i \in Creations, creation'[i].end_state = "Done"
        PROVE  paid'[creation'[i].code] > 0
    <3>1. creation[i].code \in PromoCodes
      BY <1>1 DEF CreationType
    <3>2. CASE i = id
      <4>1. k = 1
        BY <1>3, <1>a, <2>2, <3>2
      <4>2. paid'[code] > 0 /\ creation'[i].code = code
        BY <1>2, <1>3, <1>4, <3>2, <4>1 DEF code
      <4>3. QED
        BY <4>2
    <3>3. CASE i # id
      <4>1. paid[creation[i].code] > 0
        BY <1>3, <2>2, <3>3 DEF PromosIInv, StoresPaid
      <4>2. /\ paid[creation[i].code] \in Nat /\ paid'[creation[i].code] \in Nat
            /\ paid'[creation[i].code] >= paid[creation[i].code]
        BY <1>4, <1>b, <3>1
      <4>3. paid'[creation[i].code] > 0
        BY <4>1, <4>2
      <4>4. QED
        BY <1>3, <4>3
    <3>4. QED
      BY <3>2, <3>3
  <2>3. QED
    BY <1>12, <2>1, <2>2 DEF StoresPaid
<1>16. ASSUME orderly' PROVE PaidOnce' /\ deleting' = {}
  <2>1. orderly /\ deleting' = {} /\ paid[code] = 0
    <3>1. orderly /\ deleting' = {}
      BY <1>16, <1>b DEF PromosIInv
    <3>2. creation[creating[ticks[t].i]].end_state = "" /\ creation[creating[ticks[t].i]].code = code
      BY <1>7, <3>1 DEF code
    <3>3. paid[code] = 0
      BY <1>6, <1>7, <3>1, <3>2, Zenon DEF PaidOnce
    <3>4. QED
      BY <3>1, <3>3
  <2>2. ASSUME NEW c \in PromoCodes
        PROVE  /\ paid'[c] <= 1
               /\ paid'[c] = 1 => c \in promosDB \/ \E j \in DOMAIN creating : creation[creating[j]].code = c
    <3>1. CASE c = code
      <4>1. \E j \in DOMAIN creating : creation[creating[j]].code = c
        BY <1>7, <2>1, <3>1 DEF code
      <4>2. QED
        BY <1>4, <2>1, <3>1, <4>1
    <3>2. CASE c # code
      BY <1>4, <1>6, <2>1, <3>2 DEF PaidOnce
    <3>3. QED
      BY <3>1, <3>2
  <2>3. ASSUME NEW j \in DOMAIN creating, creation'[creating[j]].end_state = ""
        PROVE  paid'[creation'[creating[j]].code] = 0
    <3>1. creating[j] \in Creations /\ creating[j] # id
      BY <1>3, <1>5, <2>3
    <3>2. j # ticks[t].i
      BY <1>7, <2>1, <3>1
    <3>3. creation[creating[j]].code # code
      BY <1>7, <2>1, <3>2 DEF PromosIInv, ThreadsDiffer, code
    <3>4. paid[creation[creating[j]].code] = 0
      <4>1. creation[creating[j]].end_state = ""
        BY <1>3, <2>3, <3>1
      <4>2. QED
        BY <1>6, <2>1, <4>1, Zenon DEF PaidOnce
    <3>5. creation[creating[j]].code \in PromoCodes
      BY <1>1, <3>1 DEF CreationType
    <3>6. QED
      BY <1>3, <1>4, <3>1, <3>3, <3>4, <3>5
  <2>4. \A c \in PromoCodes : paid'[c] = 1 =>
          c \in promosDB' \/ \E j \in DOMAIN creating' : creation'[creating'[j]].code = c
    <3>1. ASSUME NEW c \in PromoCodes, NEW j \in DOMAIN creating, creation[creating[j]].code = c
          PROVE  creation'[creating[j]].code = c
      BY <1>3, <1>5, <3>1
    <3>2. ASSUME NEW c \in PromoCodes, paid'[c] = 1
          PROVE  c \in promosDB \/ \E j \in DOMAIN creating : creation'[creating[j]].code = c
      BY <2>2, <3>1, <3>2, Zenon
    <3>3. QED
      BY <1>b, <3>2, Zenon
  <2>5. \A c \in PromoCodes : paid'[c] <= 1
    BY <2>2
  <2>6. \A j \in DOMAIN creating' :
          creation'[creating'[j]].end_state = "" => paid'[creation'[creating'[j]].code] = 0
    BY <1>b, <2>3, Zenon
  <2>7. QED
    BY <2>1, <2>4, <2>5, <2>6, Zenon DEF PaidOnce
<1>17. QED
  BY <1>12, <1>13, <1>14, <1>15, <1>16 DEF PromosIInv

LEMMA UnlockAnsweredKeeps ==
  ASSUME PromosIInv, NEW t \in Ticks, Promo!UnlockAnswered(t)
  PROVE  PromosIInv'
<1>1. /\ ticks[t].pc = "unlocking" /\ UNCHANGED <<creating, promosDB, paid, deleting, orderly>>
  BY DEF Promo!UnlockAnswered
<1>2. PICK unlocks \in BOOLEAN :
        /\ locked' = (locked /\ ~unlocks)
        /\ creation' = IF unlocks THEN creation ELSE [creation EXCEPT ![ticks[t].id].end_state = "Cancelled"]
        /\ IF locked' THEN Promo!PayFrom(t, ticks[t].i + 1)
           ELSE ticks' = [ticks EXCEPT ![t].pc = "sending"]
  BY Zenon DEF Promo!UnlockAnswered
<1>3. /\ PromosTypeOK /\ ticks[t] \in TickType /\ locked \in BOOLEAN /\ orderly \in BOOLEAN
      /\ paid \in [PromoCodes -> Nat]
  BY DEF PromosIInv, PromosTypeOK
<1>4. locked' \in BOOLEAN
  BY <1>2, <1>3
<1>5. MayStore(ticks[t]) /\ (orderly => InPlace(ticks[t])) /\ Pays(ticks[t])
  BY <1>1 DEF PromosIInv, StoresPaid, PlaceIsKept, Pays
<1>6. \E r \in TickType : r = [ticks[t] EXCEPT !.pc = "sending"] /\ r.pc = "sending" /\ r.id = ticks[t].id /\ r.i = ticks[t].i
  <2> DEFINE r == [ticks[t] EXCEPT !.pc = "sending"]
  <2>1. r \in TickType /\ r.pc = "sending" /\ r.id = ticks[t].id /\ r.i = ticks[t].i
    BY <1>3 DEF TickType
  <2>2. QED
    BY <2>1
<1>7. CASE unlocks
  <2>1. PICK r \in TickType : r = [ticks[t] EXCEPT !.pc = "sending"] /\ r.pc = "sending"
                              /\ r.id = ticks[t].id /\ r.i = ticks[t].i
    BY <1>6
  <2>2. ticks' = [ticks EXCEPT ![t] = r] /\ creation' = creation
    BY <1>2, <1>7, <2>1
  <2>3. MayStore(r)' /\ (orderly' => InPlace(r)')
    BY <1>1, <1>5, <2>1, <2>2 DEF MayStore, InPlace, Pays, Saves
  <2>4. orderly' => orderly /\ \A u \in Ticks \ {t} : ~OnWalk(ticks[u])
    BY <1>1 DEF PromosIInv, OneTick, OnWalk
  <2>5. QED
    BY <1>1, <1>3, <1>4, <2>1, <2>2, <2>3, <2>4, WalkKeepsPromosIInv
<1>8. CASE ~unlocks
  <2>1. /\ creation' = [creation EXCEPT ![ticks[t].id].end_state = "Cancelled"]
        /\ locked' = locked
    BY <1>2, <1>3, <1>8
  <2>2. \E r \in TickType :
          /\ ticks' = [ticks EXCEPT ![t] = r] /\ ~Saves(r)
          /\ Pays(r) => r.id \in Creations
          /\ r.pc = "unlocking" => locked'
          /\ orderly /\ Pays(r) => Paying(r, ticks[t].i + 1)
    <3>1. CASE locked'
      <4>1. ticks[t].i \in Nat /\ ticks[t].i + 1 \in Nat \ {0}
        BY <1>3 DEF TickType
      <4>2. Promo!PayFrom(t, ticks[t].i + 1)
        BY <1>2, <3>1
      <4>3. PICK r \in TickType :
              /\ ticks' = [ticks EXCEPT ![t] = r]
              /\ \/ r.pc = "drawn"
                 \/ r.pc = (IF locked' THEN "unlocking" ELSE "sending") /\ Paying(r, ticks[t].i + 1)
        BY <1>3, <1>4, <4>1, <4>2, PaysNext
      <4>4. Paying(r, ticks[t].i + 1) => r.id \in Creations
        BY DEF Paying
      <4>5. QED
        BY <3>1, <4>3, <4>4 DEF Pays, Saves
    <3>2. CASE ~locked'
      <4>1. ~orderly
        BY <1>1, <1>5, <2>1, <3>2 DEF InPlace
      <4>2. PICK r \in TickType : r = [ticks[t] EXCEPT !.pc = "sending"] /\ r.pc = "sending"
                                  /\ r.id = ticks[t].id /\ r.i = ticks[t].i
        BY <1>6
      <4>3. ticks' = [ticks EXCEPT ![t] = r]
        BY <1>2, <3>2, <4>2
      <4>4. QED
        BY <1>5, <4>1, <4>2, <4>3 DEF MayStore, Pays, Saves
    <3>3. QED
      BY <3>1, <3>2
  <2>3. /\ paid'[creation[ticks[t].id].code] = paid[creation[ticks[t].id].code] + 0
        /\ \A c \in PromoCodes \ {creation[ticks[t].id].code} : paid'[c] = paid[c]
        /\ paid' \in [PromoCodes -> Nat] /\ 0 \in 0 .. 1 /\ "Cancelled" \in {"Done", "Cancelled"}
    <3>1. ticks[t].id \in Creations /\ creation[ticks[t].id].code \in PromoCodes
      BY <1>3, <1>5 DEF PromosTypeOK, CreationType, MayStore
    <3>2. QED
      BY <1>1, <1>3, <3>1
  <2>4. QED
    <3>1. PICK r \in TickType :
            /\ ticks' = [ticks EXCEPT ![t] = r] /\ ~Saves(r)
            /\ Pays(r) => r.id \in Creations
            /\ r.pc = "unlocking" => locked'
            /\ orderly /\ Pays(r) => Paying(r, ticks[t].i + 1)
      BY <2>2
    <3>2. Ends(t, 0, "Cancelled", r)
      BY <1>1, <1>4, <1>5, <2>1, <2>3, <3>1, Zenon DEF Ends
    <3>3. QED
      BY <2>3, <3>2, EndsKeepPromosIInv
<1>9. QED
  BY <1>7, <1>8

LEMMA PaymentAnsweredKeeps ==
  ASSUME PromosIInv, NEW t \in Ticks, Promo!PaymentAnswered(t)
  PROVE  PromosIInv'
<1>1. /\ ticks[t].pc = "sending" /\ UNCHANGED <<creating, promosDB, deleting, orderly, locked>>
      /\ Promo!PayFrom(t, ticks[t].i + 1)
  BY DEF Promo!PaymentAnswered
<1>2. PICK made \in BOOLEAN, answered \in BOOLEAN :
        /\ answered => made
        /\ paid' = [paid EXCEPT ![creation[ticks[t].id].code] = @ + IF made THEN 1 ELSE 0]
        /\ creation' = [creation EXCEPT ![ticks[t].id].end_state = IF answered THEN "Done" ELSE "Cancelled"]
  BY Zenon DEF Promo!PaymentAnswered, Promo!EndState, Promo!Thread
<1>3. /\ PromosTypeOK /\ ticks[t] \in TickType /\ locked' \in BOOLEAN
      /\ paid \in [PromoCodes -> Nat] /\ creation \in [Creations -> CreationType]
  BY <1>1 DEF PromosIInv, PromosTypeOK
<1>4. Pays(ticks[t]) /\ ticks[t].id \in Creations
  BY <1>1 DEF PromosIInv, StoresPaid, MayStore, Pays
<1>5. creation[ticks[t].id].code \in PromoCodes
  BY <1>3, <1>4 DEF CreationType
<1>6. PICK k \in 0 .. 1, e \in {"Done", "Cancelled"} :
        /\ e = "Done" => k = 1
        /\ paid' = [paid EXCEPT ![creation[ticks[t].id].code] = @ + k]
        /\ creation' = [creation EXCEPT ![ticks[t].id].end_state = e]
  <2>1. (IF made THEN 1 ELSE 0) \in 0 .. 1
    OBVIOUS
  <2>2. (IF answered THEN "Done" ELSE "Cancelled") \in {"Done", "Cancelled"}
    OBVIOUS
  <2>3. (IF answered THEN "Done" ELSE "Cancelled") = "Done" => (IF made THEN 1 ELSE 0) = 1
    BY <1>2
  <2>4. QED
    BY <1>2, <2>1, <2>2, <2>3, Zenon
<1>7. /\ paid' \in [PromoCodes -> Nat]
      /\ paid'[creation[ticks[t].id].code] = paid[creation[ticks[t].id].code] + k
      /\ \A c \in PromoCodes \ {creation[ticks[t].id].code} : paid'[c] = paid[c]
  BY <1>3, <1>5, <1>6
<1>8. ticks[t].i \in Nat /\ ticks[t].i + 1 \in Nat \ {0}
  BY <1>3 DEF TickType
<1>9. PICK r \in TickType :
        /\ ticks' = [ticks EXCEPT ![t] = r]
        /\ \/ r.pc = "drawn"
           \/ r.pc = (IF locked' THEN "unlocking" ELSE "sending") /\ Paying(r, ticks[t].i + 1)
  BY <1>1, <1>3, <1>8, PaysNext
<1>10. Paying(r, ticks[t].i + 1) => r.id \in Creations
  BY DEF Paying
<1>11. /\ ~Saves(r) /\ (Pays(r) => r.id \in Creations) /\ (r.pc = "unlocking" => locked')
       /\ Pays(r) => Paying(r, ticks[t].i + 1)
  BY <1>9, <1>10 DEF Pays, Saves
<1>12. Ends(t, k, e, r)
  BY <1>1, <1>3, <1>4, <1>6, <1>7, <1>9, <1>11, Zenon DEF Ends
<1>13. QED
  BY <1>12, EndsKeepPromosIInv

LEMMA SavedKeeps ==
  ASSUME PromosIInv, NEW t \in Ticks, Promo!Saved(t)
  PROVE  PromosIInv'
<1> DEFINE id == ticks[t].id
           code == creation[id].code
<1>1. /\ ticks[t].pc = "saving" /\ promosDB' = promosDB \cup {code}
      /\ creating' = Promo!SpliceCode(code)
      /\ Promo!StoreFrom(t, ticks[t].i + 1, creating')
      /\ UNCHANGED <<creation, paid, locked, deleting, orderly>>
  BY DEF Promo!Saved, Promo!Thread
<1>2. /\ PromosTypeOK /\ ThreadsDiffer /\ ticks[t] \in TickType
      /\ paid \in [PromoCodes -> Nat] /\ creation \in [Creations -> CreationType]
  BY DEF PromosIInv, PromosTypeOK
<1>3. id \in Creations /\ paid[code] > 0
  BY <1>1 DEF PromosIInv, StoresPaid, MayStore, Saves
<1>4. code \in PromoCodes
  BY <1>2, <1>3 DEF CreationType
<1> HIDE DEF id, code
<1>5. /\ creating' \in Seq(Creations)
      /\ \A i, j \in DOMAIN creating' : creation[creating'[i]].code = creation[creating'[j]].code => i = j
      /\ \A k, l \in DOMAIN creating :
           /\ creation[creating[k]].code = code /\ creation[creating[l]].code # code
           => \E j \in DOMAIN creating' : creating'[j] = creating[l]
      /\ \A j \in DOMAIN creating' : \E k \in DOMAIN creating : creating'[j] = creating[k]
  BY <1>1, <1>2, Spliced
<1>6. ticks[t].i + 1 \in Nat \ {0}
  BY <1>2 DEF TickType
<1>7. PICK r \in TickType :
        /\ ticks' = [ticks EXCEPT ![t] = r]
        /\ \/ r.pc = "idle"
           \/ /\ r.pc = "saving" /\ r.id \in Creations /\ creation[r.id].end_state = "Done"
              /\ \E j \in DOMAIN creating' : creating'[j] = r.id
  BY <1>1, <1>2, <1>5, <1>6, StoresNext
<1>8. MayStore(r)' /\ InPlace(r)'
  BY <1>1, <1>7 DEF PromosIInv, StoresPaid, MayStore, InPlace, Pays, Saves
<1>9. orderly' => orderly /\ \A u \in Ticks \ {t} : ~OnWalk(ticks[u])
  BY <1>1 DEF PromosIInv, OneTick, OnWalk
<1>10. paid' \in [PromoCodes -> Nat] /\ \A c \in PromoCodes : paid'[c] >= paid[c]
  BY <1>1, <1>2
<1>11. /\ ticks' \in [Ticks -> TickType]
       /\ \A u \in Ticks : MayStore(ticks[u])'
       /\ orderly' => (OneTick /\ PlaceIsKept)'
  BY <1>1, <1>7, <1>8, <1>9, <1>10, TickSteps
<1>12. PromosTypeOK'
  BY <1>1, <1>2, <1>4, <1>5, <1>11 DEF PromosTypeOK
<1>13. ThreadsDiffer'
  BY <1>1, <1>5 DEF ThreadsDiffer
<1>14. StoresPaid'
  BY <1>1, <1>3, <1>11 DEF PromosIInv, StoresPaid
<1>15. ASSUME orderly' PROVE PaidOnce' /\ deleting' = {}
  <2>1. orderly /\ deleting' = {} /\ PaidOnce /\ InPlace(ticks[t])
    BY <1>1, <1>15 DEF PromosIInv, PlaceIsKept
  <2>2. PICK k \in DOMAIN creating : creating[k] = id
    BY <1>1, <2>1 DEF InPlace, Saves, id
  <2>3. creation[creating[k]].code = code
    BY <2>2 DEF code
  <2>4. ASSUME NEW c \in PromoCodes, paid'[c] = 1
        PROVE  c \in promosDB' \/ \E j \in DOMAIN creating' : creation'[creating'[j]].code = c
    <3>1. CASE c \in promosDB \/ c = code
      BY <1>1, <3>1
    <3>2. CASE c \notin promosDB /\ c # code
      <4>1. PICK l \in DOMAIN creating : creation[creating[l]].code = c
        BY <1>1, <2>1, <2>4, <3>2 DEF PaidOnce
      <4>2. \E j \in DOMAIN creating' : creating'[j] = creating[l]
        BY <1>5, <2>3, <3>2, <4>1
      <4>3. QED
        BY <1>1, <4>1, <4>2
    <3>3. QED
      BY <3>1, <3>2
  <2>5. ASSUME NEW j \in DOMAIN creating', creation'[creating'[j]].end_state = ""
        PROVE  paid'[creation'[creating'[j]].code] = 0
    <3>1. PICK l \in DOMAIN creating : creating'[j] = creating[l]
      BY <1>5
    <3>2. QED
      BY <1>1, <2>1, <2>5, <3>1 DEF PaidOnce
  <2>6. \A c \in PromoCodes : paid'[c] <= 1
    BY <1>1, <2>1 DEF PaidOnce
  <2>7. QED
    BY <2>1, <2>4, <2>5, <2>6 DEF PaidOnce
<1>16. QED
  BY <1>11, <1>12, <1>13, <1>14, <1>15 DEF PromosIInv

LEMMA PromosKeepIInv == ASSUME PromosIInv, Promo!PromosNext PROVE PromosIInv'
BY setPromoModeKeeps, TimerFiresKeeps, RenderedKeeps, UnlockAnsweredKeeps, PaymentAnsweredKeeps,
   DrawnKeeps, SavedKeeps, CheckedKeeps, DeletedKeeps, createPromoCodeKeeps, deletePromoCodeKeeps,
   LockWalletKeeps
DEF Promo!PromosNext

LEMMA PromosFollow == PromosIInv => Promo!PromosAreKept
<1> SUFFICES ASSUME PromosIInv PROVE Promo!PromosAreKept
  OBVIOUS
<1>1. Promo!ThreadsAreUnique
  BY DEF PromosIInv, ThreadsDiffer, Promo!ThreadsAreUnique, Promo!Thread
<1>2. Promo!StoredIsPaid
  BY DEF PromosIInv, StoresPaid, Promo!StoredIsPaid
<1>3. ASSUME orderly, NEW c \in PromoCodes
      PROVE  /\ paid[c] <= 1
             /\ paid[c] = 1 => c \in promosDB \cup Promo!CodesOf(Promo!Range(creating))
  BY <1>3 DEF PromosIInv, PaidOnce, Promo!CodesOf, Promo!Range, Promo!Thread
<1>4. QED
  BY <1>1, <1>2, <1>3 DEF Promo!PromosAreKept, Promo!PaidIsListed

\* Threads and ticks keep their promises, a gift always comes back to the box,
\* and the list never goes back: however ticks, renderings, redemptions and
\* requests overlap.
THEOREM PromosAreKeptHolds == LegacySpec => []PromosAreKept
<1> DEFINE IInv == PromosIInv /\ GiftIInv /\ ListIInv
<1>1. LegacyInit => IInv
  <2> SUFFICES ASSUME LegacyInit PROVE IInv
    OBVIOUS
  <2>1. Promo!PromosInit /\ Gift!RedeemInit /\ List!ListInit
    BY DEF LegacyInit, RestingPromos
  <2>2. PromosIInv
    <3>1. PICK typed \in Typed :
            creation = [id \in Creations |-> [pc |-> "idle", code |-> typed[id], key |-> FALSE, end_state |-> ""]]
      BY <2>1 DEF Promo!PromosInit
    <3>2. typed \in [Creations -> PromoCodes]
      BY PromosAssumption
    <3>3. creation \in [Creations -> CreationType] /\ \A id \in Creations : creation[id].end_state = ""
      BY <3>1, <3>2 DEF CreationType
    <3>4. Promo!Idle \in TickType /\ Promo!Idle.pc = "idle"
      BY DEF TickType, Promo!Idle
    <3>5. /\ creating = <<>> /\ promosDB = {} /\ paid = [c \in PromoCodes |-> 0]
          /\ locked \in BOOLEAN /\ ticks = [t \in Ticks |-> Promo!Idle]
          /\ deleting = {} /\ orderly = TRUE
      BY <2>1 DEF Promo!PromosInit
    <3>6. \A t \in Ticks : ticks[t].pc = "idle" /\ ticks[t] \in TickType
      BY <3>4, <3>5
    <3>7. creating \in Seq(Creations) /\ DOMAIN creating = {}
      BY <3>5, EmptySeq
    <3>8. PromosTypeOK
      BY <3>3, <3>4, <3>5, <3>7 DEF PromosTypeOK
    <3>9. ThreadsDiffer /\ PaidOnce
      BY <3>5, <3>7 DEF ThreadsDiffer, PaidOnce
    <3>10. StoresPaid /\ OneTick /\ PlaceIsKept
      BY <3>3, <3>5, <3>6
         DEF StoresPaid, MayStore, OneTick, PlaceIsKept, InPlace, OnWalk, Pays, Saves
    <3>11. QED
      BY <3>5, <3>8, <3>9, <3>10 DEF PromosIInv
  <2>3. GiftIInv
    BY <2>1 DEF Gift!RedeemInit, GiftIInv, Gift!BoxReturns
  <2>4. ListIInv
    BY <2>1 DEF List!ListInit, ListIInv, List!Nothing
  <2>5. QED
    BY <2>2, <2>3, <2>4
<1>2. IInv /\ [LegacyNext]_allVars => IInv'
  <2>1. [LegacyNext]_allVars => /\ Promo!PromosNext \/ UNCHANGED promoVars
                                /\ Gift!RedeemNext \/ UNCHANGED giftVars
                                /\ List!ListNext \/ UNCHANGED listVars
    BY DEF LegacyNext, Others, allVars
  <2>2. PromosIInv /\ UNCHANGED promoVars => PromosIInv'
    <3> SUFFICES ASSUME PromosIInv, UNCHANGED promoVars PROVE PromosIInv'
      OBVIOUS
    <3>1. creation \in [Creations -> CreationType] /\ locked \in BOOLEAN
      BY DEF PromosIInv, PromosTypeOK
    <3>2. UNCHANGED <<creation, creating, promosDB, paid, locked, ticks, deleting, orderly>>
      BY DEF promoVars
    <3>3. QED
      BY <3>1, <3>2, QuietKeepsPromosIInv
  <2>3. GiftIInv /\ UNCHANGED giftVars => GiftIInv'
    BY DEF GiftIInv, Gift!BoxReturns, giftVars
  <2>4. ListIInv /\ UNCHANGED listVars => ListIInv'
    BY DEF ListIInv, listVars
  <2>5. QED
    BY <2>1, <2>2, <2>3, <2>4, PromosKeepIInv, GiftKeepsIInv, ListKeepsIInv
<1>3. IInv => PromosAreKept
  BY PromosFollow, ListFollows DEF PromosAreKept, GiftIInv
<1>4. QED
  BY <1>1, <1>2, <1>3, PTL DEF LegacySpec, allVars
=============================================================================
