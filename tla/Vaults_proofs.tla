----------------------------- MODULE Vaults_proofs -----------------------------
(***************************************************************************)
(* Theorems about the vaults of the legacy wallet, for any number of keys,  *)
(* passwords, accounts and vaults: what was encrypted opens, what opens     *)
(* loads, and the wallet that signs is the one that is shown.               *)
(***************************************************************************)
EXTENDS Vaults, SequenceTheorems, WellFoundedInduction, TLAPS

-----------------------------------------------------------------------------
\* The types of the variables

Ids == 1 .. Len(objects)

StoresShape ==
  /\ vaultsDB \in [VaultKeys -> StoredVault \cup {NoVault}]
  /\ accountsDB \in [VaultKeys -> SUBSET Nat]
  /\ encWif \in [VaultKeys -> Wif]
  /\ promised \subseteq Promise
ObjectsShape == objects \in Seq(Object)
ListsShape ==
  /\ vaults \in Seq(Nat) /\ \A q \in DOMAIN vaults : vaults[q] \in Ids
  /\ rawVaults \in Seq(Nat) /\ \A q \in DOMAIN rawVaults : rawVaults[q] \in Ids
  /\ Len(vaults) <= Len(rawVaults)
  /\ activeVault \in Ids \cup {0} /\ removing \in Ids \cup {0}
  /\ removing # 0 => activeVault # 0
ImportsShape ==
  /\ imports \in [Importers -> LoginTask \cup StartTask \cup {Idle}]
  /\ imports["login"] \in LoginTask \cup {Idle} /\ imports["start"] \in StartTask \cup {Idle}
  /\ \A who \in Importers : Imports(who) => imports[who].id \in Ids
EncryptingShape ==
  /\ encrypting \in CheckTask \cup EncryptTask \cup {Idle}
  /\ encrypting # Idle => encrypting.id \in Ids
UnlockingShape ==
  /\ unlocking \in UnlockTask \cup {Idle}
  /\ unlocking # Idle => unlocking.id \in Ids
AddingShape ==
  /\ adding \in [Slots -> AddTask \cup {Idle}]
  /\ \A s \in Slots : adding[s] # Idle => adding[s].id \in Ids
RestoringShape ==
  /\ restoring \in RestoreTask \cup {Idle}
  /\ restoring # Idle => restoring.id \in Ids

Shape ==
  /\ StoresShape /\ ObjectsShape /\ ListsShape /\ ImportsShape
  /\ EncryptingShape /\ UnlockingShape /\ AddingShape /\ RestoringShape

-----------------------------------------------------------------------------
\* Sequences

LEMMA MinIn == ASSUME NEW S \in SUBSET Nat, S # {} PROVE Min(S) \in S
<1>1. \E x \in S : \A y \in S : x <= y
  <2>1. IsWellFoundedOn(OpToRel(<, Nat), Nat)
    BY NatLessThanWellFounded
  <2>2. PICK x \in S : \A y \in S : <<y, x>> \notin OpToRel(<, Nat)
    BY <2>1, WFMin
  <2>3. \A y \in S : ~(y < x)
    BY <2>2 DEF OpToRel
  <2>4. QED
    BY <2>3
<1>2. QED
  BY <1>1, Zenon DEF Min

LEMMA RemovedFrom ==
  ASSUME NEW T, NEW s \in Seq(T), NEW i \in 1 .. Len(s)
  PROVE  RemoveAt(s, i) \in Seq(T) /\ Len(RemoveAt(s, i)) = Len(s) - 1
<1>1. SubSeq(s, 1, i - 1) \in Seq(T) /\ Len(SubSeq(s, 1, i - 1)) = i - 1
  BY SubSeqProperties
<1>2. SubSeq(s, i + 1, Len(s)) \in Seq(T) /\ Len(SubSeq(s, i + 1, Len(s))) = Len(s) - i
  BY SubSeqProperties
<1>3. QED
  BY <1>1, <1>2, ConcatProperties DEF RemoveAt

-----------------------------------------------------------------------------
\* How the vaults of a page change: they become more, and each keeps its key;
\* an account is loaded anew under its own number or stays what it was; and
\* accounts are listed after those that are.

Later(o, q) ==
  /\ q \in Object /\ q.key = o.key
  /\ DOMAIN q.xpubs = DOMAIN o.xpubs
  /\ \A p \in DOMAIN o.xpubs : q.xpubs[p] = o.xpubs[p] \/ q.xpubs[p] = p - 1
  /\ q.wallets = o.wallets \/ \E n \in Nat : q.wallets = Append(o.wallets, n)

Evolves ==
  /\ objects' \in Seq(Object) /\ Len(objects) <= Len(objects')
  /\ \A id \in Ids : Later(objects[id], objects'[id])

LEMMA SameIsLater == ASSUME NEW o \in Object PROVE Later(o, o)
BY DEF Later

LEMMA NoneChanges == ASSUME ObjectsShape, UNCHANGED objects PROVE Evolves
BY SameIsLater DEF ObjectsShape, Evolves, Ids

LEMMA OneChanges ==
  ASSUME ObjectsShape, NEW id \in Ids, NEW o, Later(objects[id], o),
         objects' = [objects EXCEPT ![id] = o]
  PROVE  /\ Evolves /\ Len(objects') = Len(objects)
         /\ \A j \in Ids : objects'[j] = IF j = id THEN o ELSE objects[j]
<1>1. o \in Object
  BY DEF Later
<1>2. /\ objects' \in Seq(Object) /\ Len(objects') = Len(objects)
      /\ \A j \in Ids : objects'[j] = IF j = id THEN o ELSE objects[j]
  BY <1>1, ExceptSeq DEF ObjectsShape, Ids
<1>3. \A j \in Ids : objects[j] \in Object
  BY DEF ObjectsShape, Ids
<1>4. Evolves
  BY <1>2, <1>3, SameIsLater DEF Evolves
<1>5. QED
  BY <1>2, <1>4

LEMMA OneMore ==
  ASSUME ObjectsShape, NEW o \in Object, objects' = Append(objects, o)
  PROVE  /\ Evolves /\ Len(objects') = Len(objects) + 1 /\ objects'[Len(objects')] = o
         /\ \A j \in Ids : objects'[j] = objects[j]
<1>1. /\ objects' \in Seq(Object) /\ Len(objects') = Len(objects) + 1
      /\ \A j \in Ids : objects'[j] = objects[j]
      /\ objects'[Len(objects')] = o
  BY DEF ObjectsShape, Ids
<1>2. \A j \in Ids : objects[j] \in Object
  BY DEF ObjectsShape, Ids
<1>3. \A j \in Ids : Later(objects[j], objects'[j])
  BY <1>1, <1>2, SameIsLater
<1>4. Len(objects) \in Nat
  BY DEF ObjectsShape
<1>5. objects' \in Seq(Object) /\ Len(objects) <= Len(objects')
  BY <1>1, <1>4
<1>6. Evolves
  BY <1>5, <1>3, Zenon DEF Evolves
<1>7. QED
  BY <1>1, <1>6

LEMMA ObjectsAre == ASSUME ObjectsShape, NEW id \in Ids PROVE objects[id] \in Object
BY DEF ObjectsShape, Ids

LEMMA EnteredEvolves ==
  ASSUME ObjectsShape, NEW o \in Object, Enter(o)
  PROVE  /\ Evolves /\ Len(objects') = Len(objects) + 1 /\ objects'[Len(objects')] = o
         /\ \A j \in Ids : objects'[j] = objects[j]
BY OneMore DEF Enter

LEMMA NewIsObject ==
  ASSUME NEW key \in VaultKeys, NEW kind \in Kinds, NEW xpubs \in Seq(Nat)
  PROVE  NewVault(key, kind, xpubs) \in Object
<1>1. {p - 1 : p \in DOMAIN xpubs} \in SUBSET Nat
  OBVIOUS
<1>2. ParsedKey(kind).seed \in BOOLEAN /\ ParsedKey(kind).held \in SUBSET Nat
  BY DEF ParsedKey
<1>3. <<0>> \in Seq(Nat) \ {<<>>}
  OBVIOUS
<1>4. QED
  BY <1>1, <1>2, <1>3 DEF NewVault, Object

LEMMA KnownIsLater == ASSUME NEW o \in Object PROVE Later(o, Known(o))
<1>1. /\ (o.isEncrypted \/ Stored(o.key)) \in BOOLEAN
      /\ (o.canGenerateMore \/ (Stored(o.key) /\ vaultsDB[o.key].secret # NoPassword)) \in BOOLEAN
  OBVIOUS
<1>2. /\ Known(o) \in Object /\ Known(o).key = o.key
      /\ Known(o).xpubs = o.xpubs /\ Known(o).wallets = o.wallets
  BY <1>1 DEF Known, Object
<1>3. QED
  BY <1>2 DEF Later

LEMMA WipedIsLater == ASSUME NEW o \in Object PROVE Later(o, wipePrivateData(o))
BY DEF wipePrivateData, Object, Later

LEMMA LongerList ==
  ASSUME NEW o \in Object, NEW n \in Nat PROVE Append(o.wallets, n) \in Seq(Nat) \ {<<>>}
<1>1. o.wallets \in Seq(Nat)
  BY DEF Object
<1>2. Append(o.wallets, n) \in Seq(Nat) /\ Len(Append(o.wallets, n)) = Len(o.wallets) + 1
  BY <1>1
<1>3. Len(o.wallets) \in Nat
  BY <1>1
<1>4. Append(o.wallets, n) # <<>>
  <2> DEFINE t == Append(o.wallets, n)
  <2>1. t \in Seq(Nat) /\ Len(t) # 0
    BY <1>2, <1>3
  <2> HIDE DEF t
  <2>2. t # <<>>
    BY <2>1, EmptySeq
  <2>3. QED
    BY <2>2 DEF t
<1>5. QED
  BY <1>2, <1>4

\* An account that is added to the list of a vault.
LEMMA ListedIsLater ==
  ASSUME NEW o \in Object, NEW n \in Nat, NEW held \in SUBSET Nat, NEW cached \in SUBSET Nat
  PROVE  Later(o, [o EXCEPT !.held = held, !.cached = cached, !.wallets = Append(@, n)])
<1>1. Append(o.wallets, n) \in Seq(Nat) \ {<<>>}
  BY LongerList
<1> DEFINE q == [o EXCEPT !.held = held, !.cached = cached, !.wallets = Append(@, n)]
<1>2. /\ q \in Object /\ q.key = o.key /\ q.xpubs = o.xpubs
      /\ q.wallets = Append(o.wallets, n)
  BY <1>1 DEF Object
<1> HIDE DEF q
<1>3. Later(o, q)
  BY <1>2 DEF Later
<1>4. QED
  BY <1>3 DEF q

LEMMA LoadedIsLater ==
  ASSUME UnlockingShape, unlocking # Idle, NEW o \in Object
  PROVE  Later(o, Loaded(o))
<1>0. unlocking.seed \in BOOLEAN /\ unlocking.genuine \in BOOLEAN
  BY DEF UnlockingShape, UnlockTask
<1>1. CASE unlocking.seed
  <2> DEFINE xpubs ==
               [p \in DOMAIN o.xpubs |-> IF p - 1 \in Range(o.wallets) THEN p - 1 ELSE o.xpubs[p]]
  <2>1. Range(o.wallets) \in SUBSET Nat
    BY DEF Object, Range
  <2>2. xpubs \in Seq(Nat) /\ DOMAIN xpubs = DOMAIN o.xpubs
    <3>1. o.xpubs \in Seq(Nat)
      BY DEF Object
    <3>2. Len(o.xpubs) \in Nat /\ DOMAIN o.xpubs = 1 .. Len(o.xpubs)
      BY <3>1
    <3>3. \A p \in 1 .. Len(o.xpubs) : o.xpubs[p] \in Nat /\ p - 1 \in Nat
      BY <3>1
    <3>4. xpubs \in [1 .. Len(o.xpubs) -> Nat]
      BY <3>2, <3>3
    <3>5. QED
      BY <3>2, <3>4
  <2>3. Loaded(o) = [o EXCEPT !.seed = TRUE, !.held = @ \cup Range(o.wallets), !.xpubs = xpubs]
    BY <1>1 DEF Loaded
  <2>4. \A p \in DOMAIN o.xpubs : xpubs[p] = o.xpubs[p] \/ xpubs[p] = p - 1
    OBVIOUS
  <2> HIDE DEF xpubs
  <2>5. /\ Loaded(o) \in Object /\ Loaded(o).key = o.key /\ Loaded(o).xpubs = xpubs
        /\ Loaded(o).wallets = o.wallets
    BY <2>1, <2>2, <2>3 DEF Object
  <2>6. QED
    BY <2>2, <2>4, <2>5 DEF Later
<1>2. CASE ~unlocking.seed
  <2>1. PICK genuine \in BOOLEAN : genuine = unlocking.genuine
    BY <1>0
  <2>2. PICK held \in SUBSET Nat : held = o.held \cup {0}
    <3>1. o.held \subseteq Nat
      BY DEF Object
    <3>2. o.held \cup {0} \in SUBSET Nat
      BY <3>1
    <3>3. QED
      BY <3>2
  <2>3. Loaded(o) = [o EXCEPT !.held = held, !.own = genuine]
    BY <1>2, <2>1, <2>2 DEF Loaded
  <2>4. /\ Loaded(o) \in Object /\ Loaded(o).key = o.key /\ Loaded(o).xpubs = o.xpubs
        /\ Loaded(o).wallets = o.wallets
    BY <2>3 DEF Object
  <2>5. QED
    BY <2>4 DEF Later
<1>3. QED
  BY <1>1, <1>2

\* No vault lists other accounts than before, nor under other numbers.
Rests ==
  /\ Evolves /\ Len(objects') = Len(objects)
  /\ \A j \in Ids : objects'[j].wallets = objects[j].wallets /\ objects'[j].xpubs = objects[j].xpubs

LEMMA NoneRests == ASSUME ObjectsShape, UNCHANGED objects PROVE Rests
BY NoneChanges DEF Rests

LEMMA OneRests ==
  ASSUME ObjectsShape, NEW id \in Ids, NEW o \in Object, o.key = objects[id].key,
         o.xpubs = objects[id].xpubs, o.wallets = objects[id].wallets,
         objects' = [objects EXCEPT ![id] = o]
  PROVE  Rests
<1>1. Later(objects[id], o)
  BY DEF Later
<1>2. /\ Evolves /\ Len(objects') = Len(objects)
      /\ \A j \in Ids : objects'[j] = IF j = id THEN o ELSE objects[j]
  BY <1>1, OneChanges
<1>3. QED
  BY <1>2 DEF Rests

\* What selecting a wallet does: the two that are active come from the same
\* place in their lists.
Selected(list, id) ==
  /\ Rests
  /\ \/ UNCHANGED <<wallet, activeWallet, activeVault>>
     \/ \E q \in DOMAIN list, p \in DOMAIN objects[id].wallets :
          /\ list[q] = id /\ activeVault' = id
          /\ wallet' = [vault |-> rawVaults[q], account |-> p - 1]
          /\ activeWallet' = [vault |-> id, account |-> objects[id].wallets[p]]

LEMMA Selecting ==
  ASSUME Shape, NEW list \in Seq(Nat), NEW r \in DOMAIN list, NEW xpub,
         \A q \in DOMAIN list : list[q] \in Ids,
         Len(list) <= Len(rawVaults),
         NEW s \in DOMAIN objects[list[r]].wallets, Xpubs(objects[list[r]])[s] = xpub,
         SelectFrom(list, list[r], xpub)
  PROVE  Selected(list, list[r])
<1> DEFINE id == list[r]
           q == CHOOSE j \in DOMAIN list : list[j] = id
           S == {j \in DOMAIN objects[id].wallets : Xpubs(objects[id])[j] = xpub}
           p == Min(S)
           at == rawVaults[q]
           o == objects[at]
<1>1. q \in DOMAIN list /\ list[q] = id
  OBVIOUS
<1>2. id \in Ids /\ objects[id] \in Object
  BY ObjectsAre DEF Shape
<1>3. at \in Ids /\ o \in Object
  <2>1. q \in 1 .. Len(list)
    BY <1>1
  <2>2. q \in DOMAIN rawVaults
    BY <2>1 DEF Shape, ListsShape
  <2>3. at \in Ids
    BY <2>2 DEF Shape, ListsShape
  <2>4. QED
    BY <2>3, ObjectsAre DEF Shape
<1>4. p \in DOMAIN objects[id].wallets
  <2>1. objects[id].wallets \in Seq(Nat)
    BY <1>2 DEF Object
  <2>2. S \in SUBSET Nat
    BY <2>1
  <2>3. S # {}
    BY DEF S
  <2>4. p \in S
    BY <2>2, <2>3, MinIn, Zenon
  <2>5. QED
    BY <2>4
<1>5. p - 1 \in Nat
  BY <1>2, <1>4 DEF Object
<1>6. \/ /\ wallet' = [vault |-> at, account |-> p - 1]
         /\ activeWallet' = [vault |-> id, account |-> objects[id].wallets[p]]
         /\ activeVault' = id
         /\ objects' = [objects EXCEPT ![at].cached = @ \cup {p - 1},
                                       ![at].held = IF p - 1 \in o.cached THEN @ ELSE @ \cup {p - 1}]
      \/ UNCHANGED <<wallet, activeWallet, activeVault, objects>>
  BY Zenon DEF SelectFrom
<1> HIDE DEF q, p, at, id, S
<1>7. CASE UNCHANGED <<wallet, activeWallet, activeVault, objects>>
  BY <1>7, NoneRests DEF Selected, Shape, id
<1>8. CASE /\ wallet' = [vault |-> at, account |-> p - 1]
           /\ activeWallet' = [vault |-> id, account |-> objects[id].wallets[p]]
           /\ activeVault' = id
           /\ objects' = [objects EXCEPT ![at].cached = @ \cup {p - 1},
                                         ![at].held = IF p - 1 \in o.cached THEN @ ELSE @ \cup {p - 1}]
  <2> DEFINE h == IF p - 1 \in o.cached THEN o.held ELSE o.held \cup {p - 1}
             c == o.cached \cup {p - 1}
             n == [o EXCEPT !.cached = c, !.held = h]
  <2>1. h \in SUBSET Nat /\ c \in SUBSET Nat
    BY <1>3, <1>5 DEF Object
  <2> HIDE DEF h, c
  <2>2. n \in Object /\ n.key = o.key /\ n.xpubs = o.xpubs /\ n.wallets = o.wallets
    BY <1>3, <2>1 DEF Object
  <2>3. objects' = [objects EXCEPT ![at] = n]
    BY <1>8, <1>3 DEF h, c, Shape, ObjectsShape, Ids, Object
  <2> HIDE DEF n
  <2>4. Rests
    BY <1>3, <2>2, <2>3, OneRests DEF Shape
  <2>5. QED
    BY <1>1, <1>4, <1>8, <2>4 DEF Selected, at, id
<1>9. QED
  BY <1>6, <1>7, <1>8

\* What adds an account to the list of one of the vaults.
Lists(id, n) ==
  /\ Evolves /\ Len(objects') = Len(objects)
  /\ objects'[id].wallets = Append(objects[id].wallets, n)
  /\ \A j \in Ids : /\ j # id => objects'[j] = objects[j]
                    /\ objects'[j].xpubs = objects[j].xpubs

LEMMA ListingAccount ==
  ASSUME ObjectsShape, NEW id \in Ids, NEW n \in Nat,
         objects' = [objects EXCEPT ![id].wallets = Append(@, n)]
  PROVE  Lists(id, n)
<1> DEFINE o == [objects[id] EXCEPT !.wallets = Append(@, n)]
<1>1. objects[id] \in Object /\ Append(objects[id].wallets, n) \in Seq(Nat) \ {<<>>}
  BY ObjectsAre, LongerList
<1>2. /\ o \in Object /\ o.key = objects[id].key /\ o.xpubs = objects[id].xpubs
      /\ o.wallets = Append(objects[id].wallets, n)
  BY <1>1 DEF Object
<1>3. objects' = [objects EXCEPT ![id] = o]
  OBVIOUS
<1> HIDE DEF o
<1>4. Later(objects[id], o)
  BY <1>2 DEF Later
<1>5. /\ Evolves /\ Len(objects') = Len(objects)
      /\ \A j \in Ids : objects'[j] = IF j = id THEN o ELSE objects[j]
  BY <1>3, <1>4, OneChanges
<1>6. QED
  BY <1>2, <1>5 DEF Lists

LEMMA ListingMade ==
  ASSUME ObjectsShape, NEW id \in Ids, NEW n \in Nat,
         objects' = [objects EXCEPT ![id] = Derived(@, n)]
  PROVE  Lists(id, n)
<1> DEFINE w == objects[id]
           h == w.held \cup {n}
           c == w.cached \cup {n}
           o == [w EXCEPT !.cached = c, !.held = h, !.wallets = Append(@, n)]
<1>1. w \in Object /\ Append(w.wallets, n) \in Seq(Nat) \ {<<>>}
  BY ObjectsAre, LongerList
<1>2. h \in SUBSET Nat /\ c \in SUBSET Nat
  BY <1>1 DEF Object
<1>3. objects' = [objects EXCEPT ![id] = o]
  BY DEF Derived
<1> HIDE DEF h, c, w
<1>4. /\ o \in Object /\ o.key = w.key /\ o.xpubs = w.xpubs /\ o.wallets = Append(w.wallets, n)
  BY <1>1, <1>2 DEF Object
<1> HIDE DEF o
<1>5. Later(w, o)
  BY <1>4 DEF Later
<1>6. /\ Evolves /\ Len(objects') = Len(objects)
      /\ \A j \in Ids : objects'[j] = IF j = id THEN o ELSE objects[j]
  BY <1>3, <1>5, OneChanges DEF w
<1>7. QED
  BY <1>4, <1>6 DEF Lists, w

LEMMA ImportIs ==
  ASSUME Shape, NEW who \in Importers, Imports(who)
  PROVE  /\ imports[who] # Idle /\ imports[who].at \in {"xpub", "save"}
         /\ imports[who].id \in Ids /\ imports[who].n \in Nat
BY DEF Shape, ImportsShape, Imports, LoginTask, StartTask, Importers

LEMMA AdditionIs ==
  ASSUME Shape, NEW slot \in Slots, adding[slot] # Idle
  PROVE  adding[slot] \in AddTask /\ adding[slot].id \in Ids /\ adding[slot].n \in Nat
BY DEF Shape, AddingShape, AddTask

\* Adding an account lists it at once, or makes it first.
LEMMA AddingAccount ==
  ASSUME Shape, NEW id \in Ids, AddAccount(id)
  PROVE  /\ Len(objects[id].wallets) \in Nat
         /\ Evolves /\ Len(objects') = Len(objects)
         /\ UNCHANGED objects \/ Lists(id, Len(objects[id].wallets))
<1>1. objects[id] \in Object /\ Len(objects[id].wallets) \in Nat
  BY ObjectsAre DEF Shape, Object
<1>2. CASE UNCHANGED objects
  BY <1>1, <1>2, NoneChanges DEF Shape
<1>3. CASE objects' = [objects EXCEPT ![id].wallets = Append(@, Len(objects[id].wallets))]
  BY <1>1, <1>3, ListingAccount DEF Shape, Lists
<1>4. QED
  BY <1>2, <1>3, Zenon DEF AddAccount

LEMMA ListIsOfIds ==
  ASSUME NEW list \in Seq(Nat), \A q \in DOMAIN list : list[q] \in Ids
  PROVE  list \in Seq(Ids)
<1>1. Len(list) \in Nat /\ list \in [1 .. Len(list) -> Ids]
  BY LenProperties
<1>2. QED
  BY <1>1, SeqDef

LEMMA WithoutIs ==
  ASSUME Shape, NEW key
  PROVE  /\ Without(vaults, key) \in Seq(Nat)
         /\ \A q \in DOMAIN Without(vaults, key) : Without(vaults, key)[q] \in Ids
         /\ Len(Without(vaults, key)) <= Len(vaults)
<1> DEFINE here == {q \in DOMAIN vaults : KeyOf(vaults[q]) = key}
<1>1. vaults \in Seq(Ids) /\ vaults \in Seq(Nat) /\ Len(vaults) \in Nat
  BY ListIsOfIds DEF Shape, ListsShape
<1>2. CASE here = {}
  BY <1>1, <1>2 DEF Without, Shape, ListsShape
<1>3. CASE here # {}
  <2>1. here \in SUBSET Nat
    BY <1>1
  <2> DEFINE i == Min(here)
  <2>2. i \in here
    BY <1>3, <2>1, MinIn, Zenon
  <2>3. i \in 1 .. Len(vaults)
    BY <1>1, <2>2
  <2>4. Without(vaults, key) = RemoveAt(vaults, i)
    BY <1>3 DEF Without
  <2> HIDE DEF i
  <2>5. /\ RemoveAt(vaults, i) \in Seq(Ids) /\ Len(RemoveAt(vaults, i)) = Len(vaults) - 1
    BY <1>1, <2>3, RemovedFrom
  <2>6. Len(Without(vaults, key)) <= Len(vaults)
    BY <1>1, <2>4, <2>5
  <2>7. RemoveAt(vaults, i) \in Seq(Nat)
    <3>1. Ids \subseteq Nat
      BY DEF Ids
    <3>2. QED
      BY <2>5, <3>1, SeqMonotonic
  <2>8. \A q \in DOMAIN RemoveAt(vaults, i) : RemoveAt(vaults, i)[q] \in Ids
    BY <2>5, LenProperties
  <2>9. QED
    BY <2>4, <2>6, <2>7, <2>8
<1>4. QED
  BY <1>2, <1>3

-----------------------------------------------------------------------------
\* What each operation does to the vaults there are

LEMMA ImportXpubRests ==
  ASSUME Shape, NEW who \in Importers, imports[who] # Idle, ImportXpub(who) PROVE Rests
<1> DEFINE id == imports[who].id
<1>1. id \in Ids /\ objects[id] \in Object
  BY ImportIs, ObjectsAre DEF ImportXpub, Imports, Shape
<1>2. CASE UNCHANGED objects
  BY <1>2, NoneRests DEF Shape
<1>3. CASE objects' = [objects EXCEPT ![id] = Known(@)]
  <2> DEFINE o == Known(objects[id])
  <2>1. Later(objects[id], o)
    BY <1>1, KnownIsLater
  <2>2. o \in Object /\ o.key = objects[id].key
    BY <2>1 DEF Later
  <2>3. o.xpubs = objects[id].xpubs /\ o.wallets = objects[id].wallets
    BY <1>1 DEF Known, Object
  <2>4. objects' = [objects EXCEPT ![id] = o]
    BY <1>3
  <2> HIDE DEF o
  <2>5. QED
    BY <1>1, <2>2, <2>3, <2>4, OneRests DEF Shape
<1>4. QED
  BY <1>2, <1>3 DEF ImportXpub

LEMMA LockWalletRests == ASSUME Shape, LockWallet PROVE Rests
<1> DEFINE o == wipePrivateData(objects[activeVault])
<1>1. activeVault \in Ids /\ objects[activeVault] \in Object
  BY ObjectsAre DEF LockWallet, Shape, ListsShape
<1>2. /\ o \in Object /\ o.key = objects[activeVault].key /\ o.xpubs = objects[activeVault].xpubs
      /\ o.wallets = objects[activeVault].wallets
  BY <1>1 DEF wipePrivateData, Object
<1>3. objects' = [objects EXCEPT ![activeVault] = o]
  BY DEF LockWallet
<1> HIDE DEF o
<1>4. QED
  BY <1>1, <1>2, <1>3, OneRests DEF Shape

LEMMA SaveAccountsRests == ASSUME Shape, SaveAccounts PROVE Rests
<1> DEFINE id == encrypting.id
           more == objects[id].canGenerateMore \/ encrypting.secret = "seed"
           o == [objects[id] EXCEPT !.isEncrypted = TRUE, !.canGenerateMore = more]
<1>1. id \in Ids /\ objects[id] \in Object
  BY ObjectsAre DEF SaveAccounts, Shape, EncryptingShape
<1>2. more \in BOOLEAN
  OBVIOUS
<1>3. objects' = [objects EXCEPT ![id] = o]
  BY <1>1 DEF SaveAccounts, Shape, ObjectsShape, Ids, Object
<1> HIDE DEF more
<1>4. /\ o \in Object /\ o.key = objects[id].key /\ o.xpubs = objects[id].xpubs
      /\ o.wallets = objects[id].wallets
  BY <1>1, <1>2 DEF Object
<1> HIDE DEF o
<1>5. QED
  BY <1>1, <1>3, <1>4, OneRests DEF Shape

LEMMA UnlockedEvolves ==
  ASSUME Shape, Unlocked
  PROVE  /\ Evolves /\ Len(objects') = Len(objects)
         /\ \A j \in Ids : objects'[j].wallets = objects[j].wallets
<1> DEFINE id == unlocking.id
           o == Loaded(objects[id])
<1>1. id \in Ids /\ objects[id] \in Object
  BY ObjectsAre DEF Unlocked, Shape, UnlockingShape
<1>2. Later(objects[id], o)
  BY <1>1, LoadedIsLater DEF Unlocked, Shape
<1>3. o.wallets = objects[id].wallets
  BY <1>1 DEF Loaded, Object
<1>4. objects' = [objects EXCEPT ![id] = o]
  BY DEF Unlocked
<1> HIDE DEF o
<1>5. /\ Evolves /\ Len(objects') = Len(objects)
      /\ \A j \in Ids : objects'[j] = IF j = id THEN o ELSE objects[j]
  BY <1>1, <1>2, <1>4, OneChanges DEF Shape
<1>6. QED
  BY <1>3, <1>5

LEMMA ImportSaveLists ==
  ASSUME Shape, NEW who \in Importers, imports[who] # Idle, ImportSave(who)
  PROVE  IF imports[who].n + 1 < Cardinality(objects[imports[who].id].cached)
         THEN Lists(imports[who].id, imports[who].n + 1) ELSE Rests
<1>1. imports[who].id \in Ids /\ imports[who].n \in Nat
  BY ImportIs DEF ImportSave, Imports
<1>2. CASE imports[who].n + 1 < Cardinality(objects[imports[who].id].cached)
  BY <1>1, <1>2, ListingAccount DEF ImportSave, Shape
<1>3. CASE ~(imports[who].n + 1 < Cardinality(objects[imports[who].id].cached))
  BY <1>3, NoneRests DEF ImportSave, Shape
<1>4. QED
  BY <1>2, <1>3

LEMMA MadeLists ==
  ASSUME Shape, NEW slot \in Slots, Made(slot) PROVE Lists(adding[slot].id, adding[slot].n)
BY AdditionIs, ListingMade DEF Made, Shape

LEMMA ParsedEnters ==
  ASSUME Shape, ParsedSecret
  PROVE  LET o == NewVault(imports["login"].key, imports["login"].kind, <<0>>) IN
         o \in Object /\ Enter(o)
<1>1. imports["login"].key \in VaultKeys /\ imports["login"].kind \in Kinds
  BY DEF ParsedSecret, Shape, ImportsShape, LoginTask
<1>2. <<0>> \in Seq(Nat)
  OBVIOUS
<1>3. QED
  BY <1>1, <1>2, NewIsObject DEF ParsedSecret

LEMMA selectWalletSelects ==
  ASSUME Shape, NEW id \in Ids, NEW p \in Nat, selectWallet(id, p)
  PROVE  Selected(vaults, id)
<1>1. PICK r \in DOMAIN vaults : vaults[r] = id
  BY DEF selectWallet, Range
<1>2. p \in DOMAIN objects[vaults[r]].wallets
  BY <1>1 DEF selectWallet
<1>3. SelectFrom(vaults, vaults[r], Xpubs(objects[vaults[r]])[p])
  BY <1>1 DEF selectWallet
<1>4. /\ vaults \in Seq(Nat) /\ \A q \in DOMAIN vaults : vaults[q] \in Ids
      /\ Len(vaults) <= Len(rawVaults)
  BY DEF Shape, ListsShape
<1>5. Selected(vaults, vaults[r])
  BY <1>2, <1>3, <1>4, Selecting
<1>6. QED
  BY <1>1, <1>5

LEMMA RemoveVaultRests ==
  ASSUME Shape, RemoveVault
  PROVE  Rests /\ (activeVault' \in Ids \cup {0})
<1> DEFINE left == Without(vaults, objects[removing].key)
<1>1. /\ left \in Seq(Nat) /\ \A q \in DOMAIN left : left[q] \in Ids
      /\ Len(left) <= Len(vaults)
  BY WithoutIs
<1>2. activeVault \in Ids \cup {0} /\ Len(vaults) <= Len(rawVaults)
      /\ Len(vaults) \in Nat /\ Len(rawVaults) \in Nat
  BY DEF Shape, ListsShape
<1>3. CASE UNCHANGED objects /\ activeVault' \in {activeVault, 0}
  BY <1>2, <1>3, NoneRests DEF Shape
<1>4. CASE left # <<>> /\ SelectFrom(left, left[1], Xpubs(objects[left[1]])[1])
  <2> HIDE DEF left
  <2>1. 1 \in DOMAIN left
    BY <1>1, <1>4, EmptySeq
  <2>2. left[1] \in Ids /\ objects[left[1]] \in Object
    BY <1>1, <2>1, ObjectsAre DEF Shape
  <2>3. 1 \in DOMAIN objects[left[1]].wallets
    <3>1. objects[left[1]].wallets \in Seq(Nat) /\ objects[left[1]].wallets # <<>>
      BY <2>2 DEF Object
    <3>2. QED
      BY <3>1, EmptySeq
  <2>4. Len(left) <= Len(rawVaults)
    BY <1>1, <1>2
  <2>5. Selected(left, left[1])
    BY <1>1, <1>4, <2>1, <2>3, <2>4, Selecting
  <2>6. QED
    BY <1>2, <2>2, <2>5 DEF Selected
<1>5. QED
  BY <1>3, <1>4 DEF RemoveVault

\* What is loaded are vaults of the database that were there at the start.
LEMMA LoadNextIs == ASSUME Shape, LoadNext PROVE imports["start"] \in StartTask
BY DEF LoadNext, Shape, ImportsShape

LEMMA LoadNextEnters ==
  ASSUME Shape, LoadNext
  PROVE  \/ UNCHANGED <<listVars, disturbed>>
         \/ \E v \in Loadable : /\ NewVault(v.key, "public", v.wallets) \in Object
                                /\ Range(v.wallets) \subseteq accountsDB[v.key]
                                /\ Enter(NewVault(v.key, "public", v.wallets))
                                /\ UNCHANGED <<activeVault, activeWallet, wallet>>
                                /\ \E rest \in SUBSET Loadable :
                                     imports' = [imports EXCEPT !["start"] =
                                       [at |-> "xpub", rest |-> rest, id |-> Len(objects'), n |-> 0]]
<1>1. imports["start"] \in StartTask /\ imports["start"].rest \subseteq Loadable
  BY LoadNextIs DEF StartTask
<1>2. PICK v \in imports["start"].rest :
        LET rest == imports["start"].rest \ {v} IN
        IF Range(v.wallets) \subseteq accountsDB[v.key]
        THEN /\ Enter(NewVault(v.key, "public", v.wallets))
             /\ imports' = [imports EXCEPT !["start"] =
                              [at |-> "xpub", rest |-> rest, id |-> Len(objects'), n |-> 0]]
             /\ UNCHANGED <<activeVault, activeWallet, wallet>>
        ELSE UNCHANGED <<listVars, disturbed>>
  BY Zenon DEF LoadNext
<1>3. v \in Loadable /\ v.key \in VaultKeys /\ v.wallets \in Seq(Nat)
  BY <1>1, <1>2 DEF Loadable
<1>4. NewVault(v.key, "public", v.wallets) \in Object
  BY <1>3, NewIsObject DEF Kinds
<1>5. imports["start"].rest \ {v} \in SUBSET Loadable
  BY <1>1
<1>6. QED
  BY <1>2, <1>3, <1>4, <1>5, Zenon

\* Between two loads of the page, vaults only come and change as above.
StepsOn == Evolves /\ (ParsedSecret \/ LoadNext \/ Len(objects') = Len(objects))

LEMMA NextStepsOn ==
  ASSUME Shape, VaultsNext, ~Reload
  PROVE  StepsOn
<1>1. UNCHANGED objects \/ Rests => StepsOn
  BY NoneChanges DEF Rests, Shape, StepsOn
<1>2. ASSUME NEW s \in ImportedSecrets, Import(s[1], s[2]) PROVE StepsOn
  BY <1>1, <1>2 DEF Import, listVars
<1>3. CASE ParsedSecret
  BY <1>3, ParsedEnters, EnteredEvolves DEF Shape, StepsOn
<1>4. CASE ParseFails
  BY <1>1, <1>4 DEF ParseFails, listVars
<1>5. CASE LoadNext
  BY <1>1, <1>5, LoadNextEnters, EnteredEvolves, Zenon DEF Shape, listVars, StepsOn
<1>6. ASSUME NEW who \in Importers, imports[who] # Idle, ImportXpub(who) PROVE StepsOn
  BY <1>1, <1>6, ImportXpubRests
<1>7. ASSUME NEW who \in Importers, imports[who] # Idle, ImportSave(who) PROVE StepsOn
  BY <1>1, <1>7, ImportSaveLists DEF Lists, StepsOn
<1>8. CASE OpenEncrypt \/ onEncryptModalClose \/ ReopenUnsaved \/ Checked \/ AddVault
             \/ CancelUnlock \/ logOut
  BY <1>1, <1>8 DEF OpenEncrypt, onEncryptModalClose, ReopenUnsaved, Checked, AddVault,
                    CancelUnlock, logOut, listVars
<1>9. ASSUME NEW p \in Passwords, NEW q \in Passwords, encryptWallet(p, q) PROVE StepsOn
  BY <1>1, <1>9 DEF encryptWallet, listVars
<1>10. CASE SaveAccounts
  BY <1>1, <1>10, SaveAccountsRests
<1>11. CASE LockWallet
  BY <1>1, <1>11, LockWalletRests
<1>12. ASSUME NEW p \in Passwords, Unlock(p) PROVE StepsOn
  BY <1>1, <1>12 DEF Unlock, listVars
<1>13. CASE Unlocked
  BY <1>13, UnlockedEvolves DEF StepsOn
<1>14. CASE GoesOn
  <2>1. restoring.id \in Ids /\ AddAccount(restoring.id)
    BY <1>14 DEF GoesOn, Shape, RestoringShape
  <2>2. QED
    BY <2>1, AddingAccount DEF StepsOn
<1>15. ASSUME NEW s \in Slots, Made(s) PROVE StepsOn
  BY <1>15, MadeLists DEF Lists, StepsOn
<1>16. ASSUME NEW s \in Slots, Listed(s) \/ Added(s) PROVE StepsOn
  BY <1>1, <1>16 DEF Listed, Added, listVars
<1>17. ASSUME NEW id \in DOMAIN objects, AddWallet(id) PROVE StepsOn
  <2>1. id \in Ids
    BY DEF Ids, Shape, ObjectsShape
  <2>2. QED
    BY <1>1, <1>17, <2>1, AddingAccount DEF AddWallet, StepsOn
<1>18. ASSUME NEW id \in DOMAIN objects, NEW p \in 1 .. MaxAccounts + 1, selectWallet(id, p)
       PROVE  StepsOn
  <2>1. id \in Ids
    BY DEF Ids, Shape, ObjectsShape
  <2>2. p \in Nat
    <3>1. objects[id].wallets \in Seq(Nat)
      BY <2>1, ObjectsAre DEF Shape, Object
    <3>2. QED
      BY <1>18, <3>1 DEF selectWallet
  <2>3. QED
    BY <1>1, <1>18, <2>1, <2>2, selectWalletSelects DEF Selected
<1>19. CASE RemoveVault
  BY <1>1, <1>19, RemoveVaultRests
<1>20. QED
  BY <1>2, <1>3, <1>4, <1>5, <1>6, <1>7, <1>8, <1>9, <1>10, <1>11, <1>12, <1>13, <1>14,
     <1>15, <1>16, <1>17, <1>18, <1>19, Zenon DEF VaultsNext

LEMMA NextEvolves == ASSUME Shape, VaultsNext, ~Reload PROVE Evolves
BY NextStepsOn DEF StepsOn

-----------------------------------------------------------------------------
\* The operations that write to each part of the state; the others leave it.

LEMMA StoresChange ==
  ASSUME VaultsNext
  PROVE  \/ UNCHANGED <<storeVars, promised>>
         \/ \E who \in Importers : imports[who] # Idle /\ (ImportXpub(who) \/ ImportSave(who))
         \/ AddVault \/ SaveAccounts \/ logOut \/ RemoveVault
         \/ \E s \in Slots : Listed(s) \/ Added(s)
BY Zenon DEF VaultsNext, historyVars, Import, ParsedSecret, ParseFails, LoadNext, OpenEncrypt,
   onEncryptModalClose, ReopenUnsaved, encryptWallet, Checked, LockWallet, Unlock, Unlocked,
   CancelUnlock, GoesOn, Made, AddWallet, selectWallet, Reload

LEMMA ListsChange ==
  ASSUME VaultsNext
  PROVE  \/ UNCHANGED <<vaults, rawVaults, activeVault, removing>>
         \/ ParsedSecret \/ LoadNext \/ logOut \/ RemoveVault \/ Reload
         \/ \E who \in Importers : imports[who] # Idle /\ ImportSave(who)
         \/ \E id \in DOMAIN objects, p \in 1 .. MaxAccounts + 1 : selectWallet(id, p)
BY Zenon DEF VaultsNext, listVars, Import, ParseFails, ImportXpub, OpenEncrypt,
   onEncryptModalClose, ReopenUnsaved, encryptWallet, Checked, AddVault, SaveAccounts,
   LockWallet, Unlock, Unlocked, CancelUnlock, GoesOn, Made, Listed, Added, AddWallet

LEMMA ImportsChange ==
  ASSUME VaultsNext
  PROVE  \/ UNCHANGED imports
         \/ \E s \in ImportedSecrets : Import(s[1], s[2])
         \/ ParsedSecret \/ ParseFails \/ LoadNext \/ Reload
         \/ \E who \in Importers : imports[who] # Idle /\ (ImportXpub(who) \/ ImportSave(who))
BY Zenon DEF VaultsNext, OpenEncrypt, onEncryptModalClose, ReopenUnsaved, encryptWallet,
   Checked, AddVault, SaveAccounts, LockWallet, Unlock, Unlocked, CancelUnlock, GoesOn, Made,
   Listed, Added, AddWallet, selectWallet, logOut, RemoveVault

LEMMA EncryptingChanges ==
  ASSUME VaultsNext
  PROVE  \/ UNCHANGED encrypting
         \/ \E p, q \in Passwords : encryptWallet(p, q)
         \/ Checked \/ AddVault \/ SaveAccounts \/ logOut \/ RemoveVault \/ Reload
BY Zenon DEF VaultsNext, Import, ParsedSecret, ParseFails, LoadNext, ImportXpub, ImportSave,
   OpenEncrypt, onEncryptModalClose, ReopenUnsaved, LockWallet, Unlock, Unlocked,
   CancelUnlock, GoesOn, Made, Listed, Added, AddWallet, selectWallet

LEMMA UnlockingChanges ==
  ASSUME VaultsNext
  PROVE  \/ UNCHANGED unlocking \/ \E p \in Passwords : Unlock(p)
         \/ Unlocked \/ Reload
BY Zenon DEF VaultsNext, Import, ParsedSecret, ParseFails, LoadNext, ImportXpub, ImportSave,
   OpenEncrypt, onEncryptModalClose, ReopenUnsaved, encryptWallet, Checked, AddVault,
   SaveAccounts, LockWallet, CancelUnlock, GoesOn, Made, Listed, Added, AddWallet,
   selectWallet, logOut, RemoveVault

LEMMA AddingChanges ==
  ASSUME VaultsNext
  PROVE  \/ UNCHANGED adding \/ GoesOn \/ Reload
         \/ \E s \in Slots : Made(s) \/ Listed(s) \/ Added(s)
         \/ \E id \in DOMAIN objects : AddWallet(id)
BY Zenon DEF VaultsNext, Import, ParsedSecret, ParseFails, LoadNext, ImportXpub, ImportSave,
   OpenEncrypt, onEncryptModalClose, ReopenUnsaved, encryptWallet, Checked, AddVault,
   SaveAccounts, LockWallet, Unlock, Unlocked, CancelUnlock, selectWallet, logOut, RemoveVault

LEMMA RestoringChanges ==
  ASSUME VaultsNext
  PROVE  \/ UNCHANGED restoring \/ CancelUnlock \/ GoesOn \/ Reload
         \/ \E id \in DOMAIN objects : AddWallet(id)
BY Zenon DEF VaultsNext, modalVars, Import, ParsedSecret, ParseFails, LoadNext, ImportXpub,
   ImportSave, OpenEncrypt, onEncryptModalClose, ReopenUnsaved, encryptWallet, Checked,
   AddVault, SaveAccounts, LockWallet, Unlock, Unlocked, Made, Listed, Added, selectWallet,
   logOut, RemoveVault

-----------------------------------------------------------------------------
\* Each part keeps its shape

LEMMA XpubIs ==
  ASSUME NEW o \in Object, NEW n \in Nat
  PROVE  XpubOf(o, n) \in Nat
<1>1. o.xpubs \in Seq(Nat)
  BY DEF Object
<1>2. QED
  BY <1>1 DEF XpubOf

LEMMA XpubsAre ==
  ASSUME NEW o \in Object
  PROVE  Xpubs(o) \in Seq(Nat) /\ DOMAIN Xpubs(o) = DOMAIN o.wallets
<1>1. o.wallets \in Seq(Nat)
  BY DEF Object
<1>2. Len(o.wallets) \in Nat /\ DOMAIN o.wallets = 1 .. Len(o.wallets)
  BY <1>1
<1>3. \A p \in 1 .. Len(o.wallets) : XpubOf(o, o.wallets[p]) \in Nat
  <2>1. \A p \in 1 .. Len(o.wallets) : o.wallets[p] \in Nat
    BY <1>1
  <2>2. QED
    BY <2>1, XpubIs
<1>4. Xpubs(o) \in [1 .. Len(o.wallets) -> Nat]
  BY <1>2, <1>3 DEF Xpubs
<1>5. QED
  BY <1>2, <1>4, SeqDef

LEMMA KeyIs == ASSUME Shape, NEW id \in Ids PROVE KeyOf(id) \in VaultKeys
BY ObjectsAre DEF Shape, Object, KeyOf

LEMMA StoredIs ==
  ASSUME StoresShape, NEW key \in VaultKeys, Stored(key)
  PROVE  vaultsDB[key] \in StoredVault
BY DEF StoresShape, Stored

LEMMA AddingXpubKeepsShape ==
  ASSUME StoresShape, NEW key \in VaultKeys, NEW xpub \in Nat,
         addXpubToVault(key, xpub), UNCHANGED <<accountsDB, encWif, promised>>
  PROVE  StoresShape'
<1>1. CASE UNCHANGED vaultsDB
  BY <1>1 DEF StoresShape
<1>2. CASE Stored(key) /\ vaultsDB' = [vaultsDB EXCEPT ![key].wallets = Append(@, xpub)]
  <2> DEFINE v == [vaultsDB[key] EXCEPT !.wallets = Append(@, xpub)]
  <2>1. vaultsDB[key] \in StoredVault
    BY <1>2, StoredIs
  <2>2. Append(vaultsDB[key].wallets, xpub) \in Seq(Nat)
    BY <2>1 DEF StoredVault
  <2>3. v \in StoredVault
    BY <2>1, <2>2 DEF StoredVault
  <2>4. vaultsDB' = [vaultsDB EXCEPT ![key] = v]
    BY <1>2
  <2> HIDE DEF v
  <2>5. QED
    BY <2>3, <2>4 DEF StoresShape
<1>3. QED
  BY <1>1, <1>2 DEF addXpubToVault

LEMMA SavingKeepsShape ==
  ASSUME StoresShape, NEW key \in VaultKeys, NEW xpub \in Nat,
         Saved(key, xpub), UNCHANGED <<vaultsDB, encWif, promised>>
  PROVE  StoresShape'
<1>1. accountsDB[key] \cup {xpub} \in SUBSET Nat
  BY DEF StoresShape
<1>2. QED
  BY <1>1 DEF StoresShape, Saved

LEMMA NextStoresShape ==
  ASSUME Shape, VaultsNext PROVE StoresShape'
<1>1. CASE UNCHANGED <<storeVars, promised>>
  BY <1>1 DEF Shape, StoresShape, storeVars
<1>2. ASSUME NEW who \in Importers, imports[who] # Idle, ImportXpub(who) \/ ImportSave(who)
      PROVE  StoresShape'
  <2> DEFINE id == imports[who].id
  <2>1. id \in Ids /\ imports[who].n \in Nat
    BY <1>2, ImportIs DEF Imports, ImportXpub, ImportSave
  <2>2. KeyOf(id) \in VaultKeys /\ objects[id] \in Object
    BY <2>1, KeyIs, ObjectsAre DEF Shape
  <2>3. XpubOf(objects[id], imports[who].n) \in Nat
    BY <2>1, <2>2, XpubIs
  <2>4. CASE ImportXpub(who)
    BY <2>2, <2>3, <2>4, AddingXpubKeepsShape DEF ImportXpub, Shape, historyVars
  <2>5. CASE ImportSave(who)
    BY <2>2, <2>3, <2>5, SavingKeepsShape DEF ImportSave, Shape, historyVars, KeyOf
  <2>6. QED
    BY <1>2, <2>4, <2>5
<1>3. CASE AddVault
  <2> DEFINE id == encrypting.id
             key == KeyOf(id)
             v == [secret |-> IF encrypting.secret = "seed" THEN encrypting.password ELSE NoPassword,
                   wallets |-> Xpubs(objects[id])]
  <2>1. encrypting \in EncryptTask /\ id \in Ids
    BY <1>3 DEF AddVault, Shape, EncryptingShape, CheckTask
  <2>2. key \in VaultKeys /\ Xpubs(objects[id]) \in Seq(Nat)
    BY <2>1, KeyIs, ObjectsAre, XpubsAre DEF Shape
  <2>3. v \in StoredVault
    BY <2>1, <2>2 DEF EncryptTask, StoredVault, MaybePassword
  <2>4. vaultsDB' = vaultsDB \/ vaultsDB' = [vaultsDB EXCEPT ![key] = v]
    BY <1>3 DEF AddVault
  <2> HIDE DEF v
  <2>5. UNCHANGED <<accountsDB, encWif, promised>>
    BY <1>3 DEF AddVault, historyVars
  <2>6. QED
    BY <2>2, <2>3, <2>4, <2>5 DEF Shape, StoresShape
<1>4. CASE SaveAccounts
  <2> DEFINE id == encrypting.id
             key == KeyOf(id)
             w == [password |-> encrypting.password, genuine |-> encrypting.secret = "key"]
             as == accountsDB[key] \cup Range(Xpubs(objects[id]))
             r == [key |-> key, password |-> encrypting.password]
  <2>1. encrypting \in EncryptTask /\ id \in Ids
    BY <1>4 DEF SaveAccounts, Shape, EncryptingShape, CheckTask
  <2>2. key \in VaultKeys /\ Xpubs(objects[id]) \in Seq(Nat)
    BY <2>1, KeyIs, ObjectsAre, XpubsAre DEF Shape
  <2>3. encrypting.password \in Passwords
    BY <2>1 DEF EncryptTask
  <2>4. w \in Wif /\ r \in Promise
    BY <2>2, <2>3 DEF Wif, MaybePassword, Promise
  <2>5. as \in SUBSET Nat
    BY <2>2 DEF Shape, StoresShape, Range
  <2>6. /\ UNCHANGED vaultsDB /\ accountsDB' = [accountsDB EXCEPT ![key] = as]
        /\ encWif' = encWif \/ encWif' = [encWif EXCEPT ![key] = w]
        /\ promised' \subseteq promised \cup {r}
    BY <1>4 DEF SaveAccounts
  <2> HIDE DEF as, w, r
  <2>7. QED
    BY <2>2, <2>4, <2>5, <2>6 DEF Shape, StoresShape
<1>5. CASE logOut
  <2>1. KeyOf(activeVault) \in VaultKeys
    BY <1>5, KeyIs DEF logOut, Shape, ListsShape
  <2>2. /\ vaultsDB' = [vaultsDB EXCEPT ![KeyOf(activeVault)] = NoVault]
        /\ promised' \subseteq promised /\ UNCHANGED <<accountsDB, encWif>>
    BY <1>5 DEF logOut, Forget
  <2>3. QED
    BY <2>1, <2>2 DEF Shape, StoresShape
<1>6. CASE RemoveVault
  <2> DEFINE o == objects[removing]
             as == accountsDB[o.key] \ (IF o.own THEN Range(Xpubs(o)) ELSE {})
  <2>1. o \in Object /\ o.key \in VaultKeys
    BY <1>6, ObjectsAre DEF RemoveVault, Shape, ListsShape, Object
  <2>2. as \in SUBSET Nat
    BY <2>1 DEF Shape, StoresShape
  <2>3. /\ UNCHANGED vaultsDB /\ accountsDB' = [accountsDB EXCEPT ![o.key] = as]
        /\ encWif' = encWif \/ encWif' = [encWif EXCEPT ![o.key].password = NoPassword]
        /\ promised' \subseteq promised
    BY <1>6 DEF RemoveVault, Forget
  <2>4. encWif' \in [VaultKeys -> Wif]
    BY <2>1, <2>3 DEF Shape, StoresShape, Wif, MaybePassword
  <2> HIDE DEF as, o
  <2>5. QED
    BY <2>1, <2>2, <2>3, <2>4 DEF Shape, StoresShape
<1>7. ASSUME NEW s \in Slots, Listed(s) \/ Added(s) PROVE StoresShape'
  <2> DEFINE id == adding[s].id
  <2>1. id \in Ids /\ adding[s].n \in Nat
    BY <1>7, AdditionIs DEF Listed, Added
  <2>2. KeyOf(id) \in VaultKeys /\ objects[id] \in Object
    BY <2>1, KeyIs, ObjectsAre DEF Shape
  <2>3. XpubOf(objects[id], adding[s].n) \in Nat
    BY <2>1, <2>2, XpubIs
  <2>4. CASE Listed(s)
    BY <2>2, <2>3, <2>4, AddingXpubKeepsShape DEF Listed, Shape, historyVars
  <2>5. CASE Added(s)
    BY <2>2, <2>3, <2>5, SavingKeepsShape DEF Added, Shape, historyVars
  <2>6. QED
    BY <1>7, <2>4, <2>5
<1>8. QED
  BY <1>1, <1>2, <1>3, <1>4, <1>5, <1>6, <1>7, StoresChange, Zenon

LEMMA StoredAreLoadable == ASSUME StoresShape PROVE getVaults \subseteq Loadable
<1>1. \A k \in VaultKeys : Stored(k) =>
        [key |-> k, wallets |-> vaultsDB[k].wallets] \in Loadable
  BY StoredIs DEF StoredVault, Loadable
<1>2. QED
  BY <1>1 DEF getVaults

LEMMA ToLoadIs ==
  ASSUME NEW rest \in SUBSET Loadable PROVE ToLoad(rest) \in StartTask \cup {Idle}
BY DEF ToLoad, StartTask

\* Everything is as on a page without vaults.
LEMMA EmptyPageHasShape ==
  ASSUME StoresShape, objects = <<>>, vaults = <<>>, rawVaults = <<>>, activeVault = 0,
         removing = 0, encrypting = Idle, unlocking = Idle, adding = [s \in Slots |-> Idle],
         restoring = Idle,
         imports = [who \in Importers |-> IF who = "start" THEN ToLoad(getVaults) ELSE Idle]
  PROVE  Shape
<1>1. ObjectsShape /\ Len(objects) = 0
  BY EmptySeq DEF ObjectsShape
<1>2. ListsShape
  BY EmptySeq DEF ListsShape
<1>3. ImportsShape
  <2>1. ToLoad(getVaults) \in StartTask \cup {Idle}
    BY StoredAreLoadable, ToLoadIs
  <2>2. imports["start"] = ToLoad(getVaults) /\ imports["login"] = Idle
    BY DEF Importers
  <2>3. \A who \in Importers : imports[who] = ToLoad(getVaults) \/ imports[who] = Idle
    OBVIOUS
  <2>4. imports \in [Importers -> LoginTask \cup StartTask \cup {Idle}]
    BY <2>1
  <2>5. \A who \in Importers : ~Imports(who)
    BY <2>3 DEF Imports, ToLoad
  <2>6. QED
    BY <2>1, <2>2, <2>4, <2>5 DEF ImportsShape
<1>4. EncryptingShape /\ UnlockingShape /\ AddingShape /\ RestoringShape
  BY DEF EncryptingShape, UnlockingShape, AddingShape, RestoringShape
<1>5. QED
  BY <1>1, <1>2, <1>3, <1>4 DEF Shape

LEMMA ReloadKeepsShape ==
  ASSUME Shape, VaultsNext, Reload PROVE Shape'
<1>1. StoresShape'
  BY NextStoresShape
<1>2. getVaults' = getVaults
  BY DEF Reload, storeVars, getVaults, Stored
<1>3. ObjectsShape' /\ Len(objects') = 0
  BY EmptySeq DEF ObjectsShape, Reload, Fresh
<1>4. ListsShape'
  BY EmptySeq DEF ListsShape, Reload, Fresh
<1>5. ImportsShape'
  <2>1. ToLoad(getVaults) \in StartTask \cup {Idle}
    BY StoredAreLoadable, ToLoadIs DEF Shape
  <2>2. imports' = [who \in Importers |-> IF who = "start" THEN ToLoad(getVaults) ELSE Idle]
    BY DEF Reload
  <2>3. imports'["start"] = ToLoad(getVaults) /\ imports'["login"] = Idle
    BY <2>2 DEF Importers
  <2>4. \A who \in Importers : imports'[who] = ToLoad(getVaults) \/ imports'[who] = Idle
    BY <2>2
  <2>5. imports' \in [Importers -> LoginTask \cup StartTask \cup {Idle}]
    BY <2>1, <2>2
  <2>6. \A who \in Importers : ~Imports(who)'
    BY <2>4 DEF Imports, ToLoad
  <2>7. QED
    BY <2>1, <2>3, <2>5, <2>6 DEF ImportsShape
<1>6. EncryptingShape' /\ UnlockingShape' /\ AddingShape' /\ RestoringShape'
  BY DEF EncryptingShape, UnlockingShape, AddingShape, RestoringShape, Reload, Fresh
<1>7. QED
  BY <1>1, <1>3, <1>4, <1>5, <1>6 DEF Shape

LEMMA IdsGrow ==
  ASSUME ObjectsShape, Evolves PROVE Ids \subseteq Ids' /\ Ids \subseteq Nat \ {0}
BY DEF Evolves, Ids, ObjectsShape

LEMMA EnteredKeepsLists ==
  ASSUME Shape, NEW o \in Object, Enter(o), UNCHANGED <<activeVault, removing>>
  PROVE  ListsShape'
<1> DEFINE id == Len(objects) + 1
<1>1. Evolves /\ Len(objects') = id
  BY EnteredEvolves DEF Shape
<1>2. id \in Nat /\ id \in Ids' /\ Ids \subseteq Ids'
  BY <1>1, IdsGrow DEF Shape, ObjectsShape, Ids
<1> DEFINE p == {q \in DOMAIN vaults : KeyOf(vaults[q]) = o.key}
<1> HIDE DEF id
<1>3. CASE vaults' = Append(vaults, id) /\ rawVaults' = Append(rawVaults, id)
  BY <1>2, <1>3 DEF Shape, ListsShape
<1>4. CASE /\ vaults' = [q \in DOMAIN vaults |-> IF q \in p THEN id ELSE vaults[q]]
           /\ rawVaults' = [q \in DOMAIN rawVaults |-> IF q \in p THEN id ELSE rawVaults[q]]
  <2>1. ASSUME NEW list \in Seq(Nat), \A q \in DOMAIN list : list[q] \in Ids
        PROVE  LET new == [q \in DOMAIN list |-> IF q \in p THEN id ELSE list[q]] IN
               /\ new \in Seq(Nat) /\ Len(new) = Len(list)
               /\ \A q \in DOMAIN new : new[q] \in Ids'
    <3> DEFINE new == [q \in DOMAIN list |-> IF q \in p THEN id ELSE list[q]]
    <3>1. Len(list) \in Nat /\ DOMAIN list = 1 .. Len(list) /\ \A q \in 1 .. Len(list) : list[q] \in Nat
      BY <2>1
    <3>2. new \in [1 .. Len(list) -> Nat]
      BY <1>2, <3>1
    <3>3. new \in Seq(Nat)
      BY <3>1, <3>2, SeqDef
    <3>4. DOMAIN new = 1 .. Len(list)
      BY <3>1
    <3>5. \A q \in DOMAIN new : new[q] \in Ids'
      BY <1>2, <2>1
    <3> HIDE DEF new
    <3>6. Len(new) = Len(list)
      <4>1. Len(new) \in Nat /\ DOMAIN new = 1 .. Len(new)
        BY <3>3
      <4>2. QED
        BY <3>1, <3>4, <4>1
    <3>7. QED
      BY <3>3, <3>5, <3>6 DEF new
  <2>2. QED
    BY <1>2, <1>4, <2>1 DEF Shape, ListsShape
<1>5. QED
  BY <1>3, <1>4, Zenon DEF Enter, id

LEMMA NextListsShape ==
  ASSUME Shape, VaultsNext, ~Reload PROVE ListsShape'
<1>0. Evolves /\ Ids \subseteq Ids' /\ Ids \subseteq Nat \ {0}
  BY NextEvolves, IdsGrow DEF Shape
<1>1. ListsShape
  BY DEF Shape
<1>2. ASSUME UNCHANGED <<vaults, rawVaults>>, activeVault' \in Ids \cup {0},
             removing' \in Ids \cup {0}, removing' # 0 => activeVault' # 0
      PROVE  ListsShape'
  BY <1>0, <1>1, <1>2 DEF ListsShape
<1>3. CASE UNCHANGED <<vaults, rawVaults, activeVault, removing>>
  BY <1>1, <1>2, <1>3 DEF ListsShape
<1>4. CASE ParsedSecret
  BY <1>4, ParsedEnters, EnteredKeepsLists DEF ParsedSecret
<1>5. CASE LoadNext
  <2>1. UNCHANGED removing
    BY <1>5 DEF LoadNext
  <2>2. CASE UNCHANGED <<listVars, disturbed>>
    BY <1>3, <2>1, <2>2 DEF listVars
  <2>3. CASE ~UNCHANGED <<listVars, disturbed>>
    BY <1>5, <2>1, <2>3, LoadNextEnters, EnteredKeepsLists, Zenon
  <2>4. QED
    BY <2>2, <2>3
<1>6. CASE logOut
  BY <1>1, <1>2, <1>6 DEF logOut, ListsShape, listVars
<1>7. ASSUME NEW who \in Importers, imports[who] # Idle, ImportSave(who) PROVE ListsShape'
  <2>1. imports[who].id \in Ids
    BY <1>7, ImportIs DEF Imports, ImportSave
  <2>2. UNCHANGED <<vaults, rawVaults, removing>> /\ activeVault' \in {activeVault, imports[who].id}
    BY <1>7 DEF ImportSave
  <2>3. QED
    BY <1>0, <1>1, <1>2, <2>1, <2>2 DEF ListsShape
<1>8. ASSUME NEW id \in DOMAIN objects, NEW p \in 1 .. MaxAccounts + 1, selectWallet(id, p)
      PROVE  ListsShape'
  <2>1. id \in Ids
    BY DEF Ids, Shape, ObjectsShape
  <2>2. p \in Nat
    <3>1. objects[id].wallets \in Seq(Nat)
      BY <2>1, ObjectsAre DEF Shape, Object
    <3>2. QED
      BY <1>8, <3>1 DEF selectWallet
  <2>3. activeVault' \in {activeVault, id}
    BY <1>8, <2>1, <2>2, selectWalletSelects DEF Selected
  <2>4. UNCHANGED <<vaults, rawVaults, removing>>
    BY <1>8 DEF selectWallet
  <2>5. QED
    BY <1>0, <1>1, <1>2, <2>1, <2>3, <2>4 DEF ListsShape
<1>9. CASE RemoveVault
  <2> DEFINE left == Without(vaults, objects[removing].key)
  <2>1. /\ left \in Seq(Nat) /\ \A q \in DOMAIN left : left[q] \in Ids
        /\ Len(left) <= Len(vaults)
    BY WithoutIs
  <2>2. activeVault' \in Ids \cup {0}
    BY <1>9, RemoveVaultRests
  <2>3. vaults' = left /\ UNCHANGED rawVaults /\ removing' = 0
    BY <1>9 DEF RemoveVault
  <2> HIDE DEF left
  <2>4. Len(left) \in Nat /\ Len(vaults) \in Nat /\ Len(rawVaults) \in Nat
    BY <1>1, <2>1 DEF ListsShape
  <2>5. QED
    BY <1>0, <1>1, <2>1, <2>2, <2>3, <2>4 DEF ListsShape
<1>10. QED
  BY <1>3, <1>4, <1>5, <1>6, <1>7, <1>8, <1>9, ListsChange, Zenon

LEMMA NextImportsShape ==
  ASSUME Shape, VaultsNext, ~Reload PROVE ImportsShape'
<1>0. Ids \subseteq Ids' /\ Ids \subseteq Nat \ {0}
  BY NextEvolves, IdsGrow DEF Shape
<1>1. ImportsShape
  BY DEF Shape
<1>2. CASE UNCHANGED imports
  BY <1>0, <1>1, <1>2 DEF ImportsShape, Imports
\* One of the two imports takes a step.
<1>3. ASSUME NEW task \in LoginTask \cup {Idle}, imports' = [imports EXCEPT !["login"] = task],
             task # Idle => task.at = "parse" \/ task.id \in Ids'
      PROVE  ImportsShape'
  <2>1. imports' \in [Importers -> LoginTask \cup StartTask \cup {Idle}]
    BY <1>1, <1>3 DEF ImportsShape
  <2>2. imports'["login"] = task /\ imports'["start"] = imports["start"]
    BY <1>1, <1>3 DEF ImportsShape, Importers
  <2>3. \A who \in Importers : Imports(who)' => imports'[who].id \in Ids'
    BY <1>0, <1>1, <1>3, <2>2 DEF ImportsShape, Imports, Importers
  <2>4. QED
    BY <1>1, <2>1, <2>2, <2>3 DEF ImportsShape
<1>4. ASSUME NEW task \in StartTask \cup {Idle}, imports' = [imports EXCEPT !["start"] = task],
             task # Idle => task.at = "next" \/ task.id \in Ids'
      PROVE  ImportsShape'
  <2>1. imports' \in [Importers -> LoginTask \cup StartTask \cup {Idle}]
    BY <1>1, <1>4 DEF ImportsShape
  <2>2. imports'["start"] = task /\ imports'["login"] = imports["login"]
    BY <1>1, <1>4 DEF ImportsShape, Importers
  <2>3. \A who \in Importers : Imports(who)' => imports'[who].id \in Ids'
    BY <1>0, <1>1, <1>4, <2>2 DEF ImportsShape, Imports, Importers
  <2>4. QED
    BY <1>1, <2>1, <2>2, <2>3 DEF ImportsShape
<1>5. ASSUME NEW s \in ImportedSecrets, Import(s[1], s[2]) PROVE ImportsShape'
  <2>1. s[1] \in VaultKeys /\ s[2] \in Kinds
    BY VaultsAssumption
  <2>2. [at |-> "parse", key |-> s[1], kind |-> s[2], id |-> 0, n |-> 0] \in LoginTask
    BY <2>1 DEF LoginTask
  <2>3. QED
    BY <1>3, <1>5, <2>2 DEF Import
<1>6. CASE ParseFails
  BY <1>3, <1>6 DEF ParseFails
<1>7. CASE ParsedSecret
  <2> DEFINE task == [imports["login"] EXCEPT !.at = "xpub", !.id = Len(objects'), !.n = 0]
  <2>1. imports["login"] \in LoginTask
    BY <1>1, <1>7 DEF ParsedSecret, ImportsShape
  <2>2. Len(objects') = Len(objects) + 1
    BY <1>7, ParsedEnters, EnteredEvolves DEF Shape
  <2>3. Len(objects') \in Ids' /\ Len(objects') \in Nat
    BY <2>2 DEF Shape, ObjectsShape, Ids
  <2>4. task \in LoginTask /\ task.id = Len(objects')
    BY <2>1, <2>3 DEF LoginTask
  <2>5. imports' = [imports EXCEPT !["login"] = task]
    BY <1>1, <1>7, <2>1 DEF ParsedSecret, ImportsShape, LoginTask
  <2> HIDE DEF task
  <2>6. QED
    BY <1>3, <2>3, <2>4, <2>5
<1>8. CASE LoadNext
  <2>1. imports["start"] \in StartTask /\ imports["start"].rest \subseteq Loadable
    BY <1>8, LoadNextIs DEF StartTask
  <2>2. PICK v \in imports["start"].rest :
          \/ \E o : Enter(o) /\ o = NewVault(v.key, "public", v.wallets)
               /\ imports' = [imports EXCEPT !["start"] =
                    [at |-> "xpub", rest |-> imports["start"].rest \ {v}, id |-> Len(objects'), n |-> 0]]
          \/ imports' = [imports EXCEPT !["start"] = ToLoad(imports["start"].rest \ {v})]
    BY <1>8, Zenon DEF LoadNext
  <2> DEFINE rest == imports["start"].rest \ {v}
  <2>3. rest \in SUBSET Loadable
    BY <2>1
  <2> HIDE DEF rest
  <2>4. CASE imports' = [imports EXCEPT !["start"] = ToLoad(rest)]
    <3>1. ToLoad(rest) \in StartTask \cup {Idle} /\ (ToLoad(rest) # Idle => ToLoad(rest).at = "next")
      BY <2>3, ToLoadIs DEF ToLoad
    <3>2. QED
      BY <1>4, <2>4, <3>1
  <2>5. ASSUME NEW o, Enter(o), o = NewVault(v.key, "public", v.wallets),
               imports' = [imports EXCEPT !["start"] =
                             [at |-> "xpub", rest |-> rest, id |-> Len(objects'), n |-> 0]]
        PROVE  ImportsShape'
    <3>1. o \in Object
      BY <2>1, <2>2, <2>5, NewIsObject DEF Kinds, Loadable
    <3>2. Len(objects') = Len(objects) + 1
      BY <2>5, <3>1, EnteredEvolves DEF Shape
    <3>3. Len(objects') \in Ids' /\ Len(objects') \in Nat
      BY <3>2 DEF Shape, ObjectsShape, Ids
    <3>4. [at |-> "xpub", rest |-> rest, id |-> Len(objects'), n |-> 0] \in StartTask
      BY <2>3, <3>3 DEF StartTask
    <3>5. QED
      BY <1>4, <2>5, <3>3, <3>4
  <2>6. QED
    BY <2>2, <2>4, <2>5 DEF rest
<1>9. ASSUME NEW who \in Importers, imports[who] # Idle, ImportXpub(who) PROVE ImportsShape'
  <2> DEFINE task == [imports[who] EXCEPT !.at = "save"]
  <2>1. imports[who].id \in Ids /\ imports[who].at = "xpub"
    BY <1>9, ImportIs DEF Imports, ImportXpub
  <2>2. imports' = [imports EXCEPT ![who] = task]
    BY <1>9 DEF ImportXpub
  <2>3. CASE who = "login"
    <3>1. imports[who] \in LoginTask
      BY <1>1, <1>9, <2>3 DEF ImportsShape
    <3>2. task \in LoginTask /\ task.id = imports[who].id
      BY <3>1 DEF LoginTask
    <3> HIDE DEF task
    <3>3. QED
      BY <1>0, <1>3, <2>1, <2>2, <2>3, <3>2
  <2>4. CASE who = "start"
    <3>1. imports[who] \in StartTask
      BY <1>1, <1>9, <2>4 DEF ImportsShape
    <3>2. task \in StartTask /\ task.id = imports[who].id
      BY <3>1 DEF StartTask
    <3> HIDE DEF task
    <3>3. QED
      BY <1>0, <1>4, <2>1, <2>2, <2>4, <3>2
  <2>5. QED
    BY <2>3, <2>4 DEF Importers
<1>10. ASSUME NEW who \in Importers, imports[who] # Idle, ImportSave(who) PROVE ImportsShape'
  <2> DEFINE more == imports[who].n + 1
             task == [imports[who] EXCEPT !.at = "xpub", !.n = more]
  <2>1. imports[who].id \in Ids /\ more \in Nat
    BY <1>10, ImportIs DEF Imports, ImportSave
  <2> HIDE DEF more
  <2>2. \/ imports' = [imports EXCEPT ![who] = task]
        \/ who = "login" /\ imports' = [imports EXCEPT !["login"] = Idle]
        \/ who = "start" /\ imports' = [imports EXCEPT !["start"] = ToLoad(imports["start"].rest)]
    BY <1>10 DEF ImportSave, Importers, more
  <2>3. CASE who = "login" /\ imports' = [imports EXCEPT ![who] = task]
    <3>1. imports[who] \in LoginTask
      BY <1>1, <1>10, <2>3 DEF ImportsShape
    <3>2. task \in LoginTask /\ task.id = imports[who].id
      BY <2>1, <3>1 DEF LoginTask
    <3> HIDE DEF task
    <3>3. QED
      BY <1>0, <1>3, <2>1, <2>3, <3>2
  <2>4. CASE who = "start" /\ imports' = [imports EXCEPT ![who] = task]
    <3>1. imports[who] \in StartTask
      BY <1>1, <1>10, <2>4 DEF ImportsShape
    <3>2. task \in StartTask /\ task.id = imports[who].id
      BY <2>1, <3>1 DEF StartTask
    <3> HIDE DEF task
    <3>3. QED
      BY <1>0, <1>4, <2>1, <2>4, <3>2
  <2>5. CASE imports' = [imports EXCEPT !["login"] = Idle]
    BY <1>3, <2>5
  <2>6. CASE who = "start" /\ imports' = [imports EXCEPT !["start"] = ToLoad(imports["start"].rest)]
    <3>1. imports["start"].rest \in SUBSET Loadable
      BY <1>1, <1>10, <2>6 DEF ImportsShape, StartTask
    <3>2. /\ ToLoad(imports["start"].rest) \in StartTask \cup {Idle}
          /\ ToLoad(imports["start"].rest) # Idle => ToLoad(imports["start"].rest).at = "next"
      BY <3>1, ToLoadIs DEF ToLoad
    <3>3. QED
      BY <1>4, <2>6, <3>2
  <2>7. QED
    BY <2>2, <2>3, <2>4, <2>5, <2>6 DEF Importers
<1>11. QED
  BY <1>2, <1>5, <1>6, <1>7, <1>8, <1>9, <1>10, ImportsChange, Zenon

\* The encryption a vault begins, if its secret can be had.
LEMMA EncryptActiveKeepsShape ==
  ASSUME Shape, activeVault # 0, NEW password \in Passwords, EncryptActive(password),
         Ids \subseteq Ids'
  PROVE  EncryptingShape'
<1>1. activeVault \in Ids /\ activeVault \in Nat
  BY DEF Shape, ListsShape, Ids
<1>2. \/ encrypting' = Idle
      \/ /\ getSecretToExport(objects[activeVault]) # "throws"
         /\ encrypting' = [at |-> "store", id |-> activeVault, password |-> password,
                           secret |-> getSecretToExport(objects[activeVault]), spoilt |-> FALSE]
  BY DEF EncryptActive
<1>3. getSecretToExport(objects[activeVault]) \in {"seed", "key", "throws", "random"}
  BY DEF getSecretToExport, keyToBackup
<1> DEFINE task(secret) == [at |-> "store", id |-> activeVault, password |-> password,
                            secret |-> secret, spoilt |-> FALSE]
<1>4. \A secret \in {"seed", "key", "random"} :
        task(secret) \in EncryptTask /\ task(secret).id = activeVault
  BY <1>1 DEF EncryptTask
<1>5. encrypting' = Idle \/ \E secret \in {"seed", "key", "random"} : encrypting' = task(secret)
  BY <1>2, <1>3
<1> HIDE DEF task
<1>6. QED
  BY <1>1, <1>4, <1>5 DEF EncryptingShape

LEMMA ForgettingKeepsShape ==
  ASSUME EncryptingShape, NEW key, Forget(key), Ids \subseteq Ids'
  PROVE  EncryptingShape'
<1>1. CASE UNCHANGED encrypting
  BY <1>1 DEF EncryptingShape
<1>2. CASE encrypting # Idle /\ encrypting.at # "check"
  <2> DEFINE spoilt == encrypting.spoilt \/ KeyOf(encrypting.id) = key
             task == [encrypting EXCEPT !.spoilt = spoilt]
  <2>1. encrypting \in EncryptTask
    BY <1>2 DEF EncryptingShape, CheckTask
  <2>2. spoilt \in BOOLEAN
    OBVIOUS
  <2>3. encrypting' = task
    BY <1>2, <2>1 DEF Forget, EncryptTask
  <2> HIDE DEF spoilt
  <2>4. task \in EncryptTask /\ task.id = encrypting.id
    BY <2>1, <2>2 DEF EncryptTask
  <2> HIDE DEF task
  <2>5. QED
    BY <1>2, <2>3, <2>4 DEF EncryptingShape
<1>3. QED
  BY <1>1, <1>2 DEF Forget

LEMMA NextEncryptingShape ==
  ASSUME Shape, VaultsNext, ~Reload PROVE EncryptingShape'
<1>0. Ids \subseteq Ids' /\ Ids \subseteq Nat \ {0}
  BY NextEvolves, IdsGrow DEF Shape
<1>1. EncryptingShape
  BY DEF Shape
<1>2. CASE UNCHANGED encrypting \/ encrypting' = Idle
  BY <1>0, <1>1, <1>2 DEF EncryptingShape
<1>3. ASSUME NEW p \in Passwords, NEW q \in Passwords, encryptWallet(p, q) PROVE EncryptingShape'
  <2>1. activeVault \in Ids /\ activeVault \in Nat /\ activeVault # 0
    BY <1>0, <1>3 DEF encryptWallet, EncryptModalShown, Shape, ListsShape
  <2>2. CASE encrypting' = [at |-> "check", id |-> activeVault, password |-> p, current |-> q]
    BY <1>0, <2>1, <2>2 DEF EncryptingShape, CheckTask
  <2>3. CASE EncryptActive(p)
    BY <1>0, <2>1, <2>3, EncryptActiveKeepsShape
  <2>4. QED
    BY <1>3, <2>2, <2>3 DEF encryptWallet
<1>4. CASE Checked
  <2>1. CASE encrypting' = Idle
    BY <1>2, <2>1
  <2>2. CASE activeVault # 0 /\ EncryptActive(encrypting.password)
    <3>1. encrypting.password \in Passwords
      BY <1>1, <1>4 DEF Checked, EncryptingShape, CheckTask, EncryptTask
    <3>2. QED
      BY <1>0, <2>2, <3>1, EncryptActiveKeepsShape
  <2>3. QED
    BY <1>4, <2>1, <2>2 DEF Checked
<1>5. CASE AddVault
  <2> DEFINE task == [encrypting EXCEPT !.at = "save"]
  <2>1. encrypting \in EncryptTask
    BY <1>1, <1>5 DEF AddVault, EncryptingShape, CheckTask
  <2>2. task \in EncryptTask /\ task.id = encrypting.id
    BY <2>1 DEF EncryptTask
  <2>3. encrypting' = Idle \/ encrypting' = task
    BY <1>5 DEF AddVault
  <2> HIDE DEF task
  <2>4. QED
    BY <1>0, <1>1, <1>2, <1>5, <2>2, <2>3 DEF EncryptingShape, AddVault
<1>6. CASE SaveAccounts
  BY <1>2, <1>6 DEF SaveAccounts
<1>7. CASE logOut \/ RemoveVault
  BY <1>0, <1>1, <1>7, ForgettingKeepsShape DEF logOut, RemoveVault
<1>8. QED
  BY <1>2, <1>3, <1>4, <1>5, <1>6, <1>7, EncryptingChanges, Zenon

LEMMA NextUnlockingShape ==
  ASSUME Shape, VaultsNext, ~Reload PROVE UnlockingShape'
<1>0. Ids \subseteq Ids' /\ Ids \subseteq Nat \ {0}
  BY NextEvolves, IdsGrow DEF Shape
<1>1. CASE UNCHANGED unlocking \/ unlocking' = Idle
  BY <1>0, <1>1 DEF Shape, UnlockingShape
<1>2. ASSUME NEW p \in Passwords, Unlock(p) PROVE UnlockingShape'
  <2>1. activeVault \in Ids /\ activeVault \in Nat
    BY <1>0, <1>2 DEF Unlock, Shape, ListsShape
  <2>2. encWif[KeyOf(activeVault)].genuine \in BOOLEAN
    BY <2>1, KeyIs DEF Shape, StoresShape, Wif
  <2>3. \/ unlocking' = Idle
        \/ unlocking' = [id |-> activeVault, seed |-> TRUE, genuine |-> TRUE]
        \/ unlocking' = [id |-> activeVault, seed |-> FALSE, genuine |-> encWif[KeyOf(activeVault)].genuine]
    BY <1>2 DEF Unlock
  <2> DEFINE task(seed, genuine) == [id |-> activeVault, seed |-> seed, genuine |-> genuine]
  <2>4. \A seed, genuine \in BOOLEAN :
          task(seed, genuine) \in UnlockTask /\ task(seed, genuine).id = activeVault
    BY <2>1 DEF UnlockTask
  <2>5. unlocking' = Idle \/ \E seed, genuine \in BOOLEAN : unlocking' = task(seed, genuine)
    BY <2>2, <2>3
  <2> HIDE DEF task
  <2>6. QED
    BY <1>0, <2>1, <2>4, <2>5 DEF UnlockingShape
<1>3. QED
  BY <1>1, <1>2, UnlockingChanges DEF Unlocked

LEMMA AddingAccountKeepsShape ==
  ASSUME Shape, NEW id \in Ids, AddAccount(id), Idle \in Range(adding), Ids \subseteq Ids'
  PROVE  AddingShape'
<1> DEFINE slot == CHOOSE s \in Slots : adding[s] = Idle
           n == Len(objects[id].wallets)
<1>1. slot \in Slots
  BY DEF Range, Shape, AddingShape
<1>2. n \in Nat /\ id \in Nat
  BY AddingAccount DEF Ids
<1>3. \/ UNCHANGED adding
      \/ adding' = [adding EXCEPT ![slot] = [at |-> "xpub", id |-> id, n |-> n]]
      \/ adding' = [adding EXCEPT ![slot] = [at |-> "make", id |-> id, n |-> n]]
  BY DEF AddAccount
<1> HIDE DEF slot, n
<1>4. [at |-> "xpub", id |-> id, n |-> n] \in AddTask /\ [at |-> "make", id |-> id, n |-> n] \in AddTask
  BY <1>2 DEF AddTask
<1>5. QED
  BY <1>1, <1>3, <1>4 DEF Shape, AddingShape

LEMMA NextAddingShape ==
  ASSUME Shape, VaultsNext, ~Reload PROVE AddingShape'
<1>0. Ids \subseteq Ids' /\ Ids \subseteq Nat \ {0}
  BY NextEvolves, IdsGrow DEF Shape
<1>1. AddingShape
  BY DEF Shape
<1>2. CASE UNCHANGED adding
  BY <1>0, <1>1, <1>2 DEF AddingShape
<1>3. CASE GoesOn
  <2>1. restoring.id \in Ids
    BY <1>3 DEF GoesOn, Shape, RestoringShape
  <2>2. QED
    BY <1>0, <1>3, <2>1, AddingAccountKeepsShape DEF GoesOn
<1>4. ASSUME NEW id \in DOMAIN objects, AddWallet(id) PROVE AddingShape'
  <2>1. id \in Ids
    BY DEF Ids, Shape, ObjectsShape
  <2>2. UNCHANGED adding \/ AddAccount(id)
    BY <1>4 DEF AddWallet
  <2>3. QED
    BY <1>0, <1>2, <1>4, <2>1, <2>2, AddingAccountKeepsShape DEF AddWallet
<1>5. ASSUME NEW s \in Slots, Made(s) \/ Listed(s) \/ Added(s) PROVE AddingShape'
  <2>1. adding[s] \in AddTask
    BY <1>5, AdditionIs DEF Made, Listed, Added
  <2>2. PICK task \in AddTask \cup {Idle} :
          adding' = [adding EXCEPT ![s] = task] /\ (task # Idle => task.id = adding[s].id)
    <3>1. /\ [adding[s] EXCEPT !.at = "xpub"] \in AddTask
          /\ [adding[s] EXCEPT !.at = "save"] \in AddTask
          /\ [adding[s] EXCEPT !.at = "xpub"].id = adding[s].id
          /\ [adding[s] EXCEPT !.at = "save"].id = adding[s].id
      BY <2>1 DEF AddTask
    <3>2. \/ adding' = [adding EXCEPT ![s] = [adding[s] EXCEPT !.at = "xpub"]]
          \/ adding' = [adding EXCEPT ![s] = [adding[s] EXCEPT !.at = "save"]]
          \/ adding' = [adding EXCEPT ![s] = Idle]
      BY <1>5 DEF Made, Listed, Added
    <3>3. QED
      BY <3>1, <3>2, Zenon
  <2>3. adding[s] # Idle
    BY <1>5 DEF Made, Listed, Added
  <2>4. QED
    BY <1>0, <1>1, <2>2, <2>3 DEF AddingShape
<1>6. QED
  BY <1>2, <1>3, <1>4, <1>5, AddingChanges, Zenon

LEMMA NextRestoringShape ==
  ASSUME Shape, VaultsNext, ~Reload PROVE RestoringShape'
<1>0. Ids \subseteq Ids' /\ Ids \subseteq Nat \ {0}
  BY NextEvolves, IdsGrow DEF Shape
<1>1. CASE UNCHANGED restoring \/ restoring' = Idle
  BY <1>0, <1>1 DEF Shape, RestoringShape
<1>2. CASE CancelUnlock \/ GoesOn
  BY <1>1, <1>2 DEF CancelUnlock, GoesOn
<1>3. ASSUME NEW id \in DOMAIN objects, AddWallet(id) PROVE RestoringShape'
  <2>1. id \in Ids /\ id \in Nat
    BY DEF Ids, Shape, ObjectsShape
  <2>2. UNCHANGED restoring \/ restoring' = Idle \/ restoring' = [id |-> id]
    BY <1>3 DEF AddWallet
  <2>3. QED
    BY <1>0, <1>1, <2>1, <2>2 DEF RestoringShape, RestoreTask
<1>4. QED
  BY <1>1, <1>2, <1>3, RestoringChanges, Zenon

LEMMA NextShape == ASSUME Shape, [VaultsNext]_vaultVars PROVE Shape'
<1>1. CASE VaultsNext /\ ~Reload
  BY <1>1, NextEvolves, NextStoresShape, NextListsShape, NextImportsShape, NextEncryptingShape,
     NextUnlockingShape, NextAddingShape, NextRestoringShape DEF Shape, Evolves, ObjectsShape
<1>2. CASE VaultsNext /\ Reload
  BY <1>2, ReloadKeepsShape
<1>3. CASE UNCHANGED vaultVars
  BY <1>3 DEF vaultVars, storeVars, listVars, modalVars, historyVars, Shape, StoresShape,
     ObjectsShape, ListsShape, ImportsShape, Imports, EncryptingShape, UnlockingShape,
     AddingShape, RestoringShape, Ids
<1>4. QED
  BY <1>1, <1>2, <1>3

LEMMA FirstShape == ASSUME VaultsInit PROVE Shape
<1>1. PICK visited \in Visits :
        /\ vaultsDB = [k \in VaultKeys |->
                         IF k \in visited
                         THEN [secret |-> IF k \in HDKeys THEN FirstPassword ELSE NoPassword,
                               wallets |-> <<0>>]
                         ELSE NoVault]
        /\ accountsDB = [k \in VaultKeys |-> IF k \in visited THEN {0} ELSE {}]
        /\ encWif = [k \in VaultKeys |->
                       [password |-> IF k \in visited \ HDKeys THEN FirstPassword ELSE NoPassword,
                        genuine |-> TRUE]]
        /\ promised = {[key |-> k, password |-> FirstPassword] : k \in visited}
  BY DEF VaultsInit
<1>2. FirstPassword \in Passwords /\ visited \subseteq VaultKeys
  BY VaultsAssumption DEF FirstPassword, Visits
<1>3. <<0>> \in Seq(Nat)
  OBVIOUS
<1>4. StoresShape
  <2>1. \A k \in VaultKeys :
          [secret |-> IF k \in HDKeys THEN FirstPassword ELSE NoPassword, wallets |-> <<0>>]
            \in StoredVault
    BY <1>2, <1>3 DEF StoredVault, MaybePassword
  <2>2. vaultsDB \in [VaultKeys -> StoredVault \cup {NoVault}]
    BY <1>1, <2>1
  <2>3. accountsDB \in [VaultKeys -> SUBSET Nat]
    BY <1>1
  <2>4. encWif \in [VaultKeys -> Wif]
    BY <1>1, <1>2 DEF Wif, MaybePassword
  <2>5. promised \subseteq Promise
    BY <1>1, <1>2 DEF Promise
  <2>6. QED
    BY <2>2, <2>3, <2>4, <2>5 DEF StoresShape
<1>5. QED
  BY <1>4, EmptyPageHasShape DEF VaultsInit

-----------------------------------------------------------------------------
\* What was encrypted opens.  While an encryption saves the accounts, its vault
\* is stored under its password, or was removed meanwhile; nothing else has been
\* promised of it.

SavesPromise ==
  encrypting # Idle /\ encrypting.at = "save" =>
    /\ \A r \in promised : r.key # KeyOf(encrypting.id)
    /\ ~encrypting.spoilt =>
         /\ Stored(KeyOf(encrypting.id))
         /\ vaultsDB[KeyOf(encrypting.id)].secret =
              IF encrypting.secret = "seed" THEN encrypting.password ELSE NoPassword
OpensInv == SavedOpens /\ SavesPromise

\* Nothing that matters to it changes.
LEMMA QuietKeepsOpens ==
  ASSUME Shape, OpensInv, Evolves, UNCHANGED <<encWif, promised>>,
         \A k \in VaultKeys : Stored(k) =>
           vaultsDB'[k] # NoVault /\ vaultsDB'[k].secret = vaultsDB[k].secret,
         encrypting' = encrypting \/ encrypting' = Idle \/ encrypting'.at # "save"
  PROVE  OpensInv'
<1>1. \A r \in promised : r.key \in VaultKeys
  BY DEF Shape, StoresShape, Promise
<1>2. SavedOpens'
  BY <1>1 DEF OpensInv, SavedOpens, Stored
<1>3. CASE encrypting' = encrypting /\ encrypting # Idle
  <2>1. encrypting.id \in Ids
    BY <1>3 DEF Shape, EncryptingShape
  <2>2. KeyOf(encrypting.id)' = KeyOf(encrypting.id) /\ KeyOf(encrypting.id) \in VaultKeys
    BY <1>3, <2>1, KeyIs DEF Evolves, Later, KeyOf
  <2>3. SavesPromise'
    BY <1>3, <2>2 DEF OpensInv, SavesPromise, Stored
  <2>4. QED
    BY <1>2, <2>3 DEF OpensInv
<1>4. CASE encrypting' = Idle \/ encrypting'.at # "save"
  BY <1>2, <1>4 DEF OpensInv, SavesPromise
<1>5. QED
  BY <1>3, <1>4

\* Listing an account in the database leaves the secrets, and lists that account.
LEMMA XpubAdded ==
  ASSUME Shape, NEW key \in VaultKeys, NEW xpub \in Nat,
         addXpubToVault(key, xpub)
  PROVE  \A k \in VaultKeys : Stored(k) =>
           /\ vaultsDB'[k] # NoVault /\ vaultsDB'[k].secret = vaultsDB[k].secret
           /\ Range(vaultsDB'[k].wallets) \subseteq
                Range(vaultsDB[k].wallets) \cup (IF k = key THEN {xpub} ELSE {})
<1>1. CASE UNCHANGED vaultsDB
  BY <1>1 DEF Stored
<1>2. CASE Stored(key) /\ vaultsDB' = [vaultsDB EXCEPT ![key].wallets = Append(@, xpub)]
  <2> DEFINE new == Append(vaultsDB[key].wallets, xpub)
             v == [vaultsDB[key] EXCEPT !.wallets = new]
  <2>1. vaultsDB[key] \in StoredVault
    BY <1>2, StoredIs DEF Shape
  <2>2. vaultsDB[key].wallets \in Seq(Nat)
    BY <2>1 DEF StoredVault
  <2>3. new \in Seq(Nat) /\ Range(new) \subseteq Range(vaultsDB[key].wallets) \cup {xpub}
    BY <2>2 DEF Range
  <2>4. vaultsDB' = [vaultsDB EXCEPT ![key] = v]
    BY <1>2
  <2> HIDE DEF new
  <2>5. v \in StoredVault /\ v.secret = vaultsDB[key].secret /\ v.wallets = new
    BY <2>1, <2>3 DEF StoredVault
  <2> HIDE DEF v
  <2>6. \A k \in VaultKeys : vaultsDB'[k] = IF k = key THEN v ELSE vaultsDB[k]
    BY <2>4 DEF Shape, StoresShape
  <2>7. v # NoVault
    BY <2>5, VaultsAssumption
  <2>8. QED
    BY <2>3, <2>5, <2>6, <2>7 DEF Stored
<1>3. QED
  BY <1>1, <1>2 DEF addXpubToVault

LEMMA ReloadKeepsOpens == ASSUME OpensInv, Reload PROVE OpensInv'
<1>1. UNCHANGED <<vaultsDB, encWif, promised>> /\ encrypting' = Idle
  BY DEF Reload, Fresh, storeVars
<1>2. SavedOpens'
  BY <1>1 DEF OpensInv, SavedOpens, Stored
<1>3. SavesPromise'
  BY <1>1 DEF SavesPromise
<1>4. QED
  BY <1>2, <1>3 DEF OpensInv

LEMMA AddVaultKeepsOpens ==
  ASSUME Shape, OpensInv, Evolves, AddVault PROVE OpensInv'
<1> DEFINE id == encrypting.id
           key == KeyOf(id)
           v == [secret |-> IF encrypting.secret = "seed" THEN encrypting.password ELSE NoPassword,
                 wallets |-> Xpubs(objects[id])]
<1>1. encrypting \in EncryptTask /\ id \in Ids /\ id \in Nat
  BY DEF AddVault, Shape, EncryptingShape, CheckTask, Ids
<1>2. key \in VaultKeys /\ Xpubs(objects[id]) \in Seq(Nat)
  BY <1>1, KeyIs, ObjectsAre, XpubsAre DEF Shape
<1>3. UNCHANGED <<encWif, promised>>
  BY DEF AddVault, historyVars
<1>4. CASE Stored(key)
  <2>1. encrypting' = Idle /\ UNCHANGED vaultsDB
    BY <1>4 DEF AddVault
  <2>2. QED
    BY <1>3, <2>1, QuietKeepsOpens DEF Stored
<1>5. CASE ~Stored(key)
  <2>1. vaultsDB' = [vaultsDB EXCEPT ![key] = v] /\ encrypting' = [encrypting EXCEPT !.at = "save"]
    BY <1>5 DEF AddVault
  <2>2. v \in StoredVault /\ v # NoVault
    BY <1>1, <1>2, VaultsAssumption DEF EncryptTask, StoredVault, MaybePassword
  <2>3. v.secret = IF encrypting.secret = "seed" THEN encrypting.password ELSE NoPassword
    OBVIOUS
  <2> HIDE DEF v
  <2>4. \A r \in promised : r.key # key /\ r.key \in VaultKeys
    BY <1>5 DEF OpensInv, SavedOpens, Shape, StoresShape, Promise
  <2>5. \A k \in VaultKeys : vaultsDB'[k] = IF k = key THEN v ELSE vaultsDB[k]
    BY <2>1 DEF Shape, StoresShape
  <2>6. SavedOpens'
    BY <1>3, <2>4, <2>5 DEF OpensInv, SavedOpens, Stored
  <2>7. /\ encrypting'.id = id /\ encrypting'.password = encrypting.password
        /\ encrypting'.secret = encrypting.secret
    BY <1>1, <2>1 DEF EncryptTask
  <2>8. KeyOf(encrypting.id)' = key
    BY <1>1, <2>7 DEF Evolves, Later, KeyOf
  <2>9. SavesPromise'
    BY <1>2, <1>3, <2>2, <2>3, <2>4, <2>5, <2>7, <2>8 DEF SavesPromise, Stored
  <2>10. QED
    BY <2>6, <2>9 DEF OpensInv
<1>6. QED
  BY <1>4, <1>5

LEMMA SaveAccountsKeepsOpens ==
  ASSUME Shape, OpensInv, SaveAccounts PROVE OpensInv'
<1> DEFINE id == encrypting.id
           key == KeyOf(id)
           w == [password |-> encrypting.password, genuine |-> encrypting.secret = "key"]
           new == [key |-> key, password |-> encrypting.password]
<1>1. encrypting \in EncryptTask /\ id \in Ids
  BY DEF SaveAccounts, Shape, EncryptingShape, CheckTask
<1>2. key \in VaultKeys /\ encrypting.password \in Passwords
  BY <1>1, KeyIs DEF EncryptTask
<1>3. \A r \in promised : r.key # key /\ r.key \in VaultKeys
  BY DEF OpensInv, SavesPromise, SaveAccounts, Shape, StoresShape, Promise
<1>4. UNCHANGED vaultsDB /\ encrypting' = Idle
  BY DEF SaveAccounts
<1>5. encWif' = IF encrypting.secret = "seed" THEN encWif ELSE [encWif EXCEPT ![key] = w]
  BY DEF SaveAccounts
<1>6. \A k \in VaultKeys : k # key => encWif'[k] = encWif[k]
  BY <1>5 DEF Shape, StoresShape
<1>7. \A r \in promised' : r \in promised \/ (r = new /\ encrypting.secret # "random" /\ ~encrypting.spoilt)
  BY DEF SaveAccounts
<1>8. ASSUME NEW r \in promised'
      PROVE  /\ Stored(r.key)'
             /\ IF vaultsDB'[r.key].secret # NoPassword THEN vaultsDB'[r.key].secret = r.password
                ELSE encWif'[r.key] = [password |-> r.password, genuine |-> TRUE]
  <2>1. CASE r \in promised
    BY <1>3, <1>4, <1>6, <2>1 DEF OpensInv, SavedOpens, Stored
  <2>2. CASE r = new /\ encrypting.secret # "random" /\ ~encrypting.spoilt
    <3>1. /\ Stored(key)
          /\ vaultsDB[key].secret = IF encrypting.secret = "seed" THEN encrypting.password ELSE NoPassword
      BY <2>2 DEF OpensInv, SavesPromise, SaveAccounts
    <3>2. r.key = key /\ r.password = encrypting.password
      BY <2>2
    <3>3. CASE encrypting.secret = "seed"
      BY <1>2, <1>4, <3>1, <3>2, <3>3, VaultsAssumption DEF Stored
    <3>4. CASE encrypting.secret # "seed"
      <4>1. encrypting.secret = "key"
        BY <1>1, <2>2, <3>4 DEF EncryptTask
      <4>2. encWif'[key] = w
        BY <1>2, <1>5, <3>4 DEF Shape, StoresShape
      <4>3. w = [password |-> r.password, genuine |-> TRUE]
        BY <3>2, <4>1
      <4> HIDE DEF w
      <4>4. QED
        BY <1>4, <3>1, <3>2, <3>4, <4>2, <4>3 DEF Stored
    <3>5. QED
      BY <3>3, <3>4
  <2>3. QED
    BY <1>7, <2>1, <2>2
<1>9. SavedOpens'
  BY <1>8 DEF SavedOpens
<1>10. SavesPromise'
  BY <1>4 DEF SavesPromise
<1>11. QED
  BY <1>9, <1>10 DEF OpensInv

\* What is promised of a vault is forgotten before anything of it is erased.
LEMMA ForgettingKeepsOpens ==
  ASSUME Shape, OpensInv, Evolves, NEW key \in VaultKeys, Forget(key),
         \A k \in VaultKeys \ {key} : vaultsDB'[k] = vaultsDB[k] /\ encWif'[k] = encWif[k]
  PROVE  OpensInv'
<1>1. \A r \in promised' : r \in promised /\ r.key # key
  BY DEF Forget
<1>2. \A r \in promised : r.key \in VaultKeys
  BY DEF Shape, StoresShape, Promise
<1>3. SavedOpens'
  BY <1>1, <1>2 DEF OpensInv, SavedOpens, Stored
<1>4. ASSUME encrypting' # Idle, encrypting'.at = "save" PROVE SavesPromise'
  <2>1. encrypting \in EncryptTask /\ encrypting # Idle
    BY <1>4 DEF Forget, Shape, EncryptingShape, CheckTask
  <2>2. encrypting' = [encrypting EXCEPT !.spoilt = @ \/ KeyOf(encrypting.id) = key]
    BY <2>1 DEF Forget, EncryptTask
  <2>3. /\ encrypting'.at = encrypting.at /\ encrypting'.id = encrypting.id
        /\ encrypting'.password = encrypting.password /\ encrypting'.secret = encrypting.secret
        /\ ~encrypting'.spoilt => ~encrypting.spoilt /\ KeyOf(encrypting.id) # key
    BY <2>1, <2>2 DEF EncryptTask
  <2>4. encrypting.id \in Ids
    BY <2>1 DEF Shape, EncryptingShape
  <2>5. KeyOf(encrypting.id)' = KeyOf(encrypting.id) /\ KeyOf(encrypting.id) \in VaultKeys
    BY <2>3, <2>4, KeyIs DEF Evolves, Later, KeyOf
  <2>6. QED
    BY <1>1, <1>4, <2>1, <2>3, <2>5 DEF OpensInv, SavesPromise, Stored
<1>5. SavesPromise'
  BY <1>4 DEF SavesPromise
<1>6. QED
  BY <1>3, <1>5 DEF OpensInv

LEMMA NextOpens ==
  ASSUME Shape, OpensInv, [VaultsNext]_vaultVars PROVE OpensInv'
<1>1. CASE UNCHANGED vaultVars
  BY <1>1 DEF vaultVars, storeVars, listVars, historyVars, OpensInv, SavedOpens, SavesPromise,
     Stored, KeyOf
<1>2. CASE VaultsNext /\ Reload
  BY <1>2, ReloadKeepsOpens
<1>3. CASE VaultsNext /\ ~Reload
  <2>1. Evolves
    BY <1>3, NextEvolves
  \* Neither the database nor a secret changes, and no encryption is stored.
  <2>2. ASSUME UNCHANGED <<vaultsDB, encWif, promised>>,
               encrypting' = encrypting \/ encrypting' = Idle \/ encrypting'.at # "save"
        PROVE  OpensInv'
    BY <2>1, <2>2, QuietKeepsOpens DEF Stored
  <2>3. CASE AddVault
    BY <2>1, <2>3, AddVaultKeepsOpens
  <2>4. CASE SaveAccounts
    BY <2>4, SaveAccountsKeepsOpens
  <2>5. CASE logOut
    <3> DEFINE key == KeyOf(activeVault)
    <3>1. key \in VaultKeys
      BY <2>5, KeyIs DEF logOut, Shape, ListsShape
    <3>2. /\ vaultsDB' = [vaultsDB EXCEPT ![key] = NoVault] /\ UNCHANGED encWif /\ Forget(key)
      BY <2>5 DEF logOut
    <3> HIDE DEF key
    <3>3. \A k \in VaultKeys \ {key} : vaultsDB'[k] = vaultsDB[k] /\ encWif'[k] = encWif[k]
      BY <3>2 DEF Shape, StoresShape
    <3>4. QED
      BY <2>1, <3>1, <3>2, <3>3, ForgettingKeepsOpens
  <2>6. CASE RemoveVault
    <3> DEFINE key == objects[removing].key
    <3>1. key \in VaultKeys
      BY <2>6, ObjectsAre DEF RemoveVault, Shape, ListsShape, Object
    <3>2. /\ UNCHANGED vaultsDB /\ Forget(key)
          /\ encWif' = encWif \/ encWif' = [encWif EXCEPT ![key].password = NoPassword]
      BY <2>6 DEF RemoveVault
    <3> HIDE DEF key
    <3>3. \A k \in VaultKeys \ {key} : vaultsDB'[k] = vaultsDB[k] /\ encWif'[k] = encWif[k]
      BY <3>2 DEF Shape, StoresShape
    <3>4. QED
      BY <2>1, <3>1, <3>2, <3>3, ForgettingKeepsOpens
  <2>7. ASSUME NEW who \in Importers, imports[who] # Idle, ImportXpub(who) PROVE OpensInv'
    <3>1. imports[who].id \in Ids /\ imports[who].n \in Nat
      BY <2>7, ImportIs DEF Imports, ImportXpub
    <3>2. KeyOf(imports[who].id) \in VaultKeys /\ XpubOf(objects[imports[who].id], imports[who].n) \in Nat
      BY <3>1, KeyIs, ObjectsAre, XpubIs DEF Shape
    <3>3. /\ addXpubToVault(KeyOf(imports[who].id), XpubOf(objects[imports[who].id], imports[who].n))
          /\ UNCHANGED <<encWif, promised, encrypting>>
      BY <2>7 DEF ImportXpub, historyVars
    <3>4. QED
      BY <2>1, <3>2, <3>3, XpubAdded, QuietKeepsOpens
  <2>8. ASSUME NEW s \in Slots, Listed(s) PROVE OpensInv'
    <3>1. adding[s].id \in Ids /\ adding[s].n \in Nat
      BY <2>8, AdditionIs DEF Listed
    <3>2. KeyOf(adding[s].id) \in VaultKeys /\ XpubOf(objects[adding[s].id], adding[s].n) \in Nat
      BY <3>1, KeyIs, ObjectsAre, XpubIs DEF Shape
    <3>3. /\ addXpubToVault(KeyOf(adding[s].id), XpubOf(objects[adding[s].id], adding[s].n))
          /\ UNCHANGED <<encWif, promised, encrypting>>
      BY <2>8 DEF Listed, historyVars
    <3>4. QED
      BY <2>1, <3>2, <3>3, XpubAdded, QuietKeepsOpens
  <2>9. ASSUME NEW who \in Importers, ImportSave(who) PROVE OpensInv'
    BY <2>2, <2>9 DEF ImportSave, historyVars
  <2>10. ASSUME NEW s \in Slots, Added(s) PROVE OpensInv'
    BY <2>2, <2>10 DEF Added, historyVars
  <2>11. CASE UNCHANGED <<storeVars, promised>> /\ ~(AddVault \/ SaveAccounts \/ logOut \/ RemoveVault)
    <3>1. encrypting' = encrypting \/ encrypting' = Idle \/ encrypting'.at # "save"
      <4>1. CASE UNCHANGED encrypting
        BY <4>1
      <4>2. ASSUME NEW p, EncryptActive(p) PROVE encrypting' = Idle \/ encrypting'.at # "save"
        BY <4>2 DEF EncryptActive
      <4>3. ASSUME NEW p \in Passwords, NEW q \in Passwords, encryptWallet(p, q)
            PROVE  encrypting' = Idle \/ encrypting'.at # "save"
        BY <4>2, <4>3 DEF encryptWallet
      <4>4. CASE Checked
        BY <4>2, <4>4 DEF Checked
      <4>5. QED
        BY <1>3, <2>11, <4>1, <4>3, <4>4, EncryptingChanges, Zenon
    <3>2. QED
      BY <2>2, <2>11, <3>1 DEF storeVars
  <2>12. QED
    BY <1>3, <2>3, <2>4, <2>5, <2>6, <2>7, <2>8, <2>9, <2>10, <2>11, StoresChange, Zenon
<1>4. QED
  BY <1>1, <1>2, <1>3

LEMMA FirstOpens == ASSUME VaultsInit PROVE OpensInv
<1>1. PICK visited \in Visits :
        /\ vaultsDB = [k \in VaultKeys |->
                         IF k \in visited
                         THEN [secret |-> IF k \in HDKeys THEN FirstPassword ELSE NoPassword,
                               wallets |-> <<0>>]
                         ELSE NoVault]
        /\ encWif = [k \in VaultKeys |->
                       [password |-> IF k \in visited \ HDKeys THEN FirstPassword ELSE NoPassword,
                        genuine |-> TRUE]]
        /\ promised = {[key |-> k, password |-> FirstPassword] : k \in visited}
  BY DEF VaultsInit
<1>2. FirstPassword \in Passwords /\ FirstPassword # NoPassword /\ visited \subseteq VaultKeys
  BY VaultsAssumption DEF FirstPassword, Visits
<1>3. Shape
  BY FirstShape
<1>4. ASSUME NEW k \in visited
      PROVE  /\ Stored(k)
             /\ IF vaultsDB[k].secret # NoPassword THEN vaultsDB[k].secret = FirstPassword
                ELSE encWif[k] = [password |-> FirstPassword, genuine |-> TRUE]
  <2> DEFINE v == [secret |-> IF k \in HDKeys THEN FirstPassword ELSE NoPassword, wallets |-> <<0>>]
  <2>1. v \in StoredVault
    BY <1>2 DEF StoredVault, MaybePassword
  <2>2. vaultsDB[k] = v
    BY <1>1, <1>2
  <2>3. v # NoVault /\ v.secret = IF k \in HDKeys THEN FirstPassword ELSE NoPassword
    BY <2>1, VaultsAssumption
  <2> HIDE DEF v
  <2>4. encWif[k] = [password |-> IF k \in visited \ HDKeys THEN FirstPassword ELSE NoPassword,
                     genuine |-> TRUE]
    BY <1>1, <1>2
  <2>5. QED
    BY <1>2, <2>2, <2>3, <2>4 DEF Stored
<1>5. SavedOpens
  <2>1. \A r \in promised : r.key \in visited /\ r.password = FirstPassword
    BY <1>1
  <2>2. QED
    BY <1>4, <2>1 DEF SavedOpens
<1>6. SavesPromise
  BY DEF SavesPromise, VaultsInit
<1>7. QED
  BY <1>5, <1>6 DEF OpensInv

LEMMA OpensInvariance == VaultsSpec => [](Shape /\ OpensInv)
<1>1. VaultsInit => Shape /\ OpensInv
  BY FirstShape, FirstOpens
<1>2. Shape /\ OpensInv /\ [VaultsNext]_vaultVars => Shape' /\ OpensInv'
  BY NextShape, NextOpens
<1>3. QED
  BY <1>1, <1>2, PTL DEF VaultsSpec

\* An encryption that the user was told of can be opened with its password,
\* until its vault is removed: Dashboard.vue, vault.js.
THEOREM SavedOpensHolds == VaultsSpec => []SavedOpens
<1>1. Shape /\ OpensInv => SavedOpens
  BY DEF OpensInv
<1>2. QED
  BY <1>1, OpensInvariance, PTL

-----------------------------------------------------------------------------
\* What opens loads.  An account is loaded under its own number, or under one
\* that is stored; and while an encryption saves the accounts, those that are
\* listed for its vault are the ones it saves, stored, or being saved.

XpubsKnown ==
  \A id \in Ids : \A p \in DOMAIN objects[id].xpubs :
    \/ KeyOf(id) \in torn
    \/ objects[id].xpubs[p] = p - 1 \/ objects[id].xpubs[p] \in accountsDB[KeyOf(id)]
ListsPromise ==
  encrypting # Idle /\ encrypting.at = "save" /\ ~encrypting.spoilt =>
    \/ KeyOf(encrypting.id) \in torn
    \/ Range(vaultsDB[KeyOf(encrypting.id)].wallets) \subseteq
         Range(Xpubs(objects[encrypting.id])) \cup accountsDB[KeyOf(encrypting.id)]
           \cup BeingSaved(KeyOf(encrypting.id))
LoadsInv == SavedLoads /\ XpubsKnown /\ ListsPromise

Removed(k) == RemoveVault /\ k = objects[removing].key

LEMMA AccountsKept ==
  ASSUME Shape, VaultsNext, NEW k \in VaultKeys, ~Removed(k)
  PROVE  accountsDB[k] \subseteq accountsDB'[k]
<1>1. CASE UNCHANGED accountsDB
  BY <1>1
<1>2. ASSUME NEW key, NEW more, accountsDB' = [accountsDB EXCEPT ![key] = @ \cup more]
      PROVE  accountsDB[k] \subseteq accountsDB'[k]
  BY <1>2 DEF Shape, StoresShape
<1>3. CASE AddVault \/ logOut
  BY <1>1, <1>3 DEF AddVault, logOut
<1>4. ASSUME NEW who \in Importers, ImportXpub(who) \/ ImportSave(who)
      PROVE  accountsDB[k] \subseteq accountsDB'[k]
  BY <1>1, <1>2, <1>4 DEF ImportXpub, ImportSave, Saved
<1>5. ASSUME NEW s \in Slots, Listed(s) \/ Added(s) PROVE accountsDB[k] \subseteq accountsDB'[k]
  BY <1>1, <1>2, <1>5 DEF Listed, Added, Saved
<1>6. CASE SaveAccounts
  BY <1>2, <1>6 DEF SaveAccounts
<1>7. CASE RemoveVault
  <2>1. objects[removing].key # k
    BY <1>7 DEF Removed
  <2>2. \E gone : accountsDB' = [accountsDB EXCEPT ![objects[removing].key] = @ \ gone]
    BY <1>7, Zenon DEF RemoveVault
  <2>3. QED
    BY <2>1, <2>2 DEF Shape, StoresShape
<1>8. QED
  BY <1>1, <1>3, <1>4, <1>5, <1>6, <1>7, StoresChange, Zenon DEF storeVars

LEMMA TornGrows == ASSUME VaultsNext PROVE torn \subseteq torn'
<1>1. CASE RemoveVault
  BY <1>1 DEF RemoveVault
<1>2. CASE Reload
  BY <1>2 DEF Reload
<1>3. CASE UNCHANGED torn
  BY <1>3
<1>4. UNCHANGED torn \/ RemoveVault \/ Reload
  BY Zenon DEF VaultsNext, historyVars, Import, ParsedSecret, ParseFails, LoadNext, ImportXpub,
     ImportSave, OpenEncrypt, onEncryptModalClose, ReopenUnsaved, encryptWallet, Checked,
     AddVault, SaveAccounts, LockWallet, Unlock, Unlocked, CancelUnlock, GoesOn, Made, Listed,
     Added, AddWallet, selectWallet, logOut
<1>5. QED
  BY <1>1, <1>2, <1>3, <1>4

\* An account keeps the key it exports, or that key is stored.
LEMMA XpubKept ==
  ASSUME Shape, XpubsKnown, Evolves, NEW id \in Ids, KeyOf(id) \notin torn, NEW n \in Nat
  PROVE  \/ XpubOf(objects'[id], n) = XpubOf(objects[id], n)
         \/ XpubOf(objects[id], n) \in accountsDB[KeyOf(id)]
<1> DEFINE o == objects[id]
           q == objects'[id]
<1>1. o \in Object /\ q \in Object /\ Later(o, q)
  BY ObjectsAre DEF Shape, Evolves, Later
<1>2. o.xpubs \in Seq(Nat) /\ q.xpubs \in Seq(Nat) /\ DOMAIN q.xpubs = DOMAIN o.xpubs
  BY <1>1 DEF Object, Later
<1>3. Len(q.xpubs) = Len(o.xpubs)
  BY <1>2
<1>4. CASE n < Len(o.xpubs)
  <2>1. n + 1 \in DOMAIN o.xpubs /\ n + 1 - 1 = n
    BY <1>2, <1>4
  <2>2. q.xpubs[n + 1] = o.xpubs[n + 1] \/ q.xpubs[n + 1] = n
    BY <1>1, <2>1 DEF Later
  <2>3. o.xpubs[n + 1] = n \/ o.xpubs[n + 1] \in accountsDB[KeyOf(id)]
    BY <2>1 DEF XpubsKnown
  <2>4. XpubOf(o, n) = o.xpubs[n + 1] /\ XpubOf(q, n) = q.xpubs[n + 1]
    BY <1>3, <1>4 DEF XpubOf
  <2>5. QED
    BY <2>2, <2>3, <2>4
<1>5. CASE ~(n < Len(o.xpubs))
  BY <1>3, <1>5 DEF XpubOf
<1>6. QED
  BY <1>4, <1>5

\* What is being saved goes on being saved, until it is.
LEMMA ImportGoesOn ==
  ASSUME Shape, VaultsNext, ~Reload, NEW who \in Importers, imports[who] # Idle,
         imports[who].at = "save"
  PROVE  imports'[who] = imports[who] \/ ImportSave(who)
<1>1. CASE UNCHANGED imports
  BY <1>1
<1>2. ASSUME NEW w \in Importers, w # who, NEW task, imports' = [imports EXCEPT ![w] = task]
      PROVE  imports'[who] = imports[who]
  BY <1>2 DEF Shape, ImportsShape
<1>3. ASSUME NEW s \in ImportedSecrets, Import(s[1], s[2]) PROVE imports'[who] = imports[who]
  BY <1>2, <1>3 DEF Import, Importers
<1>4. CASE ParseFails
  BY <1>2, <1>4 DEF ParseFails, Importers
<1>5. CASE ParsedSecret
  <2>1. who # "login" /\ \E task : imports' = [imports EXCEPT !["login"] = task]
    BY <1>5 DEF ParsedSecret
  <2>2. QED
    BY <1>2, <2>1 DEF Importers
<1>6. CASE LoadNext
  <2>1. who # "start" /\ \E task : imports' = [imports EXCEPT !["start"] = task]
    BY <1>6 DEF LoadNext
  <2>2. QED
    BY <1>2, <2>1 DEF Importers
<1>7. ASSUME NEW w \in Importers, ImportXpub(w) PROVE imports'[who] = imports[who]
  <2>1. who # w /\ \E task : imports' = [imports EXCEPT ![w] = task]
    BY <1>7 DEF ImportXpub
  <2>2. QED
    BY <1>2, <2>1
<1>8. ASSUME NEW w \in Importers, ImportSave(w)
      PROVE  imports'[who] = imports[who] \/ ImportSave(who)
  <2>1. \E task : imports' = [imports EXCEPT ![w] = task]
    BY <1>8 DEF ImportSave, Importers
  <2>2. QED
    BY <1>2, <1>8, <2>1
<1>9. QED
  BY <1>1, <1>3, <1>4, <1>5, <1>6, <1>7, <1>8, ImportsChange, Zenon

LEMMA AdditionGoesOn ==
  ASSUME Shape, VaultsNext, ~Reload, NEW slot \in Slots, adding[slot] # Idle,
         adding[slot].at = "save"
  PROVE  adding'[slot] = adding[slot] \/ Added(slot)
<1>1. CASE UNCHANGED adding
  BY <1>1
<1>2. ASSUME NEW s \in Slots, s # slot, NEW task, adding' = [adding EXCEPT ![s] = task]
      PROVE  adding'[slot] = adding[slot]
  BY <1>2 DEF Shape, AddingShape
<1>3. ASSUME NEW id, AddAccount(id), Idle \in Range(adding) PROVE adding'[slot] = adding[slot]
  <2> DEFINE s == CHOOSE s \in Slots : adding[s] = Idle
  <2>1. s \in Slots /\ adding[s] = Idle
    BY <1>3 DEF Range, Shape, AddingShape
  <2>2. UNCHANGED adding \/ \E task : adding' = [adding EXCEPT ![s] = task]
    BY <1>3 DEF AddAccount
  <2> HIDE DEF s
  <2>3. QED
    BY <1>2, <2>1, <2>2
<1>4. CASE GoesOn
  BY <1>3, <1>4 DEF GoesOn
<1>5. ASSUME NEW id, AddWallet(id) PROVE adding'[slot] = adding[slot]
  BY <1>1, <1>3, <1>5 DEF AddWallet
<1>6. ASSUME NEW s \in Slots, Made(s) \/ Listed(s) \/ Added(s)
      PROVE  adding'[slot] = adding[slot] \/ Added(slot)
  <2>1. s # slot \/ Added(slot)
    BY <1>6 DEF Made, Listed
  <2>2. \E task : adding' = [adding EXCEPT ![s] = task]
    BY <1>6 DEF Made, Listed, Added
  <2>3. QED
    BY <1>2, <2>1, <2>2
<1>7. QED
  BY <1>1, <1>4, <1>5, <1>6, AddingChanges, Zenon

LEMMA BeingSavedIs ==
  ASSUME NEW k, NEW x
  PROVE  x \in BeingSaved(k) <=>
           \/ \E who \in Importers : /\ imports[who] # Idle /\ imports[who].at = "save"
                                     /\ KeyOf(imports[who].id) = k
                                     /\ x = XpubOf(objects[imports[who].id], imports[who].n)
           \/ \E s \in Slots : /\ adding[s] # Idle /\ adding[s].at = "save"
                               /\ KeyOf(adding[s].id) = k
                               /\ x = XpubOf(objects[adding[s].id], adding[s].n)
BY DEF BeingSaved

LEMMA BeingSavedKept ==
  ASSUME Shape, XpubsKnown, VaultsNext, ~Reload, NEW k \in VaultKeys,
         k \notin torn, ~Removed(k)
  PROVE  BeingSaved(k) \subseteq accountsDB'[k] \cup BeingSaved(k)'
<1>1. Evolves
  BY NextEvolves
<1>2. accountsDB[k] \subseteq accountsDB'[k]
  BY AccountsKept
<1>3. SUFFICES ASSUME NEW x \in BeingSaved(k), x \notin accountsDB'[k] PROVE x \in BeingSaved(k)'
  OBVIOUS
<1>4. ASSUME NEW who \in Importers, imports[who] # Idle, imports[who].at = "save",
             KeyOf(imports[who].id) = k, x = XpubOf(objects[imports[who].id], imports[who].n)
      PROVE  x \in BeingSaved(k)'
  <2>1. imports[who].id \in Ids /\ imports[who].n \in Nat
    BY <1>4, ImportIs DEF Imports
  <2>2. CASE ImportSave(who)
    <3>1. KeyOf(imports[who].id) = objects[imports[who].id].key
      BY DEF KeyOf
    <3>2. Saved(k, x)
      BY <1>4, <2>2, <3>1 DEF ImportSave
    <3>3. QED
      BY <1>3, <3>2 DEF Saved, Shape, StoresShape
  <2>3. CASE imports'[who] = imports[who]
    <3>1. XpubOf(objects'[imports[who].id], imports[who].n) = x
      BY <1>1, <1>2, <1>3, <1>4, <2>1, XpubKept
    <3>2. KeyOf(imports[who].id)' = k
      BY <1>1, <1>4, <2>1, <2>3 DEF Evolves, Later, KeyOf
    <3>3. QED
      BY <1>4, <2>3, <3>1, <3>2 DEF BeingSaved
  <2>4. QED
    BY <1>4, <2>2, <2>3, ImportGoesOn
<1>5. ASSUME NEW s \in Slots, adding[s] # Idle, adding[s].at = "save",
             KeyOf(adding[s].id) = k, x = XpubOf(objects[adding[s].id], adding[s].n)
      PROVE  x \in BeingSaved(k)'
  <2>1. adding[s].id \in Ids /\ adding[s].n \in Nat
    BY <1>5, AdditionIs
  <2>2. CASE Added(s)
    <3>1. Saved(k, x)
      BY <1>5, <2>2 DEF Added
    <3>2. QED
      BY <1>3, <3>1 DEF Saved, Shape, StoresShape
  <2>3. CASE adding'[s] = adding[s]
    <3>1. XpubOf(objects'[adding[s].id], adding[s].n) = x
      BY <1>1, <1>2, <1>3, <1>5, <2>1, XpubKept
    <3>2. KeyOf(adding[s].id)' = k
      BY <1>1, <1>5, <2>1, <2>3 DEF Evolves, Later, KeyOf
    <3>3. QED
      BY <1>5, <2>3, <3>1, <3>2 DEF BeingSaved
  <2>4. QED
    BY <1>5, <2>2, <2>3, AdditionGoesOn
<1>6. QED
  BY <1>4, <1>5, BeingSavedIs

\* What is listed anew for a vault is being saved.
LEMMA ListedAreSaved ==
  ASSUME Shape, VaultsNext, ~Reload, NEW k \in VaultKeys, Stored(k), Stored(k)'
  PROVE  Range(vaultsDB'[k].wallets) \subseteq Range(vaultsDB[k].wallets) \cup BeingSaved(k)'
<1>1. CASE vaultsDB'[k] = vaultsDB[k]
  BY <1>1
<1>2. ASSUME NEW who \in Importers, imports[who] # Idle, ImportXpub(who)
      PROVE  Range(vaultsDB'[k].wallets) \subseteq Range(vaultsDB[k].wallets) \cup BeingSaved(k)'
  <2> DEFINE id == imports[who].id
             n == imports[who].n
             x == XpubOf(objects[id], n)
  <2>1. id \in Ids /\ n \in Nat
    BY <1>2, ImportIs DEF Imports, ImportXpub
  <2>2. KeyOf(id) \in VaultKeys /\ x \in Nat
    BY <2>1, KeyIs, ObjectsAre, XpubIs DEF Shape
  <2>3. addXpubToVault(KeyOf(id), x) /\ imports' = [imports EXCEPT ![who].at = "save"]
    BY <1>2 DEF ImportXpub
  <2>4. imports[who] \in LoginTask \cup StartTask
    BY <1>2 DEF Shape, ImportsShape
  <2>5. /\ imports'[who] # Idle /\ imports'[who].at = "save" /\ imports'[who].id = id
        /\ imports'[who].n = n
    <3> DEFINE task == [imports[who] EXCEPT !.at = "save"]
    <3>1. imports'[who] = task
      BY <2>3 DEF Shape, ImportsShape
    <3>2. task \in LoginTask \cup StartTask /\ task.at = "save" /\ task.id = id /\ task.n = n
      BY <2>4 DEF LoginTask, StartTask
    <3> HIDE DEF task
    <3>3. QED
      BY <3>1, <3>2, VaultsAssumption
  <2>6. XpubOf(objects'[id], n) = x /\ KeyOf(id)' = KeyOf(id)
    <3>1. Rests
      BY <1>2, ImportXpubRests
    <3>2. objects'[id].xpubs = objects[id].xpubs
      BY <2>1, <3>1 DEF Rests
    <3>3. objects'[id].key = objects[id].key
      BY <2>1, <3>1 DEF Rests, Evolves, Later
    <3>4. XpubOf(objects'[id], n) = x
      BY <3>2 DEF XpubOf
    <3>5. KeyOf(id)' = KeyOf(id)
      BY <2>5, <3>3 DEF KeyOf
    <3>6. QED
      BY <3>4, <3>5
  <2> HIDE DEF x
  <2>7. k = KeyOf(id) => x \in BeingSaved(k)'
    BY <2>5, <2>6 DEF BeingSaved
  <2>8. Range(vaultsDB'[k].wallets) \subseteq
          Range(vaultsDB[k].wallets) \cup (IF k = KeyOf(id) THEN {x} ELSE {})
    BY <2>2, <2>3, XpubAdded
  <2>9. QED
    BY <2>7, <2>8
<1>3. ASSUME NEW s \in Slots, Listed(s)
      PROVE  Range(vaultsDB'[k].wallets) \subseteq Range(vaultsDB[k].wallets) \cup BeingSaved(k)'
  <2> DEFINE id == adding[s].id
             n == adding[s].n
             x == XpubOf(objects[id], n)
  <2>1. id \in Ids /\ n \in Nat /\ adding[s] \in AddTask
    BY <1>3, AdditionIs DEF Listed
  <2>2. KeyOf(id) \in VaultKeys /\ x \in Nat
    BY <2>1, KeyIs, ObjectsAre, XpubIs DEF Shape
  <2>3. addXpubToVault(KeyOf(id), x) /\ adding' = [adding EXCEPT ![s].at = "save"] /\ UNCHANGED objects
    BY <1>3 DEF Listed, listVars
  <2>4. /\ adding'[s] # Idle /\ adding'[s].at = "save" /\ adding'[s].id = id /\ adding'[s].n = n
    <3> DEFINE task == [adding[s] EXCEPT !.at = "save"]
    <3>1. adding'[s] = task
      BY <2>3 DEF Shape, AddingShape
    <3>2. task \in AddTask /\ task.at = "save" /\ task.id = id /\ task.n = n
      BY <2>1 DEF AddTask
    <3> HIDE DEF task
    <3>3. QED
      BY <3>1, <3>2, VaultsAssumption
  <2>5. XpubOf(objects'[id], n) = x /\ KeyOf(id)' = KeyOf(id)
    BY <2>3 DEF KeyOf
  <2> HIDE DEF x
  <2>6. k = KeyOf(id) => x \in BeingSaved(k)'
    BY <2>4, <2>5 DEF BeingSaved
  <2>7. Range(vaultsDB'[k].wallets) \subseteq
          Range(vaultsDB[k].wallets) \cup (IF k = KeyOf(id) THEN {x} ELSE {})
    BY <2>2, <2>3, XpubAdded
  <2>8. QED
    BY <2>6, <2>7
<1>4. CASE AddVault
  <2>1. UNCHANGED vaultsDB \/ \E key, v : ~Stored(key) /\ vaultsDB' = [vaultsDB EXCEPT ![key] = v]
    BY <1>4 DEF AddVault
  <2>2. QED
    BY <1>1, <2>1 DEF Shape, StoresShape
<1>5. CASE logOut
  <2>1. vaultsDB' = [vaultsDB EXCEPT ![KeyOf(activeVault)] = NoVault]
    BY <1>5 DEF logOut
  <2>2. QED
    BY <1>1, <2>1 DEF Shape, StoresShape, Stored
<1>6. CASE UNCHANGED vaultsDB
  BY <1>1, <1>6
<1>7. CASE SaveAccounts \/ RemoveVault
  BY <1>6, <1>7 DEF SaveAccounts, RemoveVault
<1>8. ASSUME NEW who \in Importers, ImportSave(who) PROVE UNCHANGED vaultsDB
  BY <1>8 DEF ImportSave
<1>9. ASSUME NEW s \in Slots, Added(s) PROVE UNCHANGED vaultsDB
  BY <1>9 DEF Added
<1>10. QED
  BY <1>2, <1>3, <1>4, <1>5, <1>6, <1>7, <1>8, <1>9, StoresChange, Zenon DEF storeVars

LEMMA NextXpubsKnown ==
  ASSUME Shape, XpubsKnown, VaultsNext, ~Reload PROVE XpubsKnown'
<1>1. StepsOn /\ Evolves
  BY NextStepsOn DEF StepsOn
<1>2. SUFFICES ASSUME NEW id \in Ids', NEW p \in DOMAIN objects'[id].xpubs,
                      objects'[id].key \notin torn', objects'[id].xpubs[p] # p - 1
               PROVE  objects'[id].xpubs[p] \in accountsDB'[objects'[id].key]
  BY DEF XpubsKnown, KeyOf
<1>3. CASE id \in Ids
  <2> DEFINE k == KeyOf(id)
             o == objects[id]
             q == objects'[id]
  <2>1. /\ q.key = k /\ o.key = k /\ k \in VaultKeys /\ p \in DOMAIN o.xpubs
        /\ q.xpubs[p] = o.xpubs[p] \/ q.xpubs[p] = p - 1
    BY <1>1, <1>2, <1>3, KeyIs DEF Evolves, Later, KeyOf
  <2>2. k \notin torn /\ k \notin torn'
    BY <1>2, <2>1, TornGrows
  <2>3. q.xpubs[p] = o.xpubs[p] /\ o.xpubs[p] # p - 1
    BY <1>2, <2>1
  <2>4. o.xpubs[p] \in accountsDB[k]
    BY <1>3, <2>1, <2>2, <2>3 DEF XpubsKnown
  <2>5. ~Removed(k)
    <3>1. SUFFICES ASSUME Removed(k) PROVE FALSE
      OBVIOUS
    <3>2. Renumbered(k)
      BY <1>3, <2>1, <2>3 DEF Renumbered, Ids, Shape, ObjectsShape
    <3>3. torn' = torn \cup {k}
      BY <3>1, <3>2 DEF Removed, RemoveVault
    <3>4. QED
      BY <2>2, <3>3
  <2>6. accountsDB[k] \subseteq accountsDB'[k]
    BY <2>1, <2>5, AccountsKept
  <2>7. QED
    BY <2>1, <2>3, <2>4, <2>6
<1>4. CASE id \notin Ids
  <2>1. Len(objects) \in Nat /\ Len(objects') \in Nat
    BY <1>1 DEF Evolves, Shape, ObjectsShape
  <2>2. CASE ParsedSecret
    <3> DEFINE o == NewVault(imports["login"].key, imports["login"].kind, <<0>>)
    <3>1. Len(objects') = Len(objects) + 1 /\ objects'[Len(objects')] = o
      BY <2>2, ParsedEnters, EnteredEvolves DEF Shape
    <3>2. id = Len(objects')
      BY <1>2, <1>4, <2>1, <3>1 DEF Ids
    <3>3. objects'[id].xpubs = <<0>>
      BY <3>1, <3>2 DEF NewVault
    <3>4. p = 1
      BY <1>2, <3>3
    <3>5. QED
      BY <1>2, <3>3, <3>4
  <2>3. CASE LoadNext
    <3>1. ~UNCHANGED <<listVars, disturbed>>
      BY <1>2, <1>4 DEF listVars, Ids
    <3>2. PICK v \in Loadable : /\ NewVault(v.key, "public", v.wallets) \in Object
                                /\ Range(v.wallets) \subseteq accountsDB[v.key]
                                /\ Enter(NewVault(v.key, "public", v.wallets))
      BY <2>3, <3>1, LoadNextEnters, Zenon
    <3>3. Len(objects') = Len(objects) + 1 /\ objects'[Len(objects')] = NewVault(v.key, "public", v.wallets)
      BY <3>2, EnteredEvolves DEF Shape
    <3>4. id = Len(objects')
      BY <1>2, <1>4, <2>1, <3>3 DEF Ids
    <3>5. objects'[id].xpubs = v.wallets /\ objects'[id].key = v.key
      BY <3>3, <3>4 DEF NewVault
    <3>6. UNCHANGED accountsDB
      BY <2>3 DEF LoadNext, storeVars
    <3>7. QED
      BY <1>2, <3>2, <3>5, <3>6 DEF Range
  <2>4. CASE Len(objects') = Len(objects)
    BY <1>2, <1>4, <2>4 DEF Ids
  <2>5. QED
    BY <1>1, <2>2, <2>3, <2>4 DEF StepsOn
<1>5. QED
  BY <1>3, <1>4

\* What the accounts of a vault are to be saved as covers the same as before.
LEMMA XpubsCover ==
  ASSUME Shape, XpubsKnown, Evolves, NEW id \in Ids, KeyOf(id) \notin torn
  PROVE  Range(Xpubs(objects[id])) \subseteq Range(Xpubs(objects'[id])) \cup accountsDB[KeyOf(id)]
<1> DEFINE o == objects[id]
           q == objects'[id]
<1>1. o \in Object /\ q \in Object /\ Later(o, q)
  BY ObjectsAre DEF Shape, Evolves, Later
<1>2. SUFFICES ASSUME NEW x \in Range(Xpubs(o)), x \notin accountsDB[KeyOf(id)]
               PROVE  x \in Range(Xpubs(q))
  OBVIOUS
<1>3. PICK p \in DOMAIN o.wallets : x = XpubOf(o, o.wallets[p])
  BY <1>2 DEF Range, Xpubs
<1>4. o.wallets \in Seq(Nat) /\ o.wallets[p] \in Nat
  BY <1>1, <1>3 DEF Object
<1>5. p \in DOMAIN q.wallets /\ q.wallets[p] = o.wallets[p]
  <2>1. CASE q.wallets = o.wallets
    BY <1>3, <2>1
  <2>2. ASSUME NEW n \in Nat, q.wallets = Append(o.wallets, n)
        PROVE  p \in DOMAIN q.wallets /\ q.wallets[p] = o.wallets[p]
    <3> DEFINE s == o.wallets
    <3>1. s \in Seq(Nat) /\ p \in DOMAIN s
      BY <1>3, <1>4
    <3> HIDE DEF s
    <3>2. p \in DOMAIN Append(s, n) /\ Append(s, n)[p] = s[p]
      BY <3>1
    <3>3. QED
      BY <2>2, <3>2 DEF s
  <2>3. QED
    BY <1>1, <2>1, <2>2 DEF Later
<1>6. XpubOf(q, o.wallets[p]) = x
  BY <1>2, <1>3, <1>4, XpubKept
<1>7. QED
  BY <1>5, <1>6 DEF Range, Xpubs

\* Only at its end does an encryption promise anything, and an encryption that
\* saves the accounts has stored its vault or goes on, its vault not removed.
LEMMA PromisesEnd == ASSUME VaultsNext PROVE promised' \subseteq promised \/ SaveAccounts
<1>1. ASSUME NEW who \in Importers, ImportXpub(who) \/ ImportSave(who)
      PROVE  promised' \subseteq promised
  BY <1>1 DEF ImportXpub, ImportSave, historyVars
<1>2. ASSUME NEW s \in Slots, Listed(s) \/ Added(s) PROVE promised' \subseteq promised
  BY <1>2 DEF Listed, Added, historyVars
<1>3. CASE AddVault \/ logOut \/ RemoveVault
  BY <1>3 DEF AddVault, logOut, RemoveVault, Forget, historyVars
<1>4. CASE UNCHANGED promised
  BY <1>4
<1>5. QED
  BY <1>1, <1>2, <1>3, <1>4, StoresChange, Zenon

LEMMA SavingGoesOn ==
  ASSUME Shape, VaultsNext, encrypting' # Idle, encrypting'.at = "save", ~encrypting'.spoilt
  PROVE  \/ AddVault /\ ~Stored(KeyOf(encrypting.id))
         \/ /\ encrypting # Idle /\ encrypting.at = "save" /\ ~encrypting.spoilt
            /\ encrypting'.id = encrypting.id /\ ~Removed(KeyOf(encrypting.id))
<1>1. ASSUME NEW key, Forget(key)
      PROVE  /\ encrypting # Idle /\ encrypting.at = "save" /\ ~encrypting.spoilt
             /\ encrypting'.id = encrypting.id /\ KeyOf(encrypting.id) # key
  <2>1. encrypting \in EncryptTask /\ encrypting # Idle
    BY <1>1 DEF Forget, Shape, EncryptingShape, CheckTask
  <2>2. encrypting' = [encrypting EXCEPT !.spoilt = @ \/ KeyOf(encrypting.id) = key]
    BY <1>1, <2>1 DEF Forget, EncryptTask
  <2>3. QED
    BY <2>1, <2>2 DEF EncryptTask
<1>2. CASE logOut \/ RemoveVault
  <2>1. CASE RemoveVault
    BY <1>1, <2>1 DEF RemoveVault, Removed
  <2>2. CASE logOut
    <3>1. removing = 0
      BY <2>2 DEF logOut
    <3>2. ~RemoveVault
      BY <3>1 DEF RemoveVault
    <3>3. QED
      BY <1>1, <2>2, <3>2 DEF logOut, Removed
  <2>3. QED
    BY <1>2, <2>1, <2>2
<1>3. CASE UNCHANGED encrypting /\ ~RemoveVault
  BY <1>3 DEF Removed
<1>4. CASE AddVault
  BY <1>4 DEF AddVault
<1>5. CASE SaveAccounts \/ Reload
  BY <1>5 DEF SaveAccounts, Reload, Fresh
<1>6. ASSUME NEW p, EncryptActive(p) PROVE FALSE
  BY <1>6 DEF EncryptActive
<1>7. ASSUME NEW p \in Passwords, NEW q \in Passwords, encryptWallet(p, q) PROVE FALSE
  BY <1>6, <1>7 DEF encryptWallet
<1>8. CASE Checked
  BY <1>6, <1>8 DEF Checked
<1>9. QED
  BY <1>2, <1>3, <1>4, <1>5, <1>7, <1>8, EncryptingChanges, Zenon

LEMMA NextSavedLoads ==
  ASSUME Shape, OpensInv, OpensInv', LoadsInv, VaultsNext, ~Reload
  PROVE  SavedLoads'
<1>1. SUFFICES ASSUME NEW r \in promised', r.key \notin torn'
               PROVE  Range(vaultsDB'[r.key].wallets) \subseteq accountsDB'[r.key] \cup BeingSaved(r.key)'
  BY DEF SavedLoads
<1>2. r.key \notin torn /\ XpubsKnown
  BY <1>1, TornGrows DEF LoadsInv
<1>3. CASE r \in promised
  <2>1. r.key \in VaultKeys
    BY <1>3 DEF Shape, StoresShape, Promise
  <2>2. Stored(r.key) /\ Stored(r.key)'
    BY <1>1, <1>3 DEF OpensInv, SavedOpens
  <2>3. ~Removed(r.key)
    BY DEF Removed, RemoveVault, Forget
  <2>4. Range(vaultsDB[r.key].wallets) \subseteq accountsDB[r.key] \cup BeingSaved(r.key)
    BY <1>2, <1>3 DEF LoadsInv, SavedLoads
  <2>5. Range(vaultsDB'[r.key].wallets) \subseteq Range(vaultsDB[r.key].wallets) \cup BeingSaved(r.key)'
    BY <2>1, <2>2, ListedAreSaved
  <2>6. accountsDB[r.key] \subseteq accountsDB'[r.key]
    BY <2>1, <2>3, AccountsKept
  <2>7. BeingSaved(r.key) \subseteq accountsDB'[r.key] \cup BeingSaved(r.key)'
    BY <1>2, <2>1, <2>3, BeingSavedKept
  <2>8. QED
    BY <2>4, <2>5, <2>6, <2>7
<1>4. CASE SaveAccounts /\ r \notin promised
  <2> DEFINE id == encrypting.id
             key == KeyOf(id)
  <2>1. id \in Ids /\ key \in VaultKeys
    BY <1>4, KeyIs DEF SaveAccounts, Shape, EncryptingShape
  <2>2. r.key = key /\ ~encrypting.spoilt /\ encrypting # Idle /\ encrypting.at = "save"
    BY <1>4 DEF SaveAccounts
  <2>3. Range(vaultsDB[key].wallets) \subseteq
          Range(Xpubs(objects[id])) \cup accountsDB[key] \cup BeingSaved(key)
    BY <1>2, <2>2 DEF LoadsInv, ListsPromise
  <2>4. UNCHANGED vaultsDB /\ accountsDB'[key] = accountsDB[key] \cup Range(Xpubs(objects[id]))
    BY <1>4, <2>1 DEF SaveAccounts, Shape, StoresShape
  <2>5. ~Removed(key)
    <3>1. encrypting' = Idle
      BY <1>4 DEF SaveAccounts
    <3>2. SUFFICES ASSUME RemoveVault PROVE FALSE
      BY DEF Removed
    <3>3. \A x \in promised' : x \in promised
      BY <3>2 DEF RemoveVault, Forget
    <3>4. QED
      BY <1>4, <3>3
  <2>6. BeingSaved(r.key) \subseteq accountsDB'[r.key] \cup BeingSaved(r.key)'
    BY <1>2, <2>1, <2>2, <2>5, BeingSavedKept
  <2> HIDE DEF key, id
  <2>7. QED
    BY <2>2, <2>3, <2>4, <2>6
<1>5. QED
  BY <1>3, <1>4, PromisesEnd

LEMMA NextListsPromise ==
  ASSUME Shape, OpensInv, OpensInv', LoadsInv, VaultsNext, ~Reload
  PROVE  ListsPromise'
<1> DEFINE id == encrypting.id
           key == KeyOf(id)
<1>1. SUFFICES ASSUME encrypting' # Idle, encrypting'.at = "save", ~encrypting'.spoilt,
                      NEW k, k = objects'[encrypting'.id].key, k \notin torn'
               PROVE  Range(vaultsDB'[k].wallets) \subseteq
                        Range(Xpubs(objects'[encrypting'.id])) \cup accountsDB'[k] \cup BeingSaved(k)'
  BY DEF ListsPromise, KeyOf, BeingSaved
<1>2. Evolves /\ XpubsKnown
  BY NextEvolves DEF LoadsInv
<1>3. CASE AddVault /\ ~Stored(key)
  <2>1. encrypting \in EncryptTask /\ id \in Ids
    BY <1>3 DEF AddVault, Shape, EncryptingShape, CheckTask
  <2>2. key \in VaultKeys
    BY <2>1, KeyIs
  <2>3. /\ UNCHANGED objects /\ encrypting' = [encrypting EXCEPT !.at = "save"]
        /\ \E secret : vaultsDB' = [vaultsDB EXCEPT ![key] =
                          [secret |-> secret, wallets |-> Xpubs(objects[id])]]
    BY <1>3, Zenon DEF AddVault, listVars
  <2>4. encrypting'.id = id
    BY <2>1, <2>3 DEF EncryptTask
  <2>5. vaultsDB'[key].wallets = Xpubs(objects[id])
    BY <2>2, <2>3 DEF Shape, StoresShape
  <2>6. k = key
    BY <1>1, <2>3, <2>4 DEF KeyOf
  <2>7. QED
    BY <2>3, <2>4, <2>5, <2>6
<1>4. CASE /\ encrypting # Idle /\ encrypting.at = "save" /\ ~encrypting.spoilt
           /\ encrypting'.id = id /\ ~Removed(key)
  <2>1. id \in Ids /\ key \in VaultKeys
    BY <1>4, KeyIs DEF Shape, EncryptingShape
  <2>2. objects'[id].key = key
    BY <1>2, <2>1 DEF Evolves, Later, KeyOf
  <2>3. key \notin torn
    BY <1>1, <1>4, <2>2, TornGrows
  <2>4. Stored(key) /\ vaultsDB'[k] # NoVault
    <3>1. Stored(key)
      BY <1>4 DEF OpensInv, SavesPromise
    <3>2. vaultsDB'[objects'[encrypting'.id].key] # NoVault
      BY <1>1 DEF OpensInv, SavesPromise, Stored, KeyOf
    <3>3. QED
      BY <1>1, <3>1, <3>2
  <2>5. k = key /\ k \in VaultKeys
    BY <1>1, <1>4, <2>1, <2>2
  <2>6. vaultsDB'[k] # NoVault /\ Stored(k) /\ k \notin torn /\ ~Removed(k)
    BY <1>4, <2>3, <2>4, <2>5
  <2>7. Range(vaultsDB[k].wallets) \subseteq Range(Xpubs(objects[id])) \cup accountsDB[k] \cup BeingSaved(k)
    BY <1>4, <2>3, <2>5 DEF LoadsInv, ListsPromise
  <2>8. Range(vaultsDB'[k].wallets) \subseteq Range(vaultsDB[k].wallets) \cup BeingSaved(k)'
    BY <2>5, <2>6, ListedAreSaved DEF Stored
  <2>9. accountsDB[k] \subseteq accountsDB'[k]
    BY <2>5, <2>6, AccountsKept
  <2>10. BeingSaved(k) \subseteq accountsDB'[k] \cup BeingSaved(k)'
    BY <1>2, <2>5, <2>6, BeingSavedKept
  <2>11. Range(Xpubs(objects[id])) \subseteq Range(Xpubs(objects'[id])) \cup accountsDB[k]
    BY <1>2, <2>1, <2>3, <2>5, XpubsCover
  <2>12. encrypting'.id = id
    BY <1>4
  <2> HIDE DEF id
  <2>13. QED
    BY <2>7, <2>8, <2>9, <2>10, <2>11, <2>12
<1>5. QED
  BY <1>1, <1>3, <1>4, SavingGoesOn

\* A reload breaks off what was being saved; all that is left is to be loaded.
LEMMA ReloadKeepsLoads ==
  ASSUME Shape, LoadsInv, Reload PROVE LoadsInv'
<1>1. /\ UNCHANGED <<vaultsDB, accountsDB, promised>> /\ objects' = <<>> /\ encrypting' = Idle
      /\ torn' = torn \cup {k \in VaultKeys : ~(BeingSaved(k) \subseteq accountsDB[k])}
  BY DEF Reload, Fresh, storeVars
<1>2. SavedLoads'
  <2>1. SUFFICES ASSUME NEW r \in promised, r.key \notin torn'
                 PROVE  Range(vaultsDB[r.key].wallets) \subseteq accountsDB[r.key]
    BY <1>1 DEF SavedLoads
  <2>2. r.key \in VaultKeys
    BY DEF Shape, StoresShape, Promise
  <2>3. r.key \notin torn /\ BeingSaved(r.key) \subseteq accountsDB[r.key]
    BY <1>1, <2>1, <2>2
  <2>4. QED
    BY <2>3 DEF LoadsInv, SavedLoads
<1>3. XpubsKnown'
  BY <1>1 DEF XpubsKnown, Ids
<1>4. ListsPromise'
  BY <1>1 DEF ListsPromise
<1>5. QED
  BY <1>2, <1>3, <1>4 DEF LoadsInv

LEMMA NextLoads ==
  ASSUME Shape, OpensInv, LoadsInv, [VaultsNext]_vaultVars PROVE LoadsInv'
<1>1. CASE UNCHANGED vaultVars
  BY <1>1 DEF vaultVars, storeVars, listVars, historyVars, LoadsInv, SavedLoads, XpubsKnown,
     ListsPromise, BeingSaved, KeyOf, Ids
<1>2. CASE VaultsNext /\ Reload
  BY <1>2, ReloadKeepsLoads
<1>3. CASE VaultsNext /\ ~Reload
  <2>1. OpensInv'
    BY NextOpens
  <2>2. SavedLoads'
    BY <1>3, <2>1, NextSavedLoads
  <2>3. XpubsKnown'
    BY <1>3, NextXpubsKnown DEF LoadsInv
  <2>4. ListsPromise'
    BY <1>3, <2>1, NextListsPromise
  <2>5. QED
    BY <2>2, <2>3, <2>4 DEF LoadsInv
<1>4. QED
  BY <1>1, <1>2, <1>3

LEMMA FirstLoads == ASSUME VaultsInit PROVE LoadsInv
<1>1. PICK visited \in Visits :
        /\ vaultsDB = [k \in VaultKeys |->
                         IF k \in visited
                         THEN [secret |-> IF k \in HDKeys THEN FirstPassword ELSE NoPassword,
                               wallets |-> <<0>>]
                         ELSE NoVault]
        /\ accountsDB = [k \in VaultKeys |-> IF k \in visited THEN {0} ELSE {}]
        /\ promised = {[key |-> k, password |-> FirstPassword] : k \in visited}
  BY DEF VaultsInit
<1>2. ASSUME NEW r \in promised
      PROVE  Range(vaultsDB[r.key].wallets) \subseteq accountsDB[r.key]
  <2>1. r.key \in visited /\ r.key \in VaultKeys
    BY <1>1 DEF Visits
  <2>2. vaultsDB[r.key].wallets = <<0>> /\ accountsDB[r.key] = {0}
    BY <1>1, <2>1
  <2>3. QED
    BY <2>2 DEF Range
<1>3. objects = <<>> /\ encrypting = Idle
  BY DEF VaultsInit
<1>4. QED
  BY <1>2, <1>3 DEF LoadsInv, SavedLoads, XpubsKnown, ListsPromise, Ids

LEMMA LoadsInvariance == VaultsSpec => [](Shape /\ OpensInv /\ LoadsInv)
<1>1. VaultsInit => Shape /\ OpensInv /\ LoadsInv
  BY FirstShape, FirstOpens, FirstLoads
<1>2. Shape /\ OpensInv /\ LoadsInv /\ [VaultsNext]_vaultVars => Shape' /\ OpensInv' /\ LoadsInv'
  BY NextShape, NextOpens, NextLoads
<1>3. QED
  BY <1>1, <1>2, PTL DEF VaultsSpec

\* The next start finds the accounts that are listed for what was encrypted,
\* but for those being saved, those whose saving a reload broke off, and those of
\* a vault that was removed under other numbers: vault.js, use_wallet.js.
THEOREM SavedLoadsHolds == VaultsSpec => []SavedLoads
<1>1. Shape /\ OpensInv /\ LoadsInv => SavedLoads
  BY DEF LoadsInv
<1>2. QED
  BY <1>1, LoadsInvariance, PTL

-----------------------------------------------------------------------------
\* The wallet that signs is the one that is shown.  While nothing is disturbed,
\* the two lists of vaults are one; a vault lists its accounts in their order;
\* one import is under way, and at most one addition to a vault, and none to the
\* vault that is imported; each is at the end of the list of its vault.

SameLists == vaults = rawVaults
Numbered == \A id \in Ids : \A p \in DOMAIN objects[id].wallets : objects[id].wallets[p] = p - 1
ImportsInOrder ==
  /\ \A who \in Importers : Imports(who) =>
       /\ imports[who].id \in Range(vaults)
       /\ Len(objects[imports[who].id].wallets) = imports[who].n + 1
  /\ \A v, w \in Importers : Imports(v) /\ Imports(w) => v = w
AdditionsInOrder ==
  \A s \in Slots : adding[s] # Idle =>
    /\ adding[s].at = "make" => adding[s].n = Len(objects[adding[s].id].wallets)
    /\ \A t \in Slots : adding[t] # Idle /\ adding[t].id = adding[s].id => t = s
    /\ \A who \in Importers : Imports(who) => imports[who].id # adding[s].id
Agreed ==
  activeVault = 0 \/ (\E who \in Importers : Imports(who)) \/
    (wallet = activeWallet /\ wallet.vault = activeVault /\ activeVault \in Range(vaults))
InOrder == SameLists /\ Numbered /\ ImportsInOrder /\ AdditionsInOrder /\ Agreed
AgreeInv == disturbed \/ InOrder

LEMMA DisturbedStays == ASSUME VaultsNext, ~Reload, ~disturbed' PROVE ~disturbed /\ ~RemoveVault
<1>1. ~RemoveVault
  BY DEF RemoveVault
<1>2. ASSUME NEW o, Enter(o) PROVE ~disturbed
  BY <1>2 DEF Enter
<1>3. CASE ParsedSecret
  BY <1>1, <1>2, <1>3 DEF ParsedSecret
<1>4. CASE LoadNext
  BY <1>1, <1>2, <1>4 DEF LoadNext
<1>5. ASSUME NEW id, AddAccount(id) PROVE ~disturbed
  BY <1>5 DEF AddAccount
<1>6. CASE GoesOn
  BY <1>1, <1>5, <1>6 DEF GoesOn
<1>7. ASSUME NEW id, AddWallet(id) PROVE ~disturbed
  BY <1>5, <1>7 DEF AddWallet
<1>8. UNCHANGED disturbed \/ ParsedSecret \/ LoadNext \/ GoesOn \/ RemoveVault
        \/ \E id \in DOMAIN objects : AddWallet(id)
  BY Zenon DEF VaultsNext, historyVars, Import, ParseFails, ImportXpub, ImportSave, OpenEncrypt,
     onEncryptModalClose, ReopenUnsaved, encryptWallet, Checked, AddVault, SaveAccounts,
     LockWallet, Unlock, Unlocked, CancelUnlock, Made, Listed, Added, selectWallet, logOut
<1>9. QED
  BY <1>1, <1>3, <1>4, <1>6, <1>7, <1>8

\* No list changes, nothing is begun, and what goes on stays where it is.
Rested ==
  /\ Evolves /\ Len(objects') = Len(objects)
  /\ \A id \in Ids : objects'[id].wallets = objects[id].wallets
SameImports ==
  \A who \in Importers :
    /\ Imports(who)' <=> Imports(who)
    /\ Imports(who) => imports'[who].id = imports[who].id /\ imports'[who].n = imports[who].n
SameAdditions ==
  \A s \in Slots : adding'[s] # Idle =>
    /\ adding[s] # Idle /\ adding'[s].id = adding[s].id
    /\ adding'[s].at = "make" => adding'[s] = adding[s]

LEMMA QuietKeepsOrder ==
  ASSUME Shape, InOrder, Rested, SameImports, SameAdditions,
         UNCHANGED <<vaults, rawVaults>>,
         UNCHANGED <<activeVault, activeWallet, wallet>> \/ Agreed'
  PROVE  InOrder'
<1>0. Len(objects) \in Nat /\ Ids' = Ids
  BY DEF Shape, ObjectsShape, Rested, Ids
<1>1. SameLists'
  BY DEF InOrder, SameLists
<1>2. Numbered'
  BY <1>0 DEF InOrder, Numbered, Rested
<1>3. ASSUME NEW who \in Importers, Imports(who)'
      PROVE  /\ Imports(who) /\ imports'[who].id = imports[who].id /\ imports'[who].n = imports[who].n
             /\ imports[who].id \in Ids
  BY <1>3, ImportIs DEF SameImports
<1>4. ImportsInOrder'
  BY <1>3 DEF InOrder, ImportsInOrder, Rested
<1>5. ASSUME NEW s \in Slots, adding'[s] # Idle
      PROVE  /\ adding[s] # Idle /\ adding'[s].id = adding[s].id /\ adding[s].id \in Ids
             /\ adding'[s].at = "make" => adding'[s] = adding[s]
  BY <1>5, AdditionIs DEF SameAdditions
<1>6. AdditionsInOrder'
  BY <1>3, <1>5 DEF InOrder, AdditionsInOrder, Rested
<1>7. Agreed'
  BY DEF InOrder, Agreed, SameImports
<1>8. QED
  BY <1>1, <1>2, <1>4, <1>6, <1>7 DEF InOrder

\* A vault lists one account more.  It is the next one, and whatever goes on
\* goes on with another vault.
LEMMA ListingKeepsOrder ==
  ASSUME Shape, InOrder, NEW id \in Ids, Lists(id, Len(objects[id].wallets)),
         UNCHANGED <<vaults, rawVaults, activeVault, activeWallet, wallet>>,
         SameImports, \A who \in Importers : Imports(who) => imports[who].id # id,
         \A s \in Slots : adding'[s] # Idle =>
           \/ adding'[s] = adding[s] /\ adding[s].id # id
           \/ /\ adding'[s].id = id /\ adding'[s].at # "make"
              /\ \A t \in Slots : t # s /\ adding'[t] # Idle => adding'[t].id # id
  PROVE  InOrder'
<1>0. Len(objects) \in Nat /\ Ids' = Ids
  BY DEF Shape, ObjectsShape, Lists, Ids
<1>1. SameLists' /\ Agreed'
  BY DEF InOrder, SameLists, Agreed, SameImports
<1>2. Numbered'
  <2> DEFINE l == objects[id].wallets
             n == Len(l)
  <2>1. l \in Seq(Nat) /\ \A p \in DOMAIN l : l[p] = p - 1
    BY ObjectsAre DEF Shape, Object, InOrder, Numbered
  <2>2. objects'[id].wallets = Append(l, n) /\ \A j \in Ids : j # id => objects'[j] = objects[j]
    BY DEF Lists
  <2> HIDE DEF l
  <2>3. \A p \in DOMAIN Append(l, n) : Append(l, n)[p] = p - 1
    BY <2>1
  <2> HIDE DEF n
  <2>4. QED
    BY <1>0, <2>2, <2>3 DEF InOrder, Numbered
<1>3. ASSUME NEW who \in Importers, Imports(who)'
      PROVE  /\ Imports(who) /\ imports'[who].id = imports[who].id /\ imports'[who].n = imports[who].n
             /\ objects'[imports[who].id] = objects[imports[who].id]
  BY <1>3, ImportIs DEF SameImports, Lists
<1>4. ImportsInOrder'
  BY <1>3 DEF InOrder, ImportsInOrder
<1>5. AdditionsInOrder'
  <2>1. ASSUME NEW s \in Slots, adding'[s] # Idle, adding'[s].at = "make"
        PROVE  adding'[s].n = Len(objects'[adding'[s].id].wallets)
    <3>1. adding'[s] = adding[s] /\ adding[s].id # id /\ adding[s] # Idle
      BY <2>1
    <3>2. objects'[adding[s].id] = objects[adding[s].id]
      BY <3>1, AdditionIs DEF Lists
    <3>3. QED
      BY <2>1, <3>1, <3>2 DEF InOrder, AdditionsInOrder
  <2>2. ASSUME NEW s \in Slots, NEW t \in Slots, adding'[s] # Idle, adding'[t] # Idle,
               adding'[t].id = adding'[s].id
        PROVE  t = s
    BY <2>2 DEF InOrder, AdditionsInOrder
  <2>3. ASSUME NEW s \in Slots, adding'[s] # Idle, NEW who \in Importers, Imports(who)'
        PROVE  imports'[who].id # adding'[s].id
    BY <1>3, <2>3 DEF InOrder, AdditionsInOrder
  <2>4. QED
    BY <2>1, <2>2, <2>3 DEF AdditionsInOrder
<1>6. QED
  BY <1>1, <1>2, <1>4, <1>5 DEF InOrder

LEMMA EnteredIsListed ==
  ASSUME Shape, NEW o, Enter(o)
  PROVE  (Len(objects) + 1) \in Range(vaults') /\ (SameLists => SameLists')
<1> DEFINE id == Len(objects) + 1
           p == {q \in DOMAIN vaults : KeyOf(vaults[q]) = o.key}
<1>1. vaults \in Seq(Nat) /\ id \in Nat
  BY DEF Shape, ListsShape, ObjectsShape
<1> HIDE DEF id
<1>2. CASE p = {} /\ vaults' = Append(vaults, id) /\ rawVaults' = Append(rawVaults, id)
  <2>1. Len(vaults) + 1 \in DOMAIN vaults' /\ vaults'[Len(vaults) + 1] = id
    BY <1>1, <1>2
  <2>2. QED
    BY <1>2, <2>1, Zenon DEF Range, SameLists, id
<1>3. CASE /\ p # {}
           /\ vaults' = [q \in DOMAIN vaults |-> IF q \in p THEN id ELSE vaults[q]]
           /\ rawVaults' = [q \in DOMAIN rawVaults |-> IF q \in p THEN id ELSE rawVaults[q]]
  <2>1. PICK q \in p : TRUE
    BY <1>3
  <2>2. q \in DOMAIN vaults' /\ vaults'[q] = id
    BY <1>3, <2>1
  <2>3. QED
    BY <1>3, <2>2 DEF Range, SameLists, id
<1>4. QED
  BY <1>2, <1>3, Zenon DEF Enter, id

\* A vault enters the lists, and is what is imported.
LEMMA EnteringKeepsOrder ==
  ASSUME Shape, InOrder, ~disturbed', NEW o \in Object, Enter(o), o.wallets = << 0 >>,
         UNCHANGED adding, NEW who \in Importers, imports'[who] # Idle,
         imports'[who].at = "xpub", imports'[who].id = Len(objects'), imports'[who].n = 0,
         \A w \in Importers : w # who => imports'[w] = imports[w]
  PROVE  InOrder'
<1>1. /\ Len(objects) \in Nat /\ Len(objects') = Len(objects) + 1
      /\ objects'[Len(objects')] = o /\ \A id \in Ids : objects'[id] = objects[id]
  BY EnteredEvolves DEF Shape, ObjectsShape
<1>2. Ids' = Ids \cup {Len(objects')} /\ Len(objects') \notin Ids
  BY <1>1 DEF Ids
<1>3. \A w \in Importers : ~Imports(w)
  BY DEF Enter
<1>4. Len(objects') \in Range(vaults') /\ SameLists'
  BY <1>1, EnteredIsListed DEF InOrder
<1>5. Numbered'
  <2>1. \A p \in DOMAIN o.wallets : o.wallets[p] = p - 1
    OBVIOUS
  <2>2. QED
    BY <1>1, <1>2, <2>1 DEF InOrder, Numbered
<1>6. Imports(who)' /\ \A w \in Importers : Imports(w)' => w = who
  BY <1>3 DEF Imports
<1>7. ImportsInOrder'
  <2>1. Len(objects'[imports'[who].id].wallets) = imports'[who].n + 1
    <3>1. objects'[imports'[who].id] = o
      BY <1>1
    <3>2. Len(<<0>>) = 1 /\ imports'[who].n + 1 = 1
      OBVIOUS
    <3>3. QED
      BY <3>1, <3>2, Zenon
  <2>2. imports'[who].id \in Range(vaults')
    BY <1>4
  <2>3. QED
    BY <1>6, <2>1, <2>2, Zenon DEF ImportsInOrder
<1>8. AdditionsInOrder'
  <2>1. \A s \in Slots : adding[s] # Idle => adding[s].id \in Ids
    BY AdditionIs
  <2>2. QED
    BY <1>1, <1>2, <1>6, <2>1 DEF InOrder, AdditionsInOrder
<1>9. Agreed'
  BY <1>6 DEF Agreed
<1>10. QED
  BY <1>4, <1>5, <1>7, <1>8, <1>9 DEF InOrder

\* The import of a vault lists its next account, or ends with that vault shown.
LEMMA ImportSaveKeepsOrder ==
  ASSUME Shape, InOrder,
         NEW who \in Importers, imports[who] # Idle, ImportSave(who)
  PROVE  InOrder'
<1> DEFINE id == imports[who].id
           n == imports[who].n
           l == objects[id].wallets
<1>1. /\ Imports(who) /\ id \in Ids /\ n \in Nat /\ objects[id] \in Object
      /\ id \in Range(vaults) /\ Len(l) = n + 1
  BY ImportIs, ObjectsAre DEF ImportSave, Imports, InOrder, ImportsInOrder, Shape
<1>2. \A w \in Importers : w # who => ~Imports(w) /\ imports'[w] = imports[w]
  BY <1>1 DEF InOrder, ImportsInOrder, ImportSave, Importers, Shape, ImportsShape
<1>3. UNCHANGED <<vaults, rawVaults, adding>> /\ SameLists'
  BY DEF ImportSave, InOrder, SameLists
<1>4. CASE n + 1 < Cardinality(objects[id].cached)
  <2>1. Lists(id, n + 1)
    BY <1>4, ImportSaveLists
  <2>2. Len(objects) \in Nat /\ Ids' = Ids
    BY <2>1 DEF Shape, ObjectsShape, Lists, Ids
  <2>3. /\ l \in Seq(Nat) /\ \A p \in DOMAIN l : l[p] = p - 1
        /\ objects'[id].wallets = Append(l, n + 1)
        /\ \A j \in Ids : j # id => objects'[j] = objects[j]
    BY <1>1, <2>1 DEF Object, InOrder, Numbered, Lists
  <2>4. /\ imports'[who] # Idle /\ imports'[who].at = "xpub" /\ imports'[who].id = id
        /\ imports'[who].n = n + 1
    <3> DEFINE t == imports[who]
    <3>1. PICK m \in Nat : m = n + 1
      BY <1>1
    <3> DEFINE u == [t EXCEPT !.at = "xpub", !.n = m]
    <3>2. imports' = [imports EXCEPT ![who] = u] /\ t \in LoginTask \cup StartTask
      BY <1>4, <3>1 DEF ImportSave, Shape, ImportsShape
    <3>3. u # Idle /\ u.at = "xpub" /\ u.id = t.id /\ u.n = m
      <4> HIDE DEF t
      <4>1. CASE t \in LoginTask
        BY <4>1, VaultsAssumption DEF LoginTask
      <4>2. CASE t \in StartTask
        BY <4>2, VaultsAssumption DEF StartTask
      <4>3. QED
        BY <3>2, <4>1, <4>2
    <3> HIDE DEF u
    <3>4. imports'[who] = u
      BY <3>2 DEF Shape, ImportsShape
    <3>5. QED
      BY <3>1, <3>3, <3>4
  <2> HIDE DEF l, id, n
  <2>5. /\ \A p \in DOMAIN Append(l, n + 1) : Append(l, n + 1)[p] = p - 1
        /\ Len(Append(l, n + 1)) = n + 2
    BY <1>1, <2>3
  <2>6. Numbered'
    BY <2>2, <2>3, <2>5 DEF InOrder, Numbered
  <2>7. Imports(who)' /\ \A w \in Importers : Imports(w)' => w = who
    BY <1>2, <2>4 DEF Imports
  <2>8. ImportsInOrder'
    BY <1>1, <1>3, <2>3, <2>4, <2>5, <2>7 DEF ImportsInOrder
  <2>9. AdditionsInOrder'
    <3>1. \A s \in Slots : adding[s] # Idle => adding[s].id \in Ids /\ adding[s].id # id
      BY <1>1, AdditionIs DEF InOrder, AdditionsInOrder, id
    <3>2. QED
      BY <1>3, <2>3, <2>4, <2>7, <3>1 DEF InOrder, AdditionsInOrder
  <2>10. Agreed'
    BY <2>7 DEF Agreed
  <2>11. QED
    BY <1>3, <2>6, <2>8, <2>9, <2>10 DEF InOrder
<1>5. CASE ~(n + 1 < Cardinality(objects[id].cached))
  <2>1. /\ UNCHANGED objects /\ activeVault' = id
        /\ wallet' = [vault |-> id, account |-> n] /\ activeWallet' = wallet'
    BY <1>5 DEF ImportSave
  <2>2. ~Imports(who)'
    <3>1. CASE who = "login"
      BY <1>5, <3>1 DEF ImportSave, Shape, ImportsShape, Imports, Importers
    <3>2. CASE who = "start"
      BY <1>5, <3>2 DEF ImportSave, Shape, ImportsShape, Imports, Importers, ToLoad
    <3>3. QED
      BY <3>1, <3>2 DEF Importers
  <2>3. \A w \in Importers : ~Imports(w)'
    BY <1>2, <2>2 DEF Imports
  <2>4. Numbered' /\ ImportsInOrder' /\ AdditionsInOrder'
    BY <1>3, <2>1, <2>3 DEF InOrder, Numbered, ImportsInOrder, AdditionsInOrder, Ids
  <2>5. Agreed'
    BY <1>1, <1>3, <2>1 DEF Agreed
  <2>6. QED
    BY <1>3, <2>4, <2>5 DEF InOrder
<1>6. QED
  BY <1>4, <1>5

\* An account is added to a vault where nothing goes on.
LEMMA AddAccountKeepsOrder ==
  ASSUME Shape, InOrder, ~disturbed', NEW id \in Ids, AddAccount(id), Idle \in Range(adding),
         UNCHANGED <<vaults, rawVaults, activeVault, activeWallet, wallet, imports>>
  PROVE  InOrder'
<1> DEFINE n == Len(objects[id].wallets)
           slot == CHOOSE s \in Slots : adding[s] = Idle
<1>1. slot \in Slots /\ adding[slot] = Idle /\ adding \in [Slots -> AddTask \cup {Idle}]
  BY DEF Range, Shape, AddingShape
<1>2. n \in Nat
  BY AddingAccount
<1>3. /\ \A who \in Importers : Imports(who) => imports[who].id # id
      /\ \A s \in Slots : adding[s] # Idle => adding[s].id # id
  BY DEF AddAccount
<1>4. SameImports
  BY DEF SameImports, Imports
<1>5. CASE UNCHANGED <<objects, adding>>
  BY <1>4, <1>5, NoneChanges, QuietKeepsOrder DEF Shape, Rested, SameAdditions
<1>6. CASE /\ adding' = [adding EXCEPT ![slot] = [at |-> "xpub", id |-> id, n |-> n]]
           /\ objects' = [objects EXCEPT ![id].wallets = Append(@, n)]
  <2>1. Lists(id, n)
    BY <1>2, <1>6, ListingAccount DEF Shape
  <2>2. adding'[slot].id = id /\ adding'[slot].at = "xpub"
    BY <1>1, <1>6
  <2>3. \A s \in Slots : s # slot => adding'[s] = adding[s]
    BY <1>1, <1>6
  <2> HIDE DEF slot
  <2>4. \A s \in Slots : adding'[s] # Idle =>
          \/ adding'[s] = adding[s] /\ adding[s].id # id
          \/ /\ adding'[s].id = id /\ adding'[s].at # "make"
             /\ \A t \in Slots : t # s /\ adding'[t] # Idle => adding'[t].id # id
    BY <1>3, <2>2, <2>3
  <2>5. QED
    BY <1>3, <1>4, <2>1, <2>4, ListingKeepsOrder
<1>7. CASE /\ adding' = [adding EXCEPT ![slot] = [at |-> "make", id |-> id, n |-> n]]
           /\ UNCHANGED objects
  <2>1. adding'[slot].id = id /\ adding'[slot].n = n
    BY <1>1, <1>7
  <2>2. \A s \in Slots : s # slot => adding'[s] = adding[s]
    BY <1>1, <1>7
  <2>3. SameLists' /\ Numbered' /\ ImportsInOrder' /\ Agreed'
    BY <1>7 DEF InOrder, SameLists, Numbered, ImportsInOrder, Agreed, Imports, Ids
  <2> HIDE DEF slot
  <2>4. AdditionsInOrder'
    <3>1. ASSUME NEW s \in Slots, adding'[s] # Idle, adding'[s].at = "make"
          PROVE  adding'[s].n = Len(objects'[adding'[s].id].wallets)
      BY <1>7, <2>1, <2>2, <3>1 DEF InOrder, AdditionsInOrder
    <3>2. ASSUME NEW s \in Slots, NEW t \in Slots, adding'[s] # Idle, adding'[t] # Idle,
                 adding'[t].id = adding'[s].id
          PROVE  t = s
      BY <1>3, <2>1, <2>2, <3>2 DEF InOrder, AdditionsInOrder
    <3>3. ASSUME NEW s \in Slots, adding'[s] # Idle, NEW who \in Importers, Imports(who)'
          PROVE  imports'[who].id # adding'[s].id
      BY <1>3, <1>4, <2>1, <2>2, <3>3 DEF InOrder, AdditionsInOrder, SameImports
    <3>4. QED
      BY <3>1, <3>2, <3>3 DEF AdditionsInOrder
  <2>5. QED
    BY <2>3, <2>4 DEF InOrder
<1>8. QED
  BY <1>5, <1>6, <1>7, Zenon DEF AddAccount

LEMMA MadeKeepsOrder ==
  ASSUME Shape, InOrder, NEW slot \in Slots, Made(slot) PROVE InOrder'
<1>1. PICK id \in Ids : id = adding[slot].id
  BY AdditionIs DEF Made
<1>2. /\ adding[slot] # Idle /\ adding[slot].at = "make"
      /\ adding[slot].n = Len(objects[id].wallets)
      /\ \A t \in Slots : adding[t] # Idle /\ t # slot => adding[t].id # id
      /\ \A who \in Importers : Imports(who) => imports[who].id # id
  BY <1>1 DEF Made, InOrder, AdditionsInOrder
<1>3. Lists(id, Len(objects[id].wallets))
  BY <1>1, <1>2, MadeLists
<1>4. adding'[slot].id = id /\ adding'[slot].at = "xpub"
  BY <1>1, AdditionIs DEF Made, AddTask, Shape, AddingShape
<1>5. \A s \in Slots : s # slot => adding'[s] = adding[s]
  BY DEF Made, Shape, AddingShape
<1>6. SameImports /\ UNCHANGED <<vaults, rawVaults, activeVault, activeWallet, wallet>>
  BY DEF SameImports, Imports, Made
<1>7. \A s \in Slots : adding'[s] # Idle =>
        \/ adding'[s] = adding[s] /\ adding[s].id # id
        \/ /\ adding'[s].id = id /\ adding'[s].at # "make"
           /\ \A t \in Slots : t # s /\ adding'[t] # Idle => adding'[t].id # id
  BY <1>2, <1>4, <1>5
<1>8. QED
  BY <1>2, <1>3, <1>6, <1>7, ListingKeepsOrder

\* The same place in two lists that are one is the same vault.
LEMMA selectWalletKeepsOrder ==
  ASSUME Shape, InOrder, NEW id \in Ids, NEW p \in Nat, selectWallet(id, p) PROVE InOrder'
<1>1. Selected(vaults, id)
  BY selectWalletSelects
<1>2. UNCHANGED <<vaults, rawVaults, imports, adding>>
  BY DEF selectWallet
<1>3. UNCHANGED <<activeVault, activeWallet, wallet>> \/ Agreed'
  <2>1. CASE UNCHANGED <<wallet, activeWallet, activeVault>>
    BY <2>1
  <2>2. CASE ~UNCHANGED <<wallet, activeWallet, activeVault>>
    <3>1. PICK q \in DOMAIN vaults, j \in DOMAIN objects[id].wallets :
            /\ vaults[q] = id /\ activeVault' = id
            /\ wallet' = [vault |-> rawVaults[q], account |-> j - 1]
            /\ activeWallet' = [vault |-> id, account |-> objects[id].wallets[j]]
      BY <1>1, <2>2 DEF Selected
    <3>2. rawVaults[q] = id /\ objects[id].wallets[j] = j - 1
      BY <3>1 DEF InOrder, SameLists, Numbered
    <3>3. id \in Range(vaults')
      BY <1>2, <3>1 DEF Range
    <3>4. wallet' = activeWallet' /\ wallet'.vault = id
      BY <3>1, <3>2
    <3>5. QED
      BY <3>1, <3>3, <3>4 DEF Agreed
  <2>3. QED
    BY <2>1, <2>2
<1>4. SameImports /\ SameAdditions /\ Rested
  BY <1>1, <1>2 DEF SameImports, SameAdditions, Rested, Imports, Selected, Rests
<1>5. QED
  BY <1>2, <1>3, <1>4, QuietKeepsOrder

\* The operations that begin, end or go on with an import or an addition, but
\* list nothing.
LEMMA QuietImports ==
  ASSUME Shape, NEW who \in Importers, imports[who] # Idle, ImportXpub(who)
  PROVE  SameImports
<1> DEFINE t == imports[who]
           u == [t EXCEPT !.at = "save"]
<1>1. t \in LoginTask \cup StartTask /\ t.at = "xpub" /\ imports' = [imports EXCEPT ![who] = u]
  BY DEF ImportXpub, Shape, ImportsShape
<1>2. u # Idle /\ u.at = "save" /\ u.id = t.id /\ u.n = t.n
  <2> HIDE DEF t
  <2>1. CASE t \in LoginTask
    BY <2>1, VaultsAssumption DEF LoginTask
  <2>2. CASE t \in StartTask
    BY <2>2, VaultsAssumption DEF StartTask
  <2>3. QED
    BY <1>1, <2>1, <2>2
<1> HIDE DEF u
<1>3. imports'[who] = u /\ \A w \in Importers : w # who => imports'[w] = imports[w]
  BY <1>1 DEF Shape, ImportsShape
<1>4. QED
  BY <1>1, <1>2, <1>3 DEF SameImports, Imports

LEMMA QuietStart ==
  ASSUME Shape, NEW who \in Importers, ~Imports(who), NEW task,
         imports' = [imports EXCEPT ![who] = task],
         task # Idle => task.at \notin {"xpub", "save"}
  PROVE  SameImports
<1>1. imports'[who] = task /\ \A w \in Importers : w # who => imports'[w] = imports[w]
  BY DEF Shape, ImportsShape
<1>2. QED
  BY <1>1 DEF SameImports, Imports

LEMMA QuietAdditions ==
  ASSUME Shape, NEW slot \in Slots, Listed(slot) \/ Added(slot) PROVE SameAdditions
<1>1. adding[slot] # Idle /\ \A s \in Slots : s # slot => adding'[s] = adding[s]
  BY DEF Listed, Added, Shape, AddingShape
<1>2. CASE Listed(slot)
  <2>1. adding'[slot].id = adding[slot].id /\ adding'[slot].at = "save"
    BY <1>2, <1>1, AdditionIs DEF Listed, Shape, AddingShape, AddTask
  <2>2. QED
    BY <1>1, <2>1 DEF SameAdditions
<1>3. CASE Added(slot)
  BY <1>1, <1>3 DEF Added, Shape, AddingShape, SameAdditions
<1>4. QED
  BY <1>2, <1>3

LEMMA LoadNextKeepsOrder ==
  ASSUME Shape, InOrder, ~disturbed', LoadNext PROVE InOrder'
<1>1. PICK v \in imports["start"].rest :
        LET rest == imports["start"].rest \ {v} IN
        IF Range(v.wallets) \subseteq accountsDB[v.key]
        THEN /\ Enter(NewVault(v.key, "public", v.wallets))
             /\ imports' = [imports EXCEPT !["start"] =
                              [at |-> "xpub", rest |-> rest, id |-> Len(objects'), n |-> 0]]
             /\ UNCHANGED <<activeVault, activeWallet, wallet>>
        ELSE imports' = [imports EXCEPT !["start"] = ToLoad(rest)] /\ UNCHANGED <<listVars, disturbed>>
  BY Zenon DEF LoadNext
<1> DEFINE o == NewVault(v.key, "public", v.wallets)
           rest == imports["start"].rest \ {v}
<1>2. imports["start"] \in StartTask /\ "start" \in Importers /\ UNCHANGED adding
  BY DEF LoadNext, Shape, ImportsShape, Importers
<1>3. v \in Loadable /\ rest \in SUBSET Loadable
  BY <1>1, <1>2 DEF StartTask
<1>4. o \in Object /\ o.wallets = <<0>>
  <2>1. v.key \in VaultKeys /\ v.wallets \in Seq(Nat)
    BY <1>3 DEF Loadable
  <2>2. QED
    BY <2>1, NewIsObject DEF Kinds, NewVault
<1>5. CASE /\ Enter(o)
           /\ imports' = [imports EXCEPT !["start"] =
                            [at |-> "xpub", rest |-> rest, id |-> Len(objects'), n |-> 0]]
  <2> HIDE DEF o, rest
  <2>1. Len(objects') \in Nat
    BY <1>4, <1>5, EnteredEvolves DEF Shape, ObjectsShape
  <2> DEFINE task == [at |-> "xpub", rest |-> rest, id |-> Len(objects'), n |-> 0]
  <2>2. task \in StartTask
    BY <1>3, <2>1 DEF StartTask
  <2>3. task # Idle /\ task.at = "xpub" /\ task.id = Len(objects') /\ task.n = 0
    BY <2>2, VaultsAssumption
  <2>4. imports' = [imports EXCEPT !["start"] = task]
    BY <1>5
  <2> HIDE DEF task
  <2>5. imports'["start"] = task /\ \A w \in Importers : w # "start" => imports'[w] = imports[w]
    BY <1>2, <2>4 DEF Shape, ImportsShape
  <2>6. QED
    BY <1>2, <1>4, <1>5, <2>3, <2>5, EnteringKeepsOrder
<1>6. CASE imports' = [imports EXCEPT !["start"] = ToLoad(rest)] /\ UNCHANGED <<listVars, disturbed>>
  <2>1. ToLoad(rest) # Idle => ToLoad(rest).at \notin {"xpub", "save"}
    BY DEF ToLoad
  <2>2. ~Imports("start")
    BY DEF LoadNext, Imports
  <2>3. SameImports
    BY <1>2, <1>6, <2>1, <2>2, QuietStart
  <2>4. SameAdditions /\ Rested
    BY <1>2, <1>6, NoneChanges DEF Shape, Rested, SameAdditions, listVars
  <2>5. QED
    BY <1>6, <2>3, <2>4, QuietKeepsOrder DEF listVars
<1>7. QED
  BY <1>1, <1>5, <1>6, Zenon

LEMMA ParsedSecretKeepsOrder ==
  ASSUME Shape, InOrder, ~disturbed', ParsedSecret PROVE InOrder'
<1> DEFINE o == NewVault(imports["login"].key, imports["login"].kind, <<0>>)
           t == imports["login"]
<1>1. o \in Object /\ Enter(o)
  BY ParsedEnters
<1>2. o.wallets = <<0>>
  BY DEF NewVault
<1>3. PICK id \in Nat : id = Len(objects')
  BY <1>1, EnteredEvolves DEF Shape, ObjectsShape
<1> DEFINE u == [t EXCEPT !.at = "xpub", !.id = id, !.n = 0]
<1>4. t \in LoginTask /\ imports' = [imports EXCEPT !["login"] = u] /\ "login" \in Importers
  BY <1>3 DEF ParsedSecret, Shape, ImportsShape, Importers
<1>5. u # Idle /\ u.at = "xpub" /\ u.id = id /\ u.n = 0
  <2>1. t \in LoginTask
    BY <1>4
  <2> HIDE DEF t
  <2>2. u \in LoginTask /\ u.at = "xpub" /\ u.id = id /\ u.n = 0
    BY <2>1 DEF LoginTask
  <2>3. QED
    BY <2>2, VaultsAssumption
<1> HIDE DEF u, o
<1>6. imports'["login"] = u /\ \A w \in Importers : w # "login" => imports'[w] = imports[w]
  BY <1>4 DEF Shape, ImportsShape
<1>7. UNCHANGED adding
  BY DEF ParsedSecret
<1>8. QED
  BY <1>1, <1>2, <1>3, <1>4, <1>5, <1>6, <1>7, EnteringKeepsOrder

LEMMA NextAgree ==
  ASSUME Shape, InOrder, VaultsNext, ~Reload, ~disturbed' PROVE InOrder'
<1>1. ASSUME UNCHANGED imports PROVE SameImports
  BY <1>1 DEF SameImports, Imports
<1>2. ASSUME UNCHANGED adding PROVE SameAdditions
  BY <1>2 DEF SameAdditions
<1>3. ASSUME UNCHANGED objects \/ Rests PROVE Rested
  BY <1>3, NoneChanges DEF Rests, Rested, Shape
<1>4. ASSUME UNCHANGED <<listVars, imports, adding>> PROVE InOrder'
  BY <1>1, <1>2, <1>3, <1>4, QuietKeepsOrder DEF listVars
<1>5. ASSUME NEW s \in ImportedSecrets, Import(s[1], s[2]) PROVE InOrder'
  <2> DEFINE task == [at |-> "parse", key |-> s[1], kind |-> s[2], id |-> 0, n |-> 0]
  <2>1. /\ "login" \in Importers /\ ~Imports("login")
        /\ imports' = [imports EXCEPT !["login"] = task] /\ task.at \notin {"xpub", "save"}
    BY <1>5 DEF Import, Imports, Importers
  <2> HIDE DEF task
  <2>2. SameImports
    BY <2>1, QuietStart
  <2>3. UNCHANGED <<listVars, adding>>
    BY <1>5 DEF Import
  <2>4. QED
    BY <1>2, <1>3, <2>2, <2>3, QuietKeepsOrder DEF listVars
<1>6. CASE ParseFails
  <2>1. "login" \in Importers /\ ~Imports("login") /\ imports' = [imports EXCEPT !["login"] = Idle]
    BY <1>6 DEF ParseFails, Imports, Importers
  <2>2. SameImports
    BY <2>1, QuietStart
  <2>3. UNCHANGED <<listVars, adding>>
    BY <1>6 DEF ParseFails
  <2>4. QED
    BY <1>2, <1>3, <2>2, <2>3, QuietKeepsOrder DEF listVars
<1>7. ASSUME NEW who \in Importers, imports[who] # Idle, ImportXpub(who) PROVE InOrder'
  <2>1. SameImports /\ Rests
    BY <1>7, QuietImports, ImportXpubRests
  <2>2. UNCHANGED <<vaults, rawVaults, activeVault, activeWallet, wallet, adding>>
    BY <1>7 DEF ImportXpub
  <2>3. QED
    BY <1>2, <1>3, <2>1, <2>2, QuietKeepsOrder
<1>8. CASE \/ OpenEncrypt \/ onEncryptModalClose \/ ReopenUnsaved \/ Checked \/ AddVault
           \/ CancelUnlock \/ logOut
  BY <1>4, <1>8 DEF OpenEncrypt, onEncryptModalClose, ReopenUnsaved, Checked, AddVault,
                    CancelUnlock, logOut
<1>9. ASSUME NEW p \in Passwords, NEW q \in Passwords, encryptWallet(p, q) PROVE InOrder'
  BY <1>4, <1>9 DEF encryptWallet
<1>10. ASSUME NEW p \in Passwords, Unlock(p) PROVE InOrder'
  BY <1>4, <1>10 DEF Unlock
<1>11. CASE SaveAccounts \/ LockWallet
  <2>1. UNCHANGED <<vaults, rawVaults, activeVault, activeWallet, wallet, imports, adding>>
    BY <1>11 DEF SaveAccounts, LockWallet
  <2>2. QED
    BY <1>1, <1>2, <1>3, <1>11, <2>1, SaveAccountsRests, LockWalletRests, QuietKeepsOrder
<1>12. CASE Unlocked
  <2>1. UNCHANGED <<vaults, rawVaults, activeVault, activeWallet, wallet, imports, adding>>
    BY <1>12 DEF Unlocked
  <2>2. Rested
    BY <1>12, UnlockedEvolves DEF Rested
  <2>3. QED
    BY <1>1, <1>2, <2>1, <2>2, QuietKeepsOrder
<1>13. CASE GoesOn
  <2>1. restoring.id \in Ids /\ AddAccount(restoring.id) /\ Idle \in Range(adding)
    BY <1>13 DEF GoesOn, Shape, RestoringShape
  <2>2. UNCHANGED <<vaults, rawVaults, activeVault, activeWallet, wallet, imports>>
    BY <1>13 DEF GoesOn
  <2>3. QED
    BY <2>1, <2>2, AddAccountKeepsOrder
<1>14. ASSUME NEW id \in DOMAIN objects, AddWallet(id) PROVE InOrder'
  <2>1. id \in Ids /\ Idle \in Range(adding)
    BY <1>14 DEF AddWallet, Ids, Shape, ObjectsShape
  <2>2. UNCHANGED <<vaults, rawVaults, activeVault, activeWallet, wallet, imports>>
    BY <1>14 DEF AddWallet
  <2>3. UNCHANGED <<objects, adding>> \/ AddAccount(id)
    BY <1>14 DEF AddWallet
  <2>4. QED
    BY <1>4, <2>1, <2>2, <2>3, AddAccountKeepsOrder DEF listVars
<1>15. ASSUME NEW s \in Slots, Listed(s) \/ Added(s) PROVE InOrder'
  <2>1. UNCHANGED <<listVars, imports>>
    BY <1>15 DEF Listed, Added
  <2>2. QED
    BY <1>1, <1>3, <1>15, <2>1, QuietAdditions, QuietKeepsOrder DEF listVars
<1>16. ASSUME NEW id \in DOMAIN objects, NEW p \in 1 .. MaxAccounts + 1, selectWallet(id, p)
       PROVE  InOrder'
  <2>1. id \in Ids
    BY DEF Ids, Shape, ObjectsShape
  <2>2. p \in Nat
    <3>1. objects[id].wallets \in Seq(Nat)
      BY <2>1, ObjectsAre DEF Shape, Object
    <3>2. QED
      BY <1>16, <3>1 DEF selectWallet
  <2>3. QED
    BY <1>16, <2>1, <2>2, selectWalletKeepsOrder
<1>17. QED
  BY <1>5, <1>6, <1>7, <1>8, <1>9, <1>10, <1>11, <1>12, <1>13, <1>14, <1>15, <1>16,
     DisturbedStays, ParsedSecretKeepsOrder, LoadNextKeepsOrder, ImportSaveKeepsOrder,
     MadeKeepsOrder, Zenon DEF VaultsNext

LEMMA EmptyPageInOrder ==
  ASSUME objects = <<>>, vaults = <<>>, rawVaults = <<>>, activeVault = 0,
         adding = [s \in Slots |-> Idle],
         imports = [who \in Importers |-> IF who = "start" THEN ToLoad(getVaults) ELSE Idle]
  PROVE  InOrder
<1>1. \A who \in Importers : ~Imports(who)
  BY DEF Imports, ToLoad
<1>2. Ids = {}
  BY DEF Ids
<1>3. QED
  BY <1>1, <1>2 DEF InOrder, SameLists, Numbered, ImportsInOrder, AdditionsInOrder, Agreed

LEMMA ReloadIsInOrder == ASSUME Reload PROVE InOrder'
<1>1. \A who \in Importers : ~Imports(who)'
  BY DEF Imports, ToLoad, Reload
<1>2. Ids' = {}
  BY DEF Ids, Reload, Fresh
<1>3. QED
  BY <1>1, <1>2 DEF InOrder, SameLists, Numbered, ImportsInOrder, AdditionsInOrder, Agreed,
                    Reload, Fresh

LEMMA AgreeInvariance == VaultsSpec => [](Shape /\ AgreeInv)
<1>1. VaultsInit => Shape /\ AgreeInv
  BY FirstShape, EmptyPageInOrder DEF VaultsInit, AgreeInv
<1>2. Shape /\ AgreeInv /\ [VaultsNext]_vaultVars => (Shape /\ AgreeInv)'
  <2> SUFFICES ASSUME Shape, AgreeInv, [VaultsNext]_vaultVars PROVE Shape' /\ AgreeInv'
    OBVIOUS
  <2>1. Shape'
    BY NextShape
  <2>2. CASE UNCHANGED vaultVars
    BY <2>1, <2>2 DEF vaultVars, listVars, historyVars, AgreeInv, InOrder, SameLists, Numbered,
                ImportsInOrder, AdditionsInOrder, Agreed, Imports, Ids
  <2>3. CASE Reload
    BY <2>1, <2>3, ReloadIsInOrder DEF AgreeInv
  <2>4. CASE VaultsNext /\ ~Reload /\ ~disturbed'
    BY <2>1, <2>4, DisturbedStays, NextAgree DEF AgreeInv
  <2>5. QED
    BY <2>1, <2>2, <2>3, <2>4 DEF AgreeInv
<1>3. QED
  BY <1>1, <1>2, PTL DEF VaultsSpec

\* The wallet that signs is the one that is shown, and is of the vault that is
\* shown, unless a vault was removed or two things were added at once since the
\* page was loaded: wallet.js and useWallets each keep a list of the vaults, and
\* one tells the other what to activate by index.
THEOREM WalletsAgreeHolds == VaultsSpec => []WalletsAgree
<1>1. AgreeInv => WalletsAgree
  BY DEF AgreeInv, InOrder, Agreed, WalletsAgree
<1>2. QED
  BY <1>1, AgreeInvariance, PTL

\* The three of them together: what MCAlgorithms checks.
THEOREM VaultsAreKeptHolds == VaultsSpec => []VaultsAreKept
<1>1. SavedOpens /\ SavedLoads /\ WalletsAgree => VaultsAreKept
  BY DEF VaultsAreKept
<1>2. QED
  BY <1>1, SavedOpensHolds, SavedLoadsHolds, WalletsAgreeHolds, PTL
===============================================================================
