---------------------------- MODULE Payments_proofs ----------------------------
(***************************************************************************)
(* Theorems about the choice of coins, for every call of any number of     *)
(* coins, amounts and fee rates; about the addresses that are given out,   *)
(* for any gap and any number of payments and reloads; and about what a    *)
(* transaction of the legacy wallet pays, for every list of coins and every*)
(* order.                                                                  *)
(***************************************************************************)
EXTENDS Payments, FiniteSetTheorems, WellFoundedInduction, TLAPS

Outputs(s) ==
  (IF request.kind = "transfer" THEN 1 ELSE 0) + (IF s.change > 0 THEN 1 ELSE 0)

\* The accounts of a selection of n coins.
Fair(s, n) ==
  /\ s.fee \in Int /\ s.change \in Int
  /\ s.total = request.amount + s.change + s.fee
  /\ s.change = 0 \/ s.change >= PQ_DUST_SATS
  /\ request.kind = "registration" => s.change >= PQ_DUST_SATS
  /\ s.fee >= FeeFor(request, n, Outputs(s))
  /\ s.fee < FeeFor(request, n, 2) + PQ_DUST_SATS

PairTotal(m, n) == Value(sorted[m]) + Value(sorted[n])

SinglesTried ==
  at = "single" =>
    /\ best = None /\ i >= 1
    /\ \A m \in 1 .. Count : m < i => ~Pays(1, Value(sorted[m]))

PairChosen ==
  \E m, n \in 1 .. Count :
    /\ m < n /\ best.inputs = {sorted[m], sorted[n]}
    /\ best.total = PairTotal(m, n) /\ Pays(2, best.total) /\ Fair(best, 2)

PairsTried ==
  at = "pair" =>
    /\ Singles = {}
    /\ 1 <= i /\ i < j /\ (j = i + 1 \/ j <= Count)
    /\ best = None \/ PairChosen
    /\ \A m, n \in 1 .. Count :
         m < n /\ (m < i \/ (m = i /\ n < j)) /\ Pays(2, PairTotal(m, n)) =>
           best # None /\ best.total <= PairTotal(m, n)

Start == at = "check" => best = None /\ i = 1 /\ j = 2

IInv ==
  TypeOK /\ Start /\ SinglesTried /\ PairsTried /\ Balanced /\ NoWaste
    /\ LeastThatPays

-----------------------------------------------------------------------------
\* Fees are whole, nonnegative amounts.
LEMMA FeeType ==
  ASSUME NEW q \in RequestType, NEW n \in {1, 2}, NEW m \in {1, 2}
  PROVE  FeeFor(q, n, m) \in Nat
<1> DEFINE size == IF q.kind = "transfer" THEN EstimateTransferSize(n, m)
                   ELSE EstimateMasternodeRegistrationSize(n, m)
<1>1. size \in Nat
  BY DEF EstimateTransferSize, EstimateMasternodeRegistrationSize,
         SizeWithPayload, CompactSizeLength, PAYLOAD_HEADER_SIZE,
         AUTHORIZATION_SIZE, SERIALIZED_INPUT_SIZE, SERIALIZED_OUTPUT_SIZE,
         REGISTRATION_DATA_SIZE
<1>2. q.rate \in Nat
  BY DEF RequestType
<1> HIDE DEF size
<1>3. size * q.rate \in Nat
  BY <1>1, <1>2
<1>4. \A x \in Nat : (x + SATS_PER_KB - 1) \div SATS_PER_KB \in Nat
  BY DEF SATS_PER_KB
<1>5. FeeFor(q, n, m) = (size * q.rate + SATS_PER_KB - 1) \div SATS_PER_KB
  BY DEF FeeFor, size
<1>6. QED
  BY <1>3, <1>4, <1>5

\* A second output costs something.
LEMMA FeeGrows ==
  ASSUME NEW q \in RequestType, NEW n \in {1, 2}
  PROVE  FeeFor(q, n, 1) <= FeeFor(q, n, 2)
<1> DEFINE size(m) == IF q.kind = "transfer" THEN EstimateTransferSize(n, m)
                      ELSE EstimateMasternodeRegistrationSize(n, m)
<1>1. size(1) \in Nat /\ size(2) = size(1) + SERIALIZED_OUTPUT_SIZE
  BY DEF EstimateTransferSize, EstimateMasternodeRegistrationSize,
         SizeWithPayload, CompactSizeLength, PAYLOAD_HEADER_SIZE,
         AUTHORIZATION_SIZE, SERIALIZED_INPUT_SIZE, SERIALIZED_OUTPUT_SIZE,
         REGISTRATION_DATA_SIZE
<1>2. q.rate \in Nat
  BY DEF RequestType
<1>3. \A m \in {1, 2} :
        FeeFor(q, n, m) = (size(m) * q.rate + SATS_PER_KB - 1) \div SATS_PER_KB
  BY DEF FeeFor
<1> HIDE DEF size
<1>4. size(1) * q.rate \in Nat /\ size(2) * q.rate \in Nat
  BY <1>1, <1>2 DEF SERIALIZED_OUTPUT_SIZE
<1>5. size(1) * q.rate <= size(2) * q.rate
  BY <1>1, <1>2 DEF SERIALIZED_OUTPUT_SIZE
<1>6. \A x, y \in Nat :
        x <= y => (x + SATS_PER_KB - 1) \div SATS_PER_KB
                    <= (y + SATS_PER_KB - 1) \div SATS_PER_KB
  BY DEF SATS_PER_KB
<1>7. QED
  BY <1>3, <1>4, <1>5, <1>6

\* Attempt() finds a selection exactly if the coins pay, and it is a fair one.
LEMMA AttemptPays ==
  ASSUME request \in Requests, NEW inputs, inputs # {},
         NEW n \in {1, 2}, NEW total \in Nat
  PROVE  LET s == Attempt(inputs, n, total)
         IN IF Pays(n, total)
            THEN s # None /\ s.inputs = inputs /\ s.total = total /\ Fair(s, n)
            ELSE s = None
<1>1. /\ request \in RequestType /\ request.amount \in Nat
      /\ request.kind \in {"transfer", "registration"}
      /\ request.kind = "registration" => request.amount = 0
  BY RequestsAssumption DEF RequestType
<1>2. /\ FeeFor(request, n, 1) \in Nat /\ FeeFor(request, n, 2) \in Nat
      /\ FeeFor(request, n, 1) <= FeeFor(request, n, 2)
  BY <1>1, FeeType, FeeGrows
<1>3. \A s : s.inputs = inputs => s # None
  BY DEF None
<1>4. CASE request.kind = "transfer"
  BY <1>1, <1>2, <1>3, <1>4
  DEF Attempt, BuildSelection, OneOutputChange, Pays, Fair, Outputs, PQ_DUST_SATS
<1>5. CASE request.kind = "registration"
  BY <1>1, <1>2, <1>3, <1>5
  DEF Attempt, AttemptRegistration, Pays, Fair, Outputs, PQ_DUST_SATS
<1>6. QED
  BY <1>1, <1>4, <1>5

\* sorted lists every candidate once, the least one first.
LEMMA SortedCovers ==
  ASSUME request \in Requests, sorted \in Sortings(request)
  PROVE  /\ Count \in Nat
         /\ \A m \in 1 .. Count :
              sorted[m] \in Candidates(request) /\ Value(sorted[m]) \in Nat
         /\ \A c \in Candidates(request) :
              Value(c) \in Nat /\ \E m \in 1 .. Count : sorted[m] = c
         /\ \A m, n \in 1 .. Count :
              m < n => /\ sorted[m] # sorted[n]
                       /\ Value(sorted[m]) <= Value(sorted[n])
<1> DEFINE C == Candidates(request)
<1>1. request.utxos \in Seq(Nat)
  BY RequestsAssumption DEF RequestType
<1>2. \A c \in C : c \in Nat /\ Value(c) \in Nat
  BY <1>1 DEF Candidates, Value
<1>3. IsFiniteSet(C) /\ Count \in Nat /\ Cardinality(1 .. Count) = Count
  <2>1. Len(request.utxos) \in Nat
    BY <1>1
  <2>2. IsFiniteSet(C)
    <3>1. C \subseteq 1 .. Len(request.utxos)
      BY DEF Candidates
    <3>2. IsFiniteSet(1 .. Len(request.utxos))
      BY <2>1, FS_Interval
    <3>3. QED
      BY <3>1, <3>2, FS_Subset
  <2>3. Count \in Nat
    BY <2>2, FS_CardinalityType DEF Count
  <2>4. QED
    BY <2>2, <2>3, FS_Interval
<1>4. /\ sorted \in [1 .. Count -> C]
      /\ \A m, n \in 1 .. Count : m < n => InOrder(request, sorted[m], sorted[n])
  BY DEF Sortings, Count
<1>5. \A m, n \in 1 .. Count :
        m < n => sorted[m] # sorted[n] /\ Value(sorted[m]) <= Value(sorted[n])
  BY <1>2, <1>3, <1>4 DEF InOrder, Value
<1>6. sorted \in Injection(1 .. Count, C)
  <2>1. \A m, n \in 1 .. Count : sorted[m] = sorted[n] => m = n
    BY <1>3, <1>5
  <2>2. QED
    BY <1>4, <2>1 DEF Injection, IsInjective
<1>7. sorted \in Surjection(1 .. Count, C)
  BY <1>3, <1>6, FS_Injection DEF Count
<1>8. \A c \in C : \E m \in 1 .. Count : sorted[m] = c
  BY <1>7 DEF Surjection
<1>9. QED
  BY <1>2, <1>3, <1>4, <1>5, <1>8

-----------------------------------------------------------------------------
LEMMA InitIInv == Init => IInv
<1> SUFFICES ASSUME Init PROVE IInv
  OBVIOUS
<1>1. TypeOK
  BY DEF Init, TypeOK
<1>2. Start /\ SinglesTried /\ PairsTried /\ Balanced /\ NoWaste /\ LeastThatPays
  BY DEF Init, Start, SinglesTried, PairsTried, Balanced, NoWaste, LeastThatPays
<1>3. QED
  BY <1>1, <1>2 DEF IInv

LEMMA CheckKeepsIInv == IInv /\ Check => IInv'
<1> SUFFICES ASSUME IInv, Check PROVE IInv'
  OBVIOUS
<1> USE DEF IInv
<1>1. /\ UNCHANGED <<request, sorted, i, j, best>>
      /\ at' \in {"error", "single", "insufficient"}
      /\ at' = "insufficient" => request.utxos = <<>>
      /\ best = None /\ i = 1
  BY DEF Check, Start
<1>2. TypeOK'
  BY <1>1 DEF TypeOK, Sortings, Candidates, InOrder, SelectionType, Value
<1>3. Start' /\ PairsTried' /\ Balanced' /\ NoWaste'
  BY <1>1 DEF Start, PairsTried, Balanced, NoWaste
<1>4. SinglesTried'
  BY <1>1, SortedCovers DEF SinglesTried, TypeOK, Count
<1>5. request'.utxos = <<>> => Candidates(request') = {}
  BY DEF Candidates
<1>6. LeastThatPays'
  BY <1>1, <1>5 DEF LeastThatPays, Singles, Pairs
<1>7. QED
  BY <1>2, <1>3, <1>4, <1>6

LEMMA TrySingleKeepsIInv == IInv /\ TrySingle => IInv'
<1> SUFFICES ASSUME IInv, TrySingle PROVE IInv'
  OBVIOUS
<1> DEFINE c == sorted[i]
           selection == Attempt({c}, 1, Value(c))
<1>1. /\ request \in Requests /\ sorted \in Sortings(request)
      /\ i \in 1 .. Count /\ at = "single" /\ best = None /\ j \in Nat
      /\ \A m \in 1 .. Count : m < i => ~Pays(1, Value(sorted[m]))
      /\ UNCHANGED <<request, sorted, j>>
  BY SortedCovers DEF IInv, TypeOK, SinglesTried, TrySingle
<1>2. /\ c \in Candidates(request) /\ Value(c) \in Nat /\ Count \in Nat
      /\ i \in Nat /\ i + 1 \in Nat
  BY <1>1, SortedCovers
<1>3. IF Pays(1, Value(c))
      THEN /\ selection # None /\ selection.inputs = {c}
           /\ selection.total = Value(c) /\ Fair(selection, 1)
      ELSE selection = None
  BY <1>1, <1>2, AttemptPays
<1>4. CASE at' = "error" /\ UNCHANGED <<i, best>>
  BY <1>1, <1>2, <1>4
  DEF IInv, TypeOK, Start, SinglesTried, PairsTried, Balanced, NoWaste, LeastThatPays
<1>5. CASE selection = None /\ i' = i + 1 /\ UNCHANGED <<at, best>>
  <2>1. \A m \in 1 .. Count : m < i + 1 => ~Pays(1, Value(sorted[m]))
    BY <1>1, <1>2, <1>3, <1>5
  <2>2. SinglesTried'
    BY <1>1, <1>2, <1>5, <2>1 DEF SinglesTried, Count, Pays, Value
  <2>3. TypeOK' /\ Start' /\ PairsTried' /\ Balanced' /\ NoWaste' /\ LeastThatPays'
    BY <1>1, <1>2, <1>5 DEF TypeOK, Start, PairsTried, Balanced, NoWaste, LeastThatPays
  <2>4. QED
    BY <2>2, <2>3 DEF IInv
<1>6. CASE selection # None /\ at' = "done" /\ best' = selection /\ UNCHANGED i
  <2> HIDE DEF c, selection
  <2>1. /\ best'.inputs = {c} /\ best'.total = Value(c) /\ Fair(best', 1)
        /\ Pays(1, Value(c))
    BY <1>3, <1>6
  <2>2. /\ best'.fee \in Int /\ best'.change \in Int
        /\ best'.inputs = {c, c}
    BY <2>1 DEF Fair
  <2>3. TypeOK'
    BY <1>1, <1>2, <1>6, <2>1, <2>2 DEF TypeOK, SelectionType, Value
  <2>4. Start' /\ SinglesTried' /\ PairsTried'
    BY <1>6 DEF Start, SinglesTried, PairsTried
  <2>5. Cardinality(best'.inputs) = 1
    BY <2>1, FS_Singleton
  <2>6. Balanced' /\ NoWaste'
    BY <1>1, <2>1, <2>5, RequestsAssumption
    DEF Balanced, NoWaste, Fair, Outputs, NInputs, NOutputs, PQ_DUST_SATS, RequestType
  <2>7. LeastThatPays'
    <3>1. c \in Singles
      BY <1>2, <2>1 DEF Singles
    <3>2. \A d \in Singles : Value(c) <= Value(d)
      <4> SUFFICES ASSUME NEW d \in Singles PROVE Value(c) <= Value(d)
        OBVIOUS
      <4>1. PICK m \in 1 .. Count : sorted[m] = d
        BY <1>1, SortedCovers DEF Singles
      <4>2. m = i \/ i < m
        BY <1>1, <1>2, <4>1 DEF Singles
      <4>3. QED
        BY <1>1, <1>2, <4>1, <4>2, SortedCovers DEF c
    <3>3. UNCHANGED <<Singles, Pairs>> /\ \A d : Value(d)' = Value(d)
      BY <1>1 DEF Singles, Pairs, Value, Pays, Candidates
    <3>4. QED
      BY <1>6, <2>1, <2>5, <3>1, <3>2, <3>3 DEF LeastThatPays
  <2>8. QED
    BY <2>3, <2>4, <2>6, <2>7 DEF IInv
<1>7. QED
  BY <1>4, <1>5, <1>6 DEF TrySingle

LEMMA EndSinglesKeepsIInv == IInv /\ EndSingles => IInv'
<1> SUFFICES ASSUME IInv, EndSingles PROVE IInv'
  OBVIOUS
<1>1. /\ request \in Requests /\ sorted \in Sortings(request)
      /\ i \in Nat /\ i > Count /\ at = "single" /\ best = None
      /\ \A m \in 1 .. Count : m < i => ~Pays(1, Value(sorted[m]))
      /\ UNCHANGED <<request, sorted, best>>
      /\ at' = "pair" /\ i' = 1 /\ j' = 2
  BY DEF IInv, TypeOK, SinglesTried, EndSingles
<1>2. Singles = {}
  BY <1>1, SortedCovers DEF Singles
<1>3. Singles' = {} /\ Count' = Count
  BY <1>1, <1>2 DEF Singles, Value, Pays, Candidates, Count
<1>4. TypeOK' /\ Start' /\ SinglesTried' /\ Balanced' /\ NoWaste' /\ LeastThatPays'
  BY <1>1 DEF IInv, TypeOK, Start, SinglesTried, Balanced, NoWaste, LeastThatPays
<1>5. PairsTried'
  BY <1>1, <1>3, SortedCovers DEF PairsTried
<1>6. QED
  BY <1>4, <1>5 DEF IInv

\* A pair that was chosen is fair and a pair of two candidates.
LEMMA ChosenIsPair ==
  ASSUME request \in Requests, sorted \in Sortings(request), PairChosen
  PROVE  /\ SelectionType(best) /\ Cardinality(best.inputs) = 2
         /\ Fair(best, 2) /\ best # None
         /\ \E p \in Pairs : best.inputs = {p[1], p[2]}
<1>1. PICK m, n \in 1 .. Count :
        /\ m < n /\ best.inputs = {sorted[m], sorted[n]}
        /\ best.total = PairTotal(m, n) /\ Pays(2, best.total) /\ Fair(best, 2)
  BY DEF PairChosen
<1>2. /\ sorted[m] \in Candidates(request) /\ sorted[n] \in Candidates(request)
      /\ sorted[m] # sorted[n]
  BY <1>1, SortedCovers
<1>3. SelectionType(best)
  BY <1>1, <1>2 DEF SelectionType, Fair, PairTotal
<1>4. Cardinality(best.inputs) = 2
  <2>1. best.inputs = {sorted[m]} \cup {sorted[n]}
    BY <1>1
  <2>2. Cardinality({sorted[m]}) = 1 /\ IsFiniteSet({sorted[m]})
    BY FS_Singleton
  <2>3. sorted[n] \notin {sorted[m]}
    BY <1>2
  <2>4. Cardinality({sorted[m]} \cup {sorted[n]}) = Cardinality({sorted[m]}) + 1
    BY <2>2, <2>3, FS_AddElement, Zenon
  <2>5. QED
    BY <2>1, <2>2, <2>4
<1>5. <<sorted[m], sorted[n]>> \in Pairs
  BY <1>1, <1>2 DEF Pairs, PairTotal
<1>6. best # None
  BY <1>1 DEF None
<1>7. QED
  BY <1>1, <1>3, <1>4, <1>5, <1>6

LEMMA TryPairKeepsIInv == IInv /\ TryPair => IInv'
<1> SUFFICES ASSUME IInv, TryPair PROVE IInv'
  OBVIOUS
<1> DEFINE total == PairTotal(i, j)
           selection == Attempt({sorted[i], sorted[j]}, 2, total)
<1>1. /\ request \in Requests /\ sorted \in Sortings(request) /\ at = "pair"
      /\ Singles = {} /\ i \in Nat /\ j \in Nat /\ Count \in Nat
      /\ 1 <= i /\ i < j /\ j <= Count
      /\ best = None \/ PairChosen
      /\ \A m, n \in 1 .. Count :
           m < n /\ (m < i \/ (m = i /\ n < j)) /\ Pays(2, PairTotal(m, n)) =>
             best # None /\ best.total <= PairTotal(m, n)
      /\ UNCHANGED <<request, sorted>>
  BY SortedCovers DEF IInv, TypeOK, PairsTried, TryPair
<1>2. \A m, n \in 1 .. Count : PairTotal(m, n) \in Nat
  BY <1>1, SortedCovers DEF PairTotal
<1>3. IF Pays(2, total)
      THEN /\ selection # None /\ selection.inputs = {sorted[i], sorted[j]}
           /\ selection.total = total /\ Fair(selection, 2)
      ELSE selection = None
  <2>1. total \in Nat
    BY <1>1, <1>2
  <2>2. QED
    BY <1>1, <2>1, AttemptPays
<1>4. CASE at' = "error" /\ UNCHANGED <<i, j, best>>
  BY <1>1, <1>4
  DEF IInv, TypeOK, SelectionType, Value, Start, SinglesTried, PairsTried,
      Balanced, NoWaste, LeastThatPays
<1>5. CASE /\ best' = IF Improves(total) /\ selection # None
                      THEN selection ELSE best
           /\ NextPair /\ UNCHANGED at
  <2>1. best' = None \/ PairChosen'
    <3>1. CASE best' = best
      BY <1>1, <3>1
      DEF PairChosen, PairTotal, Value, Count, Pays, Fair, Outputs
    <3>2. CASE selection # None /\ best' = selection
      <4>1. /\ best'.inputs = {sorted[i], sorted[j]} /\ best'.total = PairTotal(i, j)
            /\ Pays(2, best'.total) /\ Fair(best', 2)
        BY <1>3, <3>2
      <4>2. \A m, n \in 1 .. Count : PairTotal(m, n)' = PairTotal(m, n)
        BY <1>1 DEF PairTotal, Value
      <4>3. Count' = Count /\ Pays(2, best.total)' /\ Fair(best, 2)'
        BY <1>1, <4>1 DEF Count, Pays, Fair, Outputs
      <4>4. QED
        BY <1>1, <4>1, <4>2, <4>3 DEF PairChosen
    <3>3. QED
      BY <1>5, <3>1, <3>2
  <2>2. \A m, n \in 1 .. Count :
          m < n /\ (m < i \/ (m = i /\ n <= j)) /\ Pays(2, PairTotal(m, n)) =>
            best' # None /\ best'.total <= PairTotal(m, n)
    <3> SUFFICES ASSUME NEW m \in 1 .. Count, NEW n \in 1 .. Count, m < n,
                        m < i \/ (m = i /\ n <= j), Pays(2, PairTotal(m, n))
                 PROVE  best' # None /\ best'.total <= PairTotal(m, n)
      OBVIOUS
    <3>1. best # None => best.total \in Nat
      BY <1>1, <1>2 DEF PairChosen
    <3>2. CASE m = i /\ n = j
      BY <1>1, <1>2, <1>3, <1>5, <3>1, <3>2 DEF Improves
    <3>3. CASE ~(m = i /\ n = j)
      <4>1. best # None /\ best.total <= PairTotal(m, n)
        BY <1>1, <3>3
      <4>2. best'.total <= best.total /\ best' # None
        BY <1>1, <1>2, <1>3, <1>5, <3>1, <4>1 DEF Improves
      <4>3. best'.total \in Nat
        BY <1>1, <1>2, <1>3, <1>5, <3>1, <4>1
      <4>4. QED
        BY <1>2, <3>1, <4>1, <4>2, <4>3
    <3>4. QED
      BY <3>2, <3>3
  <2>3. /\ i' \in Nat /\ j' \in Nat /\ 1 <= i' /\ i' < j'
        /\ j' = i' + 1 \/ j' <= Count
        /\ \A m, n \in 1 .. Count :
             m < n /\ (m < i' \/ (m = i' /\ n < j'))
               => m < i \/ (m = i /\ n <= j)
    BY <1>1, <1>5 DEF NextPair
  <2>4. /\ Singles' = {} /\ Count' = Count
        /\ \A m, n \in 1 .. Count : PairTotal(m, n)' = PairTotal(m, n)
        /\ \A m, n \in 1 .. Count :
             Pays(2, PairTotal(m, n))' <=> Pays(2, PairTotal(m, n))
    BY <1>1 DEF Singles, Count, PairTotal, Value, Pays, Candidates
  <2>5. PairsTried'
    <3>1. \A m, n \in 1 .. Count' :
            m < n /\ (m < i' \/ (m = i' /\ n < j')) /\ Pays(2, PairTotal(m, n))' =>
              best' # None /\ best'.total <= PairTotal(m, n)'
      BY <2>2, <2>3, <2>4
    <3>2. 1 <= i' /\ i' < j' /\ (j' = i' + 1 \/ j' <= Count')
      BY <2>3, <2>4
    <3>3. QED
      BY <2>1, <2>4, <3>1, <3>2 DEF PairsTried
  <2>6. best' = None \/ SelectionType(best)'
    <3>1. CASE best' = best
      BY <1>1, <3>1 DEF IInv, TypeOK, SelectionType, Value
    <3>2. CASE selection # None /\ best' = selection
      <4>1. /\ best'.inputs = {sorted[i], sorted[j]} /\ best'.total = total
            /\ best'.fee \in Int /\ best'.change \in Int
        BY <1>3, <3>2 DEF Fair
      <4>2. i \in 1 .. Count /\ j \in 1 .. Count
        BY <1>1
      <4>3. /\ sorted[i] \in Candidates(request) /\ sorted[j] \in Candidates(request)
            /\ sorted[i] # sorted[j]
        BY <1>1, <4>2, SortedCovers
      <4>4. best'.total = Value(sorted[i]) + Value(sorted[j])
        BY <4>1 DEF PairTotal
      <4>5. QED
        BY <1>1, <4>1, <4>3, <4>4 DEF SelectionType, Value
    <3>3. QED
      BY <1>5, <3>1, <3>2
  <2>7. TypeOK'
    BY <1>1, <1>5, <2>3, <2>6 DEF TypeOK
  <2>8. Start' /\ SinglesTried' /\ Balanced' /\ NoWaste' /\ LeastThatPays'
    BY <1>1, <1>5 DEF Start, SinglesTried, Balanced, NoWaste, LeastThatPays
  <2>9. QED
    BY <2>5, <2>7, <2>8 DEF IInv
<1>6. QED
  BY <1>4, <1>5 DEF TryPair, PairTotal

LEMMA EndPairsKeepsIInv == IInv /\ EndPairs => IInv'
<1> SUFFICES ASSUME IInv, EndPairs PROVE IInv'
  OBVIOUS
<1>1. /\ request \in Requests /\ sorted \in Sortings(request) /\ at = "pair"
      /\ Singles = {} /\ i \in Nat /\ j \in Nat /\ Count \in Nat
      /\ 1 <= i /\ j = i + 1 /\ j > Count
      /\ best = None \/ PairChosen
      /\ \A m, n \in 1 .. Count :
           m < n /\ (m < i \/ (m = i /\ n < j)) /\ Pays(2, PairTotal(m, n)) =>
             best # None /\ best.total <= PairTotal(m, n)
      /\ UNCHANGED <<request, sorted, i, j, best>>
      /\ at' = IF best # None THEN "done" ELSE IF MoreWouldPay THEN "many"
               ELSE "insufficient"
  BY SortedCovers DEF IInv, TypeOK, PairsTried, EndPairs
<1>2. \A m, n \in 1 .. Count :
        m < n /\ Pays(2, PairTotal(m, n)) =>
          best # None /\ best.total <= PairTotal(m, n)
  BY <1>1
<1>3. \A p \in Pairs : best # None /\ best.total <= Value(p[1]) + Value(p[2])
  <2> SUFFICES ASSUME NEW p \in Pairs
               PROVE  best # None /\ best.total <= Value(p[1]) + Value(p[2])
    OBVIOUS
  <2>1. /\ p[1] \in Candidates(request) /\ p[2] \in Candidates(request)
        /\ p[1] # p[2] /\ Pays(2, Value(p[1]) + Value(p[2]))
    BY DEF Pairs
  <2>2. PICK m, n \in 1 .. Count : sorted[m] = p[1] /\ sorted[n] = p[2]
    BY <1>1, <2>1, SortedCovers
  <2>3. m < n \/ n < m
    BY <2>1, <2>2
  <2>4. /\ Value(p[1]) + Value(p[2]) = PairTotal(m, n)
        /\ Value(p[1]) + Value(p[2]) = PairTotal(n, m)
    BY <1>1, <2>1, <2>2, SortedCovers DEF PairTotal
  <2>5. QED
    BY <1>2, <2>1, <2>3, <2>4
<1>4. /\ UNCHANGED <<Singles, Pairs>> /\ \A d : Value(d)' = Value(d)
      /\ at' \in {"done", "many", "insufficient"}
  BY <1>1 DEF Singles, Pairs, Value, Pays, Candidates
<1>5. TypeOK'
  BY <1>1, <1>4 DEF IInv, TypeOK, SelectionType, Value
<1>6. Start' /\ SinglesTried' /\ PairsTried'
  BY <1>4 DEF Start, SinglesTried, PairsTried
<1>7. best # None => /\ Cardinality(best.inputs) = 2 /\ Fair(best, 2)
                     /\ \E p \in Pairs : best.inputs = {p[1], p[2]}
  BY <1>1, ChosenIsPair
<1>8. at' = "done" <=> best # None
  BY <1>1
<1>9. Balanced' /\ NoWaste'
  <2>1. request.kind \in {"transfer", "registration"}
    BY <1>1, RequestsAssumption DEF RequestType
  <2>2. QED
    BY <1>1, <1>7, <1>8, <2>1
    DEF Balanced, NoWaste, Fair, Outputs, NInputs, NOutputs, PQ_DUST_SATS
<1>10. LeastThatPays'
  BY <1>1, <1>3, <1>4, <1>7, <1>8 DEF LeastThatPays
<1>11. QED
  BY <1>5, <1>6, <1>9, <1>10 DEF IInv

LEMMA NextIInv == IInv /\ [Next]_vars => IInv'
<1> SUFFICES ASSUME IInv, [Next]_vars PROVE IInv'
  OBVIOUS
<1>1. CASE UNCHANGED vars
  BY <1>1
  DEF vars, IInv, TypeOK, Start, SinglesTried, PairsTried, Balanced, NoWaste, LeastThatPays,
      PairChosen, PairTotal, Singles, Pairs, Pays, Value, Count, Fair, Outputs,
      SelectionType, NInputs, NOutputs
<1>2. QED
  BY <1>1, CheckKeepsIInv, TrySingleKeepsIInv, EndSinglesKeepsIInv,
     TryPairKeepsIInv, EndPairsKeepsIInv DEF Next

LEMMA Invariance == Spec => []IInv
BY InitIInv, NextIInv, PTL DEF Spec

\* Positions and selections keep their types, and a pair is two coins.
THEOREM TypeCorrect == Spec => []TypeOK
<1>1. IInv => TypeOK
  BY DEF IInv
<1>2. QED
  BY <1>1, Invariance, PTL

\* What is selected adds up, pays a sufficient fee and has no dust, whatever the
\* coins, the amount and the fee rate.
THEOREM BalancedHolds == Spec => []Balanced
<1>1. IInv => Balanced
  BY DEF IInv
<1>2. QED
  BY <1>1, Invariance, PTL

\* No selection gives away more than the fee with change and one satoshi less
\* than the dust limit.
THEOREM NoWasteHolds == Spec => []NoWaste
<1>1. IInv => NoWaste
  BY DEF IInv
<1>2. QED
  BY <1>1, Invariance, PTL

\* The two loops compute the least coin that pays or else the least pair, and
\* they fail only if there is neither.
THEOREM LeastThatPaysHolds == Spec => []LeastThatPays
<1>1. IInv => LeastThatPays
  BY DEF IInv
<1>2. QED
  BY <1>1, Invariance, PTL

-----------------------------------------------------------------------------
\* Sums over the list of coins

LEMMA Induction ==
  ASSUME NEW S \in SUBSET Nat, 0 \in S, \A n \in S : n + 1 \in S
  PROVE  \A n \in Nat : n \in S
<1> SUFFICES ASSUME Nat \ S # {} PROVE FALSE
  OBVIOUS
<1> DEFINE T == Nat \ S
<1>0. IsWellFoundedOn(OpToRel(<, Nat), Nat)
  BY NatLessThanWellFounded
<1>1. PICK x \in T : \A y \in T : <<y, x>> \notin OpToRel(<, Nat)
  <2> HIDE DEF T
  <2>1. T \subseteq Nat /\ T # {}
    BY DEF T
  <2>2. QED
    BY <1>0, <2>1, WFMin
<1>2. \A y \in T : ~(y < x)
  <2>1. T \subseteq Nat
    OBVIOUS
  <2> HIDE DEF T
  <2>2. QED
    BY <1>1, <2>1 DEF OpToRel
<1>3. x \in Nat /\ x \notin S /\ x # 0
  OBVIOUS
<1>4. x - 1 \in Nat /\ (x - 1) + 1 = x /\ x - 1 < x
  BY <1>3
<1>5. x - 1 \in S
  BY <1>2, <1>4
<1>6. QED
  BY <1>3, <1>4, <1>5

\* f tells what a loop from a start has computed after each of its steps.
Loop(f, l, start, step) == f[0] = start /\ \A n \in 1 .. l : f[n] = step[<< n, f[n - 1] >>]

LEMMA LoopExists ==
  ASSUME NEW l \in Nat, NEW R, NEW start \in R, NEW step \in [(1 .. l) \X R -> R]
  PROVE  \E f \in [0 .. l -> R] : Loop(f, l, start, step)
<1> DEFINE Loops(f, m) == f[0] = start /\ \A n \in 1 .. m : f[n] = step[<< n, f[n - 1] >>]
           S == {m \in Nat : m <= l => \E f \in [0 .. m -> R] : Loops(f, m)}
<1>1. 0 \in S
  <2> DEFINE z == [n \in 0 .. 0 |-> start]
  <2>1. z \in [0 .. 0 -> R] /\ Loops(z, 0)
    OBVIOUS
  <2> HIDE DEF z, Loops
  <2>2. \E f \in [0 .. 0 -> R] : Loops(f, 0)
    BY <2>1
  <2>3. QED
    BY <2>2
<1>2. ASSUME NEW m \in S PROVE m + 1 \in S
  <2> m \in Nat /\ m + 1 \in Nat
    BY <1>2
  <2> SUFFICES ASSUME m + 1 <= l
               PROVE  \E f \in [0 .. m + 1 -> R] : Loops(f, m + 1)
    BY Zenon
  <2>0. m <= l
    OBVIOUS
  <2>1. PICK f \in [0 .. m -> R] : Loops(f, m)
    BY <1>2, <2>0, Zenon
  <2> DEFINE g == [n \in 0 .. m + 1 |-> IF n = m + 1 THEN step[<< m + 1, f[m] >>] ELSE f[n]]
  <2>2. f[m] \in R /\ << m + 1, f[m] >> \in (1 .. l) \X R
    OBVIOUS
  <2>3. g \in [0 .. m + 1 -> R]
    BY <2>2
  <2>4. Loops(g, m + 1)
    <3>1. g[0] = start
      BY <2>1
    <3>2. ASSUME NEW n \in 1 .. m + 1 PROVE g[n] = step[<< n, g[n - 1] >>]
      <4>1. CASE n = m + 1
        BY <4>1
      <4>2. CASE n # m + 1
        <5>1. n \in 1 .. m /\ g[n] = f[n] /\ g[n - 1] = f[n - 1]
          BY <4>2
        <5>2. QED
          BY <2>1, <5>1
      <4>3. QED
        BY <4>1, <4>2
    <3>3. QED
      BY <3>1, <3>2
  <2>5. QED
    BY <2>3, <2>4
<1> HIDE DEF S
<1>3. l \in S
  <2>1. S \in SUBSET Nat
    BY DEF S
  <2>2. QED
    BY <1>1, <1>2, <2>1, Induction
<1>4. QED
  <2>1. l <= l
    OBVIOUS
  <2>2. QED
    BY <1>3, <2>1, Zenon DEF S, Loop

\* The partial sums of weights exist.
LEMMA SumsExist ==
  ASSUME NEW l \in Nat, NEW w \in [1 .. l -> Int]
  PROVE  \E f \in [0 .. l -> Int] : f = [n \in 0 .. l |-> IF n = 0 THEN 0 ELSE f[n - 1] + w[n]]
<1> DEFINE step == [p \in (1 .. l) \X Int |-> p[2] + w[p[1]]]
<1>1. step \in [(1 .. l) \X Int -> Int]
  OBVIOUS
<1>2. \A n \in 1 .. l, v \in Int : step[<< n, v >>] = v + w[n]
  OBVIOUS
<1> HIDE DEF step
<1>3. PICK f \in [0 .. l -> Int] : Loop(f, l, 0, step)
  <2>1. 0 \in Int
    OBVIOUS
  <2>2. QED
    BY <1>1, <2>1, LoopExists
<1>4. \A n \in 1 .. l : f[n] = f[n - 1] + w[n]
  <2> TAKE n \in 1 .. l
  <2>1. f[n - 1] \in Int
    OBVIOUS
  <2>2. QED
    BY <1>2, <1>3, <2>1 DEF Loop
<1>5. f = [n \in 0 .. l |-> IF n = 0 THEN 0 ELSE f[n - 1] + w[n]]
  <2>1. \A n \in 0 .. l : f[n] = IF n = 0 THEN 0 ELSE f[n - 1] + w[n]
    BY <1>3, <1>4 DEF Loop
  <2> DEFINE h == [n \in 0 .. l |-> IF n = 0 THEN 0 ELSE f[n - 1] + w[n]]
  <2>2. DOMAIN f = DOMAIN h /\ \A n \in 0 .. l : f[n] = h[n]
    BY <2>1
  <2>3. f = [n \in 0 .. l |-> f[n]] /\ h = [n \in 0 .. l |-> h[n]]
    OBVIOUS
  <2>4. QED
    BY <2>2, <2>3
<1>6. QED
  BY <1>5

Counted(S, n) == IF n \in S THEN Value(n) ELSE 0

LEMMA TotalIs ==
  ASSUME request \in RequestType, NEW S
  PROVE  \E f \in [0 .. Len(request.utxos) -> Nat] :
           /\ f[0] = 0 /\ Total(S) = f[Len(request.utxos)]
           /\ \A n \in 1 .. Len(request.utxos) : f[n] = f[n - 1] + Counted(S, n)
<1> DEFINE l == Len(request.utxos)
           w == [n \in 1 .. l |-> Counted(S, n)]
           Sums(f) == f = [n \in 0 .. l |-> IF n = 0 THEN 0
                                            ELSE f[n - 1] + IF n \in S THEN Value(n) ELSE 0]
           f == CHOOSE f : Sums(f)
<1>1. l \in Nat /\ request.utxos \in Seq(Nat)
  BY DEF RequestType
<1>2. w \in [1 .. l -> Nat]
  BY <1>1 DEF Counted, Value
<1>3. \A n \in 1 .. l : w[n] = IF n \in S THEN Value(n) ELSE 0
  BY DEF Counted
<1>4. Total(S) = f[l]
  BY DEF Total
<1> HIDE DEF w, l
<1>5. \E g : Sums(g)
  <2>0. w \in [1 .. l -> Int]
    BY <1>2
  <2>1. PICK g \in [0 .. l -> Int] : g = [n \in 0 .. l |-> IF n = 0 THEN 0 ELSE g[n - 1] + w[n]]
    BY <1>1, <2>0, SumsExist
  <2>2. \A n \in 0 .. l : n # 0 => n \in 1 .. l
    BY <1>1
  <2>3. [n \in 0 .. l |-> IF n = 0 THEN 0 ELSE g[n - 1] + w[n]] =
          [n \in 0 .. l |-> IF n = 0 THEN 0 ELSE g[n - 1] + IF n \in S THEN Value(n) ELSE 0]
    BY <1>3, <2>2
  <2>4. QED
    BY <2>1, <2>3
<1>6. Sums(f)
  BY <1>5
<1> HIDE DEF f
<1>7. DOMAIN f = 0 .. l /\ f[0] = 0 /\ \A n \in 1 .. l : f[n] = f[n - 1] + w[n]
  BY <1>1, <1>3, <1>6
<1> HIDE DEF Sums
<1>8. \A n \in 0 .. l : f[n] \in Nat
  <2> DEFINE T == {n \in Nat : n <= l => f[n] \in Nat}
  <2>1. 0 \in T
    BY <1>7
  <2>2. ASSUME NEW n \in T PROVE n + 1 \in T
    <3>1. n + 1 <= l => n + 1 \in 1 .. l /\ (n + 1) - 1 = n
      BY <1>1
    <3>2. QED
      BY <1>1, <1>2, <1>7, <3>1
  <2>3. \A n \in Nat : n \in T
    <3> HIDE DEF T
    <3>1. T \in SUBSET Nat
      BY DEF T
    <3>2. QED
      BY <2>1, <2>2, <3>1, Induction
  <2>4. QED
    BY <1>1, <2>3
<1>9. f \in [0 .. l -> Nat]
  BY <1>6, <1>7, <1>8 DEF Sums
<1>10. \A n \in 1 .. l : f[n] = f[n - 1] + Counted(S, n)
  BY <1>7 DEF w
<1>11. QED
  BY <1>4, <1>7, <1>9, <1>10 DEF l

LEMMA TotalType ==
  ASSUME request \in RequestType, NEW S
  PROVE  Total(S) \in Nat
<1>1. Len(request.utxos) \in Nat
  BY DEF RequestType
<1>2. QED
  BY <1>1, TotalIs

\* More coins are not worth less.
LEMMA TotalGrows ==
  ASSUME request \in RequestType, NEW S, NEW T, S \subseteq T
  PROVE  Total(S) <= Total(T)
<1> DEFINE l == Len(request.utxos)
<1>1. l \in Nat /\ request.utxos \in Seq(Nat)
  BY DEF RequestType
<1>2. PICK f \in [0 .. l -> Nat] :
        f[0] = 0 /\ Total(S) = f[l] /\ \A n \in 1 .. l : f[n] = f[n - 1] + Counted(S, n)
  BY TotalIs
<1>3. PICK g \in [0 .. l -> Nat] :
        g[0] = 0 /\ Total(T) = g[l] /\ \A n \in 1 .. l : g[n] = g[n - 1] + Counted(T, n)
  BY TotalIs
<1>4. \A n \in 1 .. l : Counted(S, n) \in Nat /\ Counted(T, n) \in Nat /\ Counted(S, n) <= Counted(T, n)
  BY <1>1 DEF Counted, Value
<1> HIDE DEF l
<1> DEFINE U == {n \in Nat : n <= l => f[n] <= g[n]}
<1>5. 0 \in U
  BY <1>2, <1>3
<1>6. ASSUME NEW n \in U PROVE n + 1 \in U
  <2> SUFFICES ASSUME n + 1 <= l PROVE f[n + 1] <= g[n + 1]
    OBVIOUS
  <2>1. n \in 0 .. l /\ n + 1 \in 1 .. l /\ (n + 1) - 1 = n /\ f[n] <= g[n]
    BY <1>1
  <2>2. f[n + 1] = f[n] + Counted(S, n + 1) /\ g[n + 1] = g[n] + Counted(T, n + 1)
    BY <1>2, <1>3, <2>1
  <2>3. f[n] \in Nat /\ g[n] \in Nat
    BY <2>1
  <2>4. QED
    BY <1>4, <2>1, <2>2, <2>3
<1>7. l \in U
  <2> HIDE DEF U
  <2>1. U \in SUBSET Nat
    BY DEF U
  <2>2. QED
    BY <1>1, <1>5, <1>6, <2>1, Induction
<1>8. QED
  BY <1>1, <1>2, <1>3, <1>7

\* One coin, or two, are worth what they are worth.
LEMMA TotalOfPair ==
  ASSUME request \in RequestType, NEW c \in 1 .. Len(request.utxos),
         NEW d \in 1 .. Len(request.utxos)
  PROVE  Total({c, d}) = IF c = d THEN Value(c) ELSE Value(c) + Value(d)
<1> DEFINE l == Len(request.utxos)
           P(n) == (IF c <= n THEN Value(c) ELSE 0) + (IF d <= n /\ c # d THEN Value(d) ELSE 0)
<1>1. l \in Nat /\ Value(c) \in Nat /\ Value(d) \in Nat /\ c \in 1 .. l /\ d \in 1 .. l
  BY DEF RequestType, Value
<1>2. PICK f \in [0 .. l -> Nat] :
        /\ f[0] = 0 /\ Total({c, d}) = f[l]
        /\ \A n \in 1 .. l : f[n] = f[n - 1] + Counted({c, d}, n)
  BY TotalIs
<1> HIDE DEF l
<1> DEFINE U == {n \in Nat : n <= l => f[n] = P(n)}
<1>3. 0 \in U
  BY <1>1, <1>2
<1>4. ASSUME NEW n \in U PROVE n + 1 \in U
  <2> SUFFICES ASSUME n + 1 <= l PROVE f[n + 1] = P(n + 1)
    OBVIOUS
  <2>1. n + 1 \in 1 .. l /\ (n + 1) - 1 = n /\ f[n] = P(n)
    BY <1>1
  <2>2. f[n + 1] = P(n) + Counted({c, d}, n + 1)
    BY <1>2, <2>1
  <2>3. Counted({c, d}, n + 1) = IF n + 1 = c THEN Value(c) ELSE IF n + 1 = d THEN Value(d) ELSE 0
    BY DEF Counted
  <2>4. QED
    BY <1>1, <2>2, <2>3
<1>5. l \in U
  <2> HIDE DEF U
  <2>1. U \in SUBSET Nat
    BY DEF U
  <2>2. QED
    BY <1>1, <1>3, <1>4, <2>1, Induction
<1>6. f[l] = P(l)
  BY <1>1, <1>5
<1>7. QED
  BY <1>1, <1>2, <1>6

\* Each further input of a transfer costs something.
LEMMA FeeGrowsWithInputs ==
  ASSUME NEW q \in RequestType, q.kind = "transfer", NEW n \in Nat, n >= 3
  PROVE  FeeFor(q, 3, 1) <= FeeFor(q, n, 1) /\ FeeFor(q, 3, 1) \in Nat /\ FeeFor(q, n, 1) \in Nat
<1>1. /\ EstimateTransferSize(n, 1) \in Nat /\ EstimateTransferSize(3, 1) \in Nat
      /\ EstimateTransferSize(3, 1) <= EstimateTransferSize(n, 1)
  BY DEF EstimateTransferSize, SizeWithPayload, CompactSizeLength, PAYLOAD_HEADER_SIZE,
         AUTHORIZATION_SIZE, SERIALIZED_INPUT_SIZE, SERIALIZED_OUTPUT_SIZE
<1>2. q.rate \in Nat
  BY DEF RequestType
<1>3. \A x, y, r \in Nat : x <= y => x * r \in Nat /\ y * r \in Nat /\ x * r <= y * r
  OBVIOUS
<1>4. \A x, y \in Nat :
        x <= y => /\ (x + SATS_PER_KB - 1) \div SATS_PER_KB
                       <= (y + SATS_PER_KB - 1) \div SATS_PER_KB
                  /\ (x + SATS_PER_KB - 1) \div SATS_PER_KB \in Nat
                  /\ (y + SATS_PER_KB - 1) \div SATS_PER_KB \in Nat
  BY DEF SATS_PER_KB
<1>5. \A m : FeeFor(q, m, 1) = (EstimateTransferSize(m, 1) * q.rate + SATS_PER_KB - 1) \div SATS_PER_KB
  BY DEF FeeFor
<1>6. QED
  BY <1>1, <1>2, <1>3, <1>4, <1>5

\* What the loops leave when they end without a selection.
TooLittle ==
  at = "insufficient" /\ request.kind = "transfer" => request.utxos = <<>> \/ ~MoreWouldPay

LEMMA NextTooLittle == IInv /\ TooLittle /\ [Next]_vars => TooLittle'
<1> SUFFICES ASSUME IInv, TooLittle, [Next]_vars PROVE TooLittle'
  OBVIOUS
<1>1. UNCHANGED request
  BY DEF Next, Check, TrySingle, EndSingles, TryPair, EndPairs, vars
<1>2. MoreWouldPay' <=> MoreWouldPay
  BY <1>1 DEF MoreWouldPay, Total, Candidates, FeeFor, Value
<1>3. CASE at' = "insufficient" /\ at # "insufficient"
  <2>1. Check => TooLittle'
    BY <1>1 DEF Check, TooLittle
  <2>2. EndPairs => TooLittle'
    BY <1>1, <1>2 DEF EndPairs, TooLittle
  <2>3. ~TrySingle /\ ~EndSingles /\ ~TryPair
    BY <1>3 DEF TrySingle, EndSingles, TryPair
  <2>4. QED
    BY <1>3, <2>1, <2>2, <2>3 DEF Next, vars
<1>4. CASE at = "insufficient" \/ at' # "insufficient"
  BY <1>1, <1>2, <1>4 DEF TooLittle, Next, Check, TrySingle, EndSingles, TryPair, EndPairs, vars
<1>5. QED
  BY <1>3, <1>4

LEMMA TooLittleIsInsufficient == IInv /\ TooLittle => InsufficientIsTrue
<1> SUFFICES ASSUME IInv, TooLittle, at = "insufficient", request.kind = "transfer",
                    NEW S \in (SUBSET Candidates(request)) \ {{}}
             PROVE  Total(S) < request.amount + FeeFor(request, Cardinality(S), 1)
  BY DEF InsufficientIsTrue
<1> DEFINE l == Len(request.utxos)
<1>1. request \in RequestType /\ request.amount \in Nat /\ l \in Nat
  BY RequestsAssumption DEF IInv, TypeOK, RequestType
<1>2. Candidates(request) = 1 .. l
  BY DEF Candidates
<1>3. /\ IsFiniteSet(S) /\ Cardinality(S) \in Nat /\ Cardinality(S) # 0
      /\ S \subseteq Candidates(request) /\ S # {} /\ request.utxos # <<>>
  <2>1. IsFiniteSet(1 .. l)
    BY <1>1, FS_Interval
  <2>2. IsFiniteSet(S)
    BY <1>2, <2>1, FS_Subset
  <2>3. S \subseteq Candidates(request) /\ S # {}
    OBVIOUS
  <2>4. l # 0
    BY <1>1, <1>2, <2>3
  <2>5. Cardinality(S) \in Nat /\ Cardinality(S) # 0
    BY <2>2, <2>3, FS_CardinalityType, FS_EmptySet
  <2>6. QED
    BY <2>2, <2>3, <2>4, <2>5
<1>4. Singles = {} /\ Pairs = {}
  BY DEF IInv, LeastThatPays
<1>5. CASE Cardinality(S) = 1
  <2>1. PICK c : S = {c}
    BY <1>3, <1>5, FS_Singleton
  <2>2. c \in Candidates(request) /\ ~Pays(1, Value(c))
    BY <1>4, <2>1 DEF Singles
  <2>3. Total({c, c}) = Value(c) /\ {c, c} = {c}
    BY <1>1, <1>2, <2>2, TotalOfPair
  <2>4. Value(c) \in Nat /\ FeeFor(request, 1, 1) \in Nat
    BY <1>1, <1>2, <2>2, FeeType DEF RequestType, Value
  <2>5. QED
    <3>1. Total(S) = Value(c)
      BY <2>1, <2>3
    <3>2. ~(Value(c) >= request.amount + FeeFor(request, 1, 1) + 0)
      BY <2>2 DEF Pays
    <3>3. QED
      BY <1>1, <1>5, <2>4, <3>1, <3>2
<1>6. CASE Cardinality(S) = 2
  <2>1. PICK c : c \in S
    BY <1>3
  <2>2. IsFiniteSet(S \ {c}) /\ Cardinality(S \ {c}) = 1
    <3>1. IsFiniteSet(S \ {c}) /\ Cardinality(S \ {c}) = Cardinality(S) - 1
      BY <1>3, <2>1, FS_RemoveElement
    <3>2. QED
      BY <1>6, <3>1
  <2>3. PICK d : S \ {c} = {d}
    BY <2>2, FS_Singleton
  <2>4. S = {c, d} /\ c # d /\ c \in 1 .. l /\ d \in 1 .. l
    BY <1>2, <2>1, <2>3
  <2>5. ~Pays(2, Value(c) + Value(d))
    <3>1. <<c, d>> \in Candidates(request) \X Candidates(request)
      BY <1>2, <2>4
    <3>2. <<c, d>> \notin Pairs
      BY <1>4
    <3>3. QED
      BY <2>4, <3>1, <3>2 DEF Pairs
  <2>6. Total(S) = Value(c) + Value(d)
    BY <1>1, <2>4, TotalOfPair
  <2>7. Value(c) \in Nat /\ Value(d) \in Nat /\ FeeFor(request, 2, 1) \in Nat
    <3>1. FeeFor(request, 2, 1) \in Nat
      BY <1>1, FeeType
    <3>2. QED
      BY <1>1, <2>4, <3>1 DEF RequestType, Value
  <2>8. QED
    BY <1>1, <1>6, <2>5, <2>6, <2>7 DEF Pays
<1>7. CASE Cardinality(S) >= 3
  <2>1. Total(S) <= Total(Candidates(request))
    BY <1>1, TotalGrows
  <2>2. Total(Candidates(request)) < request.amount + FeeFor(request, 3, 1)
    <3>1. ~(Total(Candidates(request)) >= request.amount + FeeFor(request, 3, 1))
      BY <1>3 DEF TooLittle, MoreWouldPay
    <3>2. Total(Candidates(request)) \in Nat /\ FeeFor(request, 3, 1) \in Nat
      BY <1>1, <1>3, <1>7, TotalType, FeeGrowsWithInputs
    <3>3. QED
      BY <1>1, <3>1, <3>2
  <2>3. /\ FeeFor(request, 3, 1) <= FeeFor(request, Cardinality(S), 1)
        /\ FeeFor(request, 3, 1) \in Nat /\ FeeFor(request, Cardinality(S), 1) \in Nat
    BY <1>1, <1>3, <1>7, FeeGrowsWithInputs
  <2>4. Total(S) \in Nat /\ Total(Candidates(request)) \in Nat
    BY <1>1, TotalType
  <2>5. QED
    BY <1>1, <2>1, <2>2, <2>3, <2>4
<1>8. QED
  BY <1>3, <1>5, <1>6, <1>7

\* The page says that funds do not suffice only if no set of coins, of whatever
\* size, would pay a transfer and the fee of its own inputs.
THEOREM InsufficientIsTrueHolds == Spec => []InsufficientIsTrue
<1>1. Init => TooLittle
  BY DEF Init, TooLittle
<1>2. Spec => []TooLittle
  BY <1>1, NextTooLittle, Invariance, PTL DEF Spec
<1>3. QED
  BY <1>2, Invariance, TooLittleIsInsufficient, PTL

-----------------------------------------------------------------------------
\* The addresses of the legacy wallet

\* Of payments s: those that a reload makes nothing of, since all that came after
\* the first one were to addresses the constructor had not derived.
Lost(s, k) == k >= 2 /\ \A p \in 2 .. k : s[p] > MAX_ACCOUNT_GAP
InReach(s, a, earlier) ==
  a <= MAX_ACCOUNT_GAP \/ \E p \in earlier : ~Lost(s, p) /\ a <= s[p] + MAX_ACCOUNT_GAP

AddressTypes ==
  /\ addressIndex \in Nat /\ highestUsed \in Nat /\ loadedIndex \in Nat /\ synced \in BOOLEAN
  /\ given \subseteq Nat /\ payments \in Seq(Nat) /\ handled \in 0 .. Len(payments)

\* Only what is within the gap of a payment that is recognised is given out.
WithinReach ==
  /\ \A p \in DOMAIN payments : InReach(payments, payments[p], 1 .. p - 1)
  /\ \A a \in given : InReach(payments, a, DOMAIN payments)
UsedIsHighest ==
  /\ highestUsed = 0 \/ \E p \in 1 .. handled : ~Lost(payments, p) /\ highestUsed = payments[p]
  /\ \A p \in 1 .. handled : ~Lost(payments, p) => payments[p] <= highestUsed
  /\ addressIndex <= highestUsed + MAX_ACCOUNT_GAP
\* The wallet knows of the first payment and of none it recognised since.
Forgetful == handled = 1 \/ Lost(payments, handled)
LoadedIsDerived ==
  /\ handled = 0 => loadedIndex = 0 /\ ownAddresses = 0 .. MAX_ACCOUNT_GAP
  /\ handled # 0 /\ Forgetful =>
       loadedIndex = MAX_ACCOUNT_GAP /\ ownAddresses = 0 .. MAX_ACCOUNT_GAP
  /\ handled # 0 /\ ~Forgetful =>
       /\ loadedIndex >= MAX_ACCOUNT_GAP + MAX_ACCOUNT_GAP
       /\ loadedIndex >= highestUsed + MAX_ACCOUNT_GAP
       /\ ownAddresses = 0 .. loadedIndex

AddressInv ==
  AddressTypes /\ WithinReach /\ UsedIsHighest /\ LoadedIsDerived /\ GivenAreRecognised

-----------------------------------------------------------------------------
LEMMA GapIs == MAX_ACCOUNT_GAP \in Nat /\ MAX_ACCOUNT_GAP >= 1
BY GapAssumption

LEMMA LostIs ==
  ASSUME NEW s \in Seq(Nat), NEW k \in Nat, k + 1 \in DOMAIN s
  PROVE  Lost(s, k + 1) <=> (k = 1 \/ Lost(s, k)) /\ s[k + 1] > MAX_ACCOUNT_GAP
<1>1. CASE k = 0
  BY <1>1 DEF Lost
<1>2. CASE k # 0
  <2>1. 2 .. k + 1 = (2 .. k) \cup {k + 1} /\ (k = 1 => 2 .. k = {})
    BY <1>2
  <2>2. QED
    BY <1>2, <2>1 DEF Lost
<1>3. QED
  BY <1>1, <1>2

LEMMA PaymentsAppend ==
  ASSUME NEW s \in Seq(Nat), NEW a \in Nat, NEW t, t = Append(s, a)
  PROVE  /\ t \in Seq(Nat) /\ Len(t) = Len(s) + 1 /\ DOMAIN t = DOMAIN s \cup {Len(s) + 1}
         /\ t[Len(s) + 1] = a
         /\ \A p \in DOMAIN s : t[p] = s[p] /\ (Lost(t, p) <=> Lost(s, p))
         /\ \A b, ks : ks \subseteq DOMAIN s /\ InReach(s, b, ks) => InReach(t, b, ks)
<1>1. /\ t \in Seq(Nat) /\ Len(t) = Len(s) + 1 /\ DOMAIN t = DOMAIN s \cup {Len(s) + 1}
      /\ t[Len(s) + 1] = a /\ \A p \in DOMAIN s : t[p] = s[p]
  OBVIOUS
<1>2. \A p \in DOMAIN s : Lost(t, p) <=> Lost(s, p)
  <2>1. \A p \in DOMAIN s : 2 .. p \subseteq DOMAIN s
    OBVIOUS
  <2>2. QED
    BY <1>1, <2>1 DEF Lost
<1>3. \A b, ks : ks \subseteq DOMAIN s /\ InReach(s, b, ks) => InReach(t, b, ks)
  BY <1>1, <1>2 DEF InReach
<1>4. QED
  BY <1>1, <1>2, <1>3

\* What is paid and not lost is among the addresses that were derived.
LEMMA PaidIsReached ==
  ASSUME AddressTypes, WithinReach, UsedIsHighest, handled < Len(payments)
  PROVE  payments[handled + 1] <= MAX_ACCOUNT_GAP
           \/ payments[handled + 1] <= highestUsed + MAX_ACCOUNT_GAP
<1> DEFINE k == handled + 1
<1>1. k \in DOMAIN payments /\ handled \in Nat /\ k - 1 = handled
  BY DEF AddressTypes
<1>2. InReach(payments, payments[k], 1 .. handled)
  BY <1>1 DEF WithinReach
<1>3. CASE payments[k] <= MAX_ACCOUNT_GAP
  BY <1>3
<1>4. ASSUME NEW p \in 1 .. handled, ~Lost(payments, p), payments[k] <= payments[p] + MAX_ACCOUNT_GAP
      PROVE  payments[k] <= highestUsed + MAX_ACCOUNT_GAP
  <2>1. payments[p] <= highestUsed
    BY <1>4 DEF UsedIsHighest
  <2>2. payments[p] \in Nat /\ payments[k] \in Nat /\ highestUsed \in Nat
    BY <1>1 DEF AddressTypes
  <2>3. QED
    BY <1>4, <2>1, <2>2, GapIs
<1>5. QED
  BY <1>2, <1>3, <1>4 DEF InReach

LEMMA Joined ==
  ASSUME NEW m \in Nat, NEW n \in Nat
  PROVE  (0 .. m) \cup (m .. m + n) = 0 .. m + n
OBVIOUS

LEMMA FirstAddresses ==
  ASSUME AddressTypes, WithinReach, handled = 0, highestUsed = 0, addressIndex = 0, loadedIndex = 0,
         ownAddresses = 0 .. MAX_ACCOUNT_GAP, missed = {}
  PROVE  AddressInv
BY GapIs DEF AddressInv, UsedIsHighest, LoadedIsDerived, GivenAreRecognised

LEMMA GivingKeeps ==
  ASSUME AddressInv, NEW a \in Nat, a <= highestUsed + MAX_ACCOUNT_GAP, given' = given \cup {a},
         addressIndex' \in Nat, addressIndex' <= highestUsed + MAX_ACCOUNT_GAP,
         UNCHANGED <<highestUsed, loadedIndex, ownAddresses, synced, payments, handled, missed>>
  PROVE  AddressInv'
<1>1. AddressTypes'
  BY DEF AddressInv, AddressTypes
<1>2. InReach(payments, a, DOMAIN payments)
  <2>1. CASE highestUsed = 0
    BY <2>1, GapIs DEF InReach
  <2>2. CASE highestUsed # 0
    <3>1. PICK p \in 1 .. handled : ~Lost(payments, p) /\ highestUsed = payments[p]
      BY <2>2 DEF AddressInv, UsedIsHighest
    <3>2. p \in DOMAIN payments
      BY DEF AddressInv, AddressTypes
    <3>3. QED
      BY <3>1, <3>2 DEF InReach
  <2>3. QED
    BY <2>1, <2>2
<1>3. WithinReach'
  BY <1>2 DEF AddressInv, WithinReach
<1>4. UsedIsHighest'
  BY DEF AddressInv, UsedIsHighest
<1>5. LoadedIsDerived' /\ GivenAreRecognised'
  BY DEF AddressInv, LoadedIsDerived, Forgetful, GivenAreRecognised
<1>6. QED
  BY <1>1, <1>3, <1>4, <1>5 DEF AddressInv

LEMMA PayKeeps == AddressInv /\ Pay => AddressInv'
<1> SUFFICES ASSUME AddressInv, Pay PROVE AddressInv'
  OBVIOUS
<1>1. PICK a \in given : payments' = Append(payments, a)
  BY DEF Pay
<1>2. payments \in Seq(Nat) /\ a \in Nat /\ handled \in 0 .. Len(payments)
  BY DEF AddressInv, AddressTypes
<1>3. /\ payments' \in Seq(Nat) /\ Len(payments') = Len(payments) + 1
      /\ DOMAIN payments' = DOMAIN payments \cup {Len(payments) + 1}
      /\ payments'[Len(payments) + 1] = a
      /\ \A p \in DOMAIN payments :
           payments'[p] = payments[p] /\ (Lost(payments', p) <=> Lost(payments, p))
      /\ \A b, ks : ks \subseteq DOMAIN payments /\ InReach(payments, b, ks) =>
                      InReach(payments', b, ks)
  <2> DEFINE t == Append(payments, a)
  <2>1. /\ t \in Seq(Nat) /\ Len(t) = Len(payments) + 1
        /\ DOMAIN t = DOMAIN payments \cup {Len(payments) + 1} /\ t[Len(payments) + 1] = a
        /\ \A p \in DOMAIN payments :
             t[p] = payments[p] /\ (Lost(t, p) <=> Lost(payments, p))
        /\ \A b, ks : ks \subseteq DOMAIN payments /\ InReach(payments, b, ks) => InReach(t, b, ks)
    BY <1>2, PaymentsAppend
  <2> HIDE DEF t
  <2>2. payments' = t
    BY <1>1 DEF t
  <2>3. QED
    BY <2>1, <2>2
<1>4. AddressTypes'
  <2>1. handled \in 0 .. Len(payments')
    BY <1>2, <1>3
  <2>2. QED
    BY <1>3, <2>1 DEF Pay, AddressInv, AddressTypes
<1>5. \A p \in DOMAIN payments : 1 .. p - 1 \subseteq DOMAIN payments
  BY <1>2
<1>6. \A p \in DOMAIN payments : InReach(payments', payments'[p], 1 .. p - 1)
  BY <1>3, <1>5 DEF AddressInv, WithinReach
<1>7. \A b \in given : InReach(payments', b, DOMAIN payments)
  BY <1>3 DEF AddressInv, WithinReach
<1>8. WithinReach'
  <2>1. 1 .. (Len(payments) + 1) - 1 = DOMAIN payments
    BY <1>2
  <2>2. \A b \in given : InReach(payments', b, DOMAIN payments')
    BY <1>3, <1>7 DEF InReach
  <2>3. QED
    BY <1>3, <1>6, <1>7, <2>1, <2>2 DEF Pay, WithinReach
<1>9. \A p \in 1 .. handled : p \in DOMAIN payments
  BY <1>2
<1>10. UsedIsHighest'
  BY <1>3, <1>9 DEF Pay, AddressInv, UsedIsHighest
<1>11. LoadedIsDerived'
  <2>1. handled # 0 => (Forgetful' <=> Forgetful)
    BY <1>2, <1>3 DEF Pay, Forgetful
  <2>2. QED
    BY <2>1 DEF Pay, AddressInv, LoadedIsDerived
<1>12. QED
  BY <1>4, <1>8, <1>10, <1>11 DEF Pay, AddressInv, GivenAreRecognised

\* Of the wallet that forgot, no payment it recognised is past the gap.
LEMMA ForgetfulUsedLittle ==
  ASSUME AddressInv, handled = 0 \/ Forgetful
  PROVE  highestUsed <= MAX_ACCOUNT_GAP
<1>1. CASE highestUsed = 0
  BY <1>1, GapIs
<1>2. CASE highestUsed # 0
  <2>1. PICK p \in 1 .. handled : ~Lost(payments, p) /\ highestUsed = payments[p]
    BY <1>2 DEF AddressInv, UsedIsHighest
  <2>2. payments \in Seq(Nat) /\ handled \in 0 .. Len(payments) /\ p \in DOMAIN payments
    BY DEF AddressInv, AddressTypes
  <2>3. p = 1
    BY <2>1, <2>2 DEF Forgetful, Lost
  <2>4. InReach(payments, payments[1], 1 .. 0)
    BY <2>2, <2>3 DEF AddressInv, WithinReach
  <2>5. QED
    BY <2>1, <2>3, <2>4 DEF InReach
<1>3. QED
  BY <1>1, <1>2

LEMMA AddingKeeps == AddressInv /\ AddTransaction => AddressInv'
<1> SUFFICES ASSUME AddressInv, AddTransaction PROVE AddressInv'
  OBVIOUS
<1> DEFINE k == handled + 1
           a == payments[k]
<1>1. /\ payments \in Seq(Nat) /\ handled \in Nat /\ k \in DOMAIN payments /\ k \in Nat
      /\ a \in Nat /\ highestUsed \in Nat /\ loadedIndex \in Nat /\ addressIndex \in Nat
      /\ handled \in 0 .. Len(payments) /\ k \in 0 .. Len(payments)
  BY DEF AddressInv, AddressTypes, AddTransaction
<1>2. /\ handled' = k /\ UpdateHighestUsedIndex(a) /\ UNCHANGED <<synced, given, payments>>
      /\ missed' = IF a \in ownAddresses' THEN missed
                   ELSE missed \cup {[address |-> a, loaded |-> loadedIndex]}
      /\ addressIndex' = IF synced THEN UpdateCurrentAddress(addressIndex, highestUsed')
                         ELSE addressIndex
  BY DEF AddTransaction
<1>3. Forgetful' <=> handled = 0 \/ Lost(payments, k)
  BY <1>1, <1>2 DEF Forgetful, Lost
<1>4. Lost(payments, k) <=> handled # 0 /\ Forgetful /\ a > MAX_ACCOUNT_GAP
  BY <1>1, LostIs DEF Forgetful, Lost
<1>5. a <= MAX_ACCOUNT_GAP \/ a <= highestUsed + MAX_ACCOUNT_GAP
  BY <1>1, PaidIsReached DEF AddressInv
<1>6. handled = 0 \/ Forgetful => highestUsed <= MAX_ACCOUNT_GAP
  BY ForgetfulUsedLittle
<1>7. handled = 0 => a <= MAX_ACCOUNT_GAP /\ highestUsed = 0
  BY <1>1 DEF AddressInv, UsedIsHighest, WithinReach, InReach
<1> HIDE DEF k, a
<1>8. a \in ownAddresses <=> ~Lost(payments, k)
  BY <1>1, <1>4, <1>5, <1>7, GapIs DEF AddressInv, LoadedIsDerived
<1>9. /\ highestUsed' = IF Lost(payments, k) THEN highestUsed ELSE Larger(a, highestUsed)
      /\ highestUsed' \in Nat /\ highestUsed <= highestUsed'
  BY <1>1, <1>2, <1>8 DEF UpdateHighestUsedIndex, IsOwnAddress, Larger
<1>10. LoadedIsDerived'
  <2>1. CASE Lost(payments, k)
    BY <1>1, <1>2, <1>3, <1>4, <1>8, <2>1
       DEF AddressInv, LoadedIsDerived, UpdateHighestUsedIndex, IsOwnAddress
  <2>2. CASE ~Lost(payments, k)
    <3>1. IF highestUsed' + MAX_ACCOUNT_GAP >= loadedIndex THEN LoadAddresses
          ELSE UNCHANGED <<loadedIndex, ownAddresses>>
      BY <1>2, <1>8, <2>2 DEF UpdateHighestUsedIndex, IsOwnAddress
    <3>2. highestUsed' = IF a > highestUsed THEN a ELSE highestUsed
      BY <1>9, <2>2 DEF Larger
    <3>3. handled' # 0 /\ (handled = 0 => Forgetful') /\ (handled # 0 => ~Forgetful')
      BY <1>1, <1>2, <1>3, <2>2 DEF k
    <3>4. CASE handled = 0
      <4>1. loadedIndex = 0 /\ ownAddresses = 0 .. MAX_ACCOUNT_GAP
        BY <3>4 DEF AddressInv, LoadedIsDerived
      <4>2. loadedIndex' = MAX_ACCOUNT_GAP /\ ownAddresses' = 0 .. MAX_ACCOUNT_GAP
        <5>1. LoadAddresses
          BY <1>9, <3>1, <4>1, GapIs
        <5>2. 0 + MAX_ACCOUNT_GAP = MAX_ACCOUNT_GAP
          BY GapIs
        <5>3. QED
          BY <4>1, <5>1, <5>2 DEF LoadAddresses
      <4>3. QED
        BY <3>3, <3>4, <4>2, Zenon DEF LoadedIsDerived
    <3>5. CASE handled # 0 /\ Forgetful
      <4>1. loadedIndex = MAX_ACCOUNT_GAP /\ ownAddresses = 0 .. MAX_ACCOUNT_GAP
        BY <3>5 DEF AddressInv, LoadedIsDerived
      <4>2. a <= MAX_ACCOUNT_GAP /\ highestUsed' <= MAX_ACCOUNT_GAP
        BY <1>1, <1>4, <1>6, <2>2, <3>2, <3>5, GapIs
      <4>3. /\ loadedIndex' = MAX_ACCOUNT_GAP + MAX_ACCOUNT_GAP
            /\ ownAddresses' = 0 .. loadedIndex'
        <5>1. LoadAddresses
          BY <1>9, <3>1, <4>1, GapIs
        <5>2. QED
          BY <4>1, <5>1, GapIs, Joined DEF LoadAddresses
      <4>4. QED
        BY <1>9, <3>3, <3>5, <4>2, <4>3, GapIs DEF LoadedIsDerived
    <3>6. CASE handled # 0 /\ ~Forgetful
      <4>1. /\ loadedIndex >= MAX_ACCOUNT_GAP + MAX_ACCOUNT_GAP
            /\ loadedIndex >= highestUsed + MAX_ACCOUNT_GAP
            /\ ownAddresses = 0 .. loadedIndex
        BY <3>6 DEF AddressInv, LoadedIsDerived
      <4>2. highestUsed' <= loadedIndex
        BY <1>1, <1>5, <3>2, <4>1, GapIs
      <4>3. CASE highestUsed' + MAX_ACCOUNT_GAP >= loadedIndex
        <5>1. loadedIndex' = loadedIndex + MAX_ACCOUNT_GAP /\ ownAddresses' = 0 .. loadedIndex'
          BY <1>1, <3>1, <4>1, <4>3, GapIs, Joined DEF LoadAddresses
        <5>2. /\ loadedIndex' >= MAX_ACCOUNT_GAP + MAX_ACCOUNT_GAP
              /\ loadedIndex' >= highestUsed' + MAX_ACCOUNT_GAP
          BY <1>1, <1>9, <4>1, <4>2, <5>1, GapIs
        <5>3. QED
          BY <3>3, <3>6, <5>1, <5>2, Zenon DEF LoadedIsDerived
      <4>4. CASE ~(highestUsed' + MAX_ACCOUNT_GAP >= loadedIndex)
        <5>1. loadedIndex' = loadedIndex /\ ownAddresses' = ownAddresses
          BY <3>1, <4>4
        <5>2. loadedIndex >= highestUsed' + MAX_ACCOUNT_GAP
          BY <1>1, <1>9, <4>4, GapIs
        <5>3. QED
          BY <3>3, <3>6, <4>1, <5>1, <5>2, Zenon DEF LoadedIsDerived
      <4>5. QED
        BY <4>3, <4>4
    <3>7. QED
      BY <3>4, <3>5, <3>6
  <2>3. QED
    BY <2>1, <2>2
<1>11. UsedIsHighest'
  <2>1. addressIndex' <= highestUsed' + MAX_ACCOUNT_GAP
    BY <1>1, <1>2, <1>9, GapIs DEF AddressInv, UsedIsHighest, UpdateCurrentAddress
  <2>2. \A p \in 1 .. k : ~Lost(payments, p) => payments[p] <= highestUsed'
    <3>1. \A p \in 1 .. k : p = k \/ p \in 1 .. handled
      BY <1>1 DEF k
    <3>2. \A p \in 1 .. handled : ~Lost(payments, p) => payments[p] <= highestUsed /\ payments[p] \in Nat
      BY <1>1 DEF AddressInv, UsedIsHighest
    <3>3. ~Lost(payments, k) => a <= highestUsed'
      BY <1>1, <1>9 DEF Larger
    <3>4. QED
      BY <1>1, <1>9, <3>1, <3>2, <3>3 DEF a
  <2>3. highestUsed' = 0 \/ \E p \in 1 .. k : ~Lost(payments, p) /\ highestUsed' = payments[p]
    <3>1. 1 .. k = (1 .. handled) \cup {k}
      BY <1>1 DEF k
    <3>2. QED
      BY <1>9, <3>1 DEF AddressInv, UsedIsHighest, Larger, a
  <2>4. QED
    BY <1>2, <2>1, <2>2, <2>3 DEF UsedIsHighest
<1>12. AddressTypes'
  <2>1. loadedIndex' \in Nat
    BY <1>1, <1>2, GapIs DEF UpdateHighestUsedIndex, LoadAddresses
  <2>2. QED
    BY <1>1, <1>2, <1>9, <2>1 DEF AddressInv, AddressTypes, UpdateCurrentAddress
<1>13. WithinReach'
  BY <1>2 DEF AddressInv, WithinReach
<1>14. GivenAreRecognised'
  <2>1. a \notin ownAddresses' => loadedIndex = MAX_ACCOUNT_GAP
    <3>1. ownAddresses \subseteq ownAddresses'
      BY <1>2 DEF UpdateHighestUsedIndex, LoadAddresses
    <3>2. QED
      BY <1>4, <1>8, <3>1 DEF AddressInv, LoadedIsDerived
  <2>2. QED
    BY <1>2, <2>1 DEF AddressInv, GivenAreRecognised
<1>15. QED
  BY <1>10, <1>11, <1>12, <1>13, <1>14 DEF AddressInv

LEMMA NextKeepsAddresses == AddressInv /\ [AddressesNext]_addressVars => AddressInv'
<1> SUFFICES ASSUME AddressInv, [AddressesNext]_addressVars PROVE AddressInv'
  OBVIOUS
<1>1. CASE GetNewAddress
  <2>1. NextIndex \in Nat /\ NextIndex <= highestUsed + MAX_ACCOUNT_GAP
    BY GapIs DEF NextIndex, Larger, AddressInv, AddressTypes
  <2>2. QED
    BY <1>1, <2>1, GivingKeeps DEF GetNewAddress
<1>2. CASE GetCurrentAddress
  <2>1. addressIndex \in Nat /\ addressIndex <= highestUsed + MAX_ACCOUNT_GAP
    BY DEF AddressInv, AddressTypes, UsedIsHighest
  <2>2. QED
    BY <1>2, <2>1, GivingKeeps DEF GetCurrentAddress
<1>3. CASE Synced
  <2>1. UpdateCurrentAddress(addressIndex, highestUsed) \in Nat
    BY DEF AddressInv, AddressTypes, UpdateCurrentAddress
  <2>2. UpdateCurrentAddress(addressIndex, highestUsed) <= highestUsed + MAX_ACCOUNT_GAP
    BY GapIs DEF AddressInv, AddressTypes, UsedIsHighest, UpdateCurrentAddress
  <2>3. QED
    BY <1>3, <2>1, <2>2
    DEF Synced, AddressInv, AddressTypes, WithinReach, UsedIsHighest, LoadedIsDerived, Forgetful,
        GivenAreRecognised
<1>4. CASE ReloadAccount
  <2>1. AddressTypes' /\ WithinReach'
    <3>1. handled' \in 0 .. Len(payments)
      BY <1>4 DEF ReloadAccount, New, AddressInv, AddressTypes
    <3>2. QED
      BY <1>4, <3>1 DEF ReloadAccount, New, AddressInv, AddressTypes, WithinReach
  <2>2. UsedIsHighest' /\ LoadedIsDerived' /\ GivenAreRecognised'
    BY <1>4, GapIs DEF ReloadAccount, New, UsedIsHighest, LoadedIsDerived, GivenAreRecognised
  <2>3. QED
    BY <2>1, <2>2 DEF AddressInv
<1>5. CASE UNCHANGED addressVars
  BY <1>5
  DEF addressVars, AddressInv, AddressTypes, WithinReach, UsedIsHighest, LoadedIsDerived, Forgetful,
      GivenAreRecognised
<1>6. QED
  BY <1>1, <1>2, <1>3, <1>4, <1>5, PayKeeps, AddingKeeps DEF AddressesNext

LEMMA InitIsInReach == AddressesInit => AddressInv
<1> SUFFICES ASSUME AddressesInit PROVE AddressInv
  OBVIOUS
<1>1. payments \in Seq(Nat) /\ handled \in 0 .. Len(payments) /\ DOMAIN payments = {}
  BY DEF AddressesInit
<1>2. AddressTypes /\ WithinReach
  BY <1>1 DEF AddressesInit, AddressTypes, WithinReach
<1>3. QED
  BY <1>2, FirstAddresses DEF AddressesInit

\* A payment to an address that was given out is recognised, also after reloads,
\* except by a wallet that knows of one payment only: whatever the gap, the number
\* of payments and the order of the calls.
THEOREM GivenAreRecognisedHolds == AddressesSpec => []GivenAreRecognised
<1>1. AddressInv => GivenAreRecognised
  BY DEF AddressInv
<1>2. QED
  BY <1>1, InitIsInReach, NextKeepsAddresses, PTL DEF AddressesSpec

-----------------------------------------------------------------------------
\* Sums over sequences

LEMMA SumIs ==
  ASSUME NEW s \in Seq(Int)
  PROVE  \E f \in [0 .. Len(s) -> Int] :
           SumOf(s) = f[Len(s)] /\ f[0] = 0 /\ \A n \in 1 .. Len(s) : f[n] = f[n - 1] + s[n]
<1> DEFINE l == Len(s)
           Sums(f) == f = [n \in 0 .. l |-> IF n = 0 THEN 0 ELSE f[n - 1] + s[n]]
           f == CHOOSE f : Sums(f)
<1>1. l \in Nat /\ s \in [1 .. l -> Int]
  OBVIOUS
<1>2. SumOf(s) = f[l]
  BY DEF SumOf
<1> HIDE DEF l
<1>3. \E g : Sums(g)
  BY <1>1, SumsExist
<1>4. Sums(f)
  BY <1>3
<1> HIDE DEF f
<1>5. DOMAIN f = 0 .. l /\ f[0] = 0 /\ \A n \in 1 .. l : f[n] = f[n - 1] + s[n]
  BY <1>1, <1>4
<1>6. f = [n \in 0 .. l |-> f[n]]
  BY <1>4
<1> HIDE DEF Sums
<1> DEFINE T == {n \in Nat : n <= l => f[n] \in Int}
<1>7. 0 \in T
  BY <1>5
<1>8. ASSUME NEW n \in T PROVE n + 1 \in T
  <2>1. n + 1 <= l => n + 1 \in 1 .. l /\ (n + 1) - 1 = n
    BY <1>1
  <2>2. QED
    BY <1>1, <1>5, <2>1
<1>9. \A n \in Nat : n \in T
  <2> HIDE DEF T
  <2>1. T \in SUBSET Nat
    BY DEF T
  <2>2. QED
    BY <1>7, <1>8, <2>1, Induction
<1>10. f \in [0 .. l -> Int]
  <2>1. \A n \in 0 .. l : f[n] \in Int
    BY <1>1, <1>9
  <2>2. QED
    BY <1>6, <2>1
<1>11. QED
  BY <1>2, <1>5, <1>10 DEF l

LEMMA SumType == ASSUME NEW s \in Seq(Int) PROVE SumOf(s) \in Int
<1>1. Len(s) \in Nat
  OBVIOUS
<1>2. QED
  BY <1>1, SumIs

\* Whatever adds up like the sums is the sums.
LEMMA SumIsAt ==
  ASSUME NEW s \in Seq(Int), NEW g, g[0] = 0, \A n \in 1 .. Len(s) : g[n] = g[n - 1] + s[n]
  PROVE  SumOf(s) = g[Len(s)]
<1> DEFINE l == Len(s)
<1>1. l \in Nat
  OBVIOUS
<1>2. PICK f \in [0 .. l -> Int] :
        SumOf(s) = f[l] /\ f[0] = 0 /\ \A n \in 1 .. l : f[n] = f[n - 1] + s[n]
  BY SumIs
<1>3. \A n \in 1 .. l : g[n] = g[n - 1] + s[n]
  OBVIOUS
<1> HIDE DEF l
<1> DEFINE T == {n \in Nat : n <= l => g[n] = f[n]}
<1>4. 0 \in T
  BY <1>2
<1>5. ASSUME NEW n \in T PROVE n + 1 \in T
  <2> SUFFICES ASSUME n + 1 <= l PROVE g[n + 1] = f[n + 1]
    OBVIOUS
  <2>1. n + 1 \in 1 .. l /\ (n + 1) - 1 = n /\ g[n] = f[n]
    BY <1>1
  <2>2. f[n + 1] = f[n] + s[n + 1] /\ g[n + 1] = g[n] + s[n + 1]
    BY <1>2, <1>3, <2>1
  <2>3. QED
    BY <2>1, <2>2
<1>6. l \in T
  <2> HIDE DEF T
  <2>1. T \in SUBSET Nat
    BY DEF T
  <2>2. QED
    BY <1>1, <1>4, <1>5, <2>1, Induction
<1>7. QED
  BY <1>1, <1>2, <1>6 DEF l

LEMMA SumOfAppend ==
  ASSUME NEW s \in Seq(Int), NEW x \in Int
  PROVE  SumOf(Append(s, x)) = SumOf(s) + x
<1> DEFINE l == Len(s)
           t == Append(s, x)
<1>1. l \in Nat /\ t \in Seq(Int) /\ Len(t) = l + 1 /\ t[l + 1] = x /\ \A n \in 1 .. l : t[n] = s[n]
  OBVIOUS
<1>2. PICK f \in [0 .. l -> Int] :
        SumOf(s) = f[l] /\ f[0] = 0 /\ \A n \in 1 .. l : f[n] = f[n - 1] + s[n]
  BY SumIs
<1> HIDE DEF l, t
<1> DEFINE g == [n \in 0 .. l + 1 |-> IF n = l + 1 THEN f[l] + x ELSE f[n]]
<1>3. g[0] = 0 /\ g[l + 1] = f[l] + x
  BY <1>1, <1>2
<1>4. ASSUME NEW n \in 1 .. l + 1 PROVE g[n] = g[n - 1] + t[n]
  <2>1. CASE n = l + 1
    BY <1>1, <2>1
  <2>2. CASE n # l + 1
    <3>1. n \in 1 .. l /\ g[n] = f[n] /\ g[n - 1] = f[n - 1]
      BY <1>1, <2>2
    <3>2. QED
      BY <1>1, <1>2, <3>1
  <2>3. QED
    BY <2>1, <2>2
<1> HIDE DEF g
<1>5. SumOf(t) = g[Len(t)]
  BY <1>1, <1>3, <1>4, SumIsAt
<1>6. QED
  BY <1>1, <1>2, <1>3, <1>5 DEF t

LEMMA Multiple == ASSUME NEW n \in Int, NEW c \in Int PROVE n * c = (n - 1) * c + c
OBVIOUS

\* To add c to every number, and r to the first.
Shifted(s, t, c, r) == \A n \in 1 .. Len(s) : t[n] = s[n] + c + IF n = 1 THEN r ELSE 0

LEMMA SumOfShifted ==
  ASSUME NEW s \in Seq(Int), NEW t \in Seq(Int), Len(t) = Len(s), Len(s) >= 1,
         NEW c \in Int, NEW r \in Int,
         Shifted(s, t, c, r)
  PROVE  SumOf(t) = SumOf(s) + Len(s) * c + r
<1> DEFINE l == Len(s)
<1>1. l \in Nat /\ Len(t) = l /\ l >= 1
  OBVIOUS
<1>2. PICK f \in [0 .. l -> Int] :
        SumOf(s) = f[l] /\ f[0] = 0 /\ \A n \in 1 .. l : f[n] = f[n - 1] + s[n]
  BY SumIs
<1>3. \A n \in 1 .. l : s[n] \in Int /\ t[n] = s[n] + c + IF n = 1 THEN r ELSE 0
  BY DEF Shifted
<1> HIDE DEF l
<1> DEFINE g == [n \in 0 .. l |-> f[n] + n * c + IF n = 0 THEN 0 ELSE r]
<1>4. g[0] = 0
  BY <1>1, <1>2
<1>5. ASSUME NEW n \in 1 .. l PROVE g[n] = g[n - 1] + t[n]
  <2>0. n \in Int /\ n - 1 \in 0 .. l
    BY <1>1
  <2>1. PICK m \in Int : (n - 1) * c = m /\ n * c = m + c
    BY <2>0, Multiple
  <2>2. g[n] = f[n] + (m + c) + r /\ g[n - 1] = f[n - 1] + m + IF n = 1 THEN 0 ELSE r
    <3>1. n \in 0 .. l /\ n # 0 /\ (n - 1 = 0 <=> n = 1)
      BY <1>1
    <3>2. g[n] = f[n] + n * c + IF n = 0 THEN 0 ELSE r
      BY <3>1
    <3>3. g[n - 1] = f[n - 1] + (n - 1) * c + IF n - 1 = 0 THEN 0 ELSE r
      BY <2>0
    <3> HIDE DEF g
    <3>4. QED
      BY <2>1, <3>1, <3>2, <3>3
  <2>3. f[n] = f[n - 1] + s[n] /\ f[n - 1] \in Int /\ s[n] \in Int
    BY <1>2, <1>3, <2>0
  <2>4. t[n] = s[n] + c + IF n = 1 THEN r ELSE 0
    BY <1>3
  <2> HIDE DEF g
  <2>5. CASE n = 1
    BY <2>2, <2>3, <2>4, <2>5
  <2>6. CASE n # 1
    <3>1. g[n - 1] = f[n - 1] + m + r /\ t[n] = s[n] + c + 0
      BY <2>2, <2>4, <2>6
    <3>2. g[n] = f[n] + (m + c) + r
      BY <2>2
    <3>3. \A a, b \in Int : (a + b) + (m + c) + r = (a + m + r) + (b + c + 0)
      OBVIOUS
    <3>4. (f[n - 1] + s[n]) + (m + c) + r = (f[n - 1] + m + r) + (s[n] + c + 0)
      BY <2>3, <3>3
    <3>5. QED
      BY <2>3, <3>1, <3>2, <3>4
  <2>7. QED
    BY <2>5, <2>6
<1>6. g[l] = f[l] + l * c + r
  BY <1>1
<1> HIDE DEF g
<1>7. SumOf(t) = g[l]
  BY <1>1, <1>4, <1>5, SumIsAt
<1>8. QED
  BY <1>2, <1>6, <1>7 DEF l

\* Numbers that are c each, the first one r more.
Equal(t, c, r) == \A n \in 1 .. Len(t) : t[n] = c + IF n = 1 THEN r ELSE 0

LEMMA SumOfEqual ==
  ASSUME NEW t \in Seq(Int), Len(t) >= 1, NEW c \in Int, NEW r \in Int,
         Equal(t, c, r)
  PROVE  SumOf(t) = Len(t) * c + r
<1> DEFINE l == Len(t)
<1>1. l \in Nat /\ l >= 1 /\ \A n \in 1 .. l : t[n] = c + IF n = 1 THEN r ELSE 0
  BY DEF Equal
<1> HIDE DEF l
<1> DEFINE g == [n \in 0 .. l |-> n * c + IF n = 0 THEN 0 ELSE r]
<1>2. g[0] = 0
  BY <1>1
<1>3. ASSUME NEW n \in 1 .. l PROVE g[n] = g[n - 1] + t[n]
  <2>0. n \in Int /\ n - 1 \in 0 .. l
    BY <1>1
  <2>1. PICK m \in Int : (n - 1) * c = m /\ n * c = m + c
    BY <2>0, Multiple
  <2>2. g[n] = (m + c) + r /\ g[n - 1] = m + IF n = 1 THEN 0 ELSE r
    <3>1. n \in 0 .. l /\ n # 0 /\ (n - 1 = 0 <=> n = 1)
      BY <1>1
    <3>2. g[n] = n * c + IF n = 0 THEN 0 ELSE r
      BY <3>1
    <3>3. g[n - 1] = (n - 1) * c + IF n - 1 = 0 THEN 0 ELSE r
      BY <2>0
    <3> HIDE DEF g
    <3>4. QED
      BY <2>1, <3>1, <3>2, <3>3
  <2>3. t[n] = c + IF n = 1 THEN r ELSE 0
    BY <1>1
  <2> HIDE DEF g
  <2>4. CASE n = 1
    BY <2>2, <2>3, <2>4
  <2>5. CASE n # 1
    BY <2>2, <2>3, <2>5
  <2>6. QED
    BY <2>4, <2>5
<1>4. g[l] = l * c + r
  BY <1>1
<1> HIDE DEF g
<1>5. SumOf(t) = g[l]
  BY <1>1, <1>2, <1>3, SumIsAt DEF l
<1>6. QED
  BY <1>4, <1>5 DEF l

-----------------------------------------------------------------------------
\* The transactions of the legacy wallet

Kinds == {"p2pkh", "exchange", "p2cs", "proposal"}
OutputType == [kind : Kinds, change : BOOLEAN, value : Int]

LEMMA OutputSizes ==
  ASSUME NEW kind \in Kinds
  PROVE  OutputSize(kind) \in Int /\ 34 <= OutputSize(kind) /\ OutputSize(kind) <= 60
BY DEF Kinds, OutputSize, ScriptSize, VarIntSize

LEMMA Costs ==
  ASSUME NEW kind \in Kinds
  PROVE  /\ CostOf(kind) \in Nat /\ CostOf(kind) = OutputSize(kind) * MIN_FEE_PER_BYTE
         /\ CostOf(kind) <= CostOf("p2cs") /\ CostOf("p2cs") \in Nat \ {0}
<1> DEFINE m == MIN_FEE_PER_BYTE
<1>1. m \in Nat /\ m >= 1
  BY CreationAssumption
<1>2. OutputSize("p2pkh") = 34 /\ OutputSize("exchange") = 35 /\ OutputSize("p2cs") = 60
        /\ OutputSize("proposal") = 43
  BY DEF OutputSize, ScriptSize, VarIntSize
<1> HIDE DEF m
<1>3. /\ 34 * m \in Nat /\ 35 * m \in Nat /\ 43 * m \in Nat /\ 60 * m \in Nat \ {0}
      /\ 34 * m <= 60 * m /\ 35 * m <= 60 * m /\ 43 * m <= 60 * m
  BY <1>1
<1>4. QED
  BY <1>2, <1>3 DEF m, CostOf, Kinds

LEMMA Division ==
  ASSUME NEW a \in Nat, NEW n \in Nat \ {0}
  PROVE  /\ a \div n \in Nat /\ a % n \in Nat /\ n * (a \div n) + (a % n) = a
         /\ a >= n => a \div n >= 1
<1>1. a \div n \in Int /\ a % n \in Int /\ a \in Int /\ n \in Int /\ n > 0
  OBVIOUS
<1>2. 0 <= a % n /\ a % n < n
  OBVIOUS
<1>3. PICK q \in Int, r \in Int : q = a \div n /\ r = a % n
  BY <1>1
<1>4. n * q + r = a
  <2>1. a % n = a - n * (a \div n)
    BY <1>1, Z3
  <2>2. r = a - n * q
    BY <1>3, <2>1
  <2>3. QED
    BY <1>1, <2>2
<1>5. 0 <= r /\ r < n
  BY <1>2, <1>3
<1>6. q >= 0 /\ (a >= n => q >= 1)
  BY <1>4, <1>5
<1>7. QED
  BY <1>3, <1>4, <1>5, <1>6

LEMMA UtxosType ==
  ASSUME NEW o \in OrderType
  PROVE  GetUTXOs(o) \in Seq(CoinType)
<1> DEFINE l == Len(o.coins)
           Next1(n, u) == IF Spendable(o, o.coins[n]) /\ ~Enough(o, u) THEN Append(u, o.coins[n]) ELSE u
           Takes(f) == f = [n \in 0 .. l |-> IF n = 0 THEN <<>> ELSE Next1(n, f[n - 1])]
           f == CHOOSE f : Takes(f)
           step == [p \in (1 .. l) \X Seq(CoinType) |-> Next1(p[1], p[2])]
<1>1. l \in Nat /\ \A n \in 1 .. l : o.coins[n] \in CoinType
  BY DEF OrderType
<1>2. GetUTXOs(o) = f[l]
  BY DEF GetUTXOs
<1>3. \A n \in 1 .. l, u \in Seq(CoinType) : Next1(n, u) \in Seq(CoinType)
  BY <1>1
<1> HIDE DEF l, Next1
<1>4. step \in [(1 .. l) \X Seq(CoinType) -> Seq(CoinType)]
  BY <1>3
<1>5. \A n \in 1 .. l, u \in Seq(CoinType) : step[<< n, u >>] = Next1(n, u)
  OBVIOUS
<1> HIDE DEF step
<1>6. PICK g \in [0 .. l -> Seq(CoinType)] : Loop(g, l, <<>>, step)
  <2>1. <<>> \in Seq(CoinType)
    OBVIOUS
  <2>2. QED
    BY <1>1, <1>4, <2>1, LoopExists
<1>7. g[0] = <<>> /\ \A n \in 1 .. l : g[n] = Next1(n, g[n - 1])
  <2>1. \A n \in 1 .. l : g[n - 1] \in Seq(CoinType)
    BY <1>1
  <2>2. QED
    BY <1>5, <1>6, <2>1 DEF Loop
<1>8. Takes(g)
  <2>1. \A n \in 0 .. l : g[n] = IF n = 0 THEN <<>> ELSE Next1(n, g[n - 1])
    <3> TAKE n \in 0 .. l
    <3>1. n # 0 => n \in 1 .. l
      BY <1>1
    <3>2. QED
      BY <1>7, <3>1
  <2> DEFINE h == [n \in 0 .. l |-> IF n = 0 THEN <<>> ELSE Next1(n, g[n - 1])]
  <2>2. DOMAIN g = DOMAIN h /\ \A n \in 0 .. l : g[n] = h[n]
    BY <2>1
  <2>3. g = [n \in 0 .. l |-> g[n]] /\ h = [n \in 0 .. l |-> h[n]]
    OBVIOUS
  <2>4. QED
    BY <2>2, <2>3
<1>9. Takes(f)
  BY <1>8
<1> HIDE DEF f
<1>10. f[0] = <<>> /\ \A n \in 1 .. l : f[n] = Next1(n, f[n - 1])
  <2>1. \A n \in 1 .. l : n \in 0 .. l /\ n # 0
    BY <1>1
  <2>2. QED
    BY <1>1, <1>9, <2>1
<1> HIDE DEF Takes
<1> DEFINE T == {n \in Nat : n <= l => f[n] \in Seq(CoinType)}
<1>11. 0 \in T
  <2>1. <<>> \in Seq(CoinType)
    OBVIOUS
  <2>2. QED
    BY <1>10, <2>1
<1>12. ASSUME NEW n \in T PROVE n + 1 \in T
  <2> SUFFICES ASSUME n + 1 <= l PROVE f[n + 1] \in Seq(CoinType)
    OBVIOUS
  <2>1. n + 1 \in 1 .. l /\ (n + 1) - 1 = n /\ f[n] \in Seq(CoinType)
    BY <1>1
  <2>2. QED
    BY <1>3, <1>10, <2>1
<1>13. l \in T
  <2> HIDE DEF T
  <2>1. T \in SUBSET Nat
    BY DEF T
  <2>2. QED
    BY <1>1, <1>11, <1>12, <2>1, Induction
<1>14. QED
  BY <1>1, <1>2, <1>13

\* Outputs, and what they are worth and measure.
LEMMA OutputSums ==
  ASSUME NEW v \in Seq(OutputType)
  PROVE  /\ Values(v) \in Seq(Int) /\ Len(Values(v)) = Len(v)
         /\ Sizes(v) \in Seq(Int) /\ Len(Sizes(v)) = Len(v)
         /\ Sent(v) \in Seq(Int) /\ Len(Sent(v)) = Len(v)
<1>1. Len(v) \in Nat /\ \A n \in 1 .. Len(v) : v[n] \in OutputType
  OBVIOUS
<1>2. \A n \in 1 .. Len(v) : v[n].value \in Int /\ OutputSize(v[n].kind) \in Int
  <2>1. \A n \in 1 .. Len(v) : v[n].value \in Int /\ v[n].kind \in Kinds
    BY <1>1 DEF OutputType
  <2>2. \A kind \in Kinds : OutputSize(kind) \in Int
    BY OutputSizes, Zenon
  <2>3. QED
    BY <2>1, <2>2
<1>3. QED
  BY <1>1, <1>2 DEF Values, Sizes, Sent

LEMMA OutputAdded ==
  ASSUME NEW v \in Seq(OutputType), NEW out \in OutputType
  PROVE  LET w == Append(v, out) IN
         /\ w \in Seq(OutputType) /\ Len(w) = Len(v) + 1
         /\ SumOf(Values(w)) = SumOf(Values(v)) + out.value
         /\ SumOf(Sizes(w)) = SumOf(Sizes(v)) + OutputSize(out.kind)
         /\ SumOf(Sent(w)) = SumOf(Sent(v)) + IF out.change THEN 0 ELSE out.value
<1> DEFINE w == Append(v, out)
           l == Len(v)
           sent == IF out.change THEN 0 ELSE out.value
<1>1. /\ l \in Nat /\ w \in Seq(OutputType) /\ Len(w) = l + 1 /\ w[l + 1] = out
      /\ \A n \in 1 .. l : w[n] = v[n]
  OBVIOUS
<1>2. out.value \in Int /\ OutputSize(out.kind) \in Int /\ sent \in Int
  <2>1. out.value \in Int /\ out.kind \in Kinds
    BY DEF OutputType
  <2>2. OutputSize(out.kind) \in Int
    BY <2>1, OutputSizes
  <2>3. sent = 0 \/ sent = out.value
    OBVIOUS
  <2> HIDE DEF sent
  <2>4. sent \in Int
    BY <2>1, <2>3
  <2>5. QED
    BY <2>1, <2>2, <2>4
<1>3. /\ Values(v) \in Seq(Int) /\ Len(Values(v)) = l /\ Sizes(v) \in Seq(Int) /\ Len(Sizes(v)) = l
      /\ Sent(v) \in Seq(Int) /\ Len(Sent(v)) = l
      /\ Values(w) \in Seq(Int) /\ Len(Values(w)) = l + 1
      /\ Sizes(w) \in Seq(Int) /\ Len(Sizes(w)) = l + 1
      /\ Sent(w) \in Seq(Int) /\ Len(Sent(w)) = l + 1
  BY <1>1, OutputSums
<1>4. /\ Values(w)[l + 1] = out.value /\ \A n \in 1 .. l : Values(w)[n] = Values(v)[n]
      /\ Sizes(w)[l + 1] = OutputSize(out.kind) /\ \A n \in 1 .. l : Sizes(w)[n] = Sizes(v)[n]
      /\ Sent(w)[l + 1] = sent /\ \A n \in 1 .. l : Sent(w)[n] = Sent(v)[n]
  <2>1. \A n \in 1 .. l : n \in 1 .. l + 1
    BY <1>1
  <2>2. QED
    BY <1>1, <2>1 DEF Values, Sizes, Sent
<1> HIDE DEF w, l, sent
<1>5. ASSUME NEW s \in Seq(Int), NEW t \in Seq(Int), NEW x \in Int,
             Len(s) = l, Len(t) = l + 1, t[l + 1] = x, \A n \in 1 .. l : t[n] = s[n]
      PROVE  SumOf(t) = SumOf(s) + x
  <2>1. t = Append(s, x)
    BY <1>1, <1>5
  <2>2. QED
    BY <2>1, SumOfAppend
<1>6. QED
  BY <1>1, <1>2, <1>3, <1>4, <1>5 DEF w, l, sent

\* A builder with inputs u and outputs v, before any change.
Fresh(u, v) == [at |-> "asked", ins |-> u, vout |-> v, shieldOutputs |-> 0, handledFee |-> 0]
Asked(o, v) ==
  /\ v \in Seq(OutputType) /\ Len(v) >= 1 /\ SumOf(Values(v)) = o.value
  /\ \A n \in 1 .. Len(v) : ~v[n].change

LEMMA OneOutput ==
  ASSUME NEW o \in OrderType, NEW kind \in Kinds
  PROVE  \E v : AddScript(Builder, kind, o.value, FALSE) = Fresh(<<>>, v) /\ Asked(o, v)
<1> DEFINE out == [kind |-> kind, change |-> FALSE, value |-> o.value - 0]
           v == Append(<<>>, out)
<1>1. o.value \in Nat /\ out.value = o.value /\ ~out.change
  BY DEF OrderType
<1>2. out \in OutputType
  BY <1>1 DEF OutputType
<1>3. AddScript(Builder, kind, o.value, FALSE) = Fresh(<<>>, v)
  <2> DEFINE a == AddScript(Builder, kind, o.value, FALSE)
             b == Fresh(<<>>, v)
             fields == {"at", "ins", "vout", "shieldOutputs", "handledFee"}
  <2>1. DOMAIN a = fields /\ DOMAIN b = fields /\ \A x \in fields : a[x] = b[x]
    <3>1. DOMAIN a = fields /\ DOMAIN b = fields
      BY DEF AddScript, Builder, Fresh
    <3>2. a.at = "asked" /\ a.ins = <<>> /\ a.shieldOutputs = 0
      BY DEF AddScript, Builder
    <3>3. a.handledFee = 0
      BY DEF AddScript, Builder
    <3>4. a.vout = v
      BY DEF AddScript, Builder
    <3> HIDE DEF a, v
    <3>5. QED
      BY <3>1, <3>2, <3>3, <3>4 DEF Fresh
  <2>2. a = [x \in DOMAIN a |-> a[x]] /\ b = [x \in DOMAIN b |-> b[x]]
    BY DEF AddScript, Builder, Fresh
  <2> HIDE DEF a, b
  <2>3. a = b
    BY <2>1, <2>2
  <2>4. QED
    BY <2>3 DEF a, b
<1>4. v \in Seq(OutputType) /\ Len(v) = 1 /\ v[1] = out
  BY <1>2
<1> HIDE DEF out, v
<1>5. Values(v) \in Seq(Int) /\ Len(Values(v)) = 1
  BY <1>4, OutputSums
<1>6. Values(v)[1] = o.value
  BY <1>1, <1>4 DEF Values
<1>7. SumOf(Values(v)) = 1 * o.value + 0
  <2>1. o.value \in Int /\ 0 \in Int /\ Len(Values(v)) >= 1 /\ Equal(Values(v), o.value, 0)
    BY <1>1, <1>5, <1>6 DEF Equal
  <2>2. SumOf(Values(v)) = Len(Values(v)) * o.value + 0
    BY <1>5, <2>1, SumOfEqual
  <2>3. QED
    BY <1>5, <2>2
<1>8. Asked(o, v)
  BY <1>1, <1>4, <1>7 DEF Asked
<1>9. QED
  BY <1>3, <1>8

LEMMA SplitOutputs ==
  ASSUME NEW o \in OrderType, o.value >= StakeSplitTarget
  PROVE  \E v : Delegations(Builder, o.value) = Fresh(<<>>, v) /\ Asked(o, v)
<1> DEFINE t == StakeSplitTarget
           worth(k) == t + IF k = 1 THEN o.value % t ELSE 0
           out(k) == [kind |-> "p2cs", change |-> FALSE, value |-> worth(k) - 0]
           l == o.value \div t
           v == [k \in 1 .. l |-> AddColdStakeOutput(Builder, worth(k), FALSE).vout[1]]
<1>1. o.value \in Nat /\ t \in Nat \ {0} /\ ~(o.value < t)
  BY CreationAssumption DEF OrderType
<1>2. l \in Nat /\ l >= 1 /\ o.value % t \in Nat /\ t * l + (o.value % t) = o.value
  BY <1>1, Division
<1>3. Delegations(Builder, o.value) = Fresh(<<>>, v)
  BY <1>1 DEF Delegations, Builder, Fresh
<1>4. \A k : AddColdStakeOutput(Builder, worth(k), FALSE).vout[1] = out(k)
  BY DEF AddColdStakeOutput, AddScript, Builder
<1> HIDE DEF t, l
<1>5. \A k \in 1 .. l : worth(k) \in Nat
  BY <1>1, <1>2
<1>6. \A k \in 1 .. l : /\ v[k] = out(k) /\ v[k].value = worth(k) /\ ~v[k].change
                        /\ v[k] \in OutputType
  <2> TAKE k \in 1 .. l
  <2>1. v[k] = out(k)
    BY <1>4
  <2> HIDE DEF v
  <2>2. worth(k) - 0 = worth(k) /\ worth(k) \in Int
    BY <1>5
  <2> HIDE DEF worth
  <2>3. out(k) \in OutputType
    BY <2>2 DEF OutputType, Kinds
  <2>4. QED
    BY <2>1, <2>2, <2>3
<1>7. v \in Seq(OutputType) /\ Len(v) = l
  <2>1. DOMAIN v = 1 .. l /\ v = [k \in 1 .. l |-> v[k]]
    OBVIOUS
  <2> HIDE DEF v
  <2>2. QED
    BY <1>2, <1>6, <2>1
<1> HIDE DEF v
<1>8. SumOf(Values(v)) = l * t + (o.value % t)
  <2>1. Values(v) \in Seq(Int) /\ Len(Values(v)) = l
    BY <1>7, OutputSums
  <2>2. \A n \in 1 .. l : Values(v)[n] = worth(n)
    BY <1>6, <1>7 DEF Values
  <2>3. Equal(Values(v), t, o.value % t)
    BY <2>1, <2>2 DEF Equal
  <2>4. t \in Int /\ o.value % t \in Int /\ Len(Values(v)) >= 1
    BY <1>1, <1>2, <2>1
  <2>5. QED
    BY <2>1, <2>3, <2>4, SumOfEqual
<1>9. l * t = t * l
  BY <1>1, <1>2
<1>10. QED
  BY <1>2, <1>3, <1>6, <1>7, <1>8, <1>9 DEF Asked

\* What is sent is worth what was asked for, in one output or many.
LEMMA PrimaryOutputs ==
  ASSUME NEW o \in OrderType, o.to # "shield"
  PROVE  \E v : PrimaryOutput(o) = Fresh(<<>>, v) /\ Asked(o, v)
<1>1. o.purpose \in {"send", "delegation", "proposal"} /\ o.to \in {"p2pkh", "exchange"}
  BY DEF OrderType
<1>2. /\ "p2pkh" \in Kinds /\ "exchange" \in Kinds /\ "p2cs" \in Kinds /\ "proposal" \in Kinds
  BY DEF Kinds
<1>3. CASE o.purpose = "delegation" /\ o.value >= StakeSplitTarget
  BY <1>3, SplitOutputs DEF PrimaryOutput
<1>4. CASE o.purpose = "delegation" /\ ~(o.value >= StakeSplitTarget)
  <2>1. o.value < StakeSplitTarget
    BY <1>4, CreationAssumption DEF OrderType
  <2>2. PrimaryOutput(o) = AddScript(Builder, "p2cs", o.value, FALSE)
    BY <1>4, <2>1 DEF PrimaryOutput, Delegations, AddColdStakeOutput
  <2>3. QED
    BY <1>2, <2>2, OneOutput
<1>5. CASE o.purpose = "proposal"
  <2>1. PrimaryOutput(o) = AddScript(Builder, "proposal", o.value, FALSE)
    BY <1>5 DEF PrimaryOutput
  <2>2. QED
    BY <1>2, <2>1, OneOutput
<1>6. CASE o.purpose = "send"
  <2>1. PrimaryOutput(o) = AddScript(Builder, o.to, o.value, FALSE)
    BY <1>1, <1>6 DEF PrimaryOutput, AddOutput
  <2>2. o.to \in Kinds
    BY <1>1, <1>2
  <2>3. QED
    BY <2>1, <2>2, OneOutput
<1>7. QED
  BY <1>1, <1>3, <1>4, <1>5, <1>6

FeeOf(t) == ValueIn(t) - ValueOut(t)
SizeOf(t) == TransactionSize(t.ins, t.vout)
Lengthens(t) ==
  /\ VarIntSize(Len(t.vout)) > VarIntSize(Len(t.vout) - 1)
  /\ \E k \in 1 .. Len(t.vout) : t.vout[k].change
Price(size) == size * MIN_FEE_PER_BYTE
PaysFee(t) ==
  /\ FeeOf(t) >= Price(SizeOf(t) - IF Lengthens(t) THEN 2 ELSE 0)
  /\ FeeOf(t) < Price(SizeOf(t)) + CostOf("p2cs")
Arrives(o, t) ==
  /\ \/ SumOf(Sent(t.vout)) = o.value
     \/ /\ SumOf(Sent(t.vout)) < o.value /\ o.subtractFeeFromAmt
        /\ FeeOf(t) = Price(SizeOf(t))
        /\ \A k \in 1 .. Len(t.vout) : ~t.vout[k].change
  /\ \A k \in 1 .. Len(t.vout) : t.vout[k].change => t.vout[k].value >= 0

\* The size of a transaction is that of its outputs and of what does not depend on them.
Rest(u) == 4 + VarIntSize(Len(u)) + Len(u) * InputSize

LEMMA InputsType ==
  ASSUME NEW u \in Seq(CoinType)
  PROVE  SumOf(Values(u)) \in Int /\ Rest(u) \in Int
<1>1. Len(u) \in Nat /\ \A n \in 1 .. Len(u) : u[n].value \in Int
  <2>1. Len(u) \in Nat /\ \A n \in 1 .. Len(u) : u[n] \in CoinType
    OBVIOUS
  <2>2. QED
    BY <2>1 DEF CoinType
<1>2. Values(u) \in Seq(Int)
  BY <1>1 DEF Values
<1>3. InputSize = 149
  BY DEF InputSize, SCRIPT_SIG_MAX_SIZE, VarIntSize
<1>4. Len(u) * 149 \in Int /\ VarIntSize(Len(u)) \in Int
  BY <1>1 DEF VarIntSize
<1>5. QED
  BY <1>2, <1>3, <1>4, SumType DEF Rest

LEMMA SizeIs ==
  ASSUME NEW u \in Seq(CoinType), NEW v \in Seq(OutputType)
  PROVE  /\ TransactionSize(u, v) = Rest(u) + VarIntSize(Len(v)) + SumOf(Sizes(v)) + 4
         /\ TransactionSize(u, v) \in Int
         /\ SumOf(Sizes(v)) \in Int /\ VarIntSize(Len(v)) \in Int
         /\ SumOf(Values(v)) \in Int /\ SumOf(Sent(v)) \in Int
<1>1. Rest(u) \in Int
  BY InputsType
<1>2. Len(v) \in Nat /\ VarIntSize(Len(v)) \in Int
  BY DEF VarIntSize
<1>3. SumOf(Sizes(v)) \in Int /\ SumOf(Values(v)) \in Int /\ SumOf(Sent(v)) \in Int
  BY OutputSums, SumType
<1>4. TransactionSize(u, v) = Rest(u) + VarIntSize(Len(v)) + SumOf(Sizes(v)) + 4
  BY DEF TransactionSize, Rest
<1>5. QED
  BY <1>1, <1>2, <1>3, <1>4

LEMMA NothingIsChange ==
  ASSUME NEW v \in Seq(OutputType), \A n \in 1 .. Len(v) : ~v[n].change
  PROVE  Sent(v) = Values(v)
BY DEF Sent, Values

LEMMA CountLengthens ==
  ASSUME NEW n \in Nat
  PROVE  /\ VarIntSize(n) \in Int /\ VarIntSize(n + 1) \in Int
         /\ VarIntSize(n + 1) - VarIntSize(n) \in {0, 2}
BY DEF VarIntSize

LEMMA Prices ==
  ASSUME NEW a \in Int, NEW b \in Int
  PROVE  /\ Price(a) \in Int /\ Price(b) \in Int /\ Price(a + b) = Price(a) + Price(b)
         /\ Price(2) \in Nat
BY CreationAssumption DEF Price

LEMMA CostIsPrice == ASSUME NEW kind PROVE CostOf(kind) = Price(OutputSize(kind))
BY DEF CostOf, Price

\* Without a change that is worth adding: what the fee exceeds the size by is dust.
LEMMA WithoutChange ==
  ASSUME NEW o \in OrderType, NEW u \in Seq(CoinType), NEW v, Asked(o, v),
         NEW t, t.ins = u, t.vout = v,
         NEW dust \in Int, 0 <= dust, dust < CostOf("p2cs"),
         dust = SumOf(Values(u)) - o.value - Price(TransactionSize(u, v))
  PROVE  PaysFee(t) /\ Arrives(o, t)
<1> DEFINE size == TransactionSize(u, v)
<1>1. v \in Seq(OutputType) /\ SumOf(Values(v)) = o.value /\ \A n \in 1 .. Len(v) : ~v[n].change
  BY DEF Asked
<1>2. size \in Int /\ Price(size) \in Int /\ o.value \in Int /\ SumOf(Values(u)) \in Int
        /\ CostOf("p2cs") \in Int
  <2>1. "p2cs" \in Kinds
    BY DEF Kinds
  <2>2. o.value \in Int
    BY DEF OrderType
  <2>3. size \in Int /\ SumOf(Values(u)) \in Int
    BY <1>1, SizeIs, InputsType
  <2>4. CostOf("p2cs") \in Int
    BY <2>1, Costs
  <2>5. QED
    BY <2>2, <2>3, <2>4, Prices
<1>3. SumOf(Sent(v)) = o.value
  BY <1>1, NothingIsChange
<1>4. FeeOf(t) = SumOf(Values(u)) - o.value /\ SizeOf(t) = size
  BY <1>1 DEF FeeOf, SizeOf, ValueIn, ValueOut
<1>5. ~Lengthens(t)
  <2> SUFFICES ASSUME Lengthens(t) PROVE FALSE
    OBVIOUS
  <2>1. PICK k \in 1 .. Len(t.vout) : t.vout[k].change
    BY DEF Lengthens
  <2>2. QED
    BY <1>1, <2>1
<1>6. Arrives(o, t)
  BY <1>1, <1>3 DEF Arrives
<1>7. SizeOf(t) - (IF Lengthens(t) THEN 2 ELSE 0) = size
  BY <1>2, <1>4, <1>5
<1> HIDE DEF size
<1>8. FeeOf(t) = Price(size) + dust
  BY <1>2, <1>4 DEF size
<1>9. FeeOf(t) >= Price(size) /\ FeeOf(t) < Price(size) + CostOf("p2cs")
  BY <1>2, <1>8
<1>10. QED
  BY <1>4, <1>6, <1>7, <1>9 DEF PaysFee

LEMMA ChangeIsAdded ==
  ASSUME NEW o, NEW b, NEW value
  PROVE  \E kind \in Kinds : Change(o, b, value) = AddScript(b, kind, value, TRUE)
<1>1. "p2cs" \in Kinds /\ "p2pkh" \in Kinds
  BY DEF Kinds
<1>2. Change(o, b, value) = AddScript(b, "p2cs", value, TRUE)
        \/ Change(o, b, value) = AddScript(b, "p2pkh", value, TRUE)
  BY DEF Change, AddColdStakeOutput, AddOutput
<1>3. QED
  BY <1>1, <1>2

Adds(t, u, v, out) == t.ins = u /\ t.vout = Append(v, out)

\* With a change, which pays for its own bytes.
LEMMA WithChange ==
  ASSUME NEW o \in OrderType, NEW u \in Seq(CoinType), NEW v, Asked(o, v),
         NEW change \in Int, NEW out \in OutputType, change >= CostOf(out.kind),
         out.value = change - CostOf(out.kind), out.change,
         change = SumOf(Values(u)) - o.value - Price(TransactionSize(u, v)),
         NEW t, Adds(t, u, v, out)
  PROVE  PaysFee(t) /\ Arrives(o, t)
<1> DEFINE size == TransactionSize(u, v)
           kind == out.kind
           w == Append(v, out)
           e == OutputSize(kind)
           d == VarIntSize(Len(v) + 1) - VarIntSize(Len(v))
<1>1. v \in Seq(OutputType) /\ SumOf(Values(v)) = o.value /\ \A n \in 1 .. Len(v) : ~v[n].change
  BY DEF Asked
<1>2. /\ size \in Int /\ o.value \in Int /\ SumOf(Values(u)) \in Int /\ e \in Int
      /\ CostOf(kind) \in Nat /\ CostOf(kind) <= CostOf("p2cs") /\ CostOf("p2cs") \in Nat \ {0}
      /\ Price(size) \in Int
  <2>1. size \in Int /\ SumOf(Values(u)) \in Int
    BY <1>1, SizeIs, InputsType
  <2>2. kind \in Kinds
    BY DEF OutputType
  <2> HIDE DEF kind
  <2>3. e \in Int
    BY <2>2, OutputSizes
  <2>4. o.value \in Int
    BY DEF OrderType
  <2>5. CostOf(kind) \in Nat /\ CostOf(kind) <= CostOf("p2cs") /\ CostOf("p2cs") \in Nat \ {0}
    BY <2>2, Costs
  <2> HIDE DEF e
  <2>6. QED
    BY <2>1, <2>3, <2>4, <2>5, Prices
<1>3. out \in OutputType /\ out.value = change - CostOf(kind) /\ out.value >= 0 /\ out.change
  BY <1>2
<1> HIDE DEF kind
<1>4. /\ w \in Seq(OutputType) /\ Len(w) = Len(v) + 1
      /\ SumOf(Values(w)) = o.value + (change - CostOf(kind))
      /\ SumOf(Sizes(w)) = SumOf(Sizes(v)) + e
      /\ SumOf(Sent(w)) = SumOf(Sent(v)) + 0
  BY <1>1, <1>3, OutputAdded DEF kind
<1>5. t.ins = u /\ t.vout = w
  BY DEF Adds
<1>6. w[Len(v) + 1] = out /\ Len(v) \in Nat /\ \A n \in 1 .. Len(v) : w[n] = v[n]
  BY <1>1, <1>3
<1> HIDE DEF w
<1>7. SumOf(Sent(w)) = o.value
  <2>1. Sent(v) = Values(v)
    BY <1>1, NothingIsChange
  <2>2. o.value + 0 = o.value
    BY <1>2
  <2>3. QED
    BY <1>1, <1>4, <2>1, <2>2
<1>8. Arrives(o, t)
  <2>1. \A k \in 1 .. Len(w) : w[k].change => w[k].value >= 0
    <3> TAKE k \in 1 .. Len(w)
    <3>1. CASE k = Len(v) + 1
      BY <1>3, <1>6, <3>1
    <3>2. CASE k # Len(v) + 1
      <4>1. k \in 1 .. Len(v)
        BY <1>4, <1>6, <3>2
      <4>2. ~w[k].change
        BY <1>1, <1>6, <4>1
      <4>3. QED
        BY <4>2
    <3>3. QED
      BY <3>1, <3>2
  <2>2. QED
    BY <1>5, <1>7, <2>1 DEF Arrives
<1>9. d \in {0, 2} /\ d = IF Lengthens(t) THEN 2 ELSE 0
  <2>1. Len(v) + 1 \in 1 .. Len(w) /\ w[Len(v) + 1].change /\ Len(w) - 1 = Len(v)
    BY <1>3, <1>4, <1>6
  <2>2. Lengthens(t) <=> VarIntSize(Len(v) + 1) > VarIntSize(Len(v))
    BY <1>4, <1>5, <2>1 DEF Lengthens
  <2>3. /\ VarIntSize(Len(v)) \in Int /\ VarIntSize(Len(v) + 1) \in Int
        /\ VarIntSize(Len(v) + 1) - VarIntSize(Len(v)) \in {0, 2}
    BY <1>6, CountLengthens
  <2>4. CASE VarIntSize(Len(v) + 1) - VarIntSize(Len(v)) = 0
    <3>1. ~Lengthens(t)
      BY <2>2, <2>3, <2>4
    <3>2. QED
      BY <2>4, <3>1
  <2>5. CASE VarIntSize(Len(v) + 1) - VarIntSize(Len(v)) = 2
    <3>1. Lengthens(t)
      BY <2>2, <2>3, <2>5
    <3>2. QED
      BY <2>5, <3>1
  <2>6. QED
    BY <2>3, <2>4, <2>5
<1>10. SizeOf(t) = size + e + d
  <2>1. /\ SizeOf(t) = Rest(u) + VarIntSize(Len(v) + 1) + (SumOf(Sizes(v)) + e) + 4
        /\ size = Rest(u) + VarIntSize(Len(v)) + SumOf(Sizes(v)) + 4
    BY <1>1, <1>4, <1>5, SizeIs DEF SizeOf
  <2>2. Rest(u) \in Int /\ VarIntSize(Len(v)) \in Int /\ VarIntSize(Len(v) + 1) \in Int
          /\ SumOf(Sizes(v)) \in Int
    BY <1>1, <1>6, CountLengthens, InputsType, SizeIs
  <2>3. d = VarIntSize(Len(v) + 1) - VarIntSize(Len(v))
    OBVIOUS
  <2>4. e \in Int
    BY <1>2
  <2> HIDE DEF size, e, d
  <2>5. \A a, b, c, s, x \in Int : a + c + (s + x) + 4 = (a + b + s + 4) + x + (c - b)
    OBVIOUS
  <2>6. Rest(u) + VarIntSize(Len(v) + 1) + (SumOf(Sizes(v)) + e) + 4
          = (Rest(u) + VarIntSize(Len(v)) + SumOf(Sizes(v)) + 4) + e
              + (VarIntSize(Len(v) + 1) - VarIntSize(Len(v)))
    BY <2>2, <2>4, <2>5
  <2>7. QED
    BY <2>1, <2>3, <2>6, Zenon
<1>11. FeeOf(t) = Price(size) + CostOf(kind)
  <2>1. FeeOf(t) = SumOf(Values(u)) - (o.value + (change - CostOf(kind)))
    BY <1>4, <1>5 DEF FeeOf, ValueIn, ValueOut
  <2>2. SumOf(Values(u)) \in Int /\ o.value \in Int /\ Price(size) \in Int /\ CostOf(kind) \in Int
    BY <1>2
  <2>3. change = SumOf(Values(u)) - o.value - Price(size)
    OBVIOUS
  <2> HIDE DEF size
  <2>4. \A a, b, c, p \in Int : a - (b + ((a - b - p) - c)) = p + c
    OBVIOUS
  <2>5. SumOf(Values(u)) - (o.value + ((SumOf(Values(u)) - o.value - Price(size)) - CostOf(kind)))
          = Price(size) + CostOf(kind)
    BY <2>2, <2>4
  <2>6. QED
    BY <2>1, <2>3, <2>5, Zenon
<1>12. CostOf(kind) = Price(e)
  BY CostIsPrice
<1> HIDE DEF size, e, d
<1>13. SizeOf(t) \in Int /\ SizeOf(t) - d = size + e /\ Price(size + e) = Price(size) + CostOf(kind)
  <2>1. SizeOf(t) \in Int /\ SizeOf(t) - d = size + e
    BY <1>2, <1>10, <1>9
  <2>2. Price(size + e) = Price(size) + Price(e)
    BY <1>2, Prices
  <2>3. QED
    BY <1>12, <2>1, <2>2
<1>14. Price(SizeOf(t)) \in Int /\ Price(SizeOf(t)) >= Price(size) + CostOf(kind)
  <2>1. CASE d = 0
    <3>1. SizeOf(t) = size + e
      BY <1>2, <1>13, <2>1
    <3>2. QED
      BY <1>2, <1>13, <3>1
  <2>2. CASE d = 2
    <3>1. SizeOf(t) = (size + e) + 2 /\ size + e \in Int
      BY <1>2, <1>13, <2>2
    <3>2. Price((size + e) + 2) = Price(size + e) + Price(2) /\ Price(2) \in Nat
      BY <3>1, Prices
    <3>3. QED
      BY <1>2, <1>13, <3>1, <3>2
  <2>3. QED
    BY <1>9, <2>1, <2>2
<1>15. PaysFee(t)
  <2>1. Price(SizeOf(t) - IF Lengthens(t) THEN 2 ELSE 0) = Price(size) + CostOf(kind)
    BY <1>9, <1>13
  <2>2. FeeOf(t) >= Price(size) + CostOf(kind) /\ FeeOf(t) < Price(SizeOf(t)) + CostOf("p2cs")
    BY <1>2, <1>11, <1>14
  <2>3. QED
    BY <2>1, <2>2 DEF PaysFee
<1>16. QED
  BY <1>8, <1>15

Subtracted(v, amount) ==
  [k \in 1 .. Len(v) |->
     [v[k] EXCEPT !.value =
        @ - (amount \div Len(v) + IF k = 1 THEN amount % Len(v) ELSE 0)]]

\* What is subtracted from the outputs adds up, whatever cannot be divided.
LEMMA OutputsSubtracted ==
  ASSUME NEW v \in Seq(OutputType), Len(v) >= 1, NEW amount \in Nat
  PROVE  LET w == Subtracted(v, amount) IN
         /\ w \in Seq(OutputType) /\ Len(w) = Len(v) /\ Sizes(w) = Sizes(v)
         /\ \A k \in 1 .. Len(v) : w[k].change = v[k].change
         /\ SumOf(Values(w)) = SumOf(Values(v)) - amount
<1> DEFINE w == Subtracted(v, amount)
           l == Len(v)
           q == amount \div l
           r == amount % l
           share(k) == q + IF k = 1 THEN r ELSE 0
<1>1. l \in Nat /\ l >= 1 /\ \A k \in 1 .. l : v[k] \in OutputType
  OBVIOUS
<1>2. q \in Nat /\ r \in Nat /\ l * q + r = amount
  BY <1>1, Division
<1>3. w = [k \in 1 .. l |-> [v[k] EXCEPT !.value = @ - share(k)]]
  BY DEF Subtracted
<1> HIDE DEF w, l, q, r
<1>4. ASSUME NEW k \in 1 .. l
      PROVE  /\ w[k] \in OutputType /\ w[k].change = v[k].change /\ w[k].kind = v[k].kind
             /\ w[k].value = v[k].value - share(k)
  <2>1. share(k) \in Int
    BY <1>2
  <2> HIDE DEF share
  <2>2. w[k] = [v[k] EXCEPT !.value = @ - share(k)]
    BY <1>3
  <2>3. v[k] \in OutputType /\ v[k].value - share(k) \in Int
    BY <1>1, <2>1 DEF OutputType
  <2>4. QED
    BY <2>2, <2>3 DEF OutputType
<1>5. w \in Seq(OutputType) /\ Len(w) = l
  <2>1. DOMAIN w = 1 .. l /\ w = [k \in 1 .. l |-> w[k]]
    BY <1>3
  <2>2. QED
    BY <1>1, <1>4, <2>1
<1>6. Sizes(w) = Sizes(v)
  BY <1>4, <1>5 DEF Sizes, l
<1>7. /\ Values(v) \in Seq(Int) /\ Len(Values(v)) = l /\ Values(w) \in Seq(Int) /\ Len(Values(w)) = l
  BY <1>5, OutputSums DEF l
<1>8. -q \in Int /\ -r \in Int
  BY <1>2
<1>9. Shifted(Values(v), Values(w), -q, -r)
  <2> SUFFICES ASSUME NEW k \in 1 .. l
               PROVE  Values(w)[k] = Values(v)[k] + (-q) + IF k = 1 THEN -r ELSE 0
    BY <1>7 DEF Shifted
  <2>1. Values(w)[k] = v[k].value - share(k) /\ Values(v)[k] = v[k].value
    BY <1>4, <1>5 DEF Values, l
  <2>2. v[k].value \in Int
    BY <1>1 DEF OutputType
  <2>3. CASE k = 1
    <3>1. share(k) = q + r
      BY <2>3
    <3>2. v[k].value - (q + r) = v[k].value + (-q) + (-r)
      BY <1>2, <2>2
    <3>3. QED
      BY <2>1, <2>3, <3>1, <3>2
  <2>4. CASE k # 1
    <3>1. share(k) = q + 0
      BY <2>4
    <3>2. v[k].value - (q + 0) = v[k].value + (-q) + 0
      BY <1>2, <2>2
    <3>3. QED
      BY <2>1, <2>4, <3>1, <3>2
  <2>5. QED
    BY <2>3, <2>4
<1>10. SumOf(Values(w)) = SumOf(Values(v)) + l * (-q) + (-r)
  <2>1. Len(Values(w)) = Len(Values(v)) /\ Len(Values(v)) >= 1
    BY <1>1, <1>7
  <2>2. SumOf(Values(w)) = SumOf(Values(v)) + Len(Values(v)) * (-q) + (-r)
    BY <1>7, <1>8, <1>9, <2>1, SumOfShifted
  <2>3. QED
    BY <1>7, <2>2
<1>11. SumOf(Values(w)) = SumOf(Values(v)) - amount
  <2>1. SumOf(Values(v)) \in Int
    BY <1>7, SumType
  <2>2. \A s \in Int : s + l * (-q) + (-r) = s - (l * q + r)
    BY <1>1, <1>2
  <2>3. QED
    BY <1>2, <1>10, <2>1, <2>2
<1>12. QED
  BY <1>4, <1>5, <1>6, <1>11 DEF w, l

\* Where the fee is taken from what is sent.
LEMMA FeeTaken ==
  ASSUME NEW o \in OrderType, o.subtractFeeFromAmt, NEW u \in Seq(CoinType), NEW v, Asked(o, v),
         NEW owed \in Nat, owed > 0,
         owed = Price(TransactionSize(u, v)) - (SumOf(Values(u)) - o.value),
         NEW t, t.ins = u, t.vout = Subtracted(v, owed)
  PROVE  PaysFee(t) /\ Arrives(o, t)
<1> DEFINE size == TransactionSize(u, v)
           w == Subtracted(v, owed)
<1>1. v \in Seq(OutputType) /\ Len(v) >= 1 /\ SumOf(Values(v)) = o.value
        /\ \A n \in 1 .. Len(v) : ~v[n].change
  BY DEF Asked
<1>2. /\ size \in Int /\ Price(size) \in Int /\ o.value \in Int /\ SumOf(Values(u)) \in Int
      /\ CostOf("p2cs") \in Int /\ CostOf("p2cs") > 0
  <2>1. "p2cs" \in Kinds
    BY DEF Kinds
  <2>2. o.value \in Int
    BY DEF OrderType
  <2>3. size \in Int /\ SumOf(Values(u)) \in Int
    BY <1>1, SizeIs, InputsType
  <2>4. CostOf("p2cs") \in Nat \ {0}
    BY <2>1, Costs
  <2> HIDE DEF size
  <2>5. Price(size) \in Int
    BY <2>3, Prices
  <2>6. CostOf("p2cs") \in Int /\ CostOf("p2cs") > 0
    BY <2>4
  <2>7. QED
    BY <2>2, <2>3, <2>5, <2>6
<1>3. /\ w \in Seq(OutputType) /\ Len(w) = Len(v) /\ Sizes(w) = Sizes(v)
      /\ \A k \in 1 .. Len(v) : w[k].change = v[k].change
      /\ SumOf(Values(w)) = o.value - owed
  BY <1>1, OutputsSubtracted
<1>4. \A k \in 1 .. Len(w) : ~w[k].change
  BY <1>1, <1>3
<1> HIDE DEF w
<1>5. t.ins = u /\ t.vout = w
  BY DEF w
<1>6. SizeOf(t) = size
  BY <1>3, <1>5 DEF SizeOf, TransactionSize
<1>7. FeeOf(t) = SumOf(Values(u)) - (o.value - owed)
  BY <1>3, <1>5 DEF FeeOf, ValueIn, ValueOut
<1>8. FeeOf(t) = Price(size)
  <2>1. owed = Price(size) - (SumOf(Values(u)) - o.value)
    OBVIOUS
  <2> HIDE DEF size
  <2>2. \A a, b, p \in Int : a - (b - (p - (a - b))) = p
    OBVIOUS
  <2>3. SumOf(Values(u)) - (o.value - (Price(size) - (SumOf(Values(u)) - o.value))) = Price(size)
    BY <1>2, <2>2
  <2>4. QED
    BY <1>7, <2>1, <2>3, Zenon
<1>9. SumOf(Sent(w)) = o.value - owed /\ o.value - owed < o.value
  <2>1. Sent(w) = Values(w)
    BY <1>3, <1>4, NothingIsChange
  <2>2. o.value - owed < o.value
    BY <1>2
  <2>3. QED
    BY <1>3, <2>1, <2>2
<1>10. Arrives(o, t)
  BY <1>4, <1>5, <1>6, <1>8, <1>9 DEF Arrives
<1>11. ~Lengthens(t)
  <2> SUFFICES ASSUME Lengthens(t) PROVE FALSE
    OBVIOUS
  <2>1. PICK k \in 1 .. Len(t.vout) : t.vout[k].change
    BY DEF Lengthens
  <2>2. QED
    BY <1>4, <1>5, <2>1
<1> HIDE DEF size
<1>12. SizeOf(t) - (IF Lengthens(t) THEN 2 ELSE 0) = size
  <2>1. size - 0 = size
    BY <1>2
  <2>2. QED
    BY <1>6, <1>11, <2>1
<1>13. Price(size) < Price(size) + CostOf("p2cs") /\ Price(size) >= Price(size)
  BY <1>2
<1>14. QED
  BY <1>6, <1>8, <1>10, <1>12, <1>13 DEF PaysFee

LEMMA SettlesExactly ==
  ASSUME NEW o \in OrderType, NEW u \in Seq(CoinType), NEW v, Asked(o, v),
         Settle(o, Fresh(u, v)).at = "built"
  PROVE  PaysFee(Settle(o, Fresh(u, v))) /\ Arrives(o, Settle(o, Fresh(u, v)))
<1> DEFINE b == Fresh(u, v)
           t == Settle(o, b)
           change == ValueIn(b) - ValueOut(b) - GetFee(b)
           size == TransactionSize(u, v)
<1>1. v \in Seq(OutputType) /\ Len(v) >= 1 /\ SumOf(Values(v)) = o.value
  BY DEF Asked
<1>2. b.ins = u /\ b.vout = v /\ b.handledFee = 0 /\ b.at = "asked"
  BY DEF Fresh
<1>3. t.at = "built"
  OBVIOUS
<1>4. /\ t = CASE change > 0 -> Built(Change(o, b, change))
               [] change = 0 -> Built(b)
               [] change < 0 /\ o.subtractFeeFromAmt -> Built(EquallySubtractAmt(b, -change))
               [] OTHER -> Failed("Not enough balance")
  BY DEF Settle
<1>5. /\ Price(size) \in Int /\ o.value \in Int /\ SumOf(Values(u)) \in Int
  <2>1. size \in Int /\ SumOf(Values(u)) \in Int
    BY <1>1, SizeIs, InputsType
  <2>2. o.value \in Int
    BY DEF OrderType
  <2> HIDE DEF size
  <2>3. QED
    BY <2>1, <2>2, Prices
<1>6. change = SumOf(Values(u)) - o.value - Price(size) /\ change \in Int
  <2>1. ValueIn(b) = SumOf(Values(u)) /\ ValueOut(b) = o.value
    BY <1>1, <1>2 DEF ValueIn, ValueOut
  <2>2. GetFee(b) = Price(size) - 0
    BY <1>2 DEF GetFee, Price
  <2> HIDE DEF b, size
  <2>3. QED
    BY <1>5, <2>1, <2>2
<1> HIDE DEF b, t, change
<1>7. \A x : Built(x).ins = x.ins /\ Built(x).vout = x.vout
  BY DEF Built
<1>8. CostOf("p2cs") \in Int /\ CostOf("p2cs") > 0
  <2>1. "p2cs" \in Kinds
    BY DEF Kinds
  <2>2. QED
    BY <2>1, Costs
<1>9. CASE change = 0
  <2>1. t = Built(b)
    BY <1>4, <1>9
  <2>2. t.ins = u /\ t.vout = v
    BY <1>2, <1>7, <2>1
  <2>3. 0 <= change /\ change < CostOf("p2cs")
    BY <1>6, <1>8, <1>9
  <2> HIDE DEF size
  <2>4. change \in Int /\ change = SumOf(Values(u)) - o.value - Price(size)
    BY <1>6
  <2>5. PaysFee(t) /\ Arrives(o, t)
    BY <2>2, <2>3, <2>4, WithoutChange DEF size
  <2>6. QED
    BY <2>5 DEF t, b
<1>10. CASE change > 0
  <2>1. t = Built(Change(o, b, change))
    <3>1. change # 0 /\ ~(change < 0)
      BY <1>6, <1>10
    <3>2. QED
      BY <1>4, <1>10, <3>1
  <2>2. PICK kind \in Kinds : Change(o, b, change) = AddScript(b, kind, change, TRUE)
    BY ChangeIsAdded
  <2>3. CostOf(kind) \in Nat /\ CostOf(kind) <= CostOf("p2cs")
    BY Costs
  <2>4. CASE change < CostOf(kind)
    <3>1. Change(o, b, change) = b
      BY <2>2, <2>4 DEF AddScript, IsDust
    <3>2. t.ins = u /\ t.vout = v
      BY <1>2, <1>7, <2>1, <3>1
    <3>3. 0 <= change /\ change < CostOf("p2cs")
      BY <1>6, <1>8, <1>10, <2>3, <2>4
    <3>4. QED
      BY <1>6, <3>2, <3>3, WithoutChange DEF t, b
  <2>5. CASE ~(change < CostOf(kind))
    <3> DEFINE out == [kind |-> kind, change |-> TRUE, value |-> change - CostOf(kind)]
               a == AddScript(b, kind, change, TRUE)
    <3>1. change >= CostOf(kind) /\ change - CostOf(kind) \in Int
      BY <1>6, <2>3, <2>5
    <3>2. out \in OutputType /\ out.value = change - CostOf(out.kind) /\ out.change /\ out.kind = kind
      BY <3>1 DEF OutputType
    <3>3. a = [b EXCEPT !.vout = Append(@, out), !.handledFee = @ + CostOf(kind)]
      BY <2>5 DEF AddScript, IsDust
    <3>4. b \in [{"at", "ins", "vout", "shieldOutputs", "handledFee"} -> {b[x] : x \in DOMAIN b}]
      BY DEF b, Fresh
    <3> HIDE DEF out, a
    <3>5. a.ins = u /\ a.vout = Append(v, out)
      BY <1>2, <3>3, <3>4
    <3>6. Adds(t, u, v, out)
      BY <1>7, <2>1, <2>2, <3>5 DEF Adds, a
    <3>7. QED
      BY <1>6, <3>1, <3>2, <3>6, WithChange DEF t, b
  <2>6. QED
    BY <2>4, <2>5
<1>11. CASE change < 0 /\ o.subtractFeeFromAmt
  <2>1. t = Built(EquallySubtractAmt(b, -change))
    BY <1>4, <1>6, <1>11
  <2>2. PICK owed \in Nat : owed = -change
    BY <1>6, <1>11
  <2> DEFINE a == EquallySubtractAmt(b, owed)
             n == Len(b.vout)
             share(k) == owed \div n + IF k = 1 THEN (owed % n) ELSE 0
             less == [k \in 1 .. n |-> [b.vout[k] EXCEPT !.value = @ - share(k)]]
  <2>3. a = [b EXCEPT !.vout = less]
    BY DEF EquallySubtractAmt
  <2>4. less = Subtracted(v, owed)
    BY <1>2 DEF Subtracted
  <2>5. b \in [{"at", "ins", "vout", "shieldOutputs", "handledFee"} -> {b[x] : x \in DOMAIN b}]
    BY DEF b, Fresh
  <2> HIDE DEF less
  <2>6. a.ins = u /\ a.vout = less
    BY <1>2, <2>3, <2>5
  <2> HIDE DEF a
  <2>7. t = Built(a)
    BY <2>1, <2>2 DEF a
  <2>8. t.ins = u /\ t.vout = Subtracted(v, owed)
    BY <1>7, <2>4, <2>6, <2>7
  <2>9. owed > 0 /\ owed = Price(size) - (SumOf(Values(u)) - o.value)
    <3> HIDE DEF size
    <3>1. QED
      BY <1>5, <1>6, <1>11, <2>2
  <2>10. PaysFee(t) /\ Arrives(o, t)
    BY <1>11, <2>8, <2>9, FeeTaken
  <2>11. QED
    BY <2>10 DEF t, b
<1>12. CASE change < 0 /\ ~o.subtractFeeFromAmt
  <2>1. t = Failed("Not enough balance")
    <3>1. change # 0 /\ ~(change > 0)
      BY <1>6, <1>12
    <3>2. QED
      BY <1>4, <1>12, <3>1
  <2>2. t.at = "Not enough balance"
    BY <2>1 DEF Failed, Builder
  <2>3. QED
    BY <1>3, <2>2
<1>13. QED
  BY <1>6, <1>9, <1>10, <1>11, <1>12

LEMMA CreatesExactly ==
  ASSUME NEW o \in OrderType, CreateTransaction(o).at = "built", ~IsShieldTx(o)
  PROVE  PaysFee(CreateTransaction(o)) /\ Arrives(o, CreateTransaction(o))
<1> DEFINE u == GetUTXOs(o)
<1>1. ~o.useShieldInputs /\ o.to # "shield"
  BY DEF IsShieldTx
<1>2. PICK v : PrimaryOutput(o) = Fresh(<<>>, v) /\ Asked(o, v)
  BY <1>1, PrimaryOutputs
<1>3. u \in Seq(CoinType)
  BY UtxosType
<1>4. \A why : Failed(why).at = why
  BY DEF Failed, Builder
<1>5. CreateTransaction(o) = Settle(o, [PrimaryOutput(o) EXCEPT !.ins = u])
  <2>1. ~(Balance(o) < o.value) /\ ~(o.delegateChange /\ ~o.changeDelegationAddress)
          /\ ~(o.purpose = "delegation" /\ o.value < COIN)
    BY <1>4 DEF CreateTransaction
  <2>2. QED
    BY <1>1, <2>1 DEF CreateTransaction
<1> HIDE DEF u
<1>6. [PrimaryOutput(o) EXCEPT !.ins = u] = Fresh(u, v)
  BY <1>2 DEF Fresh
<1>7. CreateTransaction(o) = Settle(o, Fresh(u, v))
  BY <1>5, <1>6
<1>8. QED
  BY <1>2, <1>3, <1>7, SettlesExactly

CreationInv == order \in OrderType /\ (tx = Builder \/ tx = CreateTransaction(order))

LEMMA CreationIsExact == CreationInv => FeeIsPaid /\ AmountsArrive
<1> SUFFICES ASSUME CreationInv, Clear PROVE FeeIsPaid /\ AmountsArrive
  BY DEF FeeIsPaid, AmountsArrive
<1>1. tx.at = "built" /\ ~IsShieldTx(order)
  BY DEF Clear
<1>2. tx # Builder
  BY <1>1 DEF Builder
<1>3. order \in OrderType /\ tx = CreateTransaction(order)
  BY <1>2 DEF CreationInv
<1>4. PaysFee(tx) /\ Arrives(order, tx)
  BY <1>1, <1>3, CreatesExactly
<1>5. FeeOf(tx) = Fee /\ SizeOf(tx) = Size /\ (Lengthens(tx) <=> CrossesVarInt)
  BY DEF FeeOf, Fee, SizeOf, Size, Lengthens, CrossesVarInt
<1>6. FeeIsPaid
  BY <1>4, <1>5 DEF PaysFee, Price, FeeIsPaid
<1>7. AmountsArrive
  BY <1>4, <1>5 DEF Arrives, Price, AmountsArrive
<1>8. QED
  BY <1>6, <1>7

\* A transaction of the legacy wallet pays the fee of its final size, but for the
\* bytes by which a change lengthens the count of outputs, and not much more.
THEOREM FeeIsPaidHolds == CreationSpec => []FeeIsPaid
<1>1. CreationInit => CreationInv
  BY CreationAssumption DEF CreationInit, CreationInv
<1>2. CreationInv /\ [Create]_creationVars => CreationInv'
  BY DEF CreationInv, Create, creationVars
<1>3. QED
  BY <1>1, <1>2, CreationIsExact, PTL DEF CreationSpec

\* What arrives is what was asked for, less a fee that was to be taken from it;
\* no change is negative.
THEOREM AmountsArriveHolds == CreationSpec => []AmountsArrive
<1>1. CreationInit => CreationInv
  BY CreationAssumption DEF CreationInit, CreationInv
<1>2. CreationInv /\ [Create]_creationVars => CreationInv'
  BY DEF CreationInv, Create, creationVars
<1>3. QED
  BY <1>1, <1>2, CreationIsExact, PTL DEF CreationSpec

-----------------------------------------------------------------------------
\* The payments of both wallets are exact, for any coins, amounts and fee rates,
\* any gap, and any number of payments and reloads.
THEOREM PaymentsAreExactHolds == PaymentsSpec => []PaymentsAreExact
<1>1. /\ Spec => []InsufficientIsTrue
      /\ CreationSpec => []FeeIsPaid
      /\ CreationSpec => []AmountsArrive
      /\ AddressesSpec => []GivenAreRecognised
  BY InsufficientIsTrueHolds, FeeIsPaidHolds, AmountsArriveHolds, GivenAreRecognisedHolds
<1>2. InsufficientIsTrue /\ FeeIsPaid /\ AmountsArrive /\ GivenAreRecognised => PaymentsAreExact
  BY DEF PaymentsAreExact
<1>3. QED
  BY <1>1, <1>2, PTL DEF PaymentsSpec

=============================================================================
