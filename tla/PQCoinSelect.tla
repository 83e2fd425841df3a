----------------------------- MODULE PQCoinSelect ----------------------------
(***************************************************************************)
(* The choice of coins for a transfer, selectCoins() of pqcoinselect.js,   *)
(* and for the fee of a masternode registration,                           *)
(* selectMasternodeFeeCoins() of pqmasternode.js.  Both sort the coins,    *)
(* try each one alone and then each pair.                                  *)
(*                                                                         *)
(* A coin is its position in the list of unspent outputs.  A registration  *)
(* pays nobody: its amount is 0.                                           *)
(***************************************************************************)
EXTENDS Integers, Sequences, FiniteSets

CONSTANT Requests  \* calls explored

VARIABLES
  request,  \* the call
  sorted,   \* its candidates by value
  at,       \* the loop that runs, or how the call ended
  i, j,     \* positions in sorted
  best

vars == <<request, sorted, at, i, j, best>>

-----------------------------------------------------------------------------
PQ_DUST_SATS == 114600
SATS_PER_KB == 1000
PAYLOAD_HEADER_SIZE == 3
AUTHORIZATION_SIZE == 1312 + 2420
SERIALIZED_INPUT_SIZE == 41
SERIALIZED_OUTPUT_SIZE == 44
REGISTRATION_DATA_SIZE == 11318

CompactSizeLength(value) ==
  IF value < 253 THEN 1 ELSE IF value <= 65535 THEN 3 ELSE 5

SizeWithPayload(nInputs, nOutputs, payloadLength) ==
  4 + CompactSizeLength(nInputs) + nInputs * SERIALIZED_INPUT_SIZE
    + CompactSizeLength(nOutputs) + nOutputs * SERIALIZED_OUTPUT_SIZE
    + 4 + 1 + 1 + CompactSizeLength(payloadLength) + payloadLength

EstimateTransferSize(nInputs, nOutputs) ==
  SizeWithPayload(nInputs, nOutputs,
                  PAYLOAD_HEADER_SIZE + nInputs * AUTHORIZATION_SIZE)

EstimateMasternodeRegistrationSize(nInputs, nOutputs) ==
  SizeWithPayload(nInputs, nOutputs,
    3 + nInputs * AUTHORIZATION_SIZE
      + CompactSizeLength(REGISTRATION_DATA_SIZE) + REGISTRATION_DATA_SIZE)

\* Division rounds up.
FeeFor(q, nInputs, nOutputs) ==
  LET size == IF q.kind = "transfer" THEN EstimateTransferSize(nInputs, nOutputs)
              ELSE EstimateMasternodeRegistrationSize(nInputs, nOutputs)
  IN (size * q.rate + SATS_PER_KB - 1) \div SATS_PER_KB

-----------------------------------------------------------------------------
RequestType ==
  [kind : {"transfer", "registration"}, utxos : Seq(Nat), amount : Nat,
   rate : Nat, changeAddress : BOOLEAN, collateral : Nat]

ASSUME RequestsAssumption ==
  /\ Requests \subseteq RequestType
  /\ \A q \in Requests : q.kind = "registration" => q.amount = 0

Candidates(q) ==
  {c \in 1 .. Len(q.utxos) :
     q.kind = "transfer" \/ (c # q.collateral /\ q.utxos[c] > 0)}

\* Sorted by value, coins of the same value in their order in the list.
InOrder(q, c, d) ==
  q.utxos[c] < q.utxos[d] \/ (q.utxos[c] = q.utxos[d] /\ c < d)

Sortings(q) ==
  {s \in [1 .. Cardinality(Candidates(q)) -> Candidates(q)] :
     \A m, n \in DOMAIN s : m < n => InOrder(q, s[m], s[n])}

None == [inputs |-> {}, total |-> 0, fee |-> 0, change |-> 0]
Value(c) == request.utxos[c]
Count == Cardinality(Candidates(request))

\* n inputs worth total.  Change is paid out if it is not dust with the fee of
\* one output, nor with that of two; else it goes to the fee.
OneOutputChange(n, total) == total - request.amount - FeeFor(request, n, 1)

BuildSelection(inputs, n, total) ==
  LET twoOutputChange == total - request.amount - FeeFor(request, n, 2)
  IN IF OneOutputChange(n, total) < 0 THEN None
     ELSE IF /\ OneOutputChange(n, total) >= PQ_DUST_SATS
             /\ twoOutputChange >= PQ_DUST_SATS
     THEN [inputs |-> inputs, total |-> total,
           fee |-> FeeFor(request, n, 2), change |-> twoOutputChange]
     ELSE [inputs |-> inputs, total |-> total,
           fee |-> total - request.amount, change |-> 0]

\* A registration must have change: the node wants one output.
AttemptRegistration(inputs, n, total) ==
  LET fee == FeeFor(request, n, 1)
  IN IF total - fee >= PQ_DUST_SATS
     THEN [inputs |-> inputs, total |-> total, fee |-> fee, change |-> total - fee]
     ELSE None

Attempt(inputs, n, total) ==
  IF request.kind = "transfer" THEN BuildSelection(inputs, n, total)
  ELSE AttemptRegistration(inputs, n, total)

\* buildSelection() throws: there is change and no address for it.
Throws(n, total) ==
  /\ request.kind = "transfer" /\ ~request.changeAddress
  /\ OneOutputChange(n, total) >= PQ_DUST_SATS

-----------------------------------------------------------------------------
Init ==
  /\ request \in Requests
  /\ sorted \in Sortings(request)
  /\ at = "check" /\ i = 1 /\ j = 2 /\ best = None

\* What the call itself must satisfy.
Invalid ==
  \/ request.rate = 0
  \/ request.kind = "transfer" /\ request.amount < PQ_DUST_SATS
  \/ request.kind = "registration" /\ ~request.changeAddress

Check ==
  /\ at = "check"
  /\ at' = IF Invalid THEN "error"
           ELSE IF request.kind = "transfer" /\ request.utxos = <<>>
           THEN "insufficient" ELSE "single"
  /\ UNCHANGED <<request, sorted, i, j, best>>

TrySingle ==
  /\ at = "single" /\ i <= Count
  /\ LET total == Value(sorted[i])
         selection == Attempt({sorted[i]}, 1, total)
     IN \/ /\ Throws(1, total)
           /\ at' = "error" /\ UNCHANGED <<i, best>>
        \/ /\ ~Throws(1, total) /\ selection # None
           /\ at' = "done" /\ best' = selection /\ UNCHANGED i
        \/ /\ ~Throws(1, total) /\ selection = None
           /\ i' = i + 1 /\ UNCHANGED <<at, best>>
  /\ UNCHANGED <<request, sorted, j>>

EndSingles ==
  /\ at = "single" /\ i > Count
  /\ at' = "pair" /\ i' = 1 /\ j' = 2
  /\ UNCHANGED <<request, sorted, best>>

NextPair ==
  IF j < Count THEN i' = i /\ j' = j + 1 ELSE i' = i + 1 /\ j' = i + 2

\* Mistake: the last pair that pays is chosen.
ImprovesAlways(total) == TRUE

\* Of two pairs the one worth less, which has the smaller change.
Improves(total) == best = None \/ total < best.total

TryPair ==
  /\ at = "pair" /\ j <= Count
  /\ LET total == Value(sorted[i]) + Value(sorted[j])
         selection == Attempt({sorted[i], sorted[j]}, 2, total)
     IN \/ /\ Improves(total) /\ Throws(2, total)
           /\ at' = "error" /\ UNCHANGED <<i, j, best>>
        \/ /\ ~(Improves(total) /\ Throws(2, total))
           /\ best' = IF Improves(total) /\ selection # None
                      THEN selection ELSE best
           /\ NextPair /\ UNCHANGED at
  /\ UNCHANGED <<request, sorted>>

\* What the coins S are worth.
Total(S) == LET sum[n \in 0 .. Len(request.utxos)] ==
                  IF n = 0 THEN 0
                  ELSE sum[n - 1] + IF n \in S THEN Value(n) ELSE 0
            IN sum[Len(request.utxos)]

\* Three inputs might do, which the consensus rules do not allow.
MoreWouldPay ==
  /\ request.kind = "transfer"
  /\ Total(Candidates(request)) >= request.amount + FeeFor(request, 3, 1)

EndPairs ==
  /\ at = "pair" /\ j > Count
  /\ at' = IF best # None THEN "done"
           ELSE IF MoreWouldPay THEN "many" ELSE "insufficient"
  /\ UNCHANGED <<request, sorted, i, j, best>>

Next == Check \/ TrySingle \/ EndSingles \/ TryPair \/ EndPairs

Spec == Init /\ [][Next]_vars

-----------------------------------------------------------------------------
\* A selection is one coin, or two different ones, with their total.
SelectionType(s) ==
  /\ s.fee \in Int /\ s.change \in Int
  /\ \E c, d \in Candidates(request) :
       /\ s.inputs = {c, d}
       /\ s.total = IF c = d THEN Value(c) ELSE Value(c) + Value(d)

TypeOK ==
  /\ request \in Requests /\ sorted \in Sortings(request)
  /\ at \in {"check", "single", "pair", "done", "error", "many", "insufficient"}
  /\ i \in Nat /\ j \in Nat /\ (at = "pair" => i < j)
  /\ best = None \/ SelectionType(best)

NInputs == Cardinality(best.inputs)
NOutputs == (IF request.kind = "transfer" THEN 1 ELSE 0)
              + (IF best.change > 0 THEN 1 ELSE 0)

\* What goes in comes out, no output is dust, and the fee is at least the one
\* for the shape that is really signed.
Balanced ==
  at = "done" =>
    /\ best.total = request.amount + best.change + best.fee
    /\ best.change = 0 \/ best.change >= PQ_DUST_SATS
    /\ NOutputs >= 1
    /\ best.fee >= FeeFor(request, NInputs, NOutputs)

\* No more is given away as fee than what a change output would have left.
NoWaste ==
  at = "done" => best.fee < FeeFor(request, NInputs, 2) + PQ_DUST_SATS

\* A coin, or a pair, worth total can pay.
Pays(n, total) ==
  total >= request.amount + FeeFor(request, n, 1)
             + (IF request.kind = "registration" THEN PQ_DUST_SATS ELSE 0)
Singles == {c \in Candidates(request) : Pays(1, Value(c))}
Pairs == {p \in Candidates(request) \X Candidates(request) :
            p[1] # p[2] /\ Pays(2, Value(p[1]) + Value(p[2]))}

\* The reference: the least coin that pays alone or, if none does, the least
\* pair; a call that finds neither has neither.
LeastThatPays ==
  /\ at = "done" =>
       IF Singles # {}
       THEN /\ Cardinality(best.inputs) = 1 /\ best.inputs \subseteq Singles
            /\ \A c \in Singles : best.total <= Value(c)
       ELSE /\ \E p \in Pairs : best.inputs = {p[1], p[2]}
            /\ \A p \in Pairs : best.total <= Value(p[1]) + Value(p[2])
  /\ at \in {"many", "insufficient"} => Singles = {} /\ Pairs = {}

\* "Insufficient funds" is the truth: no set of coins, of whatever size, would
\* cover a transfer and the fee of its own inputs.
InsufficientIsTrue ==
  at = "insufficient" /\ request.kind = "transfer" =>
    \A S \in (SUBSET Candidates(request)) \ {{}} :
      Total(S) < request.amount + FeeFor(request, Cardinality(S), 1)
=============================================================================
