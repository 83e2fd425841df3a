---------------------------- MODULE PQTransactions -----------------------------
(***************************************************************************)
(* The wire format of scripts/pqwallet/pqtxtx.js and the signatures of     *)
(* scripts/pqwallet/pqsigner.js.                                           *)
(*                                                                         *)
(* Bytes are digits of base Base, 256 in the code: the widths of all       *)
(* integers are those of the code, and what fits in them shrinks with the  *)
(* base.  Hashes and ML-DSA are external: no two keys have the same id and *)
(* no two of the named transactions, a signature is the seal of its key,   *)
(* and what each seal was put on is kept beside the transaction.  An       *)
(* explicit payload, which no caller passes, is left out.                  *)
(***************************************************************************)
EXTENDS Integers, Sequences, FiniteSets, SequencesExt

CONSTANTS
  Base,                \* values of a byte, an even number
  HASH_SIZE,           \* bytes of a txid, a genesis hash, a key's id: 32
  PQ_PUBLIC_KEY_SIZE,  \* 1312
  PQ_SIGNATURE_SIZE,   \* 2420
  PQ_MAX_TX_BYTES,     \* 24000
  PQ_MAX_MASTERNODE_DATA_BYTES,  \* 12000
  NamedTransactions,   \* the transactions whose id something refers to
  Thrown               \* an exception

PQ_TX_VERSION == 3
PQ_TX_TYPE == 8
PQ_PAYLOAD_VERSION == 1
PQ_TRANSFER_MODE == 1
PQ_STAKE_MODE == 2
PQ_MASTERNODE_MODE == 6
PQ_MAX_INPUTS == 2
MaxOutputs(mode) == IF mode = PQ_STAKE_MODE THEN 3 ELSE 2

ModeHasData(mode) == mode \in 3 .. 8

-----------------------------------------------------------------------------
\* Integers: the least significant byte comes first.

Power(n) == FoldLeft(LAMBDA acc, i : acc * Base, 1, [i \in 1 .. n |-> i])
Little(n, width) == [i \in 1 .. width |-> (n \div Power(i - 1)) % Base]
Value(bytes) == FoldRight(LAMBDA b, acc : acc * Base + b, bytes, 0)

\* The first byte says how many follow: Base - 3 two, Base - 2 four, and
\* Base - 1 eight.
Tag(k) == Base - 4 + k
Width(k) == CASE k = 1 -> 2 [] k = 2 -> 4 [] k = 3 -> 8

EncodeCompactSize(n) ==
  CASE n < Tag(1)   -> <<n>>
    [] n \in Tag(1) .. Power(2) - 1   -> <<Tag(1)>> \o Little(n, 2)
    [] n \in Power(2) .. Power(4) - 1 -> <<Tag(2)>> \o Little(n, 4)
    [] OTHER        -> <<Tag(3)>> \o Little(n, 8)

\* A negative amount is read, but not written.
FromI64(bytes) ==
  IF 2 * bytes[8] >= Base THEN Value(bytes) - Power(8) ELSE Value(bytes)
FitsI64(n) == 0 <= n /\ n < Power(8) \div 2

-----------------------------------------------------------------------------
\* Serialisation.  A script is a sequence of bytes; the one of an address is
\* its marker and the key's id.

PQScript(id) == <<Base - 1, 5, 2>> \o id
IsPQScript(script) ==
  Len(script) = 3 + HASH_SIZE /\ SubSeq(script, 1, 3) = <<Base - 1, 5, 2>>

SerializeTxOut(output) ==
  Little(output.value, 8) \o EncodeCompactSize(Len(output.script)) \o output.script

SerializeTxIn(input) ==
  Reverse(input.txid) \o Little(input.vout, 4)
    \o EncodeCompactSize(Len(input.scriptSig)) \o input.scriptSig
    \o Little(input.sequence, 4)

Concat(seq, f(_)) == FlattenSeq([i \in 1 .. Len(seq) |-> f(seq[i])])

DataFits(mode, data) ==
  /\ ModeHasData(mode) = (Len(data) > 0)
  /\ mode = PQ_MASTERNODE_MODE => Len(data) <= PQ_MAX_MASTERNODE_DATA_BYTES

BuildPayload(inputs, mode, data) ==
  <<PQ_PAYLOAD_VERSION, mode, Len(inputs)>>
    \o Concat(inputs, LAMBDA i : i.publicKey \o i.signature)
    \o (IF ModeHasData(mode) THEN EncodeCompactSize(Len(data)) \o data ELSE <<>>)

Wire(tx, payload) ==
  Little(PQ_TX_VERSION, 2) \o Little(PQ_TX_TYPE, 2)
    \o EncodeCompactSize(Len(tx.inputs)) \o Concat(tx.inputs, SerializeTxIn)
    \o EncodeCompactSize(Len(tx.outputs)) \o Concat(tx.outputs, SerializeTxOut)
    \o Little(tx.locktime, 4) \o <<0, 1>>
    \o EncodeCompactSize(Len(payload)) \o payload

CountsFit(tx, mode) ==
  /\ Len(tx.inputs) \in 1 .. PQ_MAX_INPUTS /\ Len(tx.outputs) \in 1 .. MaxOutputs(mode)
  /\ \A i \in 1 .. Len(tx.outputs) : FitsI64(tx.outputs[i].value)

SerializeTransfer(tx, mode, data) ==
  IF CountsFit(tx, mode) /\ DataFits(mode, data)
  THEN Wire(tx, BuildPayload(tx.inputs, mode, data)) ELSE Thrown

-----------------------------------------------------------------------------
\* The reader: its offset, what it read last, and whether it still can.

Reader(bytes) == [bytes |-> bytes, offset |-> 0, ok |-> TRUE, got |-> <<>>]
Refused(r) == [r EXCEPT !.ok = FALSE, !.got = <<>>]
Require(r, condition) == IF condition THEN r ELSE Refused(r)

Read(r, length) ==
  IF ~r.ok \/ r.offset + length > Len(r.bytes) THEN Refused(r)
  ELSE [r EXCEPT !.offset = @ + length,
                 !.got = SubSeq(r.bytes, r.offset + 1, r.offset + length)]

\* The width of what follows the first byte: none if k is not above zero.
TagOf(first) == IF first.ok THEN first.got[1] - Base + 4 ELSE 0
Longer(first) == Read(first, Width(TagOf(first)))

\* Mistake: a number may be longer than it needs to be.
MinimalAlways(long, k) == long

Minimal(long, k) ==
  Require(long, Value(long.got) >= (IF k = 1 THEN Tag(1) ELSE Power(Width(k - 1))))

\* The number read is Value(got).
CompactSizeFrom(first) ==
  IF TagOf(first) < 1 THEN first ELSE Minimal(Longer(first), TagOf(first))
ReadCompactSize(r) == CompactSizeFrom(Read(r, 1))

\* A number of bytes, and as many bytes.
ReadCounted(n) == IF n.ok THEN Read(n, Value(n.got)) ELSE n
ReadVariable(r) == ReadCounted(ReadCompactSize(r))

\* Fields after each other: the bytes of each.  A width of Variable stands for
\* a field that begins with its length.
Variable == 0
Collect(acc, next) == [r |-> next, list |-> Append(acc.list, next.got)]
ReadField(acc, width) ==
  Collect(acc, IF width = Variable THEN ReadVariable(acc.r) ELSE Read(acc.r, width))
ReadFields(r, widths) == FoldLeft(ReadField, [r |-> r, list |-> <<>>], widths)

InputFields == <<HASH_SIZE, 4, Variable, 4>>
OutputFields == <<8, Variable>>
AuthorizationFields == <<PQ_PUBLIC_KEY_SIZE, PQ_SIGNATURE_SIZE>>

ReadRecord(acc, fields) == [r |-> fields.r, list |-> Append(acc.list, fields.list)]
Times(n, r, widths) ==
  FoldLeft(LAMBDA acc, i : ReadRecord(acc, ReadFields(acc.r, widths)),
           [r |-> r, list |-> <<>>], [i \in 1 .. n |-> i])

\* A count between 1 and most, and as many records.
ReadCountOf(n, most, widths) ==
  IF n.ok /\ Value(n.got) \in 1 .. most THEN Times(Value(n.got), n, widths)
  ELSE [r |-> Refused(n), list |-> <<>>]
ReadList(r, most, widths) == ReadCountOf(ReadCompactSize(r), most, widths)

OutputOf(fields) == [value |-> FromI64(fields[1]), script |-> fields[2]]

-----------------------------------------------------------------------------
\* Parsing

\* txidOf (external hash): the place among the named transactions.
TxidOf(raw) ==
  [i \in 1 .. HASH_SIZE |-> SelectInSeq(NamedTransactions, LAMBDA t : t = raw)]

AtEnd(r) == r.ok /\ r.offset = Len(r.bytes)

PayloadWithData(mode, auths, data) ==
  IF AtEnd(data) /\ Len(data.got) \in 1 .. PQ_MAX_MASTERNODE_DATA_BYTES
  THEN [mode |-> mode, authorizations |-> auths.list, data |-> data.got]
  ELSE Thrown
PayloadAfter(mode, auths) ==
  IF ~auths.r.ok THEN Thrown
  ELSE IF ModeHasData(mode) THEN PayloadWithData(mode, auths, ReadVariable(auths.r))
  ELSE IF AtEnd(auths.r) THEN [mode |-> mode, authorizations |-> auths.list, data |-> <<>>]
  ELSE Thrown
ParsePayload(head) ==
  IF ~head.ok \/ head.got[1] # PQ_PAYLOAD_VERSION THEN Thrown
  ELSE PayloadAfter(head.got[2], Times(head.got[3], head, AuthorizationFields))

\* Every input takes the authorization at its place.
Authorized(inputs, auths) ==
  [i \in 1 .. Len(inputs) |->
    [txid |-> Reverse(inputs[i][1]), vout |-> Value(inputs[i][2]),
     scriptSig |-> inputs[i][3], sequence |-> Value(inputs[i][4]),
     publicKey |-> auths[i][1], signature |-> auths[i][2]]]

Accepted(ins, outs, locktime, payload, allowedModes) ==
  IF payload = Thrown THEN Thrown
  ELSE IF /\ payload.mode \in allowedModes
          /\ Len(outs) <= MaxOutputs(payload.mode)
          /\ Len(payload.authorizations) = Len(ins)
  THEN [mode |-> payload.mode, data |-> payload.data,
        inputs |-> Authorized(ins, payload.authorizations),
        outputs |-> [i \in 1 .. Len(outs) |-> OutputOf(outs[i])],
        locktime |-> Value(locktime)]
  ELSE Thrown

\* The lock time, two bytes that say a payload follows, and the payload.
ParseTail(ins, outs, tail, allowedModes) ==
  IF AtEnd(tail.r) /\ tail.list[2] = <<0, 1>>
  THEN Accepted(ins, outs, tail.list[1],
                ParsePayload(Read(Reader(tail.list[3]), 3)), allowedModes)
  ELSE Thrown
ParseOutputs(ins, outs, allowedModes) ==
  ParseTail(ins, outs.list, ReadFields(outs.r, <<4, 2, Variable>>), allowedModes)
ParseInputs(ins, allowedModes) ==
  ParseOutputs(ins.list, ReadList(ins.r, 3, OutputFields), allowedModes)

\* parsePQTransaction: what is refused leaves a reader that reads no more.
ParseBody(head, allowedModes) ==
  IF head.got = Little(PQ_TX_VERSION, 2) \o Little(PQ_TX_TYPE, 2)
  THEN ParseInputs(ReadList(head, PQ_MAX_INPUTS, InputFields), allowedModes)
  ELSE Thrown
ParsePQTransaction(raw, allowedModes) ==
  IF Len(raw) <= PQ_MAX_TX_BYTES THEN ParseBody(Read(Reader(raw), 4), allowedModes)
  ELSE Thrown

ParseTransfer(raw) == ParsePQTransaction(raw, {PQ_TRANSFER_MODE, PQ_MASTERNODE_MODE})

Final == Power(4) - 1     \* the sequence 0xffffffff

IsCoinstake(tx) ==
  /\ Len(tx.inputs) = 1 /\ Len(tx.outputs) >= 2
  /\ tx.outputs[1] = [value |-> 0, script |-> <<>>]
  /\ tx.inputs[1].scriptSig = <<>> /\ tx.inputs[1].sequence = Final
  /\ tx.locktime = 0
CoinstakeOrThrown(tx) ==
  IF tx = Thrown THEN Thrown ELSE IF IsCoinstake(tx) THEN tx ELSE Thrown
ParseCoinstake(raw) == CoinstakeOrThrown(ParsePQTransaction(raw, {PQ_STAKE_MODE}))

-----------------------------------------------------------------------------
\* Signing

\* Mistake: an amount that is spent is not signed.
PrevoutPartWithoutValue(prevout) == SerializeTxOut([prevout EXCEPT !.value = 0])
PrevoutPart(prevout) == SerializeTxOut(prevout)

\* signatureMessage: what the signature of input commits to.
SignatureMessage(tx, prevouts, publicKeys, genesis, input, mode, data) ==
  Reverse(genesis) \o Little(PQ_TX_VERSION, 2) \o Little(PQ_TX_TYPE, 2)
    \o <<PQ_PAYLOAD_VERSION, mode>> \o EncodeCompactSize(Len(tx.inputs))
    \o FlattenSeq([i \in 1 .. Len(tx.inputs) |->
         Reverse(tx.inputs[i].txid) \o Little(tx.inputs[i].vout, 4)
           \o Little(tx.inputs[i].sequence, 4) \o PrevoutPart(prevouts[i])])
    \o EncodeCompactSize(Len(tx.outputs)) \o Concat(tx.outputs, SerializeTxOut)
    \o Little(tx.locktime, 4) \o <<Len(publicKeys)>> \o FlattenSeq(publicKeys)
    \o (IF ModeHasData(mode) THEN EncodeCompactSize(Len(data)) \o data ELSE <<>>)
    \o Little(input, 4)

\* ML-DSA (external): the seal of a secret key, and whose it is.
Seal(secretKey) == [i \in 1 .. PQ_SIGNATURE_SIZE |-> secretKey[1]]
Verifies(seal, publicKey) == seal = Seal(publicKey)
IdOf(publicKey) == [i \in 1 .. HASH_SIZE |-> publicKey[1]]

BindsPublicKey(prevout, publicKey) ==
  IsPQScript(prevout.script) /\ SubSeq(prevout.script, 4, Len(prevout.script)) = IdOf(publicKey)

\* A request: the inputs with keys and what they spend, outputs, and the rest.
PublicKeys(q) == [i \in 1 .. Len(q.inputs) |-> q.inputs[i].publicKey]
Prevouts(q) == [i \in 1 .. Len(q.inputs) |-> q.inputs[i].prevout]
MessageOf(q, input) ==
  SignatureMessage(q, Prevouts(q), PublicKeys(q), q.genesis, input - 1, q.mode, q.data)

SignedInput(i) ==
  [txid |-> i.txid, vout |-> i.vout, scriptSig |-> <<>>, sequence |-> i.sequence,
   publicKey |-> i.publicKey, signature |-> Seal(i.secretKey)]

CanSign(q) ==
  /\ CountsFit(q, q.mode) /\ DataFits(q.mode, q.data)
  /\ \A i \in 1 .. Len(q.inputs) :
       /\ BindsPublicKey(q.inputs[i].prevout, q.inputs[i].publicKey)
       /\ Verifies(Seal(q.inputs[i].secretKey), q.inputs[i].publicKey)
Signed(q, raw) ==
  [raw |-> raw, txid |-> TxidOf(raw),
   messages |-> [i \in 1 .. Len(q.inputs) |-> MessageOf(q, i)]]
SignPQTransaction(q) ==
  IF CanSign(q)
  THEN Signed(q, SerializeTransfer(
         [inputs |-> [i \in 1 .. Len(q.inputs) |-> SignedInput(q.inputs[i])],
          outputs |-> q.outputs, locktime |-> q.locktime], q.mode, q.data))
  ELSE Thrown

-----------------------------------------------------------------------------
\* Properties

\* What is parsed is exactly what was received: a transaction has one encoding
\* only, whatever was cut off, added, changed or encoded at greater length.
\* Amounts below zero are the one thing that is read and cannot be written.
WritesBack(tx, raw) ==
  tx # Thrown =>
    \/ SerializeTransfer(tx, tx.mode, tx.data) = raw
    \/ \E i \in 1 .. Len(tx.outputs) : tx.outputs[i].value < 0
ParsesExactly(raw, modes) == WritesBack(ParsePQTransaction(raw, modes), raw)

\* A transaction that was made is parsed as what it was made from.
ParsesBack(tx, mode, data, modes) ==
  LET raw == SerializeTransfer(tx, mode, data) IN
  raw # Thrown =>
    ParsePQTransaction(raw, modes) =
      [mode |-> mode, data |-> data, inputs |-> tx.inputs, outputs |-> tx.outputs,
       locktime |-> tx.locktime]
=============================================================================
