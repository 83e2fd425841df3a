-------------------------- MODULE LegacyTransactions ---------------------------
(***************************************************************************)
(* Transactions of the legacy wallet: scripts/transaction.js, the numbers  *)
(* of scripts/encoding.js it writes them with, and how sign() of           *)
(* scripts/wallet.js fills one in before it is sent.                       *)
(*                                                                         *)
(* Bytes are digits of base Base, hashes are external and injective: an id *)
(* is what it is the hash of.  A script names its kind and a key; an       *)
(* unsigned input keeps the script it spends as its scriptSig.  What each  *)
(* signature was put on is kept beside the transaction.                    *)
(***************************************************************************)
EXTENDS Integers, Sequences, SequencesExt

CONSTANTS
  Base,            \* values of a byte
  HASH_SIZE,       \* bytes of an id and of most shield fields: 32
  Thrown           \* an exception

SAPLING_TX_VERSION == 3
\* Bytes of the fields of a spend and of an output: those of 32 bytes are
\* reversed, of the others (192, 64, 580, 80) as few as tell them apart.
Reversed == HASH_SIZE
SpendFields == <<Reversed, Reversed, Reversed, Reversed, 3, 1>>
OutputFields == <<Reversed, Reversed, Reversed, 5, 4, 3>>
SignatureSize == 1

-----------------------------------------------------------------------------
\* Numbers: the least significant byte comes first.

Pow(n) == Base ^ n
NumToBytes(n, width) == [i \in 1 .. width |-> (n \div Pow(i - 1)) % Base]
BytesToNum(bytes) == FoldRight(LAMBDA b, acc : acc * Base + b, bytes, 0)

NumToVarInt(n) ==
  CASE n < Base - 3                      -> <<n>>
    [] n \in Base - 3 .. Pow(2) - 1      -> <<Base - 3>> \o NumToBytes(n, 2)
    [] n \in Pow(2) .. Pow(4) - 1        -> <<Base - 2>> \o NumToBytes(n, 4)
    [] OTHER                             -> <<Base - 1>> \o NumToBytes(n, 8)

\* What shield transactions take from the transparent ones may be below zero.
SignedToBytes(n) == NumToBytes(IF n < 0 THEN n + Pow(8) ELSE n, 8)
Signed(n) == IF n >= Pow(8) \div 2 THEN n - Pow(8) ELSE n

-----------------------------------------------------------------------------
\* A transaction.  Its id is cached when it is first asked for, under `txid`;
\* setting a field empties the cache, changing one of its inputs does not.

NoShield == [valueBalance |-> 0, spends |-> <<>>, outputs |-> <<>>, bindingSig |-> <<>>]
NewTransaction ==
  [version |-> 1, vin |-> <<>>, vout |-> <<>>, lockTime |-> 0, shield |-> NoShield, txid |-> <<>>]

HasSaplingVersion(tx) == tx.version >= SAPLING_TX_VERSION
HasShieldData(tx) == tx.shield.bindingSig # <<>>

Counted(bytes) == NumToVarInt(Len(bytes)) \o bytes
List(seq, bytes(_)) == NumToVarInt(Len(seq)) \o FlattenSeq([i \in DOMAIN seq |-> bytes(seq[i])])

InputBytes(input) ==
  Reverse(input.txid) \o NumToBytes(input.n, 4) \o Counted(input.scriptSig)
    \o NumToBytes(input.sequence, 4)
OutputBytes(output) == NumToBytes(output.value, 8) \o Counted(output.script)

\* The fields of a spend or an output, in either direction.
Turned(fields, widths) ==
  [k \in DOMAIN fields |-> IF widths[k] = Reversed THEN Reverse(fields[k]) ELSE fields[k]]
ShieldBytes(tx) ==
  <<IF HasShieldData(tx) THEN 1 ELSE 0>> \o SignedToBytes(tx.shield.valueBalance)
    \o List(tx.shield.spends, LAMBDA s : FlattenSeq(Turned(s, SpendFields)))
    \o List(tx.shield.outputs, LAMBDA o : FlattenSeq(Turned(o, OutputFields)))
    \o tx.shield.bindingSig

Serialize(tx) ==
  NumToBytes(tx.version, 4) \o List(tx.vin, InputBytes) \o List(tx.vout, OutputBytes)
    \o NumToBytes(tx.lockTime, 4)
    \o (IF HasSaplingVersion(tx) THEN ShieldBytes(tx) ELSE <<>>)

GetTxid(tx) == IF tx.txid = <<>> THEN Serialize(tx) ELSE tx.txid

-----------------------------------------------------------------------------
\* Reading.  Nothing is refused: what is cut off would be read as far as it goes.

Reader(raw) == [raw |-> raw, offset |-> 0, got |-> <<>>]
Read(r, length) ==
  [r EXCEPT !.offset = @ + length,
            !.got = SubSeq(r.raw, r.offset + 1, IF r.offset + length < Len(r.raw)
                                                THEN r.offset + length ELSE Len(r.raw))]
VarIntWidth(first) == 2 ^ (first - Base + 4)
VarIntAfter(r) == IF r.got[1] < Base - 3 THEN r ELSE Read(r, VarIntWidth(r.got[1]))
ReadVarInt(r) == VarIntAfter(Read(r, 1))

\* Fields of given widths, or, for a width of Variable, of the one that is read.
Variable == 0
ReadCounted(n) == Read(n, BytesToNum(n.got))
ReadField(acc, width) ==
  LET next == IF width = Variable THEN ReadCounted(ReadVarInt(acc.r)) ELSE Read(acc.r, width)
  IN  [r |-> next, list |-> Append(acc.list, next.got)]
ReadFields(r, widths) == FoldLeft(ReadField, [r |-> r, list |-> <<>>], widths)

ReadRecord(acc, fields) == [r |-> fields.r, list |-> Append(acc.list, fields.list)]
Times(n, widths) ==
  FoldLeft(LAMBDA acc, i : ReadRecord(acc, ReadFields(acc.r, widths)),
           [r |-> n, list |-> <<>>], [i \in 1 .. BytesToNum(n.got) |-> i])
ReadList(r, widths) == Times(ReadVarInt(r), widths)

ReadInputs(r) == ReadList(r, <<HASH_SIZE, 4, Variable, 4>>)
ReadOutputs(r) == ReadList(r, <<8, Variable>>)
InputOf(f) ==
  [txid |-> Reverse(f[1]), n |-> BytesToNum(f[2]), scriptSig |-> f[3], sequence |-> BytesToNum(f[4])]
OutputOf(f) == [value |-> BytesToNum(f[1]), script |-> f[2]]

\* The shield part, unless the byte before it says that there is none.
ShieldOf(balance, spends, outputs) ==
  [valueBalance |-> Signed(BytesToNum(balance.got)),
   spends |-> [k \in DOMAIN spends.list |-> Turned(spends.list[k], SpendFields)],
   outputs |-> [k \in DOMAIN outputs.list |-> Turned(outputs.list[k], OutputFields)],
   bindingSig |-> Read(outputs.r, SignatureSize).got]
ShieldAfterSpends(balance, spends) ==
  ShieldOf(balance, spends, ReadList(spends.r, OutputFields))
ReadShieldData(balance) == ShieldAfterSpends(balance, ReadList(balance, SpendFields))
ReadShield(flag) == IF BytesToNum(flag.got) # 0 THEN ReadShieldData(Read(flag, 8)) ELSE NoShield

FromParts(raw, version, ins, outs, lockTime) ==
  [version |-> version, lockTime |-> BytesToNum(lockTime.got),
   vin |-> [k \in DOMAIN ins.list |-> InputOf(ins.list[k])],
   vout |-> [k \in DOMAIN outs.list |-> OutputOf(outs.list[k])],
   shield |-> IF version >= SAPLING_TX_VERSION THEN ReadShield(Read(lockTime, 1)) ELSE NoShield,
   txid |-> raw]
FromOutputs(raw, version, ins, outs) == FromParts(raw, version, ins, outs, Read(outs.r, 4))
FromInputs(raw, version, ins) == FromOutputs(raw, version, ins, ReadOutputs(ins.r))
FromVersion(raw, head) == FromInputs(raw, BytesToNum(head.got), ReadInputs(head))
\* The id is that of the text, however it would be written again.
FromHex(raw) == FromVersion(raw, Read(Reader(raw), 4))

-----------------------------------------------------------------------------
\* Signing: all that was built, with the script of the input alone.

\* Mistake: the inputs that were signed before are hashed as well.
BlackedOutNone(tx, index) == tx
BlackedOut(tx, index) ==
  [tx EXCEPT !.vin = [i \in DOMAIN @ |-> IF i = index THEN @[i] ELSE [@[i] EXCEPT !.scriptSig = <<>>]]]
TransactionHash(tx, index) ==
  IF HasSaplingVersion(tx) THEN Thrown
  ELSE Serialize(BlackedOut(tx, index)) \o NumToBytes(1, 4)

\* Scripts of a key, and (external) its seal.
P2PKH == 1
P2CS == 2
Script(kind, key) == <<kind, key, key>>
KeyOf(script) == script[2]
Seal(key) == <<key, 0, key>>

ScriptSig(key, isColdStake) ==
  <<Len(Seal(key)) + 1>> \o Seal(key) \o <<1>> \o (IF isColdStake THEN <<0>> ELSE <<>>)
    \o Counted(<<key, key>>)

\* The scriptSig is set in the input: a cached id would stay.
SignInput(signed, i) ==
  LET script == signed.tx.vin[i].scriptSig IN
  [tx |-> [signed.tx EXCEPT !.vin[i].scriptSig = ScriptSig(KeyOf(script), script[1] = P2CS)],
   messages |-> Append(signed.messages, TransactionHash(signed.tx, i))]

\* A transaction without inputs, or with a shield output, is made by the shield
\* library (external), which answers with the bytes.
Sign(tx, shieldRaw, viewOnly) ==
  IF viewOnly THEN Thrown
  ELSE IF tx.vin = <<>> \/ tx.shield.outputs # <<>> THEN [tx |-> FromHex(shieldRaw), messages |-> <<>>]
  ELSE FoldLeft(SignInput, [tx |-> tx, messages |-> <<>>], [i \in DOMAIN tx.vin |-> i])

\* createAndSendTransaction: what is broadcast, and under which id it is kept.
Sent(signed) == [raw |-> Serialize(signed.tx), txid |-> GetTxid(signed.tx)]

-----------------------------------------------------------------------------
\* Properties

\* What is written is read as it was, and what is read of it is written again.
ReadsBack(tx) ==
  /\ FromHex(Serialize(tx)) = [tx EXCEPT !.txid = Serialize(tx)]
  /\ Serialize(FromHex(Serialize(tx))) = Serialize(tx)

\* Each signature verifies in the finished transaction, which has changed since
\* the first input was signed, and the id that is kept is that of what was sent.
SignaturesHold(tx) ==
  LET signed == Sign(tx, <<>>, FALSE)
      spent(i) == [signed.tx EXCEPT !.vin[i].scriptSig = tx.vin[i].scriptSig]
  IN  /\ \A i \in DOMAIN tx.vin : signed.messages[i] = TransactionHash(spent(i), i)
      /\ Sent(signed).txid = Sent(signed).raw

\* No signature says the same of two transactions, or of two inputs.
CommitsToAll(tx, others) ==
  \A other \in others : \A i \in DOMAIN tx.vin, j \in DOMAIN other.vin :
    TransactionHash(tx, i) = TransactionHash(other, j) =>
      i = j /\ BlackedOut(tx, i) = BlackedOut(other, j)
=============================================================================
