---------------------------- MODULE PQStakeTemplate ----------------------------
(***************************************************************************)
(* signStakeTemplate() of scripts/pqwallet/pqstaking.js: a block that a    *)
(* server prepared is signed only after its stake has been bound to a coin *)
(* of this wallet.  The previous transaction is given by the server, too;  *)
(* its hash must be the coin's txid.                                       *)
(***************************************************************************)
EXTENDS PQTransactions

CONSTANTS
  MAX_BLOCK_BYTES, MAX_TEMPLATE_AGE,
  ClockAllowance     \* seconds a header may be ahead: 15

\* A header is a record; the other fields of its bytes are not read.
HeaderOk(header, tip, now) ==
  /\ header.version >= 7 /\ header.length = (IF header.version = 7 THEN 80 ELSE 112)
  /\ header.nonce = 0 /\ header.parent = tip
  /\ header.time \in now - MAX_TEMPLATE_AGE .. now + ClockAllowance

\* The template answers this request, now.
Current(template, c, now) ==
  /\ c.network \in {"testnet", "regtest"}
  /\ template.version = 1 /\ template.network = c.network
  /\ template.genesis = c.genesis /\ template.tip = c.tip
  /\ template.height >= 1
  /\ now < template.expires /\ template.expires <= now + MAX_TEMPLATE_AGE

-----------------------------------------------------------------------------
\* previousOutput: the inputs are skipped, the outputs read up to the one.

ScriptWithin(n) == ReadCounted(Require(n, Value(n.got) <= 10000))
SkipInput(r, i) == Read(ScriptWithin(ReadCompactSize(Read(r, HASH_SIZE + 4))), 4)
SkipInputs(n) ==
  IF n.ok /\ Value(n.got) \in 1 .. 256
  THEN FoldLeft(SkipInput, n, [i \in 1 .. Value(n.got) |-> i]) ELSE Refused(n)

Selected(outs, vout) ==
  IF outs.r.ok THEN OutputOf(outs.list[vout + 1]) ELSE Thrown
\* Mistake: the first output is taken whichever was selected.
OutputAtFirst(count, vout) == Selected(Times(1, count, OutputFields), 0)
OutputAt(count, vout) ==
  IF count.ok /\ vout < Value(count.got) /\ Value(count.got) <= 256
  THEN Selected(Times(vout + 1, count, OutputFields), vout) ELSE Thrown

VersionOk(head) ==
  Require(head, Value(SubSeq(head.got, 1, 2)) \in 1 .. 3)
PreviousOutput(raw, vout) ==
  OutputAt(ReadCompactSize(SkipInputs(ReadCompactSize(VersionOk(Read(Reader(raw), 4))))), vout)

-----------------------------------------------------------------------------
\* Hashes (external): a pair is both hashes with the length of the first.

Node(a, b) == <<Len(a)>> \o a \o b
RECURSIVE MerkleRoot(_)
MerkleRoot(level) ==
  IF Len(level) = 1 THEN level[1]
  ELSE MerkleRoot([i \in 1 .. (Len(level) + 1) \div 2 |->
         Node(level[2 * i - 1], IF 2 * i <= Len(level) THEN level[2 * i] ELSE level[2 * i - 1])])

BlockBytes(template) ==
  FoldLeft(LAMBDA acc, raw : acc + Len(raw), template.header.length + 3800,
           template.transactions)

\* The principal is in output one; a third output is paid from the reward.
StakeOk(stake, c, prevout) ==
  /\ stake.inputs[1].txid = c.coin.txid /\ stake.inputs[1].vout = c.coin.vout
  /\ stake.outputs[2].script = PQScript(c.coin.address)
  /\ stake.outputs[2].value >= prevout.value
  /\ \A i \in 1 .. Len(stake.outputs) :
       /\ stake.outputs[i].value >= 0
       /\ i > 1 => IsPQScript(stake.outputs[i].script)

CoinstakeRequest(c, prevout, outputs) ==
  [inputs |-> <<[txid |-> c.coin.txid, vout |-> c.coin.vout, sequence |-> Final,
                 prevout |-> prevout, publicKey |-> c.keypair.publicKey,
                 secretKey |-> c.keypair.secretKey]>>,
   outputs |-> outputs, locktime |-> 0, genesis |-> c.genesis,
   mode |-> PQ_STAKE_MODE, data |-> <<>>]

\* The signed coinstake takes its place, the header commits to it, and the
\* block is sealed with the key of the coin.
Sealed(template, c, transactions) ==
  [transactions |-> transactions,
   header |-> [template.header EXCEPT !.merkle = MerkleRoot(transactions)],
   sealedBy |-> c.keypair.publicKey]
SignedBlock(template, c, signed) ==
  IF signed = Thrown THEN Thrown
  ELSE Sealed(template, c, [template.transactions EXCEPT ![2] = signed.raw])

\* The steps after the call was found current: the output, the block, the stake.
PrevoutOk(prevout, c) ==
  IF prevout = Thrown THEN FALSE
  ELSE /\ prevout.value > 0 /\ prevout.value = c.coin.value
       /\ prevout.script = PQScript(c.coin.address)
BlockOk(template, c, now) ==
  /\ HeaderOk(template.header, c.tip, now)
  /\ Len(template.transactions) \in 2 .. 4096
  /\ BlockBytes(template) <= MAX_BLOCK_BYTES
SignWithStake(template, c, prevout, stake) ==
  IF stake = Thrown THEN Thrown
  ELSE IF StakeOk(stake, c, prevout)
  THEN SignedBlock(template, c, SignPQTransaction(CoinstakeRequest(c, prevout, stake.outputs)))
  ELSE Thrown
SignWithPrevout(template, c, now, prevout) ==
  IF PrevoutOk(prevout, c) /\ BlockOk(template, c, now)
  THEN SignWithStake(template, c, prevout, ParseCoinstake(template.transactions[2]))
  ELSE Thrown

\* A call: the template, and the coin with its key and what the wallet knows.
SignStakeTemplate(template, c, now) ==
  IF /\ Current(template, c, now)
     /\ <<c.coin.txid, c.coin.vout>> \notin c.reserved
     /\ IdOf(c.keypair.publicKey) = c.coin.address
     /\ TxidOf(template.previous) = c.coin.txid
  THEN SignWithPrevout(template, c, now, PreviousOutput(template.previous, c.coin.vout))
  ELSE Thrown

-----------------------------------------------------------------------------
\* Properties

\* Whatever the server prepared, a block is signed only if its coinstake, read
\* back from the bytes that are sent, spends the selected coin alone and
\* returns to the same address all that the coin is truly worth, where the
\* worth is what the chain says of the outpoint and not what the server or
\* the list of coins said.
StakeReturns(tx, c, worth) ==
  IF tx = Thrown THEN FALSE
  ELSE /\ Len(tx.inputs) = 1 /\ tx.inputs[1].txid = c.coin.txid
       /\ tx.inputs[1].vout = c.coin.vout
       /\ tx.outputs[2].script = PQScript(IdOf(c.keypair.publicKey))
       /\ tx.outputs[2].value >= worth
BlockReturns(block, c, worth) ==
  block # Thrown =>
    /\ StakeReturns(ParseCoinstake(block.transactions[2]), c, worth)
    /\ block.header.merkle = MerkleRoot(block.transactions)
PrincipalReturns(template, c, now, worth) ==
  BlockReturns(SignStakeTemplate(template, c, now), c, worth)
=============================================================================
