----------------------------- MODULE PQRegistration ----------------------------
(***************************************************************************)
(* What scripts/pqwallet/pqmasternode.js signs: the registration of an     *)
(* external collateral, with proofs of three roles inside the data that    *)
(* the transaction carries, and the withdrawal of the collateral.  The     *)
(* choice of the fee inputs is in PQCoinSelect.                            *)
(***************************************************************************)
EXTENDS PQTransactions

CONSTANTS PQ_MASTERNODE_COLLATERAL_SATS, MainnetPort   \* 4000 coins, and 43721

PQ_MASTERNODE_ACTION_REGISTER == 1
PQ_MASTERNODE_DATA_VERSION == 1
Zero(width) == [i \in 1 .. width |-> 0]

-----------------------------------------------------------------------------
\* The data: fields of fixed width.

\* An endpoint is four numbers and a port, the most significant byte first;
\* none at all is zero.  The port of the main network is refused.
ServiceOk(service) ==
  service # <<>> =>
    /\ \A i \in 1 .. 4 : service[i] \in 0 .. Base - 1
    /\ service[5] \in 1 .. Power(2) - 1 /\ service[5] # MainnetPort
EncodeService(service) ==
  IF service = <<>> THEN Zero(18)
  ELSE Zero(10) \o <<Base - 1, Base - 1>> \o SubSeq(service, 1, 4)
         \o Reverse(Little(service[5], 2))

Outpoint(collateral) == Reverse(collateral.txid) \o Little(collateral.vout, 4)

\* <<>> is no address.
RewardPart(q) ==
  Little(q.operatorReward, 2)
    \o (IF q.operatorPayout = <<>> THEN Zero(HASH_SIZE) ELSE q.operatorPayout)

EncodeOk(q) ==
  /\ q.operatorReward \in 0 .. 10000
  /\ q.operatorReward > 0 => q.operatorPayout # <<>>
  /\ q.collateral.txid # Zero(HASH_SIZE)
  /\ ServiceOk(q.service)

EncodeMasternodeRegistration(q, seals) ==
  <<PQ_MASTERNODE_DATA_VERSION, PQ_MASTERNODE_ACTION_REGISTER>>
    \o Outpoint(q.collateral)
    \o q.owner.publicKey \o q.operator.publicKey \o q.collateral.publicKey
    \o q.payout \o RewardPart(q) \o EncodeService(q.service)
    \o seals[1] \o seals[2] \o seals[3]

-----------------------------------------------------------------------------
\* The registration

OwnsAddress(pair) == IdOf(pair.publicKey) = pair.address

\* The roles prove the transaction with the data as it is before their seals.
UnsignedData(q) ==
  EncodeMasternodeRegistration(q, [i \in 1 .. 3 |-> Zero(PQ_SIGNATURE_SIZE)])
RoleMessage(q) ==
  SignatureMessage(q, Prevouts(q), PublicKeys(q), q.genesis, 0,
                   PQ_MASTERNODE_MODE, UnsignedData(q))

Pairs(q) == <<q.owner, q.operator, q.collateral>>

RegistrationOk(q) ==
  /\ q.network = "testnet"
  /\ q.collateral.value = PQ_MASTERNODE_COLLATERAL_SATS
  /\ OwnsAddress(q.owner) /\ OwnsAddress(q.collateral)
  /\ Len(q.inputs) \in 1 .. 2
  /\ \A i \in 1 .. Len(q.inputs) :
       <<q.inputs[i].txid, q.inputs[i].vout>> # <<q.collateral.txid, q.collateral.vout>>
  /\ EncodeOk(q)
  /\ \A k \in 1 .. 3 : Verifies(Seal(Pairs(q)[k].secretKey), Pairs(q)[k].publicKey)

WithRoles(q, signed) ==
  IF signed = Thrown THEN Thrown
  ELSE [raw |-> signed.raw, txid |-> signed.txid, messages |-> signed.messages,
        roleMessage |-> RoleMessage(q)]
Seals(q) == [k \in 1 .. 3 |-> Seal(Pairs(q)[k].secretKey)]
SignMasternodeRegistration(q) ==
  IF RegistrationOk(q)
  THEN WithRoles(q, SignPQTransaction(
         [q EXCEPT !.mode = PQ_MASTERNODE_MODE,
                   !.data = EncodeMasternodeRegistration(q, Seals(q))]))
  ELSE Thrown

-----------------------------------------------------------------------------
\* The withdrawal: the collateral is the one input, and pays the fee.

SignCollateralWithdrawal(network, collateral, destination, fee, genesis) ==
  IF \/ network # "testnet" \/ collateral.value # PQ_MASTERNODE_COLLATERAL_SATS
     \/ ~OwnsAddress(collateral) \/ fee <= 0 \/ fee >= collateral.value
  THEN Thrown
  ELSE SignPQTransaction(
    [inputs |-> <<[txid |-> collateral.txid, vout |-> collateral.vout, sequence |-> Final,
       prevout |-> [value |-> collateral.value, script |-> PQScript(collateral.address)],
       publicKey |-> collateral.publicKey, secretKey |-> collateral.secretKey]>>,
     outputs |-> <<[value |-> collateral.value - fee, script |-> PQScript(destination)]>>,
     locktime |-> 0, genesis |-> genesis, mode |-> PQ_TRANSFER_MODE, data |-> <<>>])

-----------------------------------------------------------------------------
\* Properties

\* What an input's signature does not commit to is nothing that the request
\* decides: two requests with a message in common are the same request.
CommitsToAll(q, others) ==
  \A p \in others : \A i \in 1 .. Len(q.inputs), j \in 1 .. Len(p.inputs) :
    MessageOf(q, i) = MessageOf(p, j) => q = p /\ i = j

\* The roles prove all that they agree to: the collateral, the three keys, who
\* is paid and how much, the service, and the transaction that carries it.
RolesCommitToAll(q, others) ==
  \A p \in others : RoleMessage(q) = RoleMessage(p) => q = p

\* A transaction that leaves this module spends the collateral only when it
\* is withdrawn, and then to the destination, less the fee.
Spends(tx, collateral) ==
  \E i \in 1 .. Len(tx.inputs) :
    tx.inputs[i].txid = collateral.txid /\ tx.inputs[i].vout = collateral.vout
SpendsCollateral(raw, collateral) == Spends(ParseTransfer(raw), collateral)
=============================================================================
