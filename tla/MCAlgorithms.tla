------------------------------ MODULE MCAlgorithms -----------------------------
(***************************************************************************)
(* The small parts of the wallet.  Those that compute and keep no state    *)
(* are run on inputs at their boundaries: the choice of coins,             *)
(* createTransaction of the legacy wallet, transactions and what is        *)
(* signed, block templates, the texts a user copies, the answers of the    *)
(* explorer.  The vaults and the addresses take all of their steps.        *)
(***************************************************************************)
EXTENDS Payments, Vaults

\* Of the wire format
CONSTANTS Base, HASH_SIZE, PQ_PUBLIC_KEY_SIZE, PQ_SIGNATURE_SIZE, PQ_MAX_TX_BYTES,
          PQ_MAX_MASTERNODE_DATA_BYTES, NamedTransactions,
          PQ_MASTERNODE_COLLATERAL_SATS, MainnetPort,
          MAX_BLOCK_BYTES, MAX_TEMPLATE_AGE, ClockAllowance
\* Of the answers
CONSTANTS Decimals, DefaultFeeRate, Missing, NoTxid, Thrown

VARIABLE job

\* The format alone: what the ids refer to is written in it.
Format == INSTANCE PQTransactions WITH NamedTransactions <- <<>>
Registration == INSTANCE PQRegistration
Template == INSTANCE PQStakeTemplate
Texts == INSTANCE PQKeyFormats
Answers == INSTANCE PQAnswers
Display == INSTANCE PQDisplay
Legacy == INSTANCE LegacyTransactions

-----------------------------------------------------------------------------
\* Coins whose values lie on both sides of what one, two, three or four of
\* them need to pay, with and without change that is just dust.

Call(kind, amount, rate, changeAddress, collateral) ==
  [kind |-> kind, utxos |-> <<>>, amount |-> amount, rate |-> rate,
   changeAddress |-> changeAddress, collateral |-> collateral]

\* What n equal coins must be worth each, to pay with m outputs and extra.
Share(q, n, m, extra) ==
  (q.amount + FeeFor(q, n, m) + extra + n - 1) \div n

Boundaries(q) ==
  {0} \cup
  UNION {{v - 1, v} \cap Nat :
    v \in {Share(q, 1, 1, 0), Share(q, 1, 1, PQ_DUST_SATS),
           Share(q, 1, 2, PQ_DUST_SATS), Share(q, 2, 1, 0),
           Share(q, 2, 2, PQ_DUST_SATS), Share(q, 3, 1, 0)}}

Ascending(S, n) ==
  {u \in [1 .. n -> S] : \A a, b \in 1 .. n : a < b => u[a] <= u[b]}

Calls ==
  {Call("transfer", amount, 1000, change, 0) :
     amount \in {PQ_DUST_SATS - 1, PQ_DUST_SATS, 300001}, change \in BOOLEAN}
  \cup {Call("transfer", PQ_DUST_SATS, 12345, TRUE, 0)}
  \cup {Call("registration", 0, rate, change, collateral) :
          rate \in {0, 1000, 12345}, change \in BOOLEAN, collateral \in {1, 2}}

BoundaryRequests ==
  UNION {{[q EXCEPT !.utxos = u] :
            u \in UNION {Ascending(Boundaries(q), n) : n \in 0 .. 3}} : q \in Calls}

\* The largest value twice and the smallest twice: four coins are needed.
FourCoins ==
  {[q EXCEPT !.utxos = <<v, w, v, w>>] :
     q \in {Call("transfer", 300001, 1000, TRUE, 0)},
     v \in Boundaries(Call("transfer", 300001, 1000, TRUE, 0)),
     w \in {75001, 80000, 100000}}

MCRequests == BoundaryRequests \cup FourCoins

-----------------------------------------------------------------------------
\* createTransaction: coins around the fees of one and two inputs, and
\* delegations in one output, in three, and in as many as lengthen the count.

P2pkh(v) == [value |-> v, kind |-> "p2pkh", ours |-> TRUE, spent |-> FALSE, immature |-> FALSE]
AsDelegated(coins) == [k \in DOMAIN coins |-> [coins[k] EXCEPT !.kind = "p2cs"]]
Order(purpose, value, coins) ==
  [purpose |-> purpose, to |-> "p2pkh", value |-> value, useDelegatedInputs |-> FALSE,
   useShieldInputs |-> FALSE, delegateChange |-> FALSE, changeDelegationAddress |-> FALSE,
   subtractFeeFromAmt |-> TRUE, shieldBalance |-> 0, coins |-> coins]

CoinLists ==
  {<<P2pkh(a), P2pkh(b)>> : a \in {600, 1000, 1193, 1200, 2000, 3000, 100000},
                            b \in {0, 300, 1227, 9000}}
  \cup {<<[P2pkh(5000) EXCEPT !.immature = a, !.spent = b], P2pkh(3000)>> : a, b \in BOOLEAN}
Sends ==
  {[Order("send", v, c) EXCEPT !.to = to, !.subtractFeeFromAmt = s] :
     v \in {500, 999, 1000, 2773, 2807}, c \in CoinLists,
     to \in {"p2pkh", "exchange", "shield"}, s \in BOOLEAN}
Delegated ==
  {Order("delegation", v, c) : v \in {900, 1000, 2001, 5999}, c \in CoinLists}
  \cup {Order("delegation", 2 * n * 1000 + 7, <<P2pkh(1000000), P2pkh(9000)>>) : n \in {251, 252, 253}}
Undelegated ==
  {[Order("send", v, AsDelegated(c)) EXCEPT
      !.useDelegatedInputs = TRUE, !.delegateChange = d, !.changeDelegationAddress = a] :
     v \in {1000, 2000}, c \in CoinLists, d, a \in BOOLEAN}
Shields ==
  {[Order("send", 1000, <<>>) EXCEPT !.useShieldInputs = TRUE, !.shieldBalance = b, !.to = to] :
     b \in {999, 1000}, to \in {"p2pkh", "shield"}}
Proposals ==
  {[Order("proposal", 2000, c) EXCEPT !.subtractFeeFromAmt = s] : c \in CoinLists, s \in BOOLEAN}
MCOrders == Sends \cup Delegated \cup Undelegated \cup Shields \cup Proposals

-----------------------------------------------------------------------------
\* Transactions: two keys, ids of two bytes.

Bytes(b) == <<b, b>>
Key(k) == [publicKey |-> Bytes(k), secretKey |-> Bytes(k), address |-> Bytes(k)]
ScriptOf(k) == Format!PQScript(Bytes(k))
Wired(txid, k, sig) ==
  [txid |-> txid, vout |-> 12, scriptSig |-> sig, sequence |-> 38415,
   publicKey |-> Bytes(k), signature |-> Bytes(k + 2)]
Paid(v, k) == [value |-> v, script |-> ScriptOf(k)]

MadeTransfers ==
  {[inputs |-> <<Wired(<<1, 2>>, 3, <<>>)>>, outputs |-> <<Paid(5, 4)>>,
    locktime |-> 0, mode |-> m, data |-> d] :
     m \in {1, 2, 6}, d \in {<<>>, <<7>>, [k \in 1 .. 11 |-> k]}}
  \cup
  {[inputs |-> <<Wired(<<1, 2>>, 3, <<>>), Wired(<<0, 13>>, 4, <<1>>)>>,
    outputs |-> <<Paid(196, 4), Paid(0, 3)>> \o more, locktime |-> 3, mode |-> m, data |-> <<>>] :
     m \in {1, 2}, more \in {<<>>, <<[value |-> 1, script |-> <<>>]>>}}

RawOf(t) ==
  Format!SerializeTransfer([inputs |-> t.inputs, outputs |-> t.outputs, locktime |-> t.locktime],
                           t.mode, t.data)
Raws == {RawOf(t) : t \in MadeTransfers} \ {Thrown}

\* One byte changed, removed or added, a number encoded at length, an end cut.
Edits(raw) ==
  UNION {
    {ReplaceAt(raw, k, b) : b \in {0, 1, 2, 3, 11, 12, 13}}
    \cup {RemoveAt(raw, k)}
    \cup {InsertAt(raw, k, b) : b \in {0, 1, 13}}
    \cup {SubSeq(raw, 1, k - 1) \o long \o SubSeq(raw, k + 1, Len(raw)) :
            long \in {<<11, raw[k], 0>>, <<12, raw[k], 0, 0, 0>>}}
    \cup {SubSeq(raw, 1, k)} : k \in 1 .. Len(raw)}
  \cup {Append(raw, 0)}

WireRaws == Raws \cup UNION {Edits(r) : r \in Raws}

Spent(txid, vout, value, k) ==
  [txid |-> txid, vout |-> vout, sequence |-> 38415,
   prevout |-> [value |-> value, script |-> ScriptOf(k)],
   publicKey |-> Bytes(k), secretKey |-> Bytes(k)]
Transfer(ins, outs, locktime, genesis, mode, data) ==
  [inputs |-> ins, outputs |-> outs, locktime |-> locktime, genesis |-> genesis,
   mode |-> mode, data |-> data]

First == Spent(<<1, 2>>, 0, 9, 3)
Second == Spent(<<1, 2>>, 1, 9, 4)
Ordinary == Transfer(<<First, Second>>, <<Paid(5, 4), Paid(6, 3)>>, 0, <<0, 1>>, 1, <<>>)

Transfers ==
  {Ordinary}
  \cup {[Ordinary EXCEPT !.inputs = ins] :
          ins \in {<<First>>, <<Second, First>>, <<First, Spent(<<1, 2>>, 1, 8, 4)>>,
                   <<First, Spent(<<2, 1>>, 1, 9, 4)>>, <<First, Spent(<<1, 2>>, 2, 9, 4)>>,
                   <<First, Spent(<<1, 2>>, 1, 9, 3)>>, <<Spent(<<1, 2>>, 0, 196, 3), Second>>,
                   <<First, [Second EXCEPT !.sequence = 1]>>}}
  \cup {[Ordinary EXCEPT !.outputs = outs] :
          outs \in {<<Paid(5, 4)>>, <<Paid(6, 3), Paid(5, 4)>>, <<Paid(5, 4), Paid(6, 4)>>,
                    <<Paid(5, 4), [value |-> 6, script |-> <<>>]>>}}
  \cup {[Ordinary EXCEPT !.locktime = 1], [Ordinary EXCEPT !.genesis = <<1, 0>>]}
  \cup {[Ordinary EXCEPT !.mode = m, !.data = d] :
          m \in {2, 6, 7}, d \in {<<>>, <<1>>, <<2>>, <<1, 0>>, [k \in 1 .. 12 |-> 1]}}
SignedTransfers == {q \in Transfers : Registration!SignPQTransaction(q) # Thrown}

Registering ==
  [network |-> "testnet", inputs |-> <<First>>, outputs |-> <<Paid(5, 3)>>, locktime |-> 0,
   genesis |-> <<0, 1>>, mode |-> 6, data |-> <<>>,
   collateral |-> [txid |-> <<5, 5>>, vout |-> 0, value |-> PQ_MASTERNODE_COLLATERAL_SATS,
                   publicKey |-> Bytes(4), secretKey |-> Bytes(4), address |-> Bytes(4)],
   owner |-> Key(3), operator |-> Key(5), payout |-> <<3, 3>>, operatorPayout |-> <<4, 4>>,
   operatorReward |-> 2, service |-> <<1, 2, 3, 4, 15>>]

Registrations ==
  {Registering}
  \cup {[Registering EXCEPT !.collateral.vout = v] : v \in {1, 14}}
  \cup {[Registering EXCEPT !.collateral = [@ EXCEPT !.txid = t, !.value = v]] :
          t \in {<<1, 2>>, <<5, 6>>, <<0, 0>>}, v \in {PQ_MASTERNODE_COLLATERAL_SATS, 1}}
  \cup {[Registering EXCEPT !.owner = p] : p \in {Key(6), [Key(3) EXCEPT !.secretKey = Bytes(6)]}}
  \cup {[Registering EXCEPT !.operator = Key(6)], [Registering EXCEPT !.payout = <<3, 4>>],
        [Registering EXCEPT !.locktime = 5], [Registering EXCEPT !.inputs = <<First, Second>>],
        [Registering EXCEPT !.inputs = <<>>], [Registering EXCEPT !.network = "regtest"]}
  \cup {[Registering EXCEPT !.operatorReward = r, !.operatorPayout = p] :
          r \in {0, 2, 15, 10001}, p \in {<<>>, <<4, 4>>, <<4, 5>>}}
  \cup {[Registering EXCEPT !.service = s] :
          s \in {<<>>, <<1, 2, 3, 4, 14>>, <<1, 2, 3, 4, 0>>, <<2, 1, 3, 4, 15>>,
                 <<1, 2, 3, 14, 15>>, <<1, 2, 3, 4, MainnetPort>>}}
Withdrawals ==
  [fee : {0, 1, 3999, 4000}, from : {3, 4}, on : {"testnet", "regtest"}]
SignedRegistrations == {q \in Registrations : Registration!SignMasternodeRegistration(q) # Thrown}

-----------------------------------------------------------------------------
\* Transactions of the legacy wallet: numbers on both sides of a longer form, a
\* delegated input, signed in either order; shield data, of either sign.

LegacyIn(id, n, kind, k) ==
  [txid |-> id, n |-> n, scriptSig |-> Legacy!Script(kind, k), sequence |-> 38415]
LegacyOut(v, length) == [value |-> v, script |-> [k \in 1 .. length |-> k % Base]]
LegacyIns ==
  LET own(id, n) == LegacyIn(id, n, Legacy!P2PKH, 3)
      delegated(n, k) == LegacyIn(<<2, 1>>, n, Legacy!P2CS, k)
  IN  {<<own(<<1, 2>>, 0)>>,
       <<own(<<1, 2>>, 0), own(<<1, 2>>, 1)>>, <<own(<<1, 2>>, 1), own(<<1, 2>>, 0)>>,
       <<own(<<1, 2>>, 0), delegated(0, 3)>>, <<own(<<1, 2>>, 0), delegated(15, 4)>>}
LegacyOuts ==
  {<<LegacyOut(5, 3)>>, <<LegacyOut(196, 10), LegacyOut(0, 11)>>,
   [k \in 1 .. 10 |-> LegacyOut(k, 1)], [k \in 1 .. 11 |-> LegacyOut(k, 1)], <<LegacyOut(7, 196)>>}
LegacyTxs ==
  {[Legacy!NewTransaction EXCEPT !.version = v, !.vin = ins, !.vout = outs, !.lockTime = l] :
     v \in {1, 2}, ins \in LegacyIns, outs \in LegacyOuts, l \in {0, 14}}
ShieldSpend == <<<<1, 2>>, <<3, 4>>, <<5, 6>>, <<7, 8>>, <<1, 2, 3>>, <<4>>>>
ShieldOutput == <<<<1, 2>>, <<3, 4>>, <<5, 6>>, <<1, 2, 3, 4, 5>>, <<6, 7, 8, 9>>, <<1, 2, 3>>>>
ShieldTxs ==
  {[Legacy!NewTransaction EXCEPT !.version = 3, !.vin = ins, !.shield =
      [valueBalance |-> b, spends |-> s, outputs |-> o, bindingSig |-> <<9>>]] :
     ins \in {<<>>, <<LegacyIn(<<1, 2>>, 0, Legacy!P2PKH, 3)>>}, b \in {-5, 0, 5},
     s \in {<<>>, <<ShieldSpend>>, <<ShieldSpend, ShieldSpend>>}, o \in {<<>>, <<ShieldOutput>>}}

-----------------------------------------------------------------------------
\* Templates.  Previous is on the chain: both its outputs are the wallet's.

Previous ==
  RawOf([inputs |-> <<Wired(<<9, 9>>, 4, <<1, 1>>)>>, outputs |-> <<Paid(20, 3), Paid(50, 3)>>,
         locktime |-> 0, mode |-> 1, data |-> <<>>])
Forged ==
  RawOf([inputs |-> <<Wired(<<9, 9>>, 4, <<1, 1>>)>>, outputs |-> <<Paid(20, 3), Paid(20, 3)>>,
         locktime |-> 0, mode |-> 1, data |-> <<>>])
MCNamed == <<Previous>>

Coinstake(vout, outs) ==
  RawOf([inputs |-> <<[Wired(<<1, 1>>, 3, <<>>) EXCEPT !.vout = vout]>>, outputs |-> outs,
         locktime |-> 0, mode |-> 2, data |-> <<>>])
Empty == [value |-> 0, script |-> <<>>]
Stakes ==
  {Coinstake(v, <<Empty, Paid(n, k)>>) : v \in {0, 1}, n \in {19, 20, 49, 50}, k \in {3, 4}}
  \cup {Coinstake(1, <<Empty, Paid(n, 3), Paid(o, 4)>>) : n \in {49, 52}, o \in {1, 8}}
  \cup {Coinstake(1, <<Empty, Paid(52, 3), Empty>>), Previous}

HeaderNow(time, version, length) ==
  [version |-> version, length |-> length, nonce |-> 0, parent |-> "tip", time |-> time, merkle |-> <<>>]
Block(previous, stake, header) ==
  [version |-> 1, network |-> "testnet", genesis |-> <<0, 1>>, tip |-> "tip", height |-> 5,
   expires |-> 110, previous |-> previous, header |-> header,
   transactions |-> <<Previous, stake, Forged>>]
Candidate(vout, value, reserved) ==
  [network |-> "testnet", genesis |-> <<0, 1>>, tip |-> "tip", keypair |-> Key(3),
   coin |-> [txid |-> <<1, 1>>, vout |-> vout, value |-> value, address |-> Bytes(3)],
   reserved |-> reserved]

Prepared ==
  {Block(p, s, HeaderNow(100, 7, 80)) :
     p \in {Previous, Forged, SubSeq(Previous, 1, 35)}, s \in Stakes}
  \cup {Block(Previous, Coinstake(1, <<Empty, Paid(52, 3)>>), HeaderNow(t, v, l)) :
          t \in {39, 40, 115, 116}, v \in {6, 7, 8}, l \in {80, 112}}
  \cup {[Block(Previous, Coinstake(1, <<Empty, Paid(52, 3)>>), HeaderNow(100, 7, 80))
           EXCEPT !.tip = t, !.expires = e] : t \in {"tip", "old"}, e \in {99, 100, 160, 161}}
Candidates2 == {Candidate(v, n, r) : v \in {0, 1, 2}, n \in {20, 50}, r \in {{}, {<< <<1, 1>>, 1>>}}}
TrueWorth(vout) == CASE vout = 0 -> 20 [] vout = 1 -> 50 [] OTHER -> 0

-----------------------------------------------------------------------------
\* Texts

Ids == {[k \in 1 .. 32 |-> (k * 7 + 3) % 256], [k \in 1 .. 32 |-> 255 - k], [k \in 1 .. 32 |-> 0]}
AddressOf(id) == Texts!AddressFromId(id, "testnet")
Typos(address) ==
  {[address EXCEPT !.data[k] = c] : k \in DOMAIN address.data, c \in {0, 17, 32}}
  \cup {[address EXCEPT !.data[k] = address.data[k + 1], !.data[k + 1] = address.data[k]] :
          k \in 1 .. Len(address.data) - 1}
  \cup {[address EXCEPT !.case = c] : c \in {"upper", "mixed"}}
  \cup {[address EXCEPT !.hrp = Texts!PQ_ADDRESS_HRP["regtest"]],
        [address EXCEPT !.data = Append(@, 0)], [address EXCEPT !.data = Tail(@)]}

OperatorFiles ==
  {[Texts!CreateOperatorConfig("seed", "wrap", "nonce", "testnet", "genesis")
      EXCEPT !.version = v, !.nonce = n, !.wrappingKey = w] :
     v \in {1, 2}, n \in {"nonce", "other"}, w \in {"wrap", "other"}}

-----------------------------------------------------------------------------
\* Activity: four transactions of the addresses a and b, and of x.

Sats(whole) == [whole |-> whole, fraction |-> <<>>, point |-> FALSE, digits |-> TRUE]
CoinText(whole, fraction) == [whole |-> whole, fraction |-> fraction, point |-> TRUE, digits |-> TRUE]
Entry(addresses, value) == [addresses |-> addresses, value |-> value]
Seen(id, ins, outs, time, stake) ==
  [txid |-> id, vin |-> ins, vout |-> outs, blockTime |-> time, confirmations |-> 1, coinstake |-> stake]

Ledger ==
  << Seen(1, <<>>, <<Entry({"a"}, Sats(<<5, 0, 0>>)), Entry({"x"}, Sats(<<7>>))>>, 1, FALSE),
     Seen(2, <<Entry({"a"}, CoinText(<<5>>, <<>> \o <<0>>))>>,
          <<Entry({"b"}, CoinText(<<3>>, <<0, 5>>)), Entry({"x"}, Sats(<<9, 0>>)), Entry({}, Sats(<<1>>))>>, 2, FALSE),
     Seen(3, <<Entry({"x"}, Sats(<<7>>))>>, <<Entry({"a", "b"}, Sats(<<6>>))>>, 2, FALSE),
     Seen(4, <<Entry({"b"}, CoinText(<<3>>, <<0, 5, 0>>))>>, <<Entry({}, Sats(<<0>>)), Entry({"b"}, Sats(<<3, 0, 9>>))>>, 3, TRUE) >>
\* What is unspent, in each history that is a beginning of the ledger.
Unspent(n, own) ==
  LET counts(k, S, v) == IF n >= k /\ S \cap own # {} THEN v ELSE 0
  IN  counts(1, {"a"}, 500) + counts(1, {"x"}, 7) - counts(2, {"a"}, 500) + counts(2, {"b"}, 305)
        + counts(2, {"x"}, 90) - counts(3, {"x"}, 7) + counts(3, {"a", "b"}, 6)
        - counts(4, {"b"}, 305) + counts(4, {"b"}, 309)

\* The lists of the addresses, one after the other.
FoundAt(address, n) ==
  SelectSeq(SubSeq(Ledger, 1, n), LAMBDA t :
    \E e \in Range(t.vin) \cup Range(t.vout) : address \in e.addresses)

Worth(id) == IF id = "a" THEN 105 ELSE 7
\* Coins a and b are worth 105 and 7, in either notation; x is unreadable.
ListedBy(id, value, confirmations) ==
  [txid |-> id, vout |-> 0, value |-> value, confirmations |-> confirmations]
Bodies ==
  {[kind |-> "list", items |-> coins] :
     coins \in {<<>>, <<ListedBy("a", Sats(<<1, 0, 5>>), Missing), ListedBy("b", CoinText(<<0>>, <<0, 7>>), 3)>>,
               <<ListedBy("a", CoinText(<<1>>, <<0, 5, 0>>), 1), ListedBy("x", CoinText(<<1>>, <<0, 0, 1>>), 1)>>,
               <<ListedBy("b", Sats(<<7>>), 1), ListedBy("x", Missing, 1)>>}}
  \cup {[kind |-> "text", text |-> t] : t \in {NoTxid, "t1"}}
  \cup {[kind |-> "number", value |-> n] : n \in {-1, 0, 7}}
  \cup {[kind |-> "object", result |-> r, txid |-> t, minrelaytxfee |-> m] :
          r \in {Missing, NoTxid, "t1"}, t \in {Missing, NoTxid, "t2"},
          m \in {Missing, Sats(<<0>>), CoinText(<<0>>, <<0, 1>>), CoinText(<<>>, <<1>>)}}
Replied(answer) == [kind |-> "answer", answer |-> answer]
ExplorerAnswers ==
  {Replied([ok |-> o, json |-> w, body |-> b]) : o, w \in BOOLEAN, b \in Bodies}

Digits == UNION {[1 .. n -> {0, 1, 5}] : n \in 0 .. 4}

-----------------------------------------------------------------------------
\* What is shown

ShownAmounts == 0 .. 130 \cup {999, 1000, 1010, 100500}
\* What an error may quote, the words of other errors included.
Words == {"7", "x", "must be a whole number", "Invalid OLC amount:", "bytes"}
Quoted == UNION {[1 .. n -> Words] : n \in 1 .. 2}
\* A name in the code, for the one pattern that begins with it.
QuotedBy(k) ==
  IF Display!Patterns[k].number THEN {<<"7">>}
  ELSE IF Display!Patterns[k].before = <<>> THEN {<<"x">>} ELSE Quoted
TxAt(time, confirmations) ==
  [txid |-> time, blockTime |-> time, confirmations |-> confirmations, isStake |-> FALSE]
\* The seven latest transactions, any of them pending.
Activities ==
  {[k \in 1 .. 7 |-> TxAt(7 - k, confirmations[k])] : confirmations \in [1 .. 7 -> {0, 4}]}
CoinAt(o, v, c) == [outpoint |-> o, valueSats |-> v, confirmations |-> c]
HeldCoins == {CoinAt(1, 3, 0), CoinAt(1, 3, 2), CoinAt(2, 3, 1), CoinAt(3, 4000, 1)}
-----------------------------------------------------------------------------
\* One job after the other: those of the first two kinds, and the last two, take steps.

Jobs ==
  {[kind |-> "wire", raw |-> r] : r \in WireRaws}
  \cup {[kind |-> "made", made |-> t] : t \in MadeTransfers}
  \cup {[kind |-> "transfer", transfer |-> q] : q \in SignedTransfers}
  \cup {[kind |-> "registration", registration |-> q] : q \in SignedRegistrations}
  \cup {[kind |-> "legacy", tx |-> t] : t \in LegacyTxs}
  \cup {[kind |-> "shield", tx |-> t] : t \in ShieldTxs}
  \cup {[kind |-> "withdrawal", withdrawal |-> w] : w \in Withdrawals}
  \cup {[kind |-> "template", template |-> t, candidate |-> c] : t \in Prepared, c \in Candidates2}
  \cup {[kind |-> "typo", typo |-> t] :
          t \in UNION {Typos(AddressOf(id)) \ {AddressOf(id)} : id \in {[k \in 1 .. 32 |-> (k * 7 + 3) % 256]}}}
  \cup {[kind |-> "text", id |-> id, network |-> n] : id \in Ids, n \in {"testnet", "regtest"}}
  \cup {[kind |-> "file", file |-> f, network |-> n, genesis |-> g] :
          f \in OperatorFiles, n \in {"testnet", "regtest"}, g \in {"genesis", "other"}}
  \cup {[kind |-> "amount", whole |-> w, fraction |-> f] : w \in {<<>>, <<0>>, <<1, 2>>}, f \in Digits}
  \cup ExplorerAnswers
  \cup {[kind |-> "activity", until |-> n, own |-> o, found |-> f] :
          n \in 0 .. 4, o \in SUBSET {"a", "b", "x"},
          f \in {<<"a", "b", "x">>, <<"b", "x", "a">>, <<"x", "x", "b", "a">>}}

  \cup {[kind |-> "shown", sats |-> v] : v \in ShownAmounts}
  \cup {[kind |-> "error", at |-> k, quoted |-> q] :
          k \in 1 .. Len(Display!Patterns), q \in Quoted}
  \cup {[kind |-> "list", activity |-> a] : a \in Activities}
  \cup {[kind |-> "coins", utxos |-> u, reserved |-> r] :
          u \in SUBSET HeldCoins, r \in SUBSET (1 .. 3)}

NoRequest ==
  /\ request = [Call("transfer", PQ_DUST_SATS, 1000, TRUE, 0) EXCEPT !.utxos = <<>>]
  /\ sorted = <<>> /\ at = "check" /\ i = 1 /\ j = 2 /\ best = None
NoOrder == order = Order("send", 0, <<>>) /\ tx = Builder

RestingVaults == VaultsInit /\ (job.kind # "vaults" => promised = {})
otherVars == <<vaultVars, addressVars>>

AlgorithmsInit ==
  /\ \/ job = [kind |-> "select"] /\ Init /\ NoOrder
     \/ job = [kind |-> "create"] /\ CreationInit /\ NoRequest
     \/ job \in Jobs \cup {[kind |-> "vaults"], [kind |-> "addresses"]} /\ NoRequest /\ NoOrder
  /\ RestingVaults /\ AddressesInit
AlgorithmsNext ==
  \/ job.kind = "select" /\ Next /\ UNCHANGED <<order, tx, job, otherVars>>
  \/ job.kind = "create" /\ Create /\ UNCHANGED <<vars, job, otherVars>>
  \/ job.kind = "vaults" /\ VaultsNext /\ UNCHANGED <<vars, order, tx, job, addressVars>>
  \/ job.kind = "addresses" /\ AddressesNext /\ UNCHANGED <<vars, order, tx, job, vaultVars>>
AlgorithmsSpec ==
  AlgorithmsInit /\ [][AlgorithmsNext]_<<vars, order, tx, job, otherVars>>

-----------------------------------------------------------------------------
\* Properties

\* The secrets of legacy wallets: imported; encrypted and stored; and imported
\* again, as another kind.
MCSecrets == {<<"s", "phrase">>, <<"s", "private">>, <<"k", "private">>}

\* A transaction has one encoding only: what is parsed is what was received,
\* and what was made is parsed as it was made, those of the legacy wallet too.
WireIsExact ==
  /\ job.kind \in {"legacy", "shield"} => Legacy!ReadsBack(job.tx)
  /\ job.kind = "wire" => Template!ParsesExactly(job.raw, 0 .. 8)
  /\ job.kind = "made" =>
       LET t == job.made IN
       Template!ParsesBack([inputs |-> t.inputs, outputs |-> t.outputs, locktime |-> t.locktime],
                           t.mode, t.data, 0 .. 8)

\* What a withdrawal returns, less the fee.
Returned(signed, collateral, fee) ==
  signed # Thrown =>
    /\ Registration!SpendsCollateral(signed.raw, collateral)
    /\ Template!ParseTransfer(signed.raw).outputs =
         <<Paid(PQ_MASTERNODE_COLLATERAL_SATS - fee, 3)>>
WithdrawalReturns(w, collateral) ==
  Returned(Registration!SignCollateralWithdrawal(w.on, collateral, <<3, 3>>, w.fee, <<0, 1>>),
           collateral, w.fee)
\* A signature, of an input or of a masternode's role, commits to everything
\* that was asked for; only the withdrawal spends a collateral, and all of it
\* less the fee goes where it should.  A legacy signature still verifies when the
\* other inputs are signed.
MessagesCommit ==
  /\ job.kind = "legacy" => Legacy!SignaturesHold(job.tx) /\ Legacy!CommitsToAll(job.tx, LegacyTxs)
  /\ job.kind = "transfer" => Registration!CommitsToAll(job.transfer, SignedTransfers)
  /\ job.kind = "registration" =>
       /\ Registration!RolesCommitToAll(job.registration, SignedRegistrations)
       /\ ~Registration!SpendsCollateral(
             Registration!SignMasternodeRegistration(job.registration).raw,
             job.registration.collateral)
  /\ job.kind = "withdrawal" =>
       WithdrawalReturns(job.withdrawal,
                         [Registering.collateral EXCEPT !.secretKey = Bytes(job.withdrawal.from)])

\* A block is signed only if its stake returns what the coin is worth.
PrincipalReturns ==
  job.kind = "template" =>
    Template!PrincipalReturns(job.template, job.candidate, 100, TrueWorth(job.candidate.coin.vout))

\* What is copied is restored exactly, and what was mistyped is refused; what is
\* shown can be typed, and an error is shown as the error it is.
TextsAreExact ==
  /\ job.kind = "typo" => Texts!TypoIsRefused(job.typo)
  /\ job.kind = "text" => Texts!Restores(job.id, job.network)
  /\ job.kind = "file" =>
       Texts!OpensOnlyAtHome(job.file, job.network, job.genesis, "seed", <<"testnet", "genesis">>)
  /\ job.kind = "shown" => Display!AmountIsReadBack(job.sats)
  /\ job.kind = "error" /\ job.quoted \in QuotedBy(job.at) => Display!IsNamed(job.at, job.quoted)

\* No answer of the explorer is misread: the activity adds up to the coins, in
\* whichever notation and order, and however often, the explorer lists it; and
\* no pending transaction and no coin is hidden.
AnswersAreExact ==
  /\ job.kind = "answer" =>
       Answers!NothingIsMisread(job.answer, "address", Worth)
  /\ job.kind = "amount" => Answers!AmountIsExact(job.whole, job.fraction)
  /\ job.kind = "activity" =>
       Answers!AddsUp(
         Answers!SummarizeActivity(
           FoldLeft(LAMBDA acc, a : acc \o FoundAt(a, job.until), <<>>, job.found), job.own),
         Unspent(job.until, job.own))
  /\ job.kind = "activity" =>
       Display!RowsAreTrue(Answers!SummarizeActivity(FoundAt("a", job.until), job.own))
  /\ job.kind = "list" => Display!PendingIsShown(job.activity)
  /\ job.kind = "coins" => Display!BalancesAddUp(job.utxos, job.reserved)
=============================================================================
