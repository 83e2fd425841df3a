------------------------------- MODULE PQAnswers -------------------------------
(***************************************************************************)
(* What the wallet makes of the answers of the explorer and the bridge:    *)
(* scripts/pqwallet/pqnetwork.js and the list of transactions of           *)
(* scripts/pqwallet/pqactivity.js.                                         *)
(*                                                                         *)
(* A number is the text it is sent as: its digits before and after the     *)
(* point, if it has one.  An answer is its status, whether its body is     *)
(* JSON, and what the body says.                                           *)
(***************************************************************************)
EXTENDS Integers, Sequences, FiniteSets, SequencesExt, FiniteSetsExt

CONSTANTS
  Decimals,           \* digits after the point of an amount: 8
  DefaultFeeRate,     \* of pqcoinselect.js
  Thrown,             \* an exception
  Missing,            \* undefined or null
  NoTxid              \* a text that is no txid

-----------------------------------------------------------------------------
\* Amounts.  A text is a record of the digits before and after the point;
\* point says whether there is one, and digits whether there is nothing else.

NumberOf(digits) == FoldLeft(LAMBDA acc, d : acc * 10 + d, 0, digits)
Zeros(n) == [i \in 1 .. n |-> 0]

PadEnd(fraction) ==
  IF Len(fraction) < Decimals THEN fraction \o Zeros(Decimals - Len(fraction)) ELSE fraction

DecimalToSats(text) ==
  LET fraction == PadEnd(text.fraction) IN
  IF \/ ~text.digits \/ text.whole = <<>> \/ (text.point /\ text.fraction = <<>>)
     \/ \E i \in Decimals + 1 .. Len(fraction) : fraction[i] # 0
  THEN Thrown
  ELSE NumberOf(text.whole \o SubSeq(fraction, 1, Decimals))

\* A point decides: without one, the number is one of satoshis.
ExplorerValueToSats(text) ==
  CASE text = Missing -> Thrown
    [] text.point -> DecimalToSats(text)
    [] ~text.point /\ text.digits /\ text.whole # <<>> -> NumberOf(text.whole)
    [] OTHER -> Thrown

-----------------------------------------------------------------------------
\* Answers.  An error of any kind is thrown; its message is left out.

FetchJson(answer) == IF answer.ok /\ answer.json THEN answer.body ELSE Thrown

IsList(body) == body # Thrown /\ body.kind = "list"

FetchUTXOs(answer, address) ==
  LET body == FetchJson(answer) IN
  IF ~IsList(body) THEN Thrown
  ELSE IF \E i \in 1 .. Len(body.items) : ExplorerValueToSats(body.items[i].value) = Thrown
  THEN Thrown
  ELSE [i \in 1 .. Len(body.items) |->
         [txid |-> body.items[i].txid, vout |-> body.items[i].vout,
          valueSats |-> ExplorerValueToSats(body.items[i].value),
          confirmations |-> IF body.items[i].confirmations = Missing THEN 0
                            ELSE body.items[i].confirmations,
          address |-> address]]

FetchMasternodes(answer) ==
  LET body == FetchJson(answer) IN IF IsList(body) THEN body.items ELSE Thrown

FetchBlockCount(answer) ==
  LET body == FetchJson(answer) IN
  IF body = Thrown THEN Thrown
  ELSE IF body.kind = "number" /\ body.value >= 0 THEN body.value ELSE Thrown

\* Whatever is wrong, the wallet's own rate is used.
FetchMinRelayFee(answer) ==
  LET body == FetchJson(answer)
      fee  == CASE body = Thrown -> Thrown
                [] body # Thrown /\ body.kind = "object" /\ body.minrelaytxfee # Missing ->
                     DecimalToSats(body.minrelaytxfee)
                [] OTHER -> Thrown
  IN  IF fee = Thrown THEN DefaultFeeRate ELSE IF fee > 0 THEN fee ELSE DefaultFeeRate

\* The txid as it is, or under one of two names; result goes first.
Broadcast(answer) ==
  LET body == FetchJson(answer)
      txid == CASE body = Thrown -> Missing
                [] body # Thrown /\ body.kind = "text" -> body.text
                [] body # Thrown /\ body.kind = "object" ->
                     IF body.result # Missing THEN body.result ELSE body.txid
                [] OTHER -> Missing
  IN  IF txid = Missing \/ txid = NoTxid THEN Thrown ELSE txid

-----------------------------------------------------------------------------
\* Activity.  A transaction lists its outputs and inputs, each with the
\* addresses and the value the explorer gives it.

\* Mistake: a transaction counts for every address that it was found at.
UniqueNot(txs) == txs
\* The first of those with the same txid.
Unique(txs) ==
  FoldLeft(LAMBDA acc, tx :
    IF \E i \in 1 .. Len(acc) : acc[i].txid = tx.txid THEN acc ELSE Append(acc, tx),
    <<>>, txs)

Touching(entries, own) == SelectSeq(entries, LAMBDA e : e.addresses \cap own # {})
SatsOf(e) == ExplorerValueToSats(e.value)
Total(entries) ==
  FoldLeft(LAMBDA acc, e : IF SatsOf(e) = Thrown THEN acc ELSE acc + SatsOf(e), 0, entries)

ConfirmedCoinstake(tx) == tx.confirmations > 0 /\ tx.coinstake

Row(tx, own) ==
  LET ins  == Touching(tx.vin, own)
      outs == Touching(tx.vout, own)
      received == Total(outs)
      spent == Total(ins)
      unavailable == \E e \in Range(ins) \cup Range(outs) : SatsOf(e) = Thrown
  IN  [txid |-> tx.txid, received |-> received, spent |-> spent,
       unavailable |-> unavailable,
       net |-> IF unavailable THEN Missing ELSE received - spent,
       direction |-> IF unavailable THEN Missing
                     ELSE IF received >= spent THEN "in" ELSE "out",
       isStake |-> ~unavailable /\ spent > 0 /\ received > spent /\ ConfirmedCoinstake(tx),
       blockTime |-> tx.blockTime]

SummarizeActivity(txs, own) ==
  LET touched == SelectSeq(Unique(txs), LAMBDA tx :
        Touching(tx.vin, own) # <<>> \/ Touching(tx.vout, own) # <<>>)
      rows == [i \in 1 .. Len(touched) |-> Row(touched[i], own)]
  IN  SortSeq(rows, LAMBDA x, y : x.blockTime > y.blockTime)

-----------------------------------------------------------------------------
\* Properties

\* An amount in coins is worth what its digits say, however many zeros follow
\* it, and is refused exactly if that is no whole number of satoshis.
AmountIsExact(whole, fraction) ==
  LET result == ExplorerValueToSats(
        [whole |-> whole, fraction |-> fraction, point |-> TRUE, digits |-> TRUE])
      scaled == NumberOf(whole \o fraction) * 10^Decimals
  IN  IF result = Thrown
      THEN whole = <<>> \/ fraction = <<>> \/ scaled % 10^Len(fraction) # 0
      ELSE result * 10^Len(fraction) = scaled

\* No answer is taken for another: a list of coins is read whole or refused,
\* each coin worth what it says, the rate is always one that can be paid with,
\* and what was sent is known by a txid or the sending has failed.
NothingIsMisread(answer, address, worth(_)) ==
  LET coins == FetchUTXOs(answer, address) IN
  /\ coins # Thrown =>
       /\ answer.ok /\ answer.json /\ answer.body.kind = "list"
       /\ Len(coins) = Len(answer.body.items)
       /\ \A i \in 1 .. Len(coins) : coins[i].valueSats = worth(answer.body.items[i].txid)
  /\ FetchMasternodes(answer) # Thrown => answer.body.kind = "list"
  /\ FetchBlockCount(answer) # Thrown => FetchBlockCount(answer) >= 0
  /\ FetchMinRelayFee(answer) > 0
  /\ Broadcast(answer) \notin {Missing, NoTxid} /\ (~answer.ok => Broadcast(answer) = Thrown)

\* The activity of a wallet whose transactions are all known adds up to the
\* coins it has: every transaction counts once, whichever of its addresses it
\* was found at and whichever of them a transaction pays to or spends from.
AddsUp(rows, coins) ==
  (\A i \in 1 .. Len(rows) : ~rows[i].unavailable) =>
    FoldLeft(LAMBDA acc, r : acc + r.net, 0, rows) = coins
=============================================================================
