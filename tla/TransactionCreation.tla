------------------------- MODULE TransactionCreation --------------------------
(***************************************************************************)
(* createTransaction() of scripts/wallet.js, the TransactionBuilder it     *)
(* uses, and the choice of coins in scripts/mempool.js: which coins are    *)
(* spent, what the outputs are worth and who pays the fee.                 *)
(*                                                                         *)
(* The code is synchronous, so that one action makes a transaction.        *)
(* Scripts appear as their kind, which decides their length.  What the     *)
(* shield library builds itself is external.                               *)
(***************************************************************************)
EXTENDS Integers, Sequences

CONSTANTS
  Orders,            \* the calls of createTransaction
  MIN_FEE_PER_BYTE, COIN, StakeSplitTarget

CoinType ==
  [value : Nat, kind : {"p2pkh", "p2cs"}, ours : BOOLEAN, spent : BOOLEAN, immature : BOOLEAN]
OrderType ==
  [purpose : {"send", "delegation", "proposal"}, to : {"p2pkh", "exchange", "shield"},
   value : Nat, useDelegatedInputs : BOOLEAN, useShieldInputs : BOOLEAN,
   delegateChange : BOOLEAN, changeDelegationAddress : BOOLEAN, subtractFeeFromAmt : BOOLEAN,
   shieldBalance : Nat, coins : Seq(CoinType)]

ASSUME CreationAssumption ==
  /\ Orders \subseteq OrderType
  /\ MIN_FEE_PER_BYTE \in Nat \ {0} /\ COIN \in Nat /\ StakeSplitTarget \in Nat \ {0}

VARIABLES order, tx
creationVars == <<order, tx>>

-----------------------------------------------------------------------------
\* Sizes in bytes.

VarIntSize(n) == IF n < 253 THEN 1 ELSE IF n < 65536 THEN 3 ELSE 5
ScriptSize == [p2pkh |-> 25, exchange |-> 26, p2cs |-> 51, proposal |-> 34]
OutputSize(kind) == 8 + VarIntSize(ScriptSize[kind]) + ScriptSize[kind]
SCRIPT_SIG_MAX_SIZE == 108
InputSize == 32 + 4 + VarIntSize(SCRIPT_SIG_MAX_SIZE) + SCRIPT_SIG_MAX_SIZE + 4

SumOf(numbers) ==
  LET sum[n \in 0 .. Len(numbers)] == IF n = 0 THEN 0 ELSE sum[n - 1] + numbers[n]
  IN  sum[Len(numbers)]

Sizes(vout) == [k \in 1 .. Len(vout) |-> OutputSize(vout[k].kind)]
Values(outs) == [k \in 1 .. Len(outs) |-> outs[k].value]

TransactionSize(ins, vout) ==
  4 + VarIntSize(Len(ins)) + Len(ins) * InputSize
    + VarIntSize(Len(vout)) + SumOf(Sizes(vout)) + 4

-----------------------------------------------------------------------------
\* The builder: how far it is, the coins of its inputs, its outputs, and what of the fee
\* the outputs have paid already.

Builder == [at |-> "asked", ins |-> <<>>, vout |-> <<>>, shieldOutputs |-> 0, handledFee |-> 0]

ValueIn(b) == SumOf(Values(b.ins))
ValueOut(b) == SumOf(Values(b.vout))
GetFee(b) == TransactionSize(b.ins, b.vout) * MIN_FEE_PER_BYTE - b.handledFee

CostOf(kind) == OutputSize(kind) * MIN_FEE_PER_BYTE
IsDust(kind, value) == value < CostOf(kind)

\* Mistake: a change that is dust is added all the same.
AddScriptWithDust(b, kind, value, isChange) ==
  [b EXCEPT !.vout = Append(@, [kind |-> kind, change |-> isChange,
                     value |-> value - IF isChange THEN CostOf(kind) ELSE 0]),
            !.handledFee = @ + IF isChange THEN CostOf(kind) ELSE 0]

\* A change pays for its own bytes, unless it is not worth it.
AddScript(b, kind, value, isChange) ==
  IF isChange /\ IsDust(kind, value) THEN b
  ELSE [b EXCEPT !.vout = Append(@, [kind |-> kind, change |-> isChange,
                     value |-> value - IF isChange THEN CostOf(kind) ELSE 0]),
                 !.handledFee = @ + IF isChange THEN CostOf(kind) ELSE 0]

AddOutput(b, to, value, isChange) ==
  CASE to = "shield"   -> [b EXCEPT !.shieldOutputs = @ + 1]
    [] to = "exchange" -> AddScript(b, "exchange", value, FALSE)
    [] OTHER           -> AddScript(b, "p2pkh", value, isChange)

AddColdStakeOutput(b, value, isChange) == AddScript(b, "p2cs", value, isChange)

\* The first output pays what cannot be divided.
EquallySubtractAmt(b, value) ==
  LET n == Len(b.vout)
      share(i) == value \div n + IF i = 1 THEN value % n ELSE 0
  IN  [b EXCEPT !.vout = [i \in 1 .. n |-> [b.vout[i] EXCEPT !.value = @ - share(i)]]]

-----------------------------------------------------------------------------
\* The coins of the mempool.

Kind(o) == IF o.useDelegatedInputs THEN "p2cs" ELSE "p2pkh"

Spendable(o, coin) == coin.ours /\ coin.kind = Kind(o) /\ ~coin.spent /\ ~coin.immature

\* Balances leave out what is spent or immature.
Balance(o) ==
  IF o.useShieldInputs /\ ~o.useDelegatedInputs THEN o.shieldBalance
  ELSE SumOf([k \in 1 .. Len(o.coins) |->
                IF Spendable(o, o.coins[k]) THEN o.coins[k].value ELSE 0])

\* Coins are added until they are worth the target and a tenth.
Enough(o, utxos) ==
  LET bal == SumOf(Values(utxos)) IN 10 * bal >= 11 * o.value /\ bal > 0
GetUTXOs(o) ==
  LET utxos[n \in 0 .. Len(o.coins)] ==
        IF n = 0 THEN <<>>
        ELSE LET before == utxos[n - 1] IN
             IF Spendable(o, o.coins[n]) /\ ~Enough(o, before) THEN Append(before, o.coins[n])
             ELSE before
  IN  utxos[Len(o.coins)]

-----------------------------------------------------------------------------
\* createTransaction

Failed(why) == [Builder EXCEPT !.at = why]
Built(b) == [b EXCEPT !.at = "built"]

Delegations(b, value) ==
  IF value < StakeSplitTarget THEN AddColdStakeOutput(b, value, FALSE)
  ELSE LET worth(i) == StakeSplitTarget + IF i = 1 THEN value % StakeSplitTarget ELSE 0 IN
       [b EXCEPT !.vout = [i \in 1 .. value \div StakeSplitTarget |->
                             AddColdStakeOutput(Builder, worth(i), FALSE).vout[1]]]

PrimaryOutput(o) ==
  CASE o.purpose = "delegation" -> Delegations(Builder, o.value)
    [] o.purpose = "proposal"   -> AddScript(Builder, "proposal", o.value, FALSE)
    [] OTHER                    -> AddOutput(Builder, o.to, o.value, FALSE)

Change(o, b, value) ==
  IF o.delegateChange /\ value >= COIN
  THEN AddColdStakeOutput(b, value, TRUE)
  ELSE AddOutput(b, "p2pkh", value, TRUE)

IsShieldTx(o) == o.useShieldInputs \/ o.to = "shield"

\* Change is given, or the fee is taken from what is sent.
Settle(o, b) ==
  LET change == ValueIn(b) - ValueOut(b) - GetFee(b) IN
  CASE change > 0 -> Built(Change(o, b, change))
    [] change = 0 -> Built(b)
    [] change < 0 /\ o.subtractFeeFromAmt -> Built(EquallySubtractAmt(b, -change))
    [] OTHER -> Failed("Not enough balance")

CreateTransaction(o) ==
  CASE Balance(o) < o.value -> Failed("Not enough balance")
    [] o.delegateChange /\ ~o.changeDelegationAddress -> Failed("no address")
    [] o.purpose = "delegation" /\ o.value < COIN -> Failed("below consensus")
    [] OTHER ->
         LET b == IF o.useShieldInputs THEN PrimaryOutput(o)
                  ELSE [PrimaryOutput(o) EXCEPT !.ins = GetUTXOs(o)]
         IN  IF IsShieldTx(o) THEN Built(b) ELSE Settle(o, b)

CreationInit == order \in Orders /\ tx = Builder
Create ==
  /\ tx.at = "asked" /\ tx' = CreateTransaction(order)
  /\ UNCHANGED order
CreationSpec == CreationInit /\ [][Create]_creationVars

-----------------------------------------------------------------------------
\* Properties

Clear == tx.at = "built" /\ ~IsShieldTx(order)
Fee == ValueIn(tx) - ValueOut(tx)
Size == TransactionSize(tx.ins, tx.vout)

\* The change makes the number of outputs take two more bytes.
CrossesVarInt ==
  /\ VarIntSize(Len(tx.vout)) > VarIntSize(Len(tx.vout) - 1)
  /\ \E i \in 1 .. Len(tx.vout) : tx.vout[i].change

\* A transaction pays the minimum for its final size, whichever outputs were
\* added after the fee was first computed, and wastes at most what a change
\* that was not worth adding would have cost: the one exception are the two
\* bytes by which the change lengthens the count of outputs.
FeeIsPaid ==
  Clear => /\ Fee >= (Size - IF CrossesVarInt THEN 2 ELSE 0) * MIN_FEE_PER_BYTE
           /\ Fee < Size * MIN_FEE_PER_BYTE + CostOf("p2cs")

Sent(vout) == [k \in 1 .. Len(vout) |-> IF vout[k].change THEN 0 ELSE vout[k].value]

\* What is sent is what was asked for, less what the coins that were chosen
\* leave unpaid of the fee, in any number of outputs; no change is negative.
AmountsArrive ==
  Clear =>
    LET n == Len(tx.vout)
        worth == SumOf(Sent(tx.vout))
    IN  /\ \/ worth = order.value
           \/ /\ worth < order.value /\ order.subtractFeeFromAmt
              /\ Fee = Size * MIN_FEE_PER_BYTE /\ \A k \in 1 .. n : ~tx.vout[k].change
        /\ \A k \in 1 .. n : tx.vout[k].change => tx.vout[k].value >= 0
=============================================================================
