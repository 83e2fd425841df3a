------------------------------- MODULE PQDisplay -------------------------------
(***************************************************************************)
(* What PQWallet.vue computes to show: balances, amounts, the list of      *)
(* transactions and the texts of errors.  A message is a sequence of       *)
(* words, each of which stands for a phrase of the source.                 *)
(***************************************************************************)
EXTENDS PQAnswers

-----------------------------------------------------------------------------
\* Balances, of coins [outpoint, valueSats, confirmations].

Sum(coins) == FoldSet(LAMBDA c, acc : c.valueSats + acc, 0, coins)
Spendable(utxos, reserved) == {c \in utxos : c.outpoint \notin reserved}

Balances(utxos, reserved) ==
  LET total     == Sum(utxos)
      confirmed == Sum({c \in Spendable(utxos, reserved) : c.confirmations > 0})
      pending   == Sum({c \in Spendable(utxos, reserved) : c.confirmations <= 0})
  IN  [total |-> total, confirmed |-> confirmed, pending |-> pending,
       collateral |-> total - confirmed - pending]

-----------------------------------------------------------------------------
\* Amounts

DigitAt(n, k) == (n \div 10^k) % 10
RECURSIVE Width(_)
Width(n) == IF n < 10 THEN 1 ELSE 1 + Width(n \div 10)
DigitsOf(n, width) == [i \in 1 .. width |-> DigitAt(n, width - i)]

WithoutTrailingZeros(fraction) ==
  SubSeq(fraction, 1, Max({0} \cup {i \in 1 .. Len(fraction) : fraction[i] # 0}))

FormatSats(value) ==
  LET abs      == IF value < 0 THEN -value ELSE value
      whole    == abs \div 10^Decimals
      fraction == WithoutTrailingZeros(DigitsOf(abs % 10^Decimals, Decimals))
  IN  [negative |-> value < 0, whole |-> DigitsOf(whole, Width(whole)),
       fraction |-> fraction, point |-> fraction # <<>>, digits |-> value >= 0]

-----------------------------------------------------------------------------
\* The list of transactions, as each tab shows it.

DisplayedActivity(activity, activeTab) ==
  CASE activeTab = "staking" -> SelectSeq(activity, LAMBDA tx : tx.isStake)
    [] activeTab = "overview" ->
         LET sorted == SelectSeq(activity, LAMBDA tx : tx.confirmations = 0)
                       \o SelectSeq(activity, LAMBDA tx : tx.confirmations # 0)
         IN  SubSeq(sorted, 1, IF Len(sorted) < 5 THEN Len(sorted) ELSE 5)
    [] OTHER -> activity

\* A row: its direction, its amount without a sign, and the badge.
ActivityRow(tx) ==
  [direction |-> IF tx.unavailable THEN "unavailable" ELSE tx.direction,
   amount |-> IF tx.unavailable \/ tx.net = Missing THEN Missing
              ELSE FormatSats(IF tx.net < 0 THEN -tx.net ELSE tx.net),
   badge |-> IF ~tx.unavailable /\ tx.direction = "in" THEN "enabled" ELSE "missing"]

\* The table of a tab; an error is shown in its place.
Rows(activity, activeTab, activityError) ==
  IF activityError THEN <<>>
  ELSE LET shown == DisplayedActivity(activity, activeTab)
       IN  [k \in 1 .. Len(shown) |-> ActivityRow(shown[k])]

-----------------------------------------------------------------------------
\* Errors

\* The texts that are looked up whole; the others differ in wording only.
ExactTexts == {<<"Invalid password">>, <<"Insufficient funds">>, <<"Broadcast failed">>}

\* The patterns: words before, something, words after.  The something is a
\* number, or anything that is not empty.
Pattern(before, after, number) == [before |-> before, after |-> after, number |-> number]
Patterns ==
  << Pattern(<<"Password must be at least">>, <<"characters">>, TRUE),
     Pattern(<<"unsupported PQ network:">>, <<>>, FALSE),
     Pattern(<<"PQ wallet key count must be between 1 and">>, <<>>, TRUE),
     Pattern(<<"Unsupported PQ wallet backup version:">>, <<>>, FALSE),
     Pattern(<<"PQ wallet backup must contain at most">>, <<"keys">>, TRUE),
     Pattern(<<"Invalid OLC amount:">>, <<>>, FALSE),
     Pattern(<<"Invalid explorer amount:">>, <<>>, FALSE),
     Pattern(<<>>, <<"must be a whole number">>, FALSE),
     Pattern(<<"PQ transaction requires 1 to">>, <<"inputs">>, TRUE),
     Pattern(<<"PQ transfer requires 1 to">>, <<"inputs">>, TRUE),
     Pattern(<<"PQ transfer requires 1 to">>, <<"outputs">>, TRUE),
     Pattern(<<"PQ authorization public key must be">>, <<"bytes">>, TRUE),
     Pattern(<<"PQ public key must be">>, <<"bytes">>, TRUE),
     Pattern(<<"PQ address id must be">>, <<"bytes">>, TRUE),
     Pattern(<<"PQ signature verification failed for input">>, <<>>, TRUE) >>

Argument(text, p) == SubSeq(text, Len(p.before) + 1, Len(text) - Len(p.after))
Matches(text, p) ==
  /\ Len(text) > Len(p.before) + Len(p.after)
  /\ IsPrefix(p.before, text) /\ IsSuffix(p.after, text)
  /\ p.number => Argument(text, p) = <<"7">>

\* The first entry that fits; otherwise the message is shown as it is.
TranslatePqError(text) ==
  LET fitting == {i \in 1 .. Len(Patterns) : Matches(text, Patterns[i])} IN
  IF text \in ExactTexts THEN [key |-> text, variable |-> <<>>]
  ELSE IF fitting # {} THEN [key |-> Min(fitting), variable |-> Argument(text, Patterns[Min(fitting)])]
  ELSE [key |-> 0, variable |-> text]

\* An exception without a message is described by what was being done.
DescribeError(text, fallback) ==
  IF text = <<>> THEN [key |-> fallback, variable |-> <<>>] ELSE TranslatePqError(text)

-----------------------------------------------------------------------------
\* Properties

\* What is shown as total is what is there, every coin is in one of the three
\* parts, and reserved collateral is in none that can be spent.
BalancesAddUp(utxos, reserved) ==
  LET b == Balances(utxos, reserved) IN
  /\ b.collateral = Sum({c \in utxos : c.outpoint \in reserved})
  /\ b.confirmed + b.pending = Sum(utxos) - b.collateral

\* A row says what its transaction did: the amount without its sign, with the
\* direction, is the difference it made.
RowsAreTrue(activity) ==
  LET rows == Rows(activity, "activity", FALSE) IN
  \A k \in 1 .. Len(rows) : rows[k].amount # Missing =>
    activity[k].net = (IF rows[k].direction = "in" THEN 1 ELSE -1) * DecimalToSats(rows[k].amount)

\* An amount that is shown, typed into the form again, is the same amount.
AmountIsReadBack(sats) == DecimalToSats(FormatSats(sats)) = sats

\* The overview never hides a pending transaction behind a confirmed one, and
\* shows the latest of each.
PendingIsShown(activity) ==
  LET shown == DisplayedActivity(activity, "overview")
      hidden == Range(activity) \ Range(shown)
  IN  \A h \in hidden : \A k \in 1 .. Len(shown) :
        /\ h.confirmations = 0 => shown[k].confirmations = 0
        /\ (h.confirmations = 0 <=> shown[k].confirmations = 0) => h.blockTime <= shown[k].blockTime

\* An error that quotes what was typed, or what a server or a file says, is
\* named for what it is, whatever was quoted.
IsNamed(i, quoted) ==
  DescribeError(Patterns[i].before \o quoted \o Patterns[i].after, "fallback")
    = [key |-> i, variable |-> quoted]
=============================================================================
