------------------------------ MODULE PQSendForm ------------------------------
(***************************************************************************)
(* The send form of PQWallet.vue: what is typed, the preview that is made  *)
(* of it 300 ms later, and the transfer.                                   *)
(*                                                                         *)
(* A change of the form or of the coins runs the watcher at once.  The     *)
(* preview awaits the fee rate when there is none yet, the transfer awaits *)
(* the rate, the coins and the broadcast; the fields stay editable         *)
(* throughout, and both read them again after each await.                  *)
(***************************************************************************)
EXTENDS Naturals

CONSTANTS MaxPreviews,  \* bound: previews that await the rate
          MaxPool       \* bound: value of the spendable coins

VARIABLES
  seen,          \* view is "unlocked"
  to, amount,    \* the fields
  pool,          \* value of spendableUtxos
  rateKnown,     \* feeRate is not null
  selection, refusal,   \* selection, selectionError
  previewTimer, previews, previewing,
  transfer       \* sendTransfer(): where it awaits

\* The recipients: none, one that is not an address, two that are.
Recipients == {"", "bad", "a", "b"}
recipientValid == to \in {"a", "b"}
\* The amounts: 0 stands for a text that is no amount or is too small.
Amounts == 0 .. 2

NoSelection == [to |-> "", amount |-> 0, pool |-> 0]

\* selectCoins(), with the form as it is: it wants a recipient, not a valid one.
Selects == to # "" /\ amount > 0 /\ pool >= amount
FormSelection == [to |-> to, amount |-> amount, pool |-> pool]

SendFormInit ==
  /\ seen = FALSE /\ to = "" /\ amount = 0 /\ pool = 0 /\ rateKnown = FALSE
  /\ selection = NoSelection /\ refusal = FALSE
  /\ previewTimer = FALSE /\ previews = 0 /\ previewing = FALSE
  /\ transfer = "none"

-----------------------------------------------------------------------------
\* Mistake: the selection is kept until the next one.
ScheduleKeepsSelection ==
  /\ UNCHANGED <<selection, refusal>>
  /\ previewTimer' = (to' \in {"a", "b"} /\ amount' > 0)
\* scheduleSelectionPreview(), after a change of the form or the coins.
Schedule ==
  /\ selection' = NoSelection /\ refusal' = FALSE
  /\ previewTimer' = (to' \in {"a", "b"} /\ amount' > 0)

\* The two fields.  They are not disabled while something runs.
TypeRecipient ==
  /\ seen /\ \E text \in Recipients \ {to} : to' = text
  /\ UNCHANGED <<amount, pool>> /\ Schedule
  /\ UNCHANGED <<seen, rateKnown, previews, previewing, transfer>>
TypeAmount ==
  /\ seen /\ \E value \in Amounts \ {amount} : amount' = value
  /\ UNCHANGED <<to, pool>> /\ Schedule
  /\ UNCHANGED <<seen, rateKnown, previews, previewing, transfer>>

\* The coins are read again, or the reserved collaterals are: a new list.
CoinsChange ==
  /\ \E value \in 0 .. MaxPool : pool' = value
  /\ UNCHANGED <<to, amount>> /\ Schedule
  /\ UNCHANGED <<seen, rateKnown, previews, previewing, transfer>>

-----------------------------------------------------------------------------
\* What runSelectionPreview() does when it has the rate.
Preview ==
  /\ IF Selects /\ seen THEN selection' = FormSelection /\ refusal' = FALSE
     ELSE selection' = NoSelection /\ refusal' = TRUE
  /\ previewing' = FALSE

\* The timer of the preview fires.
PreviewFires ==
  /\ previewTimer /\ previewTimer' = FALSE
  /\ IF ~seen THEN UNCHANGED <<selection, refusal, previews, previewing>>
     ELSE IF rateKnown THEN Preview /\ UNCHANGED previews
     ELSE /\ previews < MaxPreviews /\ previews' = previews + 1
          /\ previewing' = TRUE
          /\ UNCHANGED <<selection, refusal>>
  /\ UNCHANGED <<seen, to, amount, pool, rateKnown, transfer>>

\* refreshFeeRate() answered a preview; it never fails.  The wallet may have
\* been locked: there is no address for the change then.
PreviewAnswers ==
  /\ previews > 0 /\ previews' = previews - 1
  /\ rateKnown' = TRUE
  /\ Preview
  /\ UNCHANGED <<seen, to, amount, pool, previewTimer, transfer>>

-----------------------------------------------------------------------------
\* The button is offered for a preview of the form.
canSend ==
  /\ ~previewing /\ transfer = "none"
  /\ recipientValid /\ amount > 0
  /\ selection # NoSelection /\ ~refusal

SendPressed ==
  /\ seen /\ canSend
  /\ transfer' = "coins"
  /\ UNCHANGED <<seen, to, amount, pool, rateKnown, selection, refusal,
                 previewTimer, previews, previewing>>

\* The coins were read again, and the form is signed as it is now.
SendFetches ==
  /\ transfer = "coins"
  /\ \E value \in 0 .. MaxPool : pool' = value
  /\ transfer' = IF seen /\ to # "" /\ amount > 0 /\ pool' >= amount
                 THEN "wire" ELSE "none"
  /\ UNCHANGED <<to, amount>> /\ Schedule
  /\ UNCHANGED <<seen, rateKnown, previews, previewing>>

\* The node took it: the form is emptied.
SendIsAnswered ==
  /\ transfer = "wire" /\ transfer' = "none"
  /\ to' = "" /\ amount' = 0
  /\ selection' = NoSelection /\ refusal' = FALSE /\ previewTimer' = FALSE
  /\ UNCHANGED <<seen, pool, rateKnown, previews, previewing>>

SendIsRefused ==
  /\ transfer # "none" /\ transfer' = "none"
  /\ UNCHANGED <<seen, to, amount, pool, rateKnown, selection, refusal,
                 previewTimer, previews, previewing>>

-----------------------------------------------------------------------------
\* enterUnlocked() asks for the rate after it has shown the wallet.
ShowWallet ==
  /\ ~seen /\ seen' = TRUE
  /\ UNCHANGED <<to, amount, pool, rateKnown, selection, refusal, previewTimer,
                 previews, previewing, transfer>>
RateArrives ==
  /\ seen /\ ~rateKnown /\ rateKnown' = TRUE
  /\ UNCHANGED <<seen, to, amount, pool, selection, refusal, previewTimer,
                 previews, previewing, transfer>>

\* clearWalletState(): what awaits goes on.
LockForm ==
  /\ seen /\ seen' = FALSE
  /\ to' = "" /\ amount' = 0 /\ pool' = 0
  /\ selection' = NoSelection /\ refusal' = FALSE /\ previewTimer' = FALSE
  /\ UNCHANGED <<rateKnown, previews, previewing, transfer>>

SendFormNext ==
  \/ TypeRecipient \/ TypeAmount \/ CoinsChange
  \/ PreviewFires \/ PreviewAnswers
  \/ SendPressed \/ SendFetches \/ SendIsAnswered \/ SendIsRefused
  \/ ShowWallet \/ RateArrives \/ LockForm

-----------------------------------------------------------------------------
\* The fee and the change shown, and the button with them, are those of the
\* recipient and the amount in the fields and of the coins known now, whatever
\* previews end late; and a locked page shows none.
PreviewIsCurrent ==
  /\ selection # NoSelection => seen /\ selection = FormSelection
  /\ canSend => selection.to \in {"a", "b"}
=============================================================================
