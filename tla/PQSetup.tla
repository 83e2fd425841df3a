-------------------------------- MODULE PQSetup --------------------------------
(***************************************************************************)
(* Setting a wallet up in PQWallet.vue: the screens, what is typed on them *)
(* and the three handlers that end in a wallet.                            *)
(*                                                                         *)
(* A control is an action whose guard is what the template says of it: the *)
(* screen it is on, and its disabled attribute.  Pressing Enter in a field *)
(* calls the handler without looking at the button.  A handler that awaits *)
(* is the job; it keeps what it needs in variables of its own while the    *)
(* page may be hidden, which clears the forms under it.                    *)
(***************************************************************************)
EXTENDS Naturals

CONSTANTS
  MaxPhrases,  \* bound: recovery phrases generated
  MaxTyped     \* bound: keystrokes, each a whole text

VARIABLES
  screen,     \* view: "none", "locked", "unlocked"
  setupMode, restoreMode,
  form,       \* what the fields hold
  pending,    \* pendingMnemonic: a phrase, or 0
  saved,      \* mnemonicSaved
  job,        \* the handler that runs: busy
  kept,       \* the wallet stored: its phrase and password
  phrases,    \* phrases generated
  typed,      \* texts typed
  ticked,     \* history: phrases that the user said are saved, when they were shown
  repeated    \* history: passwords that were typed twice

setupVars == <<screen, setupMode, restoreMode, form, pending, saved, job, kept,
               phrases, typed, ticked, repeated>>

Fields == {"createPassword", "createPasswordConfirm", "restoreMnemonic",
           "restoreMnemonicPassword", "restoreMnemonicPasswordConfirm",
           "restoreJson", "restorePassword"}
PasswordFields == Fields \ {"restoreMnemonic", "restoreJson"}

\* Texts of the fields: a password that is too short, and two that are not; a
\* phrase or a file that is refused, and one that is not.
Texts(f) == IF f \in PasswordFields THEN {"short", "one", "two"} ELSE {"bad", "good"}
LongEnough(password) == password \in {"one", "two"}

Blank == [f \in Fields |-> ""]
NoJob == [op |-> "none"]

\* Phrases are numbered; 0 is none, and two more stand for those that come from
\* a field and from a file.
Typed == MaxPhrases + 1
Filed == MaxPhrases + 2
NoStoredWallet == [phrase |-> 0, password |-> ""]

SetupInit ==
  /\ screen = "none" /\ setupMode = "choices" /\ restoreMode = "mnemonic"
  /\ form = Blank /\ pending = 0 /\ saved = FALSE
  /\ job = NoJob /\ kept = NoStoredWallet
  /\ phrases = 0 /\ typed = 0 /\ ticked = {} /\ repeated = {}

-----------------------------------------------------------------------------
busySetup == job # NoJob
Clear(fields) == form' = [f \in Fields |-> IF f \in fields THEN "" ELSE form[f]]

\* The screen a field is on.
Shown(f) ==
  /\ screen = "none"
  /\ IF f \in {"createPassword", "createPasswordConfirm"} THEN setupMode = "create"
     ELSE /\ setupMode = "restore"
          /\ restoreMode = IF f \in {"restoreJson", "restorePassword"}
                           THEN "backup" ELSE "mnemonic"

\* A field of the forms.  It is not disabled while a handler runs.
Type(f) ==
  /\ Shown(f) /\ typed < MaxTyped /\ typed' = typed + 1
  /\ \E text \in Texts(f) \cup {""} : form' = [form EXCEPT ![f] = text]
  /\ UNCHANGED <<screen, setupMode, restoreMode, pending, saved, job, kept,
                 phrases, ticked, repeated>>

-----------------------------------------------------------------------------
\* The screens

\* The two buttons of the choices.
OpenSetup(mode) ==
  /\ screen = "none" /\ setupMode = "choices" /\ ~busySetup
  /\ setupMode' = mode
  /\ restoreMode' = IF mode = "restore" THEN "mnemonic" ELSE restoreMode
  /\ UNCHANGED <<screen, form, pending, saved, job, kept, phrases, typed, ticked, repeated>>

ReturnToChoices ==
  /\ screen = "none" /\ setupMode \in {"create", "restore"} /\ ~busySetup
  /\ setupMode' = "choices" /\ form' = Blank /\ pending' = 0 /\ saved' = FALSE
  /\ UNCHANGED <<screen, restoreMode, job, kept, phrases, typed, ticked, repeated>>

ReturnToCreatePassword ==
  /\ screen = "none" /\ setupMode = "recovery" /\ ~busySetup
  /\ setupMode' = "create" /\ pending' = 0 /\ saved' = FALSE
  /\ UNCHANGED <<screen, restoreMode, form, job, kept, phrases, typed, ticked, repeated>>

SelectRestoreMode(mode) ==
  /\ screen = "none" /\ setupMode = "restore" /\ ~busySetup
  /\ restoreMode' = mode
  /\ Clear(IF mode = "mnemonic" THEN {"restoreJson", "restorePassword"}
           ELSE {"restoreMnemonic", "restoreMnemonicPassword",
                 "restoreMnemonicPasswordConfirm"})
  /\ UNCHANGED <<screen, setupMode, pending, saved, job, kept, phrases, typed,
                 ticked, repeated>>

\* The button, which wants both fields filled, or Enter in the second.
PrepareCreate ==
  /\ screen = "none" /\ setupMode = "create" /\ ~busySetup
  /\ LongEnough(form["createPassword"])
  /\ form["createPassword"] = form["createPasswordConfirm"]
  /\ phrases < MaxPhrases /\ phrases' = phrases + 1
  /\ pending' = phrases'
  /\ saved' = FALSE
  /\ setupMode' = "recovery"
  /\ repeated' = repeated \cup {form["createPassword"]}
  /\ UNCHANGED <<screen, restoreMode, form, job, kept, typed, ticked>>

\* The check box under the phrase.
TickSaved ==
  /\ screen = "none" /\ setupMode = "recovery"
  /\ saved' = ~saved
  /\ ticked' = IF saved' THEN ticked \cup {pending} ELSE ticked
  /\ UNCHANGED <<screen, setupMode, restoreMode, form, pending, job, kept,
                 phrases, typed, repeated>>

-----------------------------------------------------------------------------
\* The handlers

Starts(op, phrase, password) ==
  job' = [op |-> op, at |-> "store", phrase |-> phrase, password |-> password]

\* The button is offered for a phrase that is ticked and valid.
HandleCreate ==
  /\ screen = "none" /\ setupMode = "recovery" /\ ~busySetup
  /\ saved /\ pending # 0
  /\ Starts("create", pending, form["createPassword"])
  /\ UNCHANGED <<screen, setupMode, restoreMode, form, pending, saved, kept,
                 phrases, typed, ticked, repeated>>

\* Mistake: the two passwords are not compared.
RepeatedTooAlways == TRUE
RepeatedToo == form["restoreMnemonicPassword"] = form["restoreMnemonicPasswordConfirm"]

HandleRestoreMnemonic ==
  /\ screen = "none" /\ setupMode = "restore" /\ restoreMode = "mnemonic" /\ ~busySetup
  /\ form["restoreMnemonic"] = "good"
  /\ LongEnough(form["restoreMnemonicPassword"]) /\ RepeatedToo
  /\ Starts("mnemonic", Typed, form["restoreMnemonicPassword"])
  /\ repeated' = IF form["restoreMnemonicPassword"] = form["restoreMnemonicPasswordConfirm"]
                 THEN repeated \cup {form["restoreMnemonicPassword"]} ELSE repeated
  /\ UNCHANGED <<screen, setupMode, restoreMode, form, pending, saved, kept,
                 phrases, typed, ticked>>

\* The file of a wallet of this network; its password is not typed twice, and
\* is checked against the file.
HandleRestoreBackup ==
  /\ screen = "none" /\ setupMode = "restore" /\ restoreMode = "backup" /\ ~busySetup
  /\ form["restoreJson"] = "good" /\ LongEnough(form["restorePassword"])
  /\ Starts("backup", Filed, form["restorePassword"])
  /\ UNCHANGED <<screen, setupMode, restoreMode, form, pending, saved, kept,
                 phrases, typed, ticked, repeated>>

\* What each handler clears when it has stored a wallet.
Clears(op) ==
  IF op = "create" THEN {"createPassword", "createPasswordConfirm"}
  ELSE IF op = "mnemonic" THEN {"restoreMnemonic", "restoreMnemonicPassword",
                                "restoreMnemonicPasswordConfirm"}
  ELSE {"restoreJson", "restorePassword"}

\* createWallet() or importBackup() stored the wallet: there was none.
Stores ==
  /\ job # NoJob /\ job.at = "store" /\ kept = NoStoredWallet
  /\ kept' = [phrase |-> job.phrase, password |-> job.password]
  /\ job' = [job EXCEPT !.at = "unlock"]
  /\ UNCHANGED <<screen, setupMode, restoreMode, form, pending, saved, phrases,
                 typed, ticked, repeated>>

\* There was one, the file does not open, IndexedDB fails: the screen stays.
StoreRefuses ==
  /\ job # NoJob /\ job.at = "store"
  /\ job' = NoJob
  /\ UNCHANGED <<screen, setupMode, restoreMode, form, pending, saved, kept,
                 phrases, typed, ticked, repeated>>

\* unlockAfterSetup(): the forms are cleared whether it unlocks or not.
UnlockAfterSetup ==
  /\ job # NoJob /\ job.at = "unlock"
  /\ Clear(Clears(job.op))
  /\ IF job.op = "create" THEN pending' = 0 /\ saved' = FALSE
     ELSE UNCHANGED <<pending, saved>>
  /\ \/ job' = [job EXCEPT !.at = "enter"] /\ UNCHANGED screen
     \/ job' = NoJob /\ screen' = "locked"
  /\ UNCHANGED <<setupMode, restoreMode, kept, phrases, typed, ticked, repeated>>

\* enterUnlocked() shows the wallet, or throws and leaves the screen.
EnterUnlocked ==
  /\ job # NoJob /\ job.at = "enter"
  /\ job' = NoJob
  /\ screen' \in {"unlocked", screen}
  /\ UNCHANGED <<setupMode, restoreMode, form, pending, saved, kept, phrases,
                 typed, ticked, repeated>>

-----------------------------------------------------------------------------
\* Mistake: locking forgets the phrase and the passwords, not the form.
ClearWalletStateKeepsForm == form' = form /\ pending' = 0 /\ saved' = FALSE
ClearWalletState == form' = Blank /\ pending' = 0 /\ saved' = FALSE

\* The page is hidden, and shown again.
HideSetup ==
  /\ setupMode' = "choices" /\ restoreMode' = "mnemonic"
  /\ ClearWalletState
  /\ screen' = IF screen = "unlocked" THEN "locked" ELSE screen
  /\ UNCHANGED <<job, kept, phrases, typed, ticked, repeated>>

SetupNext ==
  \/ \E f \in Fields : Type(f)
  \/ \E mode \in {"create", "restore"} : OpenSetup(mode)
  \/ \E mode \in {"mnemonic", "backup"} : SelectRestoreMode(mode)
  \/ ReturnToChoices \/ ReturnToCreatePassword \/ PrepareCreate \/ TickSaved
  \/ HandleCreate \/ HandleRestoreMnemonic \/ HandleRestoreBackup
  \/ Stores \/ StoreRefuses \/ UnlockAfterSetup \/ EnterUnlocked
  \/ HideSetup

-----------------------------------------------------------------------------
\* A new wallet has the phrase that was on the screen when the user said it was
\* saved, and a password that was typed twice, whatever screens were left and
\* entered again, and whatever was cleared, before it was stored.
SetupIsConfirmed ==
  /\ kept.phrase \in 1 .. MaxPhrases => kept.phrase \in ticked
  /\ kept.phrase \in 1 .. Typed => kept.password \in repeated

\* What was typed, and the phrase, are gone on the lock screen, and stay no
\* longer than the screen they belong to when no handler runs ("Never keep a
\* typed password around after a lock or a network change").
FormsAreCleared ==
  /\ screen = "locked" => form = Blank /\ pending = 0
  /\ screen = "none" /\ ~busySetup =>
       /\ \A f \in Fields : form[f] # "" =>
            Shown(f) \/ (setupMode = "recovery" /\ f \in Clears("create"))
       /\ pending # 0 => setupMode = "recovery"
=============================================================================
