-------------------------- MODULE SigningAuthority --------------------------
(***************************************************************************)
(* What the staking session promises the rest of the wallet, with no       *)
(* requests, timers or answers in it: the authority to sign blocks is held *)
(* by at most one session, is granted only while signing is permitted, and *)
(* once revoked never returns to the same session.                         *)
(***************************************************************************)
CONSTANTS Sessions, NoSession, Blocks

VARIABLES
  permitted,  \* the wallet is unlocked on a network that may stake
  holder,     \* the session that may sign
  spent,      \* sessions that will never sign again
  signed      \* the blocks signed, with their sessions, until they are settled

avars == <<permitted, holder, spent, signed>>

Init ==
  /\ permitted \in BOOLEAN
  /\ holder = NoSession /\ spent = {} /\ signed = {}

Grant(s) ==
  /\ permitted /\ holder = NoSession /\ s \notin spent
  /\ holder' = s
  /\ UNCHANGED <<permitted, spent, signed>>

\* Revoking may also burn a session that was never granted, and settle a block.
Revoke ==
  /\ holder' = NoSession
  /\ holder # NoSession => holder \in spent'
  /\ spent \subseteq spent' /\ spent' \subseteq Sessions
  /\ signed' \subseteq signed
  /\ UNCHANGED permitted

\* A new block takes the place of the holder's last one.
Sign ==
  /\ permitted /\ holder # NoSession
  /\ \E b \in Blocks : b.session = holder /\ signed' \subseteq signed \cup {b}
  /\ UNCHANGED <<permitted, holder, spent>>

\* A block is accepted or refused, or nobody waits for its answer any more.
Settle ==
  /\ signed' \subseteq signed
  /\ UNCHANGED <<permitted, holder, spent>>

Permit ==
  /\ permitted' \in BOOLEAN
  /\ UNCHANGED <<holder, spent, signed>>

Next == (\E s \in Sessions : Grant(s)) \/ Revoke \/ Sign \/ Settle \/ Permit
Spec == Init /\ [][Next]_avars
=============================================================================
