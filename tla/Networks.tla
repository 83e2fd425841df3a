-------------------------------- MODULE Networks --------------------------------
(***************************************************************************)
(* scripts/network/: the list of explorers and nodes, the one selected of  *)
(* each kind, and the calls that are tried on one after the other; and the *)
(* settings of scripts/settings.js that choose them.                       *)
(*                                                                         *)
(* A server answers well, with an error whose body is JSON or text, or not *)
(* at all.  Calls that are treated alike are one function.                 *)
(***************************************************************************)
EXTENDS Integers, Sequences, FiniteSets, SequencesExt

CONSTANTS
  Explorers, Nodes,   \* of the chain parameters, in their order
  MaxCalls,           \* bound: calls at a time
  maxTrials,          \* of safeFetch: 6 in the code
  MaxSwitches         \* bound: rotations, choices of the user, resets

VARIABLES
  networks,     \* the list, empty until start()
  current,      \* the selected explorer and node
  explorerUrl,  \* what the interface takes for the selected explorer
  stored,       \* the settings in the database
  writes,       \* calls of setSettings that have read and not written
  calls,        \* what awaits an answer
  filling,      \* settings.start() is to fill the selects
  switches      \* counts against MaxSwitches

netVars == <<networks, current, explorerUrl, stored, writes, calls, filling, switches>>
selection == <<networks, current, explorerUrl, stored, writes, filling>>

NoUrl == "none"
Urls == {Explorers[i] : i \in 1 .. Len(Explorers)} \cup {Nodes[i] : i \in 1 .. Len(Nodes)}
\* A network is an object: the lists before and after a reset share none.
NetworkObject(list, isRpc, gen) ==
  [i \in 1 .. Len(list) |-> [strUrl |-> list[i], isRpc |-> isRpc, gen |-> gen]]
NoNetwork == [strUrl |-> NoUrl, isRpc |-> FALSE, gen |-> 0]

Selected == {"explorer", "node"}
KindOf(isRpc) == IF isRpc THEN "node" ELSE "explorer"

\* The functions of the manager: those that ask the nodes, where
\* getMasternodes stands for all that are passed through; those that ask the
\* explorers, where getUTXOs does; those that safeFetch repeats; and those
\* that ask the explorers when no node answers.
AskNodes == {"getBlock", "getMasternodes", "getShieldDataLength", "getBlockCount"}
AskExplorers == {"getTxPage", "getUTXOs", "sendTransaction"}
SafelyFetched == {"getTxPage", "getBlock"}
FallingBack == {"getBlockCount"}

Idle == [func |-> "none", at |-> "idle"]

NetTypeOK ==
  /\ \A i \in 1 .. Len(networks) : networks[i].strUrl \in Urls
  /\ DOMAIN current = Selected /\ DOMAIN stored = Selected
  /\ explorerUrl \in Urls \cup {NoUrl}
  /\ \A s \in Selected : stored[s] \in Urls \cup {NoUrl}
  /\ \A c \in 1 .. MaxCalls :
       calls[c].at \in {"idle", "asking", "pausing", "resting", "returned", "failed"}
  /\ filling \in BOOLEAN /\ switches \in 0 .. MaxSwitches

NetInit ==
  /\ networks = <<>> /\ current = [s \in Selected |-> NoNetwork]
  /\ explorerUrl = NoUrl /\ stored = [s \in Selected |-> NoUrl]
  /\ writes = {} /\ calls = [c \in 1 .. MaxCalls |-> Idle]
  /\ filling = TRUE /\ switches = 0

-----------------------------------------------------------------------------
\* The list and the selection

Started(gen) == NetworkObject(Explorers, FALSE, gen) \o NetworkObject(Nodes, TRUE, gen)
ListOf(list) == IF list = <<>> THEN Started(switches) ELSE list

\* setNetwork: the first network of that URL, whichever its kind.
SetNetwork(url, isRpc) ==
  LET list == ListOf(networks)
      i == SelectInSeq(list, LAMBDA n : n.strUrl = url)
  IN  /\ networks' = list
      /\ current' = [current EXCEPT ![KindOf(isRpc)] = list[i]]
      /\ explorerUrl' = IF isRpc THEN explorerUrl ELSE url

\* The next of its kind around the list, or the same if there is none other.
\* One that is not in the list counts as before the first; the last of the
\* list is then not tried.
Rotated(isRpc) ==
  LET n == Len(networks)
      index == SelectInSeq(networks, LAMBDA x : x = current[KindOf(isRpc)])
      at(i) == networks[((index - 1 + i) % n) + 1]
      try == {i \in 1 .. n - 1 : at(i).isRpc = isRpc}
  IN  IF try = {} THEN current[KindOf(isRpc)]
      ELSE at(CHOOSE i \in try : \A j \in try : i <= j)

\* rotateNetworks announces nothing.
RotateNetworks ==
  /\ networks # <<>> /\ switches < MaxSwitches /\ switches' = switches + 1
  /\ current' = [explorer |-> Rotated(FALSE), node |-> Rotated(TRUE)]
  /\ UNCHANGED <<networks, explorerUrl, stored, writes, calls, filling>>

-----------------------------------------------------------------------------
\* The settings.  setSettings reads and writes in two transactions: whatever
\* was written between them is written back.

\* setExplorer selects once the database has the setting, and setNode before.
SetExplorer(url) ==
  /\ switches < MaxSwitches /\ switches' = switches + 1
  /\ writes' = writes \cup {[old |-> stored, kind |-> "explorer", url |-> url]}
  /\ UNCHANGED <<networks, current, explorerUrl, stored, calls, filling>>
SetNode(url) ==
  /\ switches < MaxSwitches /\ switches' = switches + 1
  /\ SetNetwork(url, TRUE)
  /\ writes' = writes \cup {[old |-> stored, kind |-> "node", url |-> url]}
  /\ UNCHANGED <<stored, calls, filling>>
SettingsWritten(w) ==
  /\ writes' = writes \ {w} /\ stored' = [w.old EXCEPT ![w.kind] = w.url]
  /\ IF w.kind = "explorer" THEN SetNetwork(w.url, FALSE)
     ELSE UNCHANGED <<networks, current, explorerUrl>>
  /\ UNCHANGED <<calls, filling, switches>>

\* The selects are filled at once, each with what is stored or a random choice.
FillSelects(explorer, node) ==
  /\ filling /\ filling' = FALSE
  /\ stored.explorer \in {explorer, NoUrl} /\ stored.node \in {node, NoUrl}
  /\ SetNetwork(node, TRUE)
  /\ writes' = writes \cup {[old |-> stored, kind |-> "explorer", url |-> explorer],
                            [old |-> stored, kind |-> "node", url |-> node]}
  /\ UNCHANGED <<stored, calls, switches>>

\* toggleTestnet: the list is emptied, and the selects are filled again.
ToggleTestnet ==
  /\ ~filling /\ filling' = TRUE
  /\ switches < MaxSwitches /\ switches' = switches + 1
  /\ networks' = <<>>
  /\ UNCHANGED <<current, explorerUrl, stored, writes, calls>>

-----------------------------------------------------------------------------
\* Calls

\* The networks of a kind, in the order of the list: the k-th is the one that
\* k - 1 of its kind precede.
Candidates(isRpc) ==
  LET places == {i \in 1 .. Len(networks) : networks[i].isRpc = isRpc}
      Before(i) == {j \in places : j < i}
  IN  [k \in 1 .. Cardinality(places) |->
         networks[CHOOSE i \in places : Cardinality(Before(i)) = k - 1]]

\* What becomes of a call when every candidate failed, or there is none:
\* safeFetch catches the exception.
Exhausted(func) == IF func \in SafelyFetched THEN "resting" ELSE "failed"

\* retryWrapper: the candidates, the place of the selected one, and the
\* attempt under way.
Attempting(func, isRpc, trial) ==
  LET list == Candidates(isRpc)
      i == SelectInSeq(list, LAMBDA n : n = current[KindOf(isRpc)])
  IN  [func |-> func, at |-> IF list = <<>> THEN Exhausted(func) ELSE "asking",
       isRpc |-> isRpc, list |-> list, i |-> IF i = 0 THEN 1 ELSE i,
       attempts |-> 1, trial |-> trial, asked |-> {}, answer |-> "none"]

\* Mistake: the second attempt is made on the first network again.
AttemptNetAgain(c) == c.list[((c.i - 1 + c.attempts - (IF c.attempts > 1 THEN 2 ELSE 1)) % Len(c.list)) + 1]
AttemptNet(c) == c.list[((c.i - 1 + c.attempts - 1) % Len(c.list)) + 1]

Call(c, func) ==
  /\ calls[c].at = "idle"
  /\ calls' = [calls EXCEPT ![c] = Attempting(func, func \in AskNodes, 1)]
  /\ UNCHANGED <<selection, switches>>

Replies == {"good", "errorJson", "errorText", "notARange", "none"}

\* A node's status is looked at, and two errors are an empty range.
CallRPC(reply) == IF reply = "good" THEN "result" ELSE "throws"
NodeOutcome(func, reply) ==
  IF func = "getShieldDataLength" /\ reply = "notARange" THEN "result"
  ELSE CallRPC(reply)

\* An explorer's is not: the body of an error is parsed as if it was the
\* answer, and is a page without transactions.
ExplorerOutcome(reply) ==
  CASE reply = "good" -> "result"
    [] reply = "errorJson" -> "an error's body"
    [] OTHER -> "throws"

\* It is when a transaction is sent.
SendOutcome(reply) == IF reply = "good" THEN "result" ELSE "throws"

Outcome(func, isRpc, reply) ==
  CASE isRpc -> NodeOutcome(func, reply)
    [] func = "sendTransaction" -> SendOutcome(reply)
    [] OTHER -> ExplorerOutcome(reply)

\* After the last candidate the call fails; the others follow a pause.
Missed(c) ==
  LET tried == [c EXCEPT !.asked = @ \cup {AttemptNet(c)}] IN
  IF c.attempts < Len(c.list) THEN [tried EXCEPT !.at = "pausing"]
  ELSE [tried EXCEPT !.at = Exhausted(c.func)]

Returned(c, answer) == [c EXCEPT !.at = "returned", !.answer = answer]

Reply(c, reply) ==
  LET outcome == Outcome(calls[c].func, calls[c].isRpc, reply) IN
  /\ calls[c].at = "asking"
  /\ calls' = [calls EXCEPT ![c] =
       IF outcome = "throws" THEN Missed(@) ELSE Returned(@, outcome)]
  /\ UNCHANGED <<selection, switches>>

\* sleep(retryTimeout), and the next of the candidates.
NextAttempt(c) ==
  /\ calls[c].at = "pausing"
  /\ calls' = [calls EXCEPT ![c].at = "asking", ![c].attempts = @ + 1]
  /\ UNCHANGED <<selection, switches>>

\* safeFetch sleeps after each of its trials, the last included.
Rested(c) ==
  /\ calls[c].at = "resting"
  /\ calls' = [calls EXCEPT ![c] =
       IF calls[c].trial = maxTrials THEN [@ EXCEPT !.at = "failed"]
       ELSE Attempting(@.func, @.isRpc, @.trial + 1)]
  /\ UNCHANGED <<selection, switches>>

\* getBlockCount and getBestBlockHash ask the explorers when the nodes fail.
FallBack(c) ==
  /\ calls[c].at = "failed" /\ calls[c].func \in FallingBack /\ calls[c].isRpc
  /\ calls' = [calls EXCEPT ![c] = Attempting(@.func, FALSE, 1)]
  /\ UNCHANGED <<selection, switches>>

\* The caller has its answer, or the exception.
Return(c) ==
  /\ calls[c].at \in {"returned", "failed"}
  /\ calls[c].at = "failed" => ~(calls[c].func \in FallingBack /\ calls[c].isRpc)
  /\ calls' = [calls EXCEPT ![c] = Idle]
  /\ UNCHANGED <<selection, switches>>

NetNext ==
  \/ RotateNetworks \/ ToggleTestnet
  \/ \E i \in 1 .. Len(Explorers), j \in 1 .. Len(Nodes) : FillSelects(Explorers[i], Nodes[j])
  \/ \E i \in 1 .. Len(Explorers) : SetExplorer(Explorers[i])
  \/ \E i \in 1 .. Len(Nodes) : SetNode(Nodes[i])
  \/ \E w \in writes : SettingsWritten(w)
  \/ \E c \in 1 .. MaxCalls :
       \/ \E f \in AskNodes \cup AskExplorers : Call(c, f)
       \/ \E r \in Replies : Reply(c, r)
       \/ NextAttempt(c) \/ Rested(c) \/ FallBack(c) \/ Return(c)
NetSpec == NetInit /\ [][NetNext]_netVars

-----------------------------------------------------------------------------
\* Properties

\* A call fails, or safeFetch begins another trial, only when every network
\* of the kind has been asked, whatever was selected, rotated or reset
\* meanwhile: none is skipped and none asked twice.
FailsOnlyAfterAll ==
  \A c \in 1 .. MaxCalls :
    /\ calls[c].at \in {"resting", "failed"} =>
         Len(calls[c].list) = Cardinality(calls[c].asked)
    /\ calls[c].at = "asking" => AttemptNet(calls[c]) \notin calls[c].asked

=============================================================================
