---------------------------- MODULE AccountStore ----------------------------
(***************************************************************************)
(* What userinfo.xml promises as long as only one login window at a time   *)
(* uses it and none is cut off: every change of the account history and    *)
(* of the accepted versions happens at once, keeps what it is not about,   *)
(* and nothing else ever changes the file.                                 *)
(***************************************************************************)
EXTENDS Naturals, Sequences

CONSTANTS
  Names,     \* account names as they can be typed
  Fold,      \* the name without its case
  Nodes,     \* whose accepted versions are kept beside the accounts
  Versions,  \* the versions
  MaxCount   \* maxAccountCount

VARIABLES
  accounts,   \* the history, the latest first
  nodes,      \* the version of each node that was accepted last
  disturbed   \* two windows have used the file at a time, or one was cut off

vars == <<accounts, nodes, disturbed>>

\* equalsIgnoreCase
SameAccount(a, b) == Fold[a] = Fold[b]

Knows(list, name) == \E i \in DOMAIN list : SameAccount(list[i], name)

Without(list, name) ==
  LET kept[i \in 0 .. Len(list)] ==
        IF i = 0 THEN <<>>
        ELSE IF SameAccount(list[i], name) THEN kept[i - 1] ELSE Append(kept[i - 1], list[i])
  IN  kept[Len(list)]

Cut(list, max) == IF Len(list) > max THEN SubSeq(list, 1, max) ELSE list

\* Mutant: the accounts as they are written.
AsWritten(list, max) == Cut(list, max)

\* What is read from the text: the first account of every name, at most max.
Parsed(list, max) ==
  LET kept[i \in 0 .. Len(list)] ==
        IF i = 0 THEN <<>>
        ELSE IF Len(kept[i - 1]) < max /\ ~Knows(kept[i - 1], list[i])
             THEN Append(kept[i - 1], list[i]) ELSE kept[i - 1]
  IN  kept[Len(list)]

MaxParsed == 1000

\* The history after a login with this name.
Newest(name, list) == Cut(<<name>> \o Without(Parsed(list, MaxParsed), name), MaxCount)

\* The history after this name was deleted from it.
Removed(name, list) == Without(Parsed(list, MaxParsed), name)

RecordAccount(name) ==
  /\ accounts' = Newest(name, accounts)
  /\ UNCHANGED <<nodes, disturbed>>

RemoveAccount(name) ==
  /\ accounts' = Removed(name, accounts)
  /\ UNCHANGED <<nodes, disturbed>>

Accept(node, version) ==
  /\ nodes' = [nodes EXCEPT ![node] = version]
  /\ UNCHANGED <<accounts, disturbed>>

\* From the first disturbance on nothing is promised.
Disturb == disturbed'

Next ==
  \/ \E n \in Names : RecordAccount(n) \/ RemoveAccount(n)
  \/ \E n \in Nodes, v \in Versions : Accept(n, v)
  \/ Disturb

Spec == ~disturbed /\ [][Next]_vars
=============================================================================
