-------------------------- MODULE MCUserInfoStore --------------------------
(* An instance of UserInfoStore for TLC: two names that differ in case, a   *)
(* file that an older version has left with a name twice, and a server that *)
(* gives the accepted version of the policy, a newer one, or none.          *)
EXTENDS UserInfoStore, TLC

CONSTANTS v1, v2

SmallNames == {"al", "AL", "bo"}
SmallFold == [n \in SmallNames |-> IF n = "AL" THEN "al" ELSE n]

Node(privacy, service) == [n \in Nodes |-> IF n = Privacy THEN privacy ELSE service]

TextsLeft == {DefaultText, Text(TRUE, <<"AL", "bo", "al">>, Node(v1, NoVersion))}
SomeReplies == {Node(v1, NoVersion), Node(v2, v1), Node(NoVersion, NoVersion)}

WindowSymmetry == Permutations(Processes)
=============================================================================
