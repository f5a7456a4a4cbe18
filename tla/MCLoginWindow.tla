--------------------------- MODULE MCLoginWindow ---------------------------
(* An instance of LoginWindow for TLC: two accounts and one that another     *)
(* window records, two versions of the policy, all pages or some of them.    *)
EXTENDS LoginWindow, TLC

CONSTANTS v1, v2

TwoAccounts == <<"al", "bo">>
SomePages == {{"password", "oneClick", "qr", "sms"}, {}}
SymmetricVersions == Permutations(Versions)
=============================================================================
