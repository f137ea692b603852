------------------------------ MODULE MCWallet ------------------------------
(* Instances of the wallet for TLC.                                          *)
EXTENDS Wallet, TLC

CONSTANTS x1, x2, x3, a1, a2, a3, a4, p1, p2

n(x, d, k) == [address |-> x, is_default |-> d, lock |-> FALSE, key |-> k, contract |-> NULL]

(* Files with no, one or two defaults, a repeated and a missing address.     *)
FlaggedFiles ==
    {<<n(x1, FALSE, NULL), n(x2, FALSE, NULL)>>,
     <<n(x1, TRUE, NULL), n(x2, FALSE, NULL), n(x3, TRUE, NULL)>>,
     <<n(x1, FALSE, NULL), n(x2, TRUE, NULL), n(x1, FALSE, NULL)>>,
     <<n(x1, TRUE, NULL), n(NULL, FALSE, NULL)>>}

(* Files with encrypted, absent and empty keys.                              *)
KeyFiles ==
    {<<n(x1, FALSE, [key |-> x1, pass |-> p1]), n(x2, TRUE, [key |-> x2, pass |-> p2])>>,
     <<n(x1, FALSE, Blank), n(x2, TRUE, NULL)>>}

Structure == {"manage", "import", "account", "nep6"}

(* The structure of wallets and their files, with crashes; callers that set  *)
(* is_default; keys and passphrases; accounts of every kind, stored keys and *)
(* locks.                                                                    *)
Workloads ==
    {[calls |-> Structure \cup {"save", "crash"}, kinds |-> {"key"}, addresses |-> {x1, x2, x3},
      documents |-> FlaggedFiles, most |-> 4],
     [calls |-> Structure \cup {"flag"}, kinds |-> {"key"}, addresses |-> {x1, x2, x3},
      documents |-> FlaggedFiles, most |-> 3],
     [calls |-> Structure \cup {"crypt"}, kinds |-> {"key", "public"}, addresses |-> {x1, x2},
      documents |-> KeyFiles, most |-> 2],
     [calls |-> Structure \cup {"crypt", "store", "lock_one", "lock"},
      kinds |-> {"key", "public", "multisig", "script"}, addresses |-> {x1, x2},
      documents |-> KeyFiles, most |-> 2]}

Saving == {[calls |-> {"manage", "import", "save"}, kinds |-> {}, addresses |-> {x1}, documents |-> {}, most |-> 1]}

(* Their encrypted keys are the accounts' own.                               *)
ASSUME DocumentAssumption == OwnKeyDocuments

Symmetric == Permutations({a1, a2, a3, a4})
=============================================================================
