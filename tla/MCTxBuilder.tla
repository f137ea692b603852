---------------------------- MODULE MCTxBuilder ----------------------------
(* Instances of the transaction builder for TLC.                             *)
EXTENDS TxBuilder, TLC

CONSTANTS x1, x2, x3

(* One account or two, in either order or twice the same.                    *)
MCParties == {<<x1>>, <<x2>>, <<x1, x2>>, <<x2, x1>>, <<x1, x1>>}

Symmetric == Permutations(Sgn) \cup Permutations(Txn)

(* Signers that change hands, are copied and freed; building and signing     *)
(* through the builder; its array of attributes; hashing and signing copies  *)
(* of transactions.                                                          *)
Handing ==
    {{"signer", "tx_create", "tx_signer", "tx_copy", "tx_free", "oom",
      "b_create", "b_call", "b_signer", "b_build", "b_fees"},
     {"oom", "b_call", "b_hash", "b_sign", "tx_free", "tx_script"},
     {"oom", "b_create", "b_attribute"},
     {"tx_create", "tx_script", "tx_witness", "tx_sign", "tx_copy"}}

(* The values a builder is given, and those of transactions being signed.    *)
Setting ==
    {{"network_fee", "system_fee", "nonce", "valid_until_block", "b_create", "b_set", "b_signer", "b_build", "b_hash"},
     {"nonce", "version", "tx_create", "tx_attribute", "tx_witness", "tx_sign", "tx_free"}}
(* They have one transaction and two signers at a time.                      *)
Few == work \in Setting => Cardinality(DOMAIN tx) <= 1 /\ Cardinality(DOMAIN signer) <= 2

Calls == Handing \cup Setting

Fees == {{"b_create", "b_call", "b_set", "b_signer", "b_build", "b_sign", "b_fees"}}
Hashing == {{"nonce", "tx_create", "tx_sign"}}
=============================================================================
