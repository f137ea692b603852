---------------------------- MODULE Transaction ----------------------------
(***************************************************************************)
(* Transactions of NeoC, src/src/transaction/transaction.c: the fields a   *)
(* caller sets, the signers, attributes and witnesses a transaction owns,  *)
(* and the hash it caches.  Signers are objects on the heap, because who   *)
(* owns them is what goes wrong; attributes and witnesses are contents.    *)
(***************************************************************************)
EXTENDS Integers, Sequences, FiniteSets, Functions

CONSTANTS
    Account,        \* accounts, by script hash
    Keyed,          \* the accounts that have a key pair to sign with
    Parties,        \* lists of accounts callers pass
    Script,         \* non-empty scripts
    Torn,           \* a script whose pointer is NULL and whose length is not
    Sgn, Txn,       \* identities (pointers) of signers and transactions
    NULL,
    Value,          \* values of the numeric fields
    MaxAttributes, MaxWitnesses,
    Workload        \* sets of groups of calls a caller makes, see Next

ASSUME KeyedAssumption == Keyed \subseteq Account /\ Parties \subseteq Seq(Account)
ASSUME NullAssumption ==
    /\ NULL \notin Account \cup Sgn \cup Txn \cup Script
    /\ Torn \notin Script \cup {NULL}
ASSUME ValueAssumption == Value \subseteq Nat /\ 0 \in Value
ASSUME BoundAssumption == MaxAttributes \in Nat \ {0} /\ MaxWitnesses \in Nat

VARIABLES
    signer,         \* the live signers and the account of each
    mine,           \* signers the caller owns
    tx,             \* the live transactions
    kept,           \* transactions the caller was given and has not freed
    work            \* the workload, chosen once; with "oom", malloc may fail

tvars == <<signer, mine, tx, kept>>

FieldName == {"version", "nonce", "system_fee", "network_fee", "valid_until_block"}
(* High priority, and one for the three types that carry data.               *)
AttributeType == {"HIGH_PRIORITY", "CONFLICTS"}

accounts(s) == [k \in DOMAIN s |-> signer[s[k]]]

(* What neoc_transaction_build_serialized writes without the witnesses;      *)
(* SHA-256 is injective, so a hash is the bytes it was computed from.        *)
body(t) ==
    [fields |-> t.fields, signers |-> accounts(t.signers), attributes |-> t.attributes, script |-> t.script]

(* The script put into a witness: 0x21, the key, 0xAC.                       *)
neoc_witness_create_from_signature(a, h) == [signed |-> h, verification |-> <<"0x21", a, "0xAC">>]

With(f, i, a) == [j \in DOMAIN f \cup {i} |-> IF j = i THEN a ELSE f[j]]
Without(f, S) == [j \in DOMAIN f \ S |-> f[j]]

transaction(fields) ==
    [fields |-> fields, script |-> NULL, signers |-> <<>>, attributes |-> <<>>, witnesses |-> <<>>,
     hash |-> NULL]

-----------------------------------------------------------------------------

(* The nonce is random.  A workload that is not about nonces draws one.      *)
Drawn == IF "nonce" \in work THEN Value ELSE {0}

neoc_transaction_create(i) ==
    /\ i \notin DOMAIN tx
    /\ \E v \in Drawn : tx' = With(tx, i, transaction([f \in FieldName |-> IF f = "nonce" THEN v ELSE 0]))
    /\ kept' = kept \cup {i}
    /\ UNCHANGED <<signer, mine>>

(* The five setters of numeric fields: none of them forgets the hash.        *)
neoc_transaction_set_field(i, f, v) ==
    /\ tx' = [tx EXCEPT ![i].fields[f] = v]
    /\ UNCHANGED <<signer, mine, kept>>

(* The old script is freed first; a failed malloc leaves its length.         *)
neoc_transaction_set_script(i, s) ==
    /\ \/ tx' = [tx EXCEPT ![i].script = s]
       \/ "oom" \in work /\ tx' = [tx EXCEPT ![i].script = IF @ = NULL THEN NULL ELSE Torn]
    /\ UNCHANGED <<signer, mine, kept>>

(* A signer the caller makes, to hand it over or to free it.                 *)
neoc_signer_create(s, a) ==
    /\ s \notin DOMAIN signer
    /\ signer' = With(signer, s, a) /\ mine' = mine \cup {s}
    /\ UNCHANGED <<tx, kept>>

neoc_signer_free(s) ==
    /\ signer' = Without(signer, {s}) /\ mine' = mine \ {s}
    /\ UNCHANGED <<tx, kept>>

neoc_transaction_add_signer(i, s) ==
    /\ signer[s] \notin Range(accounts(tx[i].signers))
    /\ tx' = [tx EXCEPT ![i].signers = Append(@, s)]
    /\ mine' = mine \ {s}
    /\ UNCHANGED <<signer, kept>>

neoc_transaction_add_attribute(i, a) ==
    /\ Len(tx[i].attributes) < MaxAttributes
    /\ tx' = [tx EXCEPT ![i].attributes = Append(@, a)]
    /\ UNCHANGED <<signer, mine, kept>>

(* A witness the caller made of scripts of their own, for this transaction   *)
(* or another.                                                               *)
neoc_witness_create == [signed |-> NULL, verification |-> <<>>]
neoc_transaction_add_witness(i) ==
    /\ Len(tx[i].witnesses) < MaxWitnesses
    /\ tx' = [tx EXCEPT ![i].witnesses = Append(@, neoc_witness_create)]
    /\ UNCHANGED <<signer, mine, kept>>

-----------------------------------------------------------------------------
(* Hashing and signing.                                                      *)

calculated(t) == [t EXCEPT !.hash = body(t)]

neoc_transaction_calculate_hash(i) ==
    /\ tx' = [tx EXCEPT ![i] = calculated(@)]
    /\ UNCHANGED <<signer, mine, kept>>

(* Only an all-zero hash is computed.                                        *)
neoc_transaction_get_hash(i) ==
    /\ tx' = [tx EXCEPT ![i] = IF @.hash = NULL THEN calculated(@) ELSE @]
    /\ UNCHANGED <<signer, mine, kept>>

(* Mutant: the cached hash is signed when there is one.                      *)
signed_hash_cached(t) == IF t.hash = NULL THEN body(t) ELSE t.hash

signed_hash(t) == body(t)

(* How many of the accounts, in order, sign before one fails.                *)
signing(as) ==
    LET able == {k \in DOMAIN as : \A j \in 1 .. k : as[j] \in Keyed}
    IN  IF "oom" \in work THEN 0 .. Cardinality(able) ELSE {Cardinality(able)}

(* Transaction t after n of the accounts added their witnesses; the hash is  *)
(* computed before the key pair is looked at.                                *)
signed(t, as, n) ==
    LET h == signed_hash(t) IN
    [t EXCEPT !.hash = IF as = <<>> THEN @ ELSE h,
              !.witnesses = @ \o [k \in 1 .. n |-> neoc_witness_create_from_signature(as[k], h)]]

(* neoc_transaction_sign is the case of one account.                         *)
neoc_transaction_sign_multi(i, as) ==
    /\ as # <<>> /\ Len(tx[i].witnesses) + Len(as) <= MaxWitnesses
    /\ \E n \in signing(as) : tx' = [tx EXCEPT ![i] = signed(@, as, n)]
    /\ UNCHANGED <<signer, mine, kept>>

-----------------------------------------------------------------------------
(* Copies and the end of a transaction.                                      *)

(* The signers with copies of s at the fresh places c.                       *)
copied(s, c) ==
    [x \in DOMAIN signer \cup Range(c) |->
        IF x \in DOMAIN signer THEN signer[x] ELSE signer[s[CHOOSE k \in DOMAIN c : c[k] = x]]]

Places(n) == Injection(1 .. n, Sgn \ DOMAIN signer)

cloned(t, c) == [t EXCEPT !.signers = c, !.script = IF @ = Torn THEN NULL ELSE @]

neoc_transaction_clone(i, j) ==
    /\ j \notin DOMAIN tx
    /\ \E c \in Places(Len(tx[i].signers)) :
        /\ signer' = copied(tx[i].signers, c)
        /\ tx' = With(tx, j, cloned(tx[i], c))
    /\ kept' = kept \cup {j}
    /\ UNCHANGED mine

(* A clone that fails: the signers copied so far are not freed.              *)
clone_fail(i) ==
    /\ "oom" \in work
    /\ \E n \in 1 .. Len(tx[i].signers) : \E c \in Places(n) : signer' = copied(tx[i].signers, c)
    /\ UNCHANGED <<mine, tx, kept>>

(* neoc_transaction_from_json(neoc_transaction_to_json(tx)) when the text    *)
(* fits its buffer: the hash goes into it, the signers, attributes and       *)
(* witnesses do not, and a failed malloc on either side loses the script.    *)
neoc_transaction_from_json(i, j) ==
    /\ j \notin DOMAIN tx
    /\ \E s \in {IF tx[i].script = Torn THEN NULL ELSE tx[i].script}
               \cup (IF "oom" \in work THEN {NULL, Torn} ELSE {}) :
        tx' = With(tx, j, [transaction(tx[i].fields) EXCEPT !.hash = tx[i].hash, !.script = s])
    /\ kept' = kept \cup {j}
    /\ UNCHANGED <<signer, mine>>

(* The array of signers is freed, the signers are not.                       *)
neoc_transaction_free(i) ==
    /\ tx' = Without(tx, {i}) /\ kept' = kept \ {i}
    /\ UNCHANGED <<signer, mine>>

-----------------------------------------------------------------------------

TxInit == signer = <<>> /\ mine = {} /\ tx = <<>> /\ kept = {} /\ work \in Workload

Edit ==
    \E i \in kept :
        \/ \E f \in FieldName \cap work, v \in Value : neoc_transaction_set_field(i, f, v)
        \/ "tx_script" \in work /\ \E s \in Script : neoc_transaction_set_script(i, s)
        \/ "tx_signer" \in work /\ \E s \in mine : neoc_transaction_add_signer(i, s)
        \/ "tx_attribute" \in work /\ \E a \in AttributeType : neoc_transaction_add_attribute(i, a)
        \/ "tx_witness" \in work /\ neoc_transaction_add_witness(i)

Signers ==
    \/ \E s \in Sgn, a \in Account : neoc_signer_create(s, a)
    \/ \E s \in mine : neoc_signer_free(s)

TxSign ==
    \E i \in kept :
        \/ neoc_transaction_calculate_hash(i)
        \/ neoc_transaction_get_hash(i)
        \/ \E as \in Parties : neoc_transaction_sign_multi(i, as)

Copy == \E i \in kept : clone_fail(i) \/ \E j \in Txn : neoc_transaction_clone(i, j) \/ neoc_transaction_from_json(i, j)

TxNext ==
    \/ "tx_create" \in work /\ \E i \in Txn : neoc_transaction_create(i)
    \/ Edit
    \/ "signer" \in work /\ Signers
    \/ "tx_sign" \in work /\ TxSign
    \/ "tx_copy" \in work /\ Copy
    \/ "tx_free" \in work /\ \E i \in kept : neoc_transaction_free(i)
=============================================================================
