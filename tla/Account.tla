------------------------------ MODULE Account ------------------------------
(***************************************************************************)
(* The account of NeoC, src/src/wallet/account.c: an address, a key pair   *)
(* that may be absent, the NEP-2 form of the private key, a cached         *)
(* verification script and two flags.  Every function is an operator on    *)
(* the account's record; one that can fail returns the set of its          *)
(* outcomes, each the account it leaves behind and whether it succeeded.   *)
(*                                                                         *)
(* A private key is named by the address it derives, a script by the       *)
(* address it hashes to, so "this key signs for that account" is equality. *)
(***************************************************************************)
CONSTANTS
    Address,    \* addresses, and the keys and scripts behind them
    Pass,       \* passphrases, each with its scrypt parameters
    NULL,       \* the null pointer
    Blank       \* the empty string where an encrypted key is expected

ASSUME NullAssumption ==
    /\ NULL \notin Address /\ Blank # NULL
    /\ {NULL, Blank} \cap [key : Address, pass : Pass] = {}

nep2_key == [key : Address, pass : Pass]

neoc_account_t ==
    [address : Address, is_default : BOOLEAN, is_locked : BOOLEAN,
     key_pair : Address \cup {NULL}, encrypted_key : nep2_key \cup {NULL, Blank},
     verification_script : Address \cup {NULL}, extra : {"none", "multisig", "info"}]

(* NEP-6 form of an account; contract is the script it carries.              *)
neoc_nep6_account_t ==
    [address : Address \cup {NULL}, is_default : BOOLEAN, lock : BOOLEAN,
     key : nep2_key \cup {NULL, Blank}, contract : Address \cup {NULL}]

Outcome(ok, a) == [ok |-> ok, account |-> a]

-----------------------------------------------------------------------------
(* Constructors.                                                             *)

(* neoc_account_create_from_address: no key, no script.                      *)
create_from_address(x) ==
    [address |-> x, is_default |-> FALSE, is_locked |-> FALSE, key_pair |-> NULL,
     encrypted_key |-> NULL, verification_script |-> NULL, extra |-> "none"]

create_from_public_key(x) == [create_from_address(x) EXCEPT !.verification_script = x]

(* Also neoc_account_create, which draws the key at random.                  *)
create_from_key_pair(x) == [create_from_public_key(x) EXCEPT !.key_pair = x]

(* The script of a multi-signature account lives in its extra data, unless   *)
(* the account was made from an address alone.                               *)
create_multisig(x) == [create_from_address(x) EXCEPT !.extra = "multisig"]
create_multisig_with_address(x) == [create_from_address(x) EXCEPT !.extra = "info"]

(* A script that parses as M-of-N also leaves multi-signature information.   *)
create_from_verification_script(x) ==
    {create_from_public_key(x), [create_from_public_key(x) EXCEPT !.extra = "info"]}

(* Mutant: the decrypted key is not verified against the address hash.       *)
nep2_decrypt_unverified(e, p) ==
    IF e \notin nep2_key THEN {} ELSE IF e.pass = p THEN {e.key} ELSE Address \ {e.key}

(* neoc_nep2_decrypt yields the key only under the passphrase and the        *)
(* parameters that encrypted it: it checks the address hash in the data.     *)
nep2_decrypt(e, p) == {k \in Address : e = [key |-> k, pass |-> p]}

create_from_nep2(e, p) == {create_from_key_pair(k) : k \in nep2_decrypt(e, p)}

-----------------------------------------------------------------------------
(* Keys, locks and scripts.                                                  *)

get_verification_script(a) ==
    IF a.verification_script # NULL THEN a.verification_script
    ELSE CASE a.extra = "multisig" -> a.address
           [] a.extra = "info" -> NULL
           [] OTHER -> a.key_pair

(* neoc_account_sign_hash needs a key pair and a script; it does not ask     *)
(* whether the account is locked.                                            *)
can_sign(a) == a.key_pair # NULL /\ get_verification_script(a) # NULL
sign_hash(a) == [key |-> a.key_pair, script |-> get_verification_script(a)]

(* The old encrypted key and the cached script go first, then the copy of    *)
(* the new key is allocated, which may fail.                                 *)
store_encrypted_key(a, e) ==
    LET cleared == [a EXCEPT !.encrypted_key = NULL, !.verification_script = NULL]
    IN  {Outcome(TRUE, [cleared EXCEPT !.encrypted_key = e])}
        \cup (IF e = NULL THEN {} ELSE {Outcome(FALSE, cleared)})

(* Mutant: the key pair is dropped once its encrypted form was requested.    *)
encrypt_drops_key(a, p) ==
    IF a.key_pair = NULL THEN {Outcome(FALSE, a)}
    ELSE {Outcome(o.ok, [o.account EXCEPT !.key_pair = NULL, !.is_locked = TRUE]) :
            o \in store_encrypted_key(a, [key |-> a.key_pair, pass |-> p])}

encrypt(a, p) ==
    IF a.key_pair = NULL THEN {Outcome(FALSE, a)}
    ELSE {Outcome(o.ok, [o.account EXCEPT !.is_locked = @ \/ o.ok]) :
            o \in store_encrypted_key(a, [key |-> a.key_pair, pass |-> p])}

decrypt(a, p) ==
    {Outcome(TRUE, [a EXCEPT !.key_pair = k, !.is_locked = FALSE]) :
        k \in nep2_decrypt(a.encrypted_key, p)}

(* A new buffer is allocated before the old one is released.                 *)
set_encrypted_private_key(a, e) ==
    {[a EXCEPT !.encrypted_key = e]} \cup (IF e = NULL THEN {} ELSE {a})

-----------------------------------------------------------------------------
(* NEP-6 conversion.                                                         *)

to_nep6(a) ==
    [address |-> a.address, is_default |-> a.is_default, lock |-> a.is_locked,
     key |-> a.encrypted_key, contract |-> get_verification_script(a)]

(* What neoc_account_from_nep6 fills in; a key marks the account locked.     *)
filled(n, a, script) ==
    [a EXCEPT !.is_default = n.is_default, !.is_locked = n.lock \/ n.key # NULL, !.verification_script = script]

(* The accounts neoc_account_from_nep6 can return; it fails without an       *)
(* address and when the key cannot be copied.  A contract whose script       *)
(* cannot be decoded is passed over.                                         *)
from_nep6(n) ==
    IF n.address = NULL THEN {}
    ELSE {filled(n, o.account, script) :
            o \in {p \in store_encrypted_key(create_from_address(n.address), n.key) : p.ok},
            script \in {n.contract, NULL}}
=============================================================================
