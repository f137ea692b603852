------------------------------- MODULE Wallet -------------------------------
(***************************************************************************)
(* The wallet of NeoC, src/src/wallet/wallet.c: an owning array of         *)
(* accounts, one of them the default, and its NEP-6 file.  One caller      *)
(* keeps at most one wallet open, makes and holds accounts of its own, and *)
(* may die at any moment; only the file survives.  Loading and saving are  *)
(* several steps: one per account of the document, and one between the     *)
(* fopen that truncates the file and the fwrite that fills it.             *)
(***************************************************************************)
EXTENDS Account, Integers, Sequences, FiniteSets, Functions

CONSTANTS
    Acct,               \* identities (pointers) of account objects
    InitialCapacity,    \* INITIAL_ACCOUNT_CAPACITY
    Workload            \* what a caller does, see Next, and the bounds it keeps to

ASSUME AcctAssumption == NULL \notin Acct
ASSUME CapacityAssumption == InitialCapacity \in Nat \ {0}

Groups == {"manage", "import", "account", "flag", "lock", "lock_one", "crypt", "store", "nep6", "save", "crash"}
Kinds == {"key", "public", "multisig", "script"}

(* Groups of calls; kinds of accounts constructed; addresses used; account   *)
(* lists of NEP-6 files other programs wrote; how many accounts are live.    *)
ASSUME WorkloadAssumption ==
    \A w \in Workload :
        /\ w.calls \subseteq Groups /\ w.kinds \subseteq Kinds /\ w.addresses \subseteq Address
        /\ w.documents \subseteq Seq(neoc_nep6_account_t) /\ w.most \in Nat

VARIABLES
    heap,               \* the live account objects
    held,               \* accounts the caller owns
    open,               \* is there a wallet?
    accounts,           \* wallet->accounts, of length wallet->account_count
    account_capacity, default_account,
    pc,                 \* "idle", "loading" or "saving"
    doc,                \* the NEP-6 document being converted
    file,               \* the wallet file: does it parse, and its accounts
    saved,              \* is the file what a successful neoc_wallet_save left?
    work                \* the workload, chosen once

wallet == <<open, accounts, account_capacity, default_account>>
disk == <<file, saved>>
vars == <<heap, held, wallet, pc, doc, disk, work>>

Unparsable == [parses |-> FALSE, accounts |-> <<>>]
Files == [parses : BOOLEAN, accounts : Seq(neoc_nep6_account_t)]

Init ==
    /\ heap = <<>> /\ held = {}
    /\ open = FALSE /\ accounts = <<>> /\ account_capacity = 0 /\ default_account = NULL
    /\ pc = "idle" /\ doc = <<>> /\ saved = FALSE /\ work \in Workload
    /\ file \in {Unparsable} \cup {[parses |-> TRUE, accounts |-> d] : d \in work.documents}

With(f, i, a) == [j \in DOMAIN f \cup {i} |-> IF j = i THEN a ELSE f[j]]
Without(f, S) == [j \in DOMAIN f \ S |-> f[j]]
Fresh == {i \in Acct \ DOMAIN heap : Cardinality(DOMAIN heap) < work.most}
Members == Range(accounts)
Ready == pc = "idle" /\ open

(* The index of the account with an address, as the strcmp loops find it.    *)
index_of(x) == {i \in DOMAIN accounts : heap[accounts[i]].address = x}

-----------------------------------------------------------------------------
(* Adding, removing and choosing the default.                                *)

neoc_wallet_create ==
    /\ pc = "idle" /\ ~open
    /\ open' = TRUE /\ accounts' = <<>> /\ account_capacity' = InitialCapacity
    /\ default_account' = NULL
    /\ UNCHANGED <<heap, held, pc, doc, disk, work>>

(* Mutant: the realloc of a full array is forgotten.                         *)
grown_never(n) == account_capacity

grown(n) == IF n >= account_capacity THEN account_capacity * 2 ELSE account_capacity

(* Mutant: the search for an existing account is dropped.                    *)
add_account_unchecked(i, h) ==
    /\ accounts' = Append(accounts, i)
    /\ account_capacity' = grown(Len(accounts))
    /\ default_account' = IF accounts = <<>> THEN i ELSE default_account
    /\ heap' = IF accounts = <<>> THEN [h EXCEPT ![i].is_default = TRUE] ELSE h

(* neoc_wallet_add_account of object i when it succeeds; h is the heap with  *)
(* i in it.  The first account becomes the default.                          *)
add_account(i, h) ==
    /\ \A j \in Members : h[j].address # h[i].address
    /\ accounts' = Append(accounts, i)
    /\ account_capacity' = grown(Len(accounts))
    /\ default_account' = IF accounts = <<>> THEN i ELSE default_account
    /\ heap' = IF accounts = <<>> THEN [h EXCEPT ![i].is_default = TRUE] ELSE h

(* The caller hands over an account; when it is refused it stays with them.  *)
neoc_wallet_add_account(i) ==
    /\ Ready /\ i \in held
    /\ add_account(i, heap)
    /\ held' = held \ {i}
    /\ UNCHANGED <<open, pc, doc, disk, work>>

(* neoc_wallet_create_account and the imports: make an account and add it; a *)
(* refused one is freed, which leaves everything as it was.                  *)
neoc_wallet_import(a) ==
    /\ Ready
    /\ \E i \in Fresh : add_account(i, With(heap, i, a))
    /\ UNCHANGED <<held, open, pc, doc, disk, work>>

(* Mutant: the next default is looked up after the array was shifted.        *)
successor_shifted(k) == accounts[1]

(* The account that follows a removed default, read before the shift.        *)
successor(k) == IF k > 1 THEN accounts[1] ELSE accounts[2]

neoc_wallet_remove_account(x) ==
    /\ Ready
    /\ \E k \in index_of(x) :
        LET last == default_account = accounts[k] /\ Len(accounts) = 1
            moved == default_account = accounts[k] /\ Len(accounts) > 1
        IN  /\ default_account' = IF last THEN NULL ELSE IF moved THEN successor(k) ELSE default_account
            /\ accounts' = [j \in 1 .. (Len(accounts) - 1) |-> IF j < k THEN accounts[j] ELSE accounts[j + 1]]
            /\ heap' = Without(IF moved THEN [heap EXCEPT ![successor(k)].is_default = TRUE] ELSE heap,
                               {accounts[k]})
    /\ UNCHANGED <<held, open, account_capacity, pc, doc, disk, work>>

(* Mutant: the flag of the old default is left set.                          *)
make_default_keeping(i, h) ==
    /\ heap' = [h EXCEPT ![i].is_default = TRUE]
    /\ default_account' = i

(* The old default loses its flag first, then the new one gets it.           *)
make_default(i, h) ==
    /\ heap' = [j \in DOMAIN h |->
                  [h[j] EXCEPT !.is_default = IF j = i THEN TRUE ELSE IF j = default_account THEN FALSE ELSE @]]
    /\ default_account' = i

(* By address, by script hash or by account: all look the address up.        *)
neoc_wallet_set_default_account(x) ==
    /\ Ready
    /\ \E k \in index_of(x) : make_default(accounts[k], heap)
    /\ UNCHANGED <<held, open, accounts, account_capacity, pc, doc, disk, work>>

neoc_wallet_free ==
    /\ Ready
    /\ heap' = Without(heap, Members)
    /\ open' = FALSE /\ accounts' = <<>> /\ account_capacity' = 0 /\ default_account' = NULL
    /\ UNCHANGED <<held, pc, doc, disk, work>>

-----------------------------------------------------------------------------
(* Calls on one account, held by the caller or reached through the wallet.   *)

neoc_account_create(a) ==
    /\ pc = "idle"
    /\ \E i \in Fresh : heap' = With(heap, i, a) /\ held' = held \cup {i}
    /\ UNCHANGED <<wallet, pc, doc, disk, work>>

neoc_account_free(i) ==
    /\ pc = "idle" /\ i \in held
    /\ heap' = Without(heap, {i}) /\ held' = held \ {i}
    /\ UNCHANGED <<wallet, pc, doc, disk, work>>

Update(i, a) ==
    /\ pc = "idle"
    /\ heap' = [heap EXCEPT ![i] = a]
    /\ UNCHANGED <<held, wallet, pc, doc, disk, work>>

neoc_account_set_default(i, b) == Update(i, [heap[i] EXCEPT !.is_default = b])
neoc_account_lock_internal(i) == Update(i, [heap[i] EXCEPT !.is_locked = TRUE])
neoc_account_unlock_internal(i) == Update(i, [heap[i] EXCEPT !.is_locked = FALSE])
neoc_account_encrypt(i, p) == \E o \in encrypt(heap[i], p) : Update(i, o.account)
neoc_account_decrypt(i, p) == \E o \in decrypt(heap[i], p) : Update(i, o.account)
neoc_account_set_encrypted_private_key(i, e) == \E a \in set_encrypted_private_key(heap[i], e) : Update(i, a)

(* The passphrase is ignored: only the flag changes.                         *)
set_locks(b) ==
    /\ Ready
    /\ heap' = [i \in DOMAIN heap |-> IF i \in Members THEN [heap[i] EXCEPT !.is_locked = b] ELSE heap[i]]
    /\ UNCHANGED <<held, wallet, pc, doc, disk, work>>

neoc_wallet_lock_all == set_locks(TRUE)
neoc_wallet_unlock_all == set_locks(FALSE)

-----------------------------------------------------------------------------
(* NEP-6: conversion, saving, loading, and the death of the process.         *)

(* The document neoc_wallet_to_nep6 builds: adding an account that is a      *)
(* default clears the flags of those before it.                              *)
wallet_to_nep6 ==
    [k \in DOMAIN accounts |->
        [to_nep6(heap[accounts[k]]) EXCEPT
            !.is_default = @ /\ \A j \in DOMAIN accounts : j > k => ~heap[accounts[j]].is_default]]

(* The text neoc_nep6_wallet_to_json writes.  A missing key is written "",   *)
(* the script is dropped, and every account whose contract is not a deployed *)
(* one (none of ours is) has one bracket too many after "parameters".        *)
to_json(d) ==
    [parses |-> d = <<>>,
     accounts |-> [k \in DOMAIN d |-> [d[k] EXCEPT !.key = IF @ = NULL THEN Blank ELSE @, !.contract = NULL]]]

(* Conversion done, the file is opened with "w": its old contents are gone.  *)
save_open ==
    /\ Ready
    /\ doc' = wallet_to_nep6
    /\ pc' = "saving"
    /\ file' = Unparsable /\ saved' = FALSE
    /\ UNCHANGED <<heap, held, wallet, work>>

(* The write is complete, or short: then the file is left cut off.           *)
save_write ==
    /\ pc = "saving"
    /\ \/ file' = to_json(doc) /\ saved' = TRUE
       \/ UNCHANGED disk
    /\ pc' = "idle" /\ doc' = <<>>
    /\ UNCHANGED <<heap, held, wallet, work>>

Load(d) ==
    /\ pc = "idle" /\ ~open
    /\ doc' = d /\ pc' = "loading"
    /\ open' = TRUE /\ accounts' = <<>> /\ account_capacity' = InitialCapacity
    /\ default_account' = NULL
    /\ UNCHANGED <<heap, held, disk, work>>

(* neoc_nep6_wallet_from_json of a text that parses: no contract is read.    *)
from_json(d) == [k \in DOMAIN d |-> [d[k] EXCEPT !.contract = NULL]]

neoc_wallet_load == file.parses /\ Load(from_json(file.accounts))

(* neoc_wallet_to_nep6, neoc_wallet_free and neoc_wallet_from_nep6 in a row. *)
neoc_wallet_from_nep6 ==
    /\ Ready
    /\ doc' = wallet_to_nep6 /\ pc' = "loading"
    /\ heap' = Without(heap, Members)
    /\ accounts' = <<>> /\ account_capacity' = InitialCapacity /\ default_account' = NULL
    /\ UNCHANGED <<held, open, disk, work>>

(* Mutant: a default account of the document is only added.                  *)
load_default_ignored(i, h) == add_account(i, h)

(* An account of the document is added and, when it is a default, chosen.    *)
load_account(i, h) ==
    \/ ~h[i].is_default /\ add_account(i, h)
    \/ /\ h[i].is_default
       /\ \A j \in Members : h[j].address # h[i].address
       /\ accounts' = Append(accounts, i)
       /\ account_capacity' = grown(Len(accounts))
       /\ make_default(i, h)

load_next ==
    /\ pc = "loading" /\ Len(accounts) < Len(doc)
    /\ \E a \in from_nep6(doc[Len(accounts) + 1]), i \in Fresh : load_account(i, With(heap, i, a))
    /\ UNCHANGED <<held, open, pc, doc, disk, work>>

(* Mutant: the wallet is dropped but its accounts are not freed.             *)
load_fail_leaks == UNCHANGED heap

load_fail_frees == heap' = Without(heap, Members)

(* A missing or repeated address, or a failed allocation, ends the load:     *)
(* the accounts converted so far are freed and no wallet is returned.        *)
load_fail ==
    /\ pc = "loading" /\ Len(accounts) < Len(doc)
    /\ load_fail_frees
    /\ open' = FALSE /\ accounts' = <<>> /\ account_capacity' = 0 /\ default_account' = NULL
    /\ pc' = "idle" /\ doc' = <<>>
    /\ UNCHANGED <<held, disk, work>>

load_done ==
    /\ pc = "loading" /\ Len(accounts) = Len(doc)
    /\ pc' = "idle" /\ doc' = <<>>
    /\ UNCHANGED <<heap, held, wallet, disk, work>>

crash ==
    /\ heap' = <<>> /\ held' = {}
    /\ open' = FALSE /\ accounts' = <<>> /\ account_capacity' = 0 /\ default_account' = NULL
    /\ pc' = "idle" /\ doc' = <<>>
    /\ UNCHANGED <<disk, work>>

-----------------------------------------------------------------------------
(* The caller's accounts, by the constructors used.                          *)
Constructed(x) ==
    UNION {IF "key" \in work.kinds THEN {create_from_key_pair(x)} ELSE {},
           IF "public" \in work.kinds THEN {create_from_public_key(x), create_from_address(x)} ELSE {},
           IF "multisig" \in work.kinds THEN {create_multisig(x), create_multisig_with_address(x)} ELSE {},
           IF "script" \in work.kinds THEN create_from_verification_script(x) ELSE {}}

(* Encrypted keys a caller stores with an account are that account's own.    *)
OwnKeys(i) ==
    {NULL} \cup IF heap[i].extra = "none" THEN [key : {heap[i].address}, pass : Pass] ELSE {}

Manage ==
    \/ neoc_wallet_create
    \/ neoc_wallet_free
    \/ \E x \in work.addresses : neoc_wallet_remove_account(x)
    \/ \E x \in work.addresses : neoc_wallet_set_default_account(x)

Import ==
    \E x \in work.addresses :
        \/ neoc_wallet_import(create_from_key_pair(x))
        \/ \E e \in nep2_key, p \in Pass : \E a \in create_from_nep2(e, p) : neoc_wallet_import(a)

Hold ==
    \/ \E x \in work.addresses : \E a \in Constructed(x) : neoc_account_create(a)
    \/ \E i \in held : neoc_wallet_add_account(i) \/ neoc_account_free(i)

Flag == \E i \in DOMAIN heap, b \in BOOLEAN : neoc_account_set_default(i, b)

Lock == neoc_wallet_lock_all \/ neoc_wallet_unlock_all

LockOne == \E i \in DOMAIN heap : neoc_account_lock_internal(i) \/ neoc_account_unlock_internal(i)

Crypt == \E i \in DOMAIN heap, p \in Pass : neoc_account_encrypt(i, p) \/ neoc_account_decrypt(i, p)

Store == \E i \in DOMAIN heap : \E e \in OwnKeys(i) : neoc_account_set_encrypted_private_key(i, e)

Nep6 == neoc_wallet_load \/ neoc_wallet_from_nep6 \/ load_next \/ load_fail \/ load_done
Save == save_open \/ save_write

Next ==
    \/ "manage" \in work.calls /\ Manage
    \/ "import" \in work.calls /\ Import
    \/ "account" \in work.calls /\ Hold
    \/ "flag" \in work.calls /\ Flag
    \/ "lock" \in work.calls /\ Lock
    \/ "lock_one" \in work.calls /\ LockOne
    \/ "crypt" \in work.calls /\ Crypt
    \/ "store" \in work.calls /\ Store
    \/ "nep6" \in work.calls /\ Nep6
    \/ "save" \in work.calls /\ Save
    \/ "crash" \in work.calls /\ crash

Spec == Init /\ [][Next]_vars

-----------------------------------------------------------------------------
(* Properties.                                                               *)

(* Every variable has its type: the array holds live accounts, pairwise      *)
(* distinct, within the capacity allocated for it.                           *)
TypeOK ==
    /\ DOMAIN heap \subseteq Acct /\ \A i \in DOMAIN heap : heap[i] \in neoc_account_t
    /\ held \subseteq Acct /\ open \in BOOLEAN /\ accounts \in Seq(Acct)
    /\ account_capacity \in Nat /\ Len(accounts) <= account_capacity
    /\ default_account \in Acct \cup {NULL}
    /\ pc \in {"idle", "loading", "saving"} /\ doc \in Seq(neoc_nep6_account_t)
    /\ file \in Files /\ saved \in BOOLEAN

(* neoc_wallet_get_default_account never returns a dangling pointer, and     *)
(* finds no default exactly when the wallet is empty: whatever is added,     *)
(* removed, chosen, loaded or freed, and in which order.                     *)
DefaultLive ==
    IF accounts = <<>> THEN default_account = NULL ELSE default_account \in Members

(* Every live account has one owner, the wallet (once) or the caller:        *)
(* neoc_account_free is never due twice and no path of a failed import or    *)
(* load leaks an account.                                                    *)
Ownership ==
    /\ DOMAIN heap = held \cup Members /\ held \cap Members = {}
    /\ \A j, k \in DOMAIN accounts : accounts[j] = accounts[k] => j = k

(* Look-ups by address are unambiguous: no two accounts of a wallet share    *)
(* one, also when a document repeats an address.                             *)
AddressesUnique ==
    \A j, k \in DOMAIN accounts : heap[accounts[j]].address = heap[accounts[k]].address => j = k

(* is_default, which neoc_wallet_save writes, marks exactly the account that *)
(* default_account points at, as long as callers leave the flag alone; so    *)
(* the document neoc_wallet_to_nep6 makes elects the wallet's own default.   *)
DefaultFlag ==
    "flag" \notin work.calls =>
        /\ \A i \in Members : heap[i].is_default <=> i = default_account
        /\ \A i \in held : ~heap[i].is_default

(* Which account of a NEP-6 document is the default: the last one so marked, *)
(* the first when none is.                                                   *)
Elected(d) ==
    LET marked == {k \in DOMAIN d : d[k].is_default}
    IN  IF marked = {} THEN 1 ELSE CHOOSE k \in marked : \A j \in marked : j <= k

(* neoc_wallet_from_nep6 returns all accounts of the document, in order and  *)
(* with their keys, and the default the document elects, or no wallet.       *)
LoadFaithful ==
    [][pc = "loading" /\ pc' = "idle" /\ open' =>
        /\ Len(accounts') = Len(doc)
        /\ \A k \in DOMAIN doc : /\ heap'[accounts'[k]].address = doc[k].address
                                  /\ heap'[accounts'[k]].encrypted_key = doc[k].key
        /\ doc # <<>> => default_account' = accounts'[Elected(doc)]]_vars

(* The encrypted key of an account in a document is that account's own.      *)
OwnKey(n) == n.key \in nep2_key => n.key.key = n.address
OwnKeyDocuments == \A w \in Workload : \A d \in w.documents : \A k \in DOMAIN d : OwnKey(d[k])

(* A signature made with an account carries the key and the verification     *)
(* script of the account's own address, after any mix of encryption,         *)
(* decryption with right and wrong passphrases, export and import.           *)
SignsForItself ==
    \A i \in DOMAIN heap :
        can_sign(heap[i]) => sign_hash(heap[i]) = [key |-> heap[i].address, script |-> heap[i].address]

HasKey(a) == a.key_pair # NULL \/ a.encrypted_key \in nep2_key

(* No call on a live account loses its private key, failed ones included,    *)
(* unless the caller stores another: the key stays available as a key pair   *)
(* or under a passphrase.                                                    *)
KeyKept ==
    [][\A i \in DOMAIN heap \cap DOMAIN heap' : HasKey(heap[i]) /\ "store" \notin work.calls => HasKey(heap'[i])]_vars

(* A file that neoc_wallet_save reported written can be loaded again.        *)
SavedLoads == saved => file.parses
=============================================================================
