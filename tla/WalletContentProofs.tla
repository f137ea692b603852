------------------------- MODULE WalletContentProofs -------------------------
(***************************************************************************)
(* Proofs about what the accounts of a wallet contain, for any number of   *)
(* accounts, addresses, passphrases and documents and any mix of calls.    *)
(* They rest on OwnInv of WalletProofs, which says where an account is.    *)
(***************************************************************************)
EXTENDS WalletProofs

-----------------------------------------------------------------------------
(* Accounts.                                                                 *)

(* The key pair, the cached script and the stored key are the account's own. *)
Sound(a) ==
    /\ a.key_pair \in {NULL, a.address} /\ a.verification_script \in {NULL, a.address}
    /\ a.encrypted_key \in nep2_key => a.encrypted_key.key = a.address

(* What a call may make of an account it is given.                           *)
Evolves(a, b) ==
    /\ b \in neoc_account_t /\ b.address = a.address
    /\ Sound(a) => Sound(b)
    /\ HasKey(a) /\ "store" \notin work.calls => HasKey(b)

(* A sound account that can sign does so for its own address: the cached     *)
(* script, the multi-signature script and the key pair agree.                *)
LEMMA SoundSigns ==
    ASSUME NEW a \in neoc_account_t, Sound(a), can_sign(a)
    PROVE  sign_hash(a) = [key |-> a.address, script |-> a.address]
  BY DEF neoc_account_t, Sound, can_sign, sign_hash, get_verification_script

(* The constructors make sound accounts that are no defaults.                *)
LEMMA Constructors ==
    ASSUME NEW x \in Address
    PROVE  /\ \A a \in {create_from_address(x), create_from_public_key(x), create_from_key_pair(x),
                        create_multisig(x), create_multisig_with_address(x)}
                      \cup create_from_verification_script(x) :
                  a \in neoc_account_t /\ Sound(a) /\ a.address = x /\ ~a.is_default
  <1> DEFINE Good(a) == a \in neoc_account_t /\ Sound(a) /\ a.address = x /\ ~a.is_default /\ a.encrypted_key = NULL
  <1>1. Good(create_from_address(x))
    BY NullAssumption DEF create_from_address, neoc_account_t, Sound, nep2_key
  <1>2. ASSUME NEW a, Good(a)
        PROVE  /\ Good([a EXCEPT !.verification_script = x]) /\ Good([a EXCEPT !.key_pair = x])
               /\ Good([a EXCEPT !.extra = "multisig"]) /\ Good([a EXCEPT !.extra = "info"])
    <2>1. \A b \in neoc_account_t : Good(b) <=> /\ b.key_pair \in {NULL, x} /\ b.verification_script \in {NULL, x}
                                               /\ b.address = x /\ ~b.is_default /\ b.encrypted_key = NULL
      BY NullAssumption DEF Sound, nep2_key
    <2> HIDE DEF Good
    <2>2. a \in neoc_account_t
      BY <1>2 DEF Good
    <2> QED
      BY <1>2, <2>1, <2>2 DEF neoc_account_t
  <1> HIDE DEF Good
  <1>3. Good(create_from_public_key(x))
    BY <1>1, <1>2, Zenon DEF create_from_public_key
  <1>4. Good(create_from_key_pair(x)) /\ \A a \in create_from_verification_script(x) : Good(a)
    BY <1>2, <1>3, Zenon DEF create_from_key_pair, create_from_verification_script
  <1>5. Good(create_multisig(x)) /\ Good(create_multisig_with_address(x))
    BY <1>1, <1>2, Zenon DEF create_multisig, create_multisig_with_address
  <1> QED
    BY <1>1, <1>3, <1>4, <1>5 DEF Good

(* The accounts a caller makes are such.                                     *)
LEMMA ConstructedAccount ==
    ASSUME work \in Workload, NEW x \in work.addresses, NEW a \in Constructed(x)
    PROVE  a \in neoc_account_t /\ Sound(a) /\ ~a.is_default
  <1>1. \/ a \in IF "key" \in work.kinds THEN {create_from_key_pair(x)} ELSE {}
        \/ a \in IF "public" \in work.kinds THEN {create_from_public_key(x), create_from_address(x)} ELSE {}
        \/ a \in IF "multisig" \in work.kinds THEN {create_multisig(x), create_multisig_with_address(x)} ELSE {}
        \/ a \in IF "script" \in work.kinds THEN create_from_verification_script(x) ELSE {}
    BY Zenon DEF Constructed
  <1>2. a \in {create_from_address(x), create_from_public_key(x), create_from_key_pair(x),
               create_multisig(x), create_multisig_with_address(x)}
              \cup create_from_verification_script(x)
    BY <1>1
  <1>3. x \in Address
    BY WorkloadAssumption
  <1> QED
    BY <1>2, <1>3, Constructors

(* neoc_nep2_decrypt gives the key that was encrypted.                       *)
LEMMA Decrypted ==
    ASSUME NEW e, NEW p \in Pass, NEW k \in nep2_decrypt(e, p)
    PROVE  k \in Address /\ e \in nep2_key /\ e.key = k
  BY DEF nep2_decrypt, nep2_key

(* Setting the flags of an account leaves its keys alone.                    *)
LEMMA FlagsEvolve ==
    ASSUME NEW a \in neoc_account_t, NEW b \in BOOLEAN
    PROVE  /\ Evolves(a, a) /\ Evolves(a, [a EXCEPT !.is_default = b]) /\ Evolves(a, [a EXCEPT !.is_locked = b])
           /\ [a EXCEPT !.is_locked = b].is_default = a.is_default
  BY DEF neoc_account_t, Evolves, Sound, HasKey

(* Storing an encrypted key clears the script and may lose the stored key,   *)
(* never the key pair.                                                       *)
LEMMA StoreEvolves ==
    ASSUME NEW a \in neoc_account_t, NEW e \in nep2_key \cup {NULL, Blank}, NEW o \in store_encrypted_key(a, e)
    PROVE  /\ o.account \in neoc_account_t /\ o.ok \in BOOLEAN
           /\ o.account.address = a.address /\ o.account.is_default = a.is_default
           /\ o.account.key_pair = a.key_pair /\ o.account.verification_script = NULL
           /\ o.account.extra = a.extra /\ o.account.is_locked = a.is_locked
           /\ o.account.encrypted_key \in {NULL, e}
           /\ o.ok => o.account.encrypted_key = e
  <1> DEFINE c == [a EXCEPT !.encrypted_key = NULL, !.verification_script = NULL]
             d == [c EXCEPT !.encrypted_key = e]
  <1>1. o \in {Outcome(TRUE, d), Outcome(FALSE, c)}
    BY Zenon DEF store_encrypted_key
  <1>2. /\ c \in neoc_account_t /\ c.address = a.address /\ c.is_default = a.is_default /\ c.key_pair = a.key_pair
        /\ c.verification_script = NULL /\ c.extra = a.extra /\ c.is_locked = a.is_locked /\ c.encrypted_key = NULL
    BY Zenon DEF neoc_account_t
  <1> HIDE DEF c
  <1>3. /\ d \in neoc_account_t /\ d.address = c.address /\ d.is_default = c.is_default /\ d.key_pair = c.key_pair
        /\ d.verification_script = c.verification_script /\ d.extra = c.extra /\ d.is_locked = c.is_locked
        /\ d.encrypted_key = e
    BY <1>2 DEF neoc_account_t
  <1> HIDE DEF d
  <1>4. (o.ok = TRUE /\ o.account = d) \/ (o.ok = FALSE /\ o.account = c)
    BY <1>1 DEF Outcome
  <1> QED
    BY <1>2, <1>3, <1>4, Zenon

(* neoc_account_encrypt, also when it runs out of memory, keeps the key.     *)
LEMMA EncryptEvolves ==
    ASSUME NEW a \in neoc_account_t, NEW p \in Pass, NEW o \in encrypt(a, p)
    PROVE  Evolves(a, o.account) /\ o.account.is_default = a.is_default
  <1>1. CASE a.key_pair = NULL
    <2>1. o.account = a
      BY <1>1 DEF encrypt, Outcome
    <2> QED
      BY <2>1, FlagsEvolve, Zenon
  <1>2. CASE a.key_pair # NULL
    <2> DEFINE e == [key |-> a.key_pair, pass |-> p]
    <2>1. e \in nep2_key /\ e.key = a.key_pair
      BY <1>2 DEF neoc_account_t, nep2_key
    <2>2. PICK s \in store_encrypted_key(a, e) :
            o = Outcome(s.ok, [s.account EXCEPT !.is_locked = @ \/ s.ok])
      BY <1>2 DEF encrypt
    <2> HIDE DEF e
    <2>3. /\ s.account \in neoc_account_t /\ s.ok \in BOOLEAN
          /\ s.account.address = a.address /\ s.account.is_default = a.is_default
          /\ s.account.key_pair = a.key_pair /\ s.account.verification_script = NULL
          /\ s.account.encrypted_key \in {NULL, e}
      BY <2>1, StoreEvolves
    <2>4. s.account.is_locked \in BOOLEAN
      BY <2>3 DEF neoc_account_t
    <2>5. PICK b \in BOOLEAN : o.account = [s.account EXCEPT !.is_locked = b]
      BY <2>2, <2>3, <2>4 DEF Outcome
    <2>6. /\ o.account \in neoc_account_t
          /\ o.account.address = a.address /\ o.account.is_default = a.is_default
          /\ o.account.key_pair = a.key_pair /\ o.account.verification_script = NULL
          /\ o.account.encrypted_key \in {NULL, e}
      BY <2>3, <2>5 DEF neoc_account_t
    <2>7. NULL \notin nep2_key
      BY NullAssumption DEF nep2_key
    <2> QED
      BY <1>2, <2>1, <2>6, <2>7 DEF Evolves, Sound, HasKey
  <1> QED
    BY <1>1, <1>2

(* neoc_account_decrypt installs the key that was stored, or none.           *)
LEMMA DecryptEvolves ==
    ASSUME NEW a \in neoc_account_t, NEW p \in Pass, NEW o \in decrypt(a, p)
    PROVE  Evolves(a, o.account) /\ o.account.is_default = a.is_default
  <1>1. PICK k \in nep2_decrypt(a.encrypted_key, p) :
          o = Outcome(TRUE, [a EXCEPT !.key_pair = k, !.is_locked = FALSE])
    BY Zenon DEF decrypt
  <1>2. k \in Address /\ a.encrypted_key \in nep2_key /\ a.encrypted_key.key = k
    BY Decrypted
  <1>3. /\ o.account \in neoc_account_t
        /\ o.account.address = a.address /\ o.account.is_default = a.is_default /\ o.account.key_pair = k
        /\ o.account.verification_script = a.verification_script /\ o.account.encrypted_key = a.encrypted_key
    BY <1>1, <1>2, Zenon DEF Outcome, neoc_account_t
  <1> QED
    BY <1>2, <1>3 DEF Evolves, Sound, HasKey

(* A caller that stores an account's own key may replace the one there was.  *)
LEMMA SetKeyEvolves ==
    ASSUME NEW a \in neoc_account_t, NEW e \in nep2_key \cup {NULL}, e # NULL => e.key = a.address,
           NEW b \in set_encrypted_private_key(a, e), "store" \in work.calls
    PROVE  Evolves(a, b) /\ b.is_default = a.is_default
  <1>1. b \in {a, [a EXCEPT !.encrypted_key = e]}
    BY DEF set_encrypted_private_key
  <1>2. CASE b = a
    BY <1>2, FlagsEvolve, Zenon
  <1>3. CASE b = [a EXCEPT !.encrypted_key = e]
    <2>1. /\ b \in neoc_account_t
          /\ b.address = a.address /\ b.is_default = a.is_default /\ b.key_pair = a.key_pair
          /\ b.verification_script = a.verification_script /\ b.encrypted_key = e
      BY <1>3 DEF neoc_account_t
    <2>2. NULL \notin nep2_key
      BY NullAssumption DEF nep2_key
    <2> QED
      BY <2>1, <2>2 DEF Evolves, Sound
  <1> QED
    BY <1>1, <1>2, <1>3

(* The key and the script an account of a document carries are its own.      *)
SoundEntry(n) == n.contract \in {NULL, n.address} /\ OwnKey(n)

(* neoc_account_from_nep6 takes over the address, the flag and the key.      *)
LEMMA FromNep6 ==
    ASSUME NEW n \in neoc_nep6_account_t, NEW a \in from_nep6(n)
    PROVE  /\ a \in neoc_account_t /\ a.address = n.address /\ a.is_default = n.is_default
           /\ a.encrypted_key = n.key
           /\ SoundEntry(n) => Sound(a)
  <1>0. n.address # NULL
    BY DEF from_nep6
  <1>1. n.address \in Address /\ n.key \in nep2_key \cup {NULL, Blank}
    BY <1>0, Zenon DEF neoc_nep6_account_t
  <1> DEFINE new == create_from_address(n.address)
  <1>2. new \in neoc_account_t /\ new.address = n.address /\ new.key_pair = NULL
    BY <1>1, Constructors DEF create_from_address
  <1>3. PICK o \in store_encrypted_key(new, n.key), script \in {n.contract, NULL} :
          o.ok /\ a = filled(n, o.account, script)
    BY <1>0 DEF from_nep6
  <1> HIDE DEF new
  <1>4. /\ o.account \in neoc_account_t /\ o.account.address = n.address
        /\ o.account.key_pair = NULL /\ o.account.encrypted_key = n.key
    BY <1>1, <1>2, <1>3, StoreEvolves
  <1>5. n.is_default \in BOOLEAN /\ (n.lock \/ n.key # NULL) \in BOOLEAN /\ n.contract \in Address \cup {NULL}
    BY DEF neoc_nep6_account_t
  <1>6. /\ a \in neoc_account_t /\ a.address = n.address /\ a.is_default = n.is_default
        /\ a.encrypted_key = n.key /\ a.key_pair = NULL /\ a.verification_script \in {n.contract, NULL}
    BY <1>3, <1>4, <1>5, Zenon DEF neoc_account_t, filled
  <1> QED
    BY <1>6 DEF Sound, SoundEntry, OwnKey

(* neoc_account_to_nep6 of an account.                                       *)
LEMMA ToNep6 ==
    ASSUME NEW a \in neoc_account_t
    PROVE  /\ to_nep6(a) \in neoc_nep6_account_t
           /\ Sound(a) => SoundEntry(to_nep6(a))
  <1>1. get_verification_script(a) \in Address \cup {NULL}
    BY DEF neoc_account_t, get_verification_script
  <1>2. to_nep6(a) \in neoc_nep6_account_t
    BY <1>1 DEF to_nep6, neoc_account_t, neoc_nep6_account_t
  <1>3. Sound(a) => get_verification_script(a) \in {NULL, a.address}
    BY DEF neoc_account_t, get_verification_script, Sound
  <1> QED
    BY <1>2, <1>3 DEF to_nep6, Sound, SoundEntry, OwnKey

-----------------------------------------------------------------------------
(* What a step does to the contents of the accounts.                         *)

Typed(h) == \A i \in DOMAIN h : h[i] \in neoc_account_t

(* Two accounts that differ at most in the flag is_default.                  *)
Alike(a, b) == \E f \in BOOLEAN : b = [a EXCEPT !.is_default = f]

(* Such accounts have the same address and the same keys.                    *)
LEMMA AlikeKeeps ==
    ASSUME NEW a \in neoc_account_t, NEW b, Alike(a, b)
    PROVE  Evolves(a, b) /\ b \in neoc_account_t /\ b.address = a.address /\ b.encrypted_key = a.encrypted_key
  <1>1. PICK f \in BOOLEAN : b = [a EXCEPT !.is_default = f]
    BY DEF Alike
  <1>2. Evolves(a, b)
    BY <1>1, FlagsEvolve, Zenon
  <1>3. b.encrypted_key = a.encrypted_key
    BY <1>1 DEF neoc_account_t
  <1> QED
    BY <1>2, <1>3 DEF Evolves

(* Every account is like itself.                                             *)
LEMMA AlikeSelf == ASSUME NEW a \in neoc_account_t PROVE Alike(a, a)
  <1>1. a = [a EXCEPT !.is_default = a.is_default] /\ a.is_default \in BOOLEAN
    BY DEF neoc_account_t
  <1> QED
    BY <1>1 DEF Alike

(* Adding an account and choosing a default change flags only.               *)
LEMMA AddContents ==
    ASSUME NEW i, NEW h, Typed(h), i \in DOMAIN h,
           add_account(i, h) \/ load_account(i, h) \/ make_default(i, h)
    PROVE  DOMAIN heap' = DOMAIN h /\ \A j \in DOMAIN h : Alike(h[j], heap'[j])
  <1>1. CASE make_default(i, h)
    <2>1. heap' = [j \in DOMAIN h |->
                     [h[j] EXCEPT !.is_default = IF j = i THEN TRUE ELSE IF j = default_account THEN FALSE ELSE @]]
      BY <1>1 DEF make_default
    <2>2. ASSUME NEW j \in DOMAIN h PROVE Alike(h[j], heap'[j])
      <3> DEFINE f == IF j = i THEN TRUE ELSE IF j = default_account THEN FALSE ELSE h[j].is_default
      <3>1. heap'[j] = [h[j] EXCEPT !.is_default = f]
        BY <2>1
      <3>2. f \in BOOLEAN
        BY Zenon DEF Typed, neoc_account_t
      <3> HIDE DEF f
      <3> QED
        BY <3>1, <3>2 DEF Alike
    <2> QED
      BY <2>1, <2>2, Zenon
  <1>2. CASE add_account(i, h)
    <2>1. heap' = IF accounts = <<>> THEN [h EXCEPT ![i].is_default = TRUE] ELSE h
      BY <1>2 DEF add_account
    <2>2. ASSUME NEW j \in DOMAIN h PROVE Alike(h[j], heap'[j])
      <3>1. heap'[j] = h[j] \/ heap'[j] = [h[j] EXCEPT !.is_default = TRUE]
        BY <2>1, Zenon
      <3> QED
        BY <3>1, AlikeSelf, Zenon DEF Alike, Typed
    <2> QED
      BY <2>1, <2>2, Zenon
  <1> QED
    BY <1>1, <1>2 DEF load_account

(* The heap with one more account, and without some.                         *)
LEMMA HeapWith ==
    ASSUME NEW h, NEW i, NEW a, NEW S
    PROVE  /\ DOMAIN With(h, i, a) = DOMAIN h \cup {i} /\ With(h, i, a)[i] = a
           /\ \A j \in DOMAIN h \ {i} : With(h, i, a)[j] = h[j]
           /\ DOMAIN Without(h, S) = DOMAIN h \ S
           /\ \A j \in DOMAIN h \ S : Without(h, S)[j] = h[j]
  BY DEF With, Without

(* What is known of the state when a step begins.                            *)
Ground == OwnInv /\ Typed(heap) /\ doc \in Seq(neoc_nep6_account_t) /\ work \in Workload

SoundDoc(d) == \A k \in DOMAIN d : SoundEntry(d[k])

(* Accounts that stay evolve, accounts that appear are well formed, and      *)
(* sound if they come from a constructor or from a sound document.           *)
Contents ==
    /\ \A i \in DOMAIN heap \cap DOMAIN heap' : Evolves(heap[i], heap'[i])
    /\ \A i \in DOMAIN heap' \ DOMAIN heap :
          heap'[i] \in neoc_account_t /\ (SoundDoc(doc) => Sound(heap'[i]))

(* A step that only drops accounts.                                          *)
LEMMA Dropped ==
    ASSUME Typed(heap), DOMAIN heap' \subseteq DOMAIN heap, \A i \in DOMAIN heap' : heap'[i] = heap[i]
    PROVE  Contents
  BY FlagsEvolve, Zenon DEF Contents, Typed

(* A step that changes flags of the accounts there are and adds one.         *)
LEMMA Entered ==
    ASSUME Typed(heap), NEW i, i \notin DOMAIN heap, NEW a \in neoc_account_t, SoundDoc(doc) => Sound(a),
           DOMAIN heap' = DOMAIN heap \cup {i},
           \A j \in DOMAIN heap' : Alike(With(heap, i, a)[j], heap'[j])
    PROVE  Contents
  <1>0. With(heap, i, a)[i] = a /\ \A j \in DOMAIN heap \ {i} : With(heap, i, a)[j] = heap[j]
    BY DEF With
  <1>1. ASSUME NEW j \in DOMAIN heap PROVE Alike(heap[j], heap'[j])
    <2>1. j \in DOMAIN heap' /\ With(heap, i, a)[j] = heap[j]
      BY <1>0
    <2> QED
      BY <2>1, Zenon
  <1>2. Alike(a, heap'[i])
    BY <1>0, Zenon
  <1>3. Evolves(a, heap'[i])
    BY <1>2, AlikeKeeps
  <1>4. \A j \in DOMAIN heap : Evolves(heap[j], heap'[j])
    BY <1>1, AlikeKeeps DEF Typed
  <1> QED
    BY <1>3, <1>4 DEF Contents, Evolves

(* A step that keeps or drops accounts, each evolving.                       *)
LEMMA Evolved ==
    ASSUME DOMAIN heap' \subseteq DOMAIN heap, \A i \in DOMAIN heap' : Evolves(heap[i], heap'[i])
    PROVE  Contents
  BY DEF Contents

(* A call on one account.                                                    *)
LEMMA UpdateContents ==
    ASSUME Typed(heap), NEW i \in DOMAIN heap, NEW a, Evolves(heap[i], a), Update(i, a)
    PROVE  Contents
  <1>1. heap' = [heap EXCEPT ![i] = a]
    BY DEF Update
  <1>2. \A j \in DOMAIN heap : Evolves(heap[j], heap[j])
    BY FlagsEvolve, Zenon DEF Typed
  <1> QED
    BY <1>1, <1>2, Evolved

(* neoc_wallet_remove_account frees one account and may flag another.        *)
LEMMA RemoveContents ==
    ASSUME Typed(heap), NEW x, neoc_wallet_remove_account(x)
    PROVE  Contents
  <1> DEFINE g(k) == IF default_account = accounts[k] /\ Len(accounts) > 1
                     THEN [heap EXCEPT ![successor(k)].is_default = TRUE] ELSE heap
  <1>1. PICK k \in index_of(x) : heap' = Without(g(k), {accounts[k]})
    BY Zenon DEF neoc_wallet_remove_account
  <1>2. DOMAIN g(k) = DOMAIN heap
    OBVIOUS
  <1>3. ASSUME NEW j \in DOMAIN heap PROVE Evolves(heap[j], g(k)[j])
    <2>1. g(k)[j] = heap[j] \/ g(k)[j] = [heap[j] EXCEPT !.is_default = TRUE]
      BY <1>3, Zenon
    <2> QED
      BY <1>3, <2>1, FlagsEvolve, Zenon DEF Typed
  <1> HIDE DEF g
  <1>4. DOMAIN heap' = DOMAIN heap \ {accounts[k]} /\ \A j \in DOMAIN heap' : heap'[j] = g(k)[j]
    BY <1>1, <1>2 DEF Without
  <1> QED
    BY <1>3, <1>4, Evolved

(* Every step of the wallet does to the contents what Contents says.         *)
LEMMA ContentStep == Ground /\ [Next]_vars => Contents
  <1> SUFFICES ASSUME Ground, [Next]_vars PROVE Contents
    OBVIOUS
  <1> USE DEF wallet, disk
  <1>0. OwnInv /\ Typed(heap) /\ work \in Workload
    BY DEF Ground
  <1>w. work.addresses \subseteq Address
    BY <1>0, WorkloadAssumption
  <1>f. \A i \in Fresh : i \notin DOMAIN heap
    BY DEF Fresh
  <1>1. ASSUME heap' = heap PROVE Contents
    BY <1>0, <1>1, Dropped
  <1>2. ASSUME NEW S, heap' = Without(heap, S) PROVE Contents
    BY <1>0, <1>2, Dropped DEF Without
  <1>3. ASSUME NEW x, neoc_wallet_remove_account(x) PROVE Contents
    BY <1>0, <1>3, RemoveContents
  <1>4. ASSUME NEW x, neoc_wallet_set_default_account(x) PROVE Contents
    <2>1. PICK k \in index_of(x) : make_default(accounts[k], heap)
      BY <1>4 DEF neoc_wallet_set_default_account
    <2>2. accounts[k] \in DOMAIN heap
      BY <1>0, <2>1 DEF OwnInv, Ownership, Members, Range, index_of
    <2>3. DOMAIN heap' = DOMAIN heap /\ \A j \in DOMAIN heap : Alike(heap[j], heap'[j])
      BY <1>0, <2>1, <2>2, AddContents
    <2> QED
      BY <1>0, <2>3, Evolved, AlikeKeeps DEF Typed
  <1>5. ASSUME NEW a \in neoc_account_t, SoundDoc(doc) => Sound(a), NEW i \in Fresh,
               add_account(i, With(heap, i, a)) \/ load_account(i, With(heap, i, a))
        PROVE  Contents
    <2>1. Typed(With(heap, i, a)) /\ DOMAIN With(heap, i, a) = DOMAIN heap \cup {i}
      BY <1>0, <1>5 DEF Typed, With
    <2> DEFINE h == With(heap, i, a)
    <2>2. DOMAIN heap' = DOMAIN h /\ \A j \in DOMAIN h : Alike(h[j], heap'[j])
      <3> HIDE DEF h
      <3>1. Typed(h) /\ i \in DOMAIN h /\ (add_account(i, h) \/ load_account(i, h))
        BY <1>5, <2>1 DEF h
      <3> QED
        BY <3>1, AddContents
    <2> QED
      BY <1>0, <1>f, <1>5, <2>1, <2>2, Entered
  <1>6. ASSUME NEW a \in neoc_account_t, Sound(a), neoc_wallet_import(a) PROVE Contents
    BY <1>5, <1>6 DEF neoc_wallet_import
  <1>7. ASSUME NEW i \in held, neoc_wallet_add_account(i) PROVE Contents
    <2>1. i \in DOMAIN heap /\ add_account(i, heap)
      BY <1>0, <1>7 DEF OwnInv, Ownership, neoc_wallet_add_account
    <2>2. DOMAIN heap' = DOMAIN heap /\ \A j \in DOMAIN heap : Alike(heap[j], heap'[j])
      BY <1>0, <2>1, AddContents
    <2> QED
      BY <1>0, <2>2, Evolved, AlikeKeeps DEF Typed
  <1>8. ASSUME NEW a \in neoc_account_t, Sound(a), neoc_account_create(a) PROVE Contents
    <2>1. PICK i \in Fresh : heap' = With(heap, i, a)
      BY <1>8 DEF neoc_account_create
    <2>2. DOMAIN heap' = DOMAIN heap \cup {i} /\ heap'[i] = a /\ \A j \in DOMAIN heap : heap'[j] = heap[j]
      BY <1>f, <2>1 DEF With
    <2> QED
      BY <1>0, <1>8, <2>2, FlagsEvolve, Zenon DEF Typed, Contents
  <1>9. ASSUME NEW i \in DOMAIN heap, NEW b \in BOOLEAN,
               neoc_account_set_default(i, b) \/ neoc_account_lock_internal(i) \/ neoc_account_unlock_internal(i)
        PROVE  Contents
    BY <1>0, <1>9, FlagsEvolve, UpdateContents, Zenon
       DEF Typed, neoc_account_set_default, neoc_account_lock_internal, neoc_account_unlock_internal
  <1>10. ASSUME NEW i \in DOMAIN heap, NEW p \in Pass, neoc_account_encrypt(i, p) PROVE Contents
    BY <1>0, <1>10, EncryptEvolves, UpdateContents DEF Typed, neoc_account_encrypt
  <1>11. ASSUME NEW i \in DOMAIN heap, NEW p \in Pass, neoc_account_decrypt(i, p) PROVE Contents
    BY <1>0, <1>11, DecryptEvolves, UpdateContents DEF Typed, neoc_account_decrypt
  <1>12. ASSUME "store" \in work.calls, NEW i \in DOMAIN heap, NEW e \in OwnKeys(i),
                neoc_account_set_encrypted_private_key(i, e)
         PROVE  Contents
    <2>1. heap[i] \in neoc_account_t /\ heap[i].address \in Address
      BY <1>0 DEF Typed, neoc_account_t
    <2>2. e \in nep2_key \cup {NULL} /\ (e # NULL => e.key = heap[i].address)
      BY <2>1 DEF OwnKeys, nep2_key
    <2> QED
      BY <1>0, <1>12, <2>1, <2>2, SetKeyEvolves, UpdateContents DEF neoc_account_set_encrypted_private_key
  <1>13. ASSUME NEW b \in BOOLEAN, set_locks(b) PROVE Contents
    <2>1. DOMAIN heap' = DOMAIN heap
      BY <1>13 DEF set_locks
    <2>2. ASSUME NEW i \in DOMAIN heap PROVE heap'[i] = heap[i] \/ heap'[i] = [heap[i] EXCEPT !.is_locked = b]
      BY <1>13, <2>2 DEF set_locks
    <2>3. ASSUME NEW i \in DOMAIN heap PROVE Evolves(heap[i], heap'[i])
      <3>1. heap[i] \in neoc_account_t
        BY <1>0, <2>3 DEF Typed
      <3>2. Evolves(heap[i], heap[i]) /\ Evolves(heap[i], [heap[i] EXCEPT !.is_locked = b])
        BY <1>13, <3>1, FlagsEvolve, Zenon
      <3> QED
        BY <2>2, <2>3, <3>2, Zenon
    <2> QED
      BY <2>1, <2>3, Evolved
  <1>14. CASE load_next
    <2>1. PICK a \in from_nep6(doc[Len(accounts) + 1]) : \E i \in Fresh : load_account(i, With(heap, i, a))
      BY <1>14 DEF load_next
    <2>2. accounts \in Seq(Acct) /\ doc \in Seq(neoc_nep6_account_t) /\ Len(accounts) < Len(doc)
      BY <1>14 DEF load_next, Ground, OwnInv, Shape
    <2>3. Len(accounts) + 1 \in DOMAIN doc /\ doc[Len(accounts) + 1] \in neoc_nep6_account_t
      BY <2>2
    <2>4. a \in neoc_account_t /\ (SoundDoc(doc) => Sound(a))
      BY <2>1, <2>3, FromNep6 DEF SoundDoc
    <2> QED
      BY <1>5, <2>1, <2>4
  <1>15. CASE crash
    BY <1>0, <1>15, Dropped DEF crash
  <1>16. CASE Manage
    BY <1>1, <1>2, <1>3, <1>4, <1>16 DEF Manage, neoc_wallet_create, neoc_wallet_free
  <1>17. CASE Import
    <2>1. ASSUME NEW x \in work.addresses, neoc_wallet_import(create_from_key_pair(x)) PROVE Contents
      BY <1>w, <1>6, <2>1, Constructors
    <2>2. ASSUME NEW e \in nep2_key, NEW p \in Pass, NEW a \in create_from_nep2(e, p), neoc_wallet_import(a)
          PROVE  Contents
      <3>1. PICK k \in nep2_decrypt(e, p) : a = create_from_key_pair(k)
        BY DEF create_from_nep2
      <3>2. a \in neoc_account_t /\ Sound(a)
        BY <3>1, Decrypted, Constructors
      <3> QED
        BY <1>6, <2>2, <3>2
    <2> QED
      BY <1>17, <2>1, <2>2 DEF Import
  <1>18. CASE Hold
    <2>1. ASSUME NEW x \in work.addresses, NEW a \in Constructed(x), neoc_account_create(a) PROVE Contents
      <3>2. a \in neoc_account_t /\ Sound(a)
        BY <1>0, <2>1, ConstructedAccount
      <3> QED
        BY <1>8, <2>1, <3>2
    <2> QED
      BY <1>2, <1>7, <1>18, <2>1, Zenon DEF Hold, neoc_account_free
  <1>19. CASE Nep6 \/ Save
    BY <1>1, <1>2, <1>14, <1>19
       DEF Nep6, Save, neoc_wallet_load, Load, neoc_wallet_from_nep6, load_fail, load_fail_frees, load_done,
           save_open, save_write
  <1>20. CASE UNCHANGED vars
    BY <1>1, <1>20 DEF vars
  <1> QED
    BY <1>9, <1>10, <1>11, <1>12, <1>13, <1>15, <1>16, <1>17, <1>18, <1>19, <1>20, Zenon
    DEF Next, Flag, Lock, LockOne, Crypt, Store, neoc_wallet_lock_all, neoc_wallet_unlock_all

-----------------------------------------------------------------------------
(* Documents.                                                                *)

Entries == Seq(neoc_nep6_account_t)
KeysOwn(d) == \A k \in DOMAIN d : OwnKey(d[k])

(* A document made by a function on the places of another.                   *)
LEMMA EntriesOf ==
    ASSUME NEW S, NEW s \in Seq(S), NEW d, DOMAIN d = DOMAIN s, d = [k \in DOMAIN d |-> d[k]],
           \A k \in DOMAIN s : d[k] \in neoc_nep6_account_t
    PROVE  d \in Entries
  <1>1. DOMAIN s = 1 .. Len(s) /\ Len(s) \in Nat
    OBVIOUS
  <1>2. d \in [1 .. Len(s) -> neoc_nep6_account_t]
    BY <1>1
  <1> QED
    BY <1>1, <1>2 DEF Entries

(* neoc_wallet_to_nep6: a document of well-formed accounts, with their own   *)
(* keys and scripts if the wallet's accounts are sound.                      *)
LEMMA WalletDocument ==
    ASSUME OwnInv, Typed(heap)
    PROVE  /\ wallet_to_nep6 \in Entries
           /\ (\A i \in DOMAIN heap : Sound(heap[i])) => SoundDoc(wallet_to_nep6)
  <1>1. accounts \in Seq(Acct) /\ \A k \in DOMAIN accounts : accounts[k] \in DOMAIN heap
    BY DEF OwnInv, Shape, Ownership, Members, Range
  <1>2. ASSUME NEW k \in DOMAIN accounts
        PROVE  /\ wallet_to_nep6[k] \in neoc_nep6_account_t
               /\ Sound(heap[accounts[k]]) => SoundEntry(wallet_to_nep6[k])
    <2> DEFINE n == to_nep6(heap[accounts[k]])
               f == n.is_default /\ \A j \in DOMAIN accounts : j > k => ~heap[accounts[j]].is_default
    <2>1. heap[accounts[k]] \in neoc_account_t
      BY <1>1, <1>2 DEF Typed
    <2>2. n \in neoc_nep6_account_t /\ (Sound(heap[accounts[k]]) => SoundEntry(n))
      BY <2>1, ToNep6
    <2>3. wallet_to_nep6[k] = [n EXCEPT !.is_default = f]
      BY <1>2, Zenon DEF wallet_to_nep6
    <2>4. f \in BOOLEAN
      OBVIOUS
    <2> HIDE DEF n, f
    <2> QED
      BY <2>2, <2>3, <2>4 DEF neoc_nep6_account_t, SoundEntry, OwnKey
  <1>3. DOMAIN wallet_to_nep6 = DOMAIN accounts /\ wallet_to_nep6 = [k \in DOMAIN wallet_to_nep6 |-> wallet_to_nep6[k]]
    BY Zenon DEF wallet_to_nep6
  <1>4. wallet_to_nep6 \in Entries
    BY <1>1, <1>2, <1>3, EntriesOf
  <1> QED
    BY <1>1, <1>2, <1>3, <1>4 DEF SoundDoc

(* The text of a document keeps its accounts and their keys.                 *)
LEMMA WrittenDocument ==
    ASSUME NEW d \in Entries
    PROVE  to_json(d) \in Files /\ (SoundDoc(d) => KeysOwn(to_json(d).accounts))
  <1> DEFINE w == [k \in DOMAIN d |-> [d[k] EXCEPT !.key = IF @ = NULL THEN Blank ELSE @, !.contract = NULL]]
  <1>1. ASSUME NEW k \in DOMAIN d PROVE w[k] \in neoc_nep6_account_t /\ (SoundEntry(d[k]) => OwnKey(w[k]))
    <2> DEFINE key == IF d[k].key = NULL THEN Blank ELSE d[k].key
    <2>1. d[k] \in neoc_nep6_account_t
      BY <1>1 DEF Entries
    <2>2. key \in nep2_key \cup {NULL, Blank} /\ (key \in nep2_key => key = d[k].key)
      BY <2>1, NullAssumption DEF neoc_nep6_account_t, nep2_key
    <2>3. w[k] = [d[k] EXCEPT !.key = key, !.contract = NULL]
      BY <1>1
    <2> HIDE DEF key, w
    <2> QED
      BY <2>1, <2>2, <2>3, Zenon DEF neoc_nep6_account_t, SoundEntry, OwnKey
  <1>2. DOMAIN w = DOMAIN d /\ w = [k \in DOMAIN w |-> w[k]]
    BY Zenon
  <1>3. to_json(d) = [parses |-> d = <<>>, accounts |-> w]
    BY DEF to_json
  <1> HIDE DEF w
  <1>4. w \in Entries
    BY <1>1, <1>2, EntriesOf DEF Entries
  <1> QED
    BY <1>1, <1>2, <1>3, <1>4 DEF Files, Entries, SoundDoc, KeysOwn

(* A document read from a file has no scripts.                               *)
LEMMA ReadDocument ==
    ASSUME NEW d \in Entries
    PROVE  from_json(d) \in Entries /\ (KeysOwn(d) => SoundDoc(from_json(d)))
  <1>1. ASSUME NEW k \in DOMAIN d
        PROVE  from_json(d)[k] \in neoc_nep6_account_t /\ (OwnKey(d[k]) => SoundEntry(from_json(d)[k]))
    <2>1. d[k] \in neoc_nep6_account_t /\ from_json(d)[k] = [d[k] EXCEPT !.contract = NULL]
      BY <1>1 DEF Entries, from_json
    <2> QED
      BY <2>1 DEF neoc_nep6_account_t, SoundEntry, OwnKey
  <1>2. DOMAIN from_json(d) = DOMAIN d /\ from_json(d) = [k \in DOMAIN from_json(d) |-> from_json(d)[k]]
    BY Zenon DEF from_json
  <1>3. from_json(d) \in Entries
    BY <1>1, <1>2, EntriesOf DEF Entries
  <1> QED
    BY <1>1, <1>2, <1>3 DEF SoundDoc, KeysOwn

-----------------------------------------------------------------------------
(* Types.  The array has room only if a wallet is never without capacity:    *)
(* neoc_wallet_add_account doubles it.                                       *)

TypeInv ==
    /\ OwnInv /\ TypeOK /\ work \in Workload
    /\ open => account_capacity > 0

(* What a step leaves alone or sets anew besides the accounts.               *)
Frame ==
    /\ work' = work /\ open' \in BOOLEAN /\ saved' \in BOOLEAN
    /\ pc' \in {"idle", "loading", "saving"}
    /\ doc' \in Entries /\ file' \in Files

Room ==
    /\ account_capacity' \in Nat /\ Len(accounts') <= account_capacity'
    /\ open' => account_capacity' > 0

(* What the invariant says, for the steps below.                             *)
LEMMA TypeFacts ==
    ASSUME TypeInv
    PROVE  /\ Ground /\ open \in BOOLEAN /\ saved \in BOOLEAN /\ pc \in {"idle", "loading", "saving"}
           /\ doc \in Entries /\ file \in Files /\ account_capacity \in Nat
           /\ accounts \in Seq(Acct) /\ Len(accounts) <= account_capacity
           /\ open => account_capacity > 0
  BY DEF TypeInv, TypeOK, Ground, Typed, Entries

(* The array after one more account: realloc doubles it when it is full.     *)
LEMMA RoomForOne ==
    ASSUME TypeInv, NEW i \in Acct, open, open' = open,
           accounts' = Append(accounts, i), account_capacity' = grown(Len(accounts))
    PROVE  Room
  <1>1. account_capacity \in Nat \ {0} /\ accounts \in Seq(Acct) /\ Len(accounts) <= account_capacity
    BY TypeFacts
  <1>2. Len(accounts') = Len(accounts) + 1 /\ Len(accounts) \in Nat
    BY <1>1
  <1>3. account_capacity' = IF Len(accounts) >= account_capacity THEN account_capacity * 2 ELSE account_capacity
    BY DEF grown
  <1> QED
    BY <1>1, <1>2, <1>3 DEF Room

(* The array after one account less.                                         *)
LEMMA RoomAfterShift ==
    ASSUME TypeInv, NEW k \in DOMAIN accounts, open' = open,
           accounts' = Shifted(accounts, k), account_capacity' = account_capacity
    PROVE  Room
  <1>1. account_capacity \in Nat /\ accounts \in Seq(Acct) /\ Len(accounts) <= account_capacity
    BY TypeFacts
  <1>2. Len(accounts) - 1 \in Nat
    BY <1>1
  <1>3. DOMAIN Shifted(accounts, k) = 1 .. (Len(accounts) - 1)
    BY DEF Shifted
  <1>4. Shifted(accounts, k) \in [1 .. (Len(accounts) - 1) -> Acct]
    BY <1>1, <1>2 DEF Shifted
  <1>5. Len(accounts') = Len(accounts) - 1
    BY <1>2, <1>4, FunctionIsSeq
  <1> QED
    BY <1>1, <1>5, TypeFacts DEF Room

(* The step lemma's work: each step satisfies Frame and Room.                *)
LEMMA FrameStep ==
    ASSUME TypeInv, [Next]_vars
    PROVE  Frame /\ Room
  <1> USE DEF wallet, disk
  <1>0. /\ Ground /\ OwnInv /\ Typed(heap) /\ open \in BOOLEAN /\ saved \in BOOLEAN
        /\ pc \in {"idle", "loading", "saving"} /\ doc \in Entries /\ file \in Files
        /\ account_capacity \in Nat /\ accounts \in Seq(Acct) /\ Len(accounts) <= account_capacity
        /\ open => account_capacity > 0
    BY TypeFacts DEF Ground
  <1>e. /\ <<>> \in Entries /\ Len(<<>>) = 0 /\ Unparsable \in Files
        /\ TRUE \in BOOLEAN /\ FALSE \in BOOLEAN
    BY DEF Entries, Unparsable, Files
  <1>1. ASSUME UNCHANGED <<wallet, pc, doc, disk, work>> PROVE Frame /\ Room
    BY <1>0, <1>1 DEF Frame, Room
  <1>2. ASSUME accounts' = <<>>, account_capacity' = InitialCapacity \/ (account_capacity' = 0 /\ ~open') PROVE Room
    BY <1>2, <1>e, CapacityAssumption DEF Room
  <1>3. CASE neoc_wallet_create \/ neoc_wallet_free
    <2>1. Room
      BY <1>2, <1>3 DEF neoc_wallet_create, neoc_wallet_free
    <2>2. Frame
      BY <1>0, <1>3, Zenon DEF neoc_wallet_create, neoc_wallet_free, Frame
    <2> QED
      BY <2>1, <2>2
  <1>4. ASSUME NEW x, neoc_wallet_remove_account(x) PROVE Frame /\ Room
    <2>1. PICK k \in index_of(x) : accounts' = Shifted(accounts, k)
      BY <1>4, Zenon DEF neoc_wallet_remove_account, Shifted
    <2>2. UNCHANGED <<held, open, account_capacity, pc, doc, disk, work>>
      BY <1>4 DEF neoc_wallet_remove_account
    <2>3. Room
      BY <2>1, <2>2, RoomAfterShift DEF index_of
    <2> QED
      BY <1>0, <2>2, <2>3 DEF Frame
  <1>5. ASSUME NEW i \in Acct, NEW h, add_account(i, h) \/ load_account(i, h), open,
               UNCHANGED <<open, pc, doc, disk, work>>
        PROVE  Frame /\ Room
    <2>1. accounts' = Append(accounts, i) /\ account_capacity' = grown(Len(accounts))
      BY <1>5 DEF add_account, load_account
    <2>2. Room
      BY <1>5, <2>1, RoomForOne
    <2> QED
      BY <1>0, <1>5, <2>2 DEF Frame
  <1>6. CASE neoc_wallet_load
    <2>1. /\ doc' = from_json(file.accounts) /\ pc' = "loading" /\ open' = TRUE /\ UNCHANGED <<disk, work>>
          /\ accounts' = <<>> /\ account_capacity' = InitialCapacity
      BY <1>6 DEF neoc_wallet_load, Load
    <2>2. file.accounts \in Entries
      BY <1>0 DEF Files, Entries
    <2> QED
      BY <1>0, <1>e, <1>2, <2>1, <2>2, ReadDocument DEF Frame
  <1>7. CASE neoc_wallet_from_nep6
    <2>1. /\ doc' = wallet_to_nep6 /\ pc' = "loading" /\ UNCHANGED <<open, disk, work>>
          /\ accounts' = <<>> /\ account_capacity' = InitialCapacity
      BY <1>7 DEF neoc_wallet_from_nep6
    <2> QED
      BY <1>0, <1>2, <2>1, WalletDocument DEF Frame
  <1>8. CASE load_next
    <2>1. PICK a \in from_nep6(doc[Len(accounts) + 1]) : \E i \in Fresh : load_account(i, With(heap, i, a))
      BY <1>8 DEF load_next
    <2>2. open /\ UNCHANGED <<open, pc, doc, disk, work>>
      BY <1>0, <1>8 DEF load_next, OwnInv, Shape
    <2> QED
      BY <1>5, <2>1, <2>2 DEF Fresh
  <1>9. CASE load_fail \/ crash
    <2>1. Room
      BY <1>2, <1>9 DEF load_fail, crash
    <2>2. Frame
      BY <1>0, <1>e, <1>9, Zenon DEF load_fail, crash, Frame
    <2> QED
      BY <2>1, <2>2
  <1>10. CASE load_done \/ save_open \/ save_write
    <2>1. Room
      BY <1>0, <1>10 DEF load_done, save_open, save_write, Room
    <2>2. CASE load_done
      BY <1>0, <1>e, <2>1, <2>2 DEF load_done, Frame
    <2>3. CASE save_open
      BY <1>0, <1>e, <2>1, <2>3, WalletDocument, Zenon DEF save_open, Frame
    <2>4. CASE save_write
      <3>1. file' \in Files /\ saved' \in BOOLEAN
        BY <1>0, <1>e, <2>4, WrittenDocument, Zenon DEF save_write
      <3> QED
        BY <1>0, <1>e, <2>1, <2>4, <3>1 DEF save_write, Frame
    <2> QED
      BY <1>10, <2>2, <2>3, <2>4
  <1>11. CASE Manage
    BY <1>0, <1>3, <1>4, <1>11 DEF Manage, neoc_wallet_set_default_account, Frame, Room
  <1>12. CASE Import
    BY <1>5, <1>12 DEF Import, neoc_wallet_import, Fresh, Ready
  <1>13. CASE Hold
    <2>1. held \subseteq Acct
      BY <1>0 DEF OwnInv, Shape
    <2> QED
      BY <1>1, <1>5, <1>13, <2>1, Zenon DEF Hold, neoc_account_create, neoc_account_free, neoc_wallet_add_account, Ready
  <1>14. CASE Flag \/ Lock \/ LockOne \/ Crypt \/ Store
    BY <1>1, <1>14
       DEF Flag, Lock, LockOne, Crypt, Store, neoc_account_set_default, neoc_account_lock_internal,
           neoc_account_unlock_internal, neoc_account_encrypt, neoc_account_decrypt,
           neoc_account_set_encrypted_private_key, neoc_wallet_lock_all, neoc_wallet_unlock_all,
           set_locks, Update
  <1>15. CASE UNCHANGED vars
    BY <1>1, <1>15 DEF vars
  <1> QED
    BY <1>6, <1>7, <1>8, <1>9, <1>10, <1>11, <1>12, <1>13, <1>14, <1>15 DEF Next, Nep6, Save

(* Every step keeps the types.                                               *)
LEMMA TypeStep == TypeInv /\ [Next]_vars => TypeInv'
  <1> SUFFICES ASSUME TypeInv, [Next]_vars PROVE TypeInv'
    OBVIOUS
  <1>1. Ground /\ OwnInv
    BY TypeFacts DEF Ground
  <1>2. Contents /\ OwnInv' /\ Frame /\ Room
    BY <1>1, ContentStep, OwnStep, FrameStep
  <1>3. Typed(heap)'
    BY <1>2 DEF Contents, Evolves, Typed
  <1>4. /\ accounts' \in Seq(Acct) /\ held' \subseteq Acct /\ DOMAIN heap' \subseteq Acct
        /\ default_account' \in Acct \cup {NULL}
    <2>1. accounts' \in Seq(Acct) /\ held' \subseteq Acct
      BY <1>2 DEF OwnInv, Shape
    <2>2. Members' \subseteq Acct
      BY <2>1 DEF Members, Range
    <2> QED
      BY <1>2, <2>1, <2>2 DEF OwnInv, Ownership, DefaultLive
  <1> QED
    BY <1>2, <1>3, <1>4 DEF TypeInv, TypeOK, Frame, Room, Typed, Entries

(* Types at the start.                                                       *)
LEMMA TypeInit == Init => TypeInv
  <1> SUFFICES ASSUME Init PROVE TypeInv
    OBVIOUS
  <1>1. OwnInv
    BY OwnInit
  <1>2. file \in Files
    <2>1. work.documents \subseteq Seq(neoc_nep6_account_t)
      BY WorkloadAssumption DEF Init
    <2>2. file = Unparsable \/ \E d \in work.documents : file = [parses |-> TRUE, accounts |-> d]
      BY DEF Init
    <2>3. CASE file = Unparsable
      BY <2>3 DEF Unparsable, Files
    <2>4. ASSUME NEW d \in work.documents, file = [parses |-> TRUE, accounts |-> d] PROVE file \in Files
      BY <2>1, <2>4 DEF Files
    <2> QED
      BY <2>2, <2>3, <2>4
  <1>3. /\ DOMAIN heap = {} /\ held = {} /\ open \in BOOLEAN /\ accounts = <<>> /\ account_capacity = 0
        /\ default_account = NULL /\ pc = "idle" /\ doc = <<>> /\ saved \in BOOLEAN /\ ~open /\ work \in Workload
    <2>1. DOMAIN heap = {}
      BY DEF Init
    <2> QED
      BY <2>1, Zenon DEF Init
  <1>4. accounts \in Seq(Acct) /\ doc \in Seq(neoc_nep6_account_t) /\ Len(accounts) = 0
    BY <1>3
  <1> QED
    BY <1>1, <1>2, <1>3, <1>4 DEF TypeInv, TypeOK

(* For any accounts, documents and calls: the array of accounts never        *)
(* outgrows the memory allocated for it, and every account, document and     *)
(* file is well formed.                                                      *)
THEOREM TypeCorrect == Spec => []TypeOK
  <1>1. TypeInv => TypeOK
    BY DEF TypeInv
  <1> QED
    BY <1>1, TypeInit, TypeStep, PTL DEF Spec

-----------------------------------------------------------------------------
(* Addresses.                                                                *)

(* The account appended to the array has an address of its own.              *)
Appended(i) ==
    /\ i \in Acct /\ i \notin Members /\ accounts' = Append(accounts, i)
    /\ \A j \in Members : heap'[j].address # heap'[i].address

(* add_account and load_account append after a search for the address.       *)
LEMMA Searched ==
    ASSUME NEW i \in Acct, NEW h, Typed(h), i \in DOMAIN h, i \notin Members, Members \subseteq DOMAIN h,
           add_account(i, h) \/ load_account(i, h)
    PROVE  Appended(i)
  <1>1. accounts' = Append(accounts, i) /\ \A j \in Members : h[j].address # h[i].address
    BY DEF add_account, load_account
  <1>2. \A j \in DOMAIN h : Alike(h[j], heap'[j])
    BY AddContents
  <1>3. \A j \in DOMAIN h : heap'[j].address = h[j].address
    BY <1>2, AlikeKeeps DEF Typed
  <1> QED
    BY <1>1, <1>3 DEF Appended

(* The four things that can happen to the array of accounts.                 *)
LEMMA ArrayStep ==
    ASSUME TypeInv, [Next]_vars
    PROVE  \/ accounts' \in {<<>>, accounts}
           \/ \E k \in DOMAIN accounts : accounts' = Shifted(accounts, k)
           \/ \E i : Appended(i)
  <1> DEFINE Goal == \/ accounts' \in {<<>>, accounts}
                     \/ \E k \in DOMAIN accounts : accounts' = Shifted(accounts, k)
                     \/ \E i : Appended(i)
  <1> USE DEF wallet, disk
  <1>0. OwnInv /\ Typed(heap) /\ work \in Workload /\ doc \in Seq(neoc_nep6_account_t) /\ Members \subseteq DOMAIN heap
    BY TypeFacts DEF Ground, OwnInv, Ownership
  <1>1. ASSUME NEW i \in Fresh, NEW a \in neoc_account_t,
               add_account(i, With(heap, i, a)) \/ load_account(i, With(heap, i, a))
        PROVE  Goal
    <2> DEFINE h == With(heap, i, a)
    <2>1. i \in Acct /\ i \notin DOMAIN heap
      BY <1>1 DEF Fresh
    <2>2. DOMAIN h = DOMAIN heap \cup {i} /\ Typed(h)
      BY <1>0, <1>1, <2>1 DEF Typed, With
    <2>3. add_account(i, h) \/ load_account(i, h)
      BY <1>1
    <2> HIDE DEF h
    <2> QED
      BY <1>0, <2>1, <2>2, <2>3, Searched
  <1>2. ASSUME NEW i \in held, neoc_wallet_add_account(i) PROVE Goal
    <2>1. i \in Acct /\ i \in DOMAIN heap /\ i \notin Members /\ add_account(i, heap)
      BY <1>0, <1>2 DEF OwnInv, Shape, Ownership, neoc_wallet_add_account
    <2> QED
      BY <1>0, <2>1, Searched
  <1>3. ASSUME NEW x, neoc_wallet_remove_account(x) PROVE Goal
    <2>1. PICK k \in index_of(x) : accounts' = Shifted(accounts, k)
      BY <1>3, Zenon DEF neoc_wallet_remove_account, Shifted
    <2> QED
      BY <2>1 DEF index_of
  <1>4. ASSUME load_next PROVE Goal
    <2>1. PICK a \in from_nep6(doc[Len(accounts) + 1]) : \E i \in Fresh : load_account(i, With(heap, i, a))
      BY <1>4 DEF load_next
    <2>2. accounts \in Seq(Acct) /\ Len(accounts) < Len(doc)
      BY <1>0, <1>4 DEF load_next, OwnInv, Shape
    <2>3. doc[Len(accounts) + 1] \in neoc_nep6_account_t
      BY <1>0, <2>2
    <2>4. a \in neoc_account_t
      BY <2>1, <2>3, FromNep6
    <2> QED
      BY <1>1, <2>1, <2>4
  <1>5. ASSUME Import PROVE Goal
    <2>1. ASSUME NEW a \in neoc_account_t, neoc_wallet_import(a) PROVE Goal
      BY <1>1, <2>1 DEF neoc_wallet_import
    <2>2. \A x \in work.addresses : create_from_key_pair(x) \in neoc_account_t
      BY <1>0, WorkloadAssumption, Constructors
    <2>3. \A e \in nep2_key, p \in Pass : \A a \in create_from_nep2(e, p) : a \in neoc_account_t
      BY Decrypted, Constructors DEF create_from_nep2
    <2> QED
      BY <1>5, <2>1, <2>2, <2>3 DEF Import
  <1>6. ASSUME accounts' \in {<<>>, accounts} PROVE Goal
    BY <1>6
  <1> SUFFICES Goal
    OBVIOUS
  <1> HIDE DEF Goal
  <1>7. CASE Manage
    BY <1>3, <1>6, <1>7 DEF Manage, neoc_wallet_create, neoc_wallet_free, neoc_wallet_set_default_account
  <1>8. CASE Hold
    BY <1>2, <1>6, <1>8, Zenon DEF Hold, neoc_account_create, neoc_account_free
  <1>9. CASE Flag \/ Lock \/ LockOne \/ Crypt \/ Store
    BY <1>6, <1>9
       DEF Flag, Lock, LockOne, Crypt, Store, neoc_account_set_default, neoc_account_lock_internal,
           neoc_account_unlock_internal, neoc_account_encrypt, neoc_account_decrypt,
           neoc_account_set_encrypted_private_key, neoc_wallet_lock_all, neoc_wallet_unlock_all,
           set_locks, Update
  <1>10. CASE Nep6 \/ Save \/ crash
    BY <1>4, <1>6, <1>10
       DEF Nep6, Save, neoc_wallet_load, Load, neoc_wallet_from_nep6, load_fail, load_done, save_open, save_write, crash
  <1>11. CASE UNCHANGED vars
    BY <1>6, <1>11 DEF vars
  <1> QED
    BY <1>5, <1>7, <1>8, <1>9, <1>10, <1>11 DEF Next

(* No step gives two accounts of the wallet one address.                     *)
LEMMA UniqueStep == TypeInv /\ AddressesUnique /\ [Next]_vars => AddressesUnique'
  <1> SUFFICES ASSUME TypeInv, AddressesUnique, [Next]_vars PROVE AddressesUnique'
    OBVIOUS
  <1>1. Ground /\ OwnInv /\ accounts \in Seq(Acct) /\ Injective(accounts)
    BY TypeFacts DEF Ground, OwnInv, Ownership, Injective
  <1>2. Contents /\ OwnInv'
    BY <1>1, ContentStep, OwnStep
  <1>3. \A k \in DOMAIN accounts : accounts[k] \in DOMAIN heap /\ accounts[k] \in Members
    BY <1>1 DEF OwnInv, Ownership, Members, Range
  <1>4. \A k \in DOMAIN accounts' : accounts'[k] \in DOMAIN heap'
    BY <1>2 DEF OwnInv, Ownership, Members, Range
  <1>5. \A i \in DOMAIN heap \cap DOMAIN heap' : heap'[i].address = heap[i].address
    BY <1>2 DEF Contents, Evolves
  <1>6. CASE accounts' = <<>>
    BY <1>6 DEF AddressesUnique
  <1>7. CASE accounts' = accounts
    BY <1>3, <1>4, <1>5, <1>7 DEF AddressesUnique
  <1>8. ASSUME NEW k \in DOMAIN accounts, accounts' = Shifted(accounts, k) PROVE AddressesUnique'
    <2>1. Len(accounts) - 1 \in Nat /\ DOMAIN accounts = 1 .. Len(accounts) /\ Len(accounts) \in Nat /\ k \in 1 .. Len(accounts)
      BY <1>1, <1>8
    <2>2. DOMAIN accounts' = 1 .. (Len(accounts) - 1)
      BY <1>8 DEF Shifted
    <2> DEFINE old(j) == IF j < k THEN j ELSE j + 1
    <2>3. \A j \in DOMAIN accounts' : old(j) \in DOMAIN accounts /\ accounts'[j] = accounts[old(j)]
      BY <1>8, <2>1, <2>2 DEF Shifted
    <2>4. \A j, l \in DOMAIN accounts' : old(j) = old(l) => j = l
      BY <2>1, <2>2
    <2>5. \A j \in DOMAIN accounts' : heap'[accounts'[j]].address = heap[accounts[old(j)]].address
      BY <1>3, <1>4, <1>5, <2>3
    <2> HIDE DEF old
    <2> QED
      BY <2>3, <2>4, <2>5 DEF AddressesUnique
  <1>9. ASSUME NEW i, Appended(i) PROVE AddressesUnique'
    <2>1. accounts' = Append(accounts, i) /\ \A j \in Members : heap'[j].address # heap'[i].address
      BY <1>9 DEF Appended
    <2>2. /\ DOMAIN accounts' = 1 .. (Len(accounts) + 1) /\ Len(accounts) \in Nat /\ DOMAIN accounts = 1 .. Len(accounts)
          /\ accounts'[Len(accounts) + 1] = i /\ \A j \in DOMAIN accounts : accounts'[j] = accounts[j]
      <3>1. accounts \in Seq(Acct) /\ i \in Acct
        BY <1>1, <1>9 DEF Appended
      <3> QED
        BY <2>1, <3>1
    <2>3. \A j \in DOMAIN accounts : heap'[accounts'[j]].address = heap[accounts[j]].address
      BY <1>3, <1>4, <1>5, <2>2
    <2>4. \A j \in DOMAIN accounts : heap'[accounts'[j]].address # heap'[i].address
      BY <1>3, <2>1, <2>2
    <2>5. \A j \in DOMAIN accounts' : j \in DOMAIN accounts \/ j = Len(accounts) + 1
      BY <2>2
    <2> QED
      BY <2>2, <2>3, <2>4, <2>5 DEF AddressesUnique
  <1> QED
    BY <1>6, <1>7, <1>8, <1>9, ArrayStep

(* For any accounts, documents and calls, loading included: no two accounts  *)
(* of a wallet share an address, so looking one up, removing it or choosing  *)
(* it by address concerns one account.                                       *)
THEOREM LookupUnambiguous == Spec => []AddressesUnique
  <1>1. Init => AddressesUnique
    BY DEF Init, AddressesUnique
  <1> QED
    BY <1>1, TypeInit, TypeStep, UniqueStep, PTL DEF Spec

-----------------------------------------------------------------------------
(* Keys.                                                                     *)

(* For any accounts and calls, failing ones included: an account that has a  *)
(* private key, as a key pair or encrypted, still has one after any call     *)
(* that is not a caller's own replacement of the encrypted key.              *)
THEOREM KeyNeverLost == Spec => KeyKept
  <1>1. TypeInv /\ [Next]_vars =>
          [\A i \in DOMAIN heap \cap DOMAIN heap' :
              HasKey(heap[i]) /\ "store" \notin work.calls => HasKey(heap'[i])]_vars
    <2> SUFFICES ASSUME TypeInv, [Next]_vars
                 PROVE  \A i \in DOMAIN heap \cap DOMAIN heap' :
                            HasKey(heap[i]) /\ "store" \notin work.calls => HasKey(heap'[i])
      OBVIOUS
    <2>1. Contents
      BY TypeFacts, ContentStep
    <2> QED
      BY <2>1 DEF Contents, Evolves
  <1> QED
    BY <1>1, TypeInit, TypeStep, PTL DEF Spec, KeyKept

(* Accounts, the document under way and the file hold no foreign keys.       *)
SoundInv ==
    /\ TypeInv /\ \A i \in DOMAIN heap : Sound(heap[i])
    /\ SoundDoc(doc) /\ KeysOwn(file.accounts)

(* Where the document and the file of the next state come from.              *)
LEMMA DocumentStep ==
    ASSUME [Next]_vars
    PROVE  /\ doc' \in {doc, <<>>, wallet_to_nep6, from_json(file.accounts)}
           /\ file' \in {file, Unparsable, to_json(doc)}
  <1> DEFINE Goal == /\ doc' \in {doc, <<>>, wallet_to_nep6, from_json(file.accounts)}
                     /\ file' \in {file, Unparsable, to_json(doc)}
  <1> USE DEF wallet, disk
  <1>1. ASSUME UNCHANGED <<doc, disk>> PROVE Goal
    BY <1>1
  <1>2. ASSUME Nep6 \/ Save \/ crash PROVE Goal
    BY <1>2 DEF Nep6, Save, neoc_wallet_load, Load, neoc_wallet_from_nep6, load_next, load_fail, load_done,
       save_open, save_write, crash
  <1> SUFFICES Goal
    OBVIOUS
  <1> HIDE DEF Goal
  <1>3. CASE Manage \/ Import \/ Hold
    BY <1>1, <1>3, Zenon
       DEF Manage, Import, Hold, neoc_wallet_create, neoc_wallet_free, neoc_wallet_remove_account,
           neoc_wallet_set_default_account, neoc_wallet_import, neoc_account_create, neoc_account_free,
           neoc_wallet_add_account
  <1>4. CASE Flag \/ Lock \/ LockOne \/ Crypt \/ Store
    BY <1>1, <1>4
       DEF Flag, Lock, LockOne, Crypt, Store, neoc_account_set_default, neoc_account_lock_internal,
           neoc_account_unlock_internal, neoc_account_encrypt, neoc_account_decrypt,
           neoc_account_set_encrypted_private_key, neoc_wallet_lock_all, neoc_wallet_unlock_all,
           set_locks, Update
  <1> QED
    BY <1>1, <1>2, <1>3, <1>4 DEF Next, vars

(* No step brings a foreign key in.                                          *)
LEMMA SoundStep == SoundInv /\ [Next]_vars => SoundInv'
  <1> SUFFICES ASSUME SoundInv, [Next]_vars PROVE SoundInv'
    OBVIOUS
  <1>1. /\ TypeInv /\ Ground /\ OwnInv /\ Typed(heap) /\ doc \in Entries /\ file.accounts \in Entries
        /\ SoundDoc(doc) /\ KeysOwn(file.accounts) /\ \A i \in DOMAIN heap : Sound(heap[i])
    BY TypeFacts DEF SoundInv, Ground, Files, Entries
  <1>2. Contents /\ TypeInv'
    BY <1>1, ContentStep, TypeStep
  <1>3. \A i \in DOMAIN heap' : Sound(heap'[i])
    BY <1>1, <1>2 DEF Contents, Evolves
  <1>4. SoundDoc(wallet_to_nep6) /\ SoundDoc(from_json(file.accounts)) /\ KeysOwn(to_json(doc).accounts)
    BY <1>1, WalletDocument, ReadDocument, WrittenDocument
  <1>5. SoundDoc(<<>>) /\ KeysOwn(Unparsable.accounts)
    BY DEF SoundDoc, KeysOwn, Unparsable
  <1>6. SoundDoc(doc') /\ KeysOwn(file'.accounts)
    BY <1>1, <1>4, <1>5, DocumentStep
  <1> QED
    BY <1>2, <1>3, <1>6 DEF SoundInv, SoundDoc, KeysOwn

(* Whenever the files of other programs carry each account's own key: a      *)
(* signature made with an account is by the key, and with the script, of its *)
(* address, after any encryptions, decryptions, exports and imports.         *)
THEOREM SignaturesMatch ==
    ASSUME OwnKeyDocuments
    PROVE  Spec => []SignsForItself
  <1>1. Init => SoundInv
    <2> SUFFICES ASSUME Init PROVE SoundInv
      OBVIOUS
    <2>1. DOMAIN heap = {} /\ doc = <<>> /\ work \in Workload
      BY DEF Init
    <2>2. KeysOwn(file.accounts)
      <3>1. file = Unparsable \/ \E d \in work.documents : file = [parses |-> TRUE, accounts |-> d]
        BY DEF Init
      <3> QED
        BY <2>1, <3>1 DEF OwnKeyDocuments, KeysOwn, Unparsable
    <2> QED
      BY <2>1, <2>2, TypeInit DEF SoundInv, SoundDoc
  <1>2. SoundInv => SignsForItself
    BY SoundSigns, TypeFacts DEF SoundInv, SignsForItself, Ground, Typed
  <1> QED
    BY <1>1, <1>2, SoundStep, PTL DEF Spec

-----------------------------------------------------------------------------
(* The flag of the default.                                                  *)

Marked(h, S, d) == \A j \in S : h[j].is_default <=> j = d
Unmarked(h, S) == \A j \in S : ~h[j].is_default

(* The flags after an account was chosen: it has the flag, the old default   *)
(* has lost it.                                                              *)
LEMMA ChosenFlags ==
    ASSUME NEW h, Typed(h), NEW i \in DOMAIN h, make_default(i, h)
    PROVE  \A j \in DOMAIN h :
               heap'[j].is_default = IF j = i THEN TRUE ELSE IF j = default_account THEN FALSE ELSE h[j].is_default
  <1> SUFFICES ASSUME NEW j \in DOMAIN h
               PROVE  heap'[j].is_default =
                        IF j = i THEN TRUE ELSE IF j = default_account THEN FALSE ELSE h[j].is_default
    BY Zenon
  <1> DEFINE f == IF j = i THEN TRUE ELSE IF j = default_account THEN FALSE ELSE h[j].is_default
  <1>1. heap'[j] = [h[j] EXCEPT !.is_default = f]
    BY DEF make_default
  <1>2. h[j] \in neoc_account_t
    BY DEF Typed
  <1> HIDE DEF f
  <1>3. heap'[j].is_default = f
    BY <1>1, <1>2 DEF neoc_account_t
  <1> QED
    BY <1>3 DEF f

(* The flags after an unmarked account was added: it has the flag when it is *)
(* the first.                                                                *)
LEMMA AddedFlags ==
    ASSUME NEW h, Typed(h), NEW i \in DOMAIN h, add_account(i, h)
    PROVE  \A j \in DOMAIN h :
               heap'[j].is_default = IF j = i /\ accounts = <<>> THEN TRUE ELSE h[j].is_default
  <1>1. heap' = IF accounts = <<>> THEN [h EXCEPT ![i].is_default = TRUE] ELSE h
    BY DEF add_account
  <1>2. h[i] \in neoc_account_t
    BY DEF Typed
  <1>3. [h[i] EXCEPT !.is_default = TRUE].is_default = TRUE
    BY <1>2 DEF neoc_account_t
  <1> QED
    BY <1>1, <1>3, Zenon

(* An account joins the wallet, unmarked or, from a document, as it is.      *)
LEMMA JoinedFlags ==
    ASSUME NEW h, Typed(h), NEW i \in DOMAIN h, i \notin Members, Members \subseteq DOMAIN h, i # default_account,
           Marked(h, Members, default_account), accounts = <<>> => default_account = NULL /\ Members = {},
           accounts # <<>> => default_account \in Members,
           (add_account(i, h) /\ ~h[i].is_default) \/ load_account(i, h)
    PROVE  /\ Marked(heap', Members \cup {i}, default_account')
           /\ \A j \in DOMAIN h \ (Members \cup {i}) : ~h[j].is_default => ~heap'[j].is_default
  <1>1. CASE add_account(i, h) /\ ~h[i].is_default
    <2>1. default_account' = IF accounts = <<>> THEN i ELSE default_account
      BY <1>1 DEF add_account
    <2>2. \A j \in DOMAIN h : heap'[j].is_default = IF j = i /\ accounts = <<>> THEN TRUE ELSE h[j].is_default
      BY <1>1, AddedFlags, Zenon
    <2> QED
      BY <1>1, <2>1, <2>2, Zenon DEF Marked
  <1>2. CASE make_default(i, h)
    <2>1. default_account' = i
      BY <1>2 DEF make_default
    <2>2. \A j \in DOMAIN h :
            heap'[j].is_default = IF j = i THEN TRUE ELSE IF j = default_account THEN FALSE ELSE h[j].is_default
      BY <1>2, ChosenFlags, Zenon
    <2> QED
      BY <2>1, <2>2, Zenon DEF Marked
  <1> QED
    BY <1>1, <1>2 DEF load_account

FlagOK == Marked(heap, Members, default_account) /\ Unmarked(heap, held)

(* Steps that neither move an account nor touch a flag.                      *)
LEMMA FlagsKept ==
    ASSUME OwnInv, FlagOK, DOMAIN heap' = DOMAIN heap, UNCHANGED <<held, accounts, default_account>>,
           \A i \in DOMAIN heap : heap'[i].is_default = heap[i].is_default
    PROVE  FlagOK'
  BY DEF OwnInv, Ownership, FlagOK, Marked, Unmarked, Members

(* Steps that leave an empty array and drop accounts.                        *)
LEMMA FlagsEmptied ==
    ASSUME FlagOK, accounts' = <<>>, held' \subseteq held, \A i \in held' : heap'[i] = heap[i]
    PROVE  FlagOK'
  <1>1. Members' = {}
    BY DEF Members, Range
  <1> QED
    BY <1>1 DEF FlagOK, Marked, Unmarked

(* A call on one account that leaves the flag alone.                         *)
LEMMA UpdateFlags ==
    ASSUME OwnInv, FlagOK, NEW i \in DOMAIN heap, NEW a, a.is_default = heap[i].is_default, Update(i, a)
    PROVE  FlagOK'
  <1>1. heap' = [heap EXCEPT ![i] = a] /\ UNCHANGED <<held, accounts, default_account>>
    BY DEF Update, wallet
  <1> QED
    BY <1>1, FlagsKept

(* Removing the default passes the flag to its successor.                    *)
LEMMA RemoveFlags ==
    ASSUME TypeInv, FlagOK, NEW x, neoc_wallet_remove_account(x)
    PROVE  FlagOK'
  <1> DEFINE moved(k) == default_account = accounts[k] /\ Len(accounts) > 1
             last(k) == default_account = accounts[k] /\ Len(accounts) = 1
             g(k) == IF moved(k) THEN [heap EXCEPT ![successor(k)].is_default = TRUE] ELSE heap
  <1>1. PICK k \in index_of(x) :
          /\ accounts' = Shifted(accounts, k) /\ heap' = Without(g(k), {accounts[k]})
          /\ default_account' = IF last(k) THEN NULL ELSE IF moved(k) THEN successor(k) ELSE default_account
    BY Zenon DEF neoc_wallet_remove_account, Shifted
  <1>2. /\ OwnInv /\ Typed(heap) /\ accounts \in Seq(Acct) /\ Injective(accounts) /\ k \in DOMAIN accounts
        /\ DOMAIN heap = held \cup Members /\ held \cap Members = {}
    BY <1>1, TypeFacts DEF Ground, OwnInv, Ownership, Injective, index_of
  <1>3. held' = held
    BY DEF neoc_wallet_remove_account
  <1>4. Members' = Members \ {accounts[k]} /\ (accounts' = <<>> <=> Len(accounts) = 1)
    BY <1>1, <1>2, ShiftRange DEF Members
  <1>5. DOMAIN accounts = 1 .. Len(accounts) /\ Len(accounts) \in Nat /\ k \in 1 .. Len(accounts)
    BY <1>2
  <1>6. accounts[k] \in Members /\ \A j \in DOMAIN accounts : accounts[j] \in Members
    BY <1>2 DEF Members, Range
  <1>7. DOMAIN g(k) = DOMAIN heap
    OBVIOUS
  <1>8. \A j \in DOMAIN heap \ {accounts[k]} : heap'[j] = g(k)[j]
    <2> HIDE DEF g
    <2> QED
      BY <1>1, <1>7 DEF Without
  <1>9. CASE last(k)
    <2>1. Members' = {}
      BY <1>4, <1>5, <1>9 DEF Members, Range
    <2>2. \A j \in held : heap'[j] = heap[j]
      <3>1. \A j \in held : j \in DOMAIN heap \ {accounts[k]}
        BY <1>2, <1>6
      <3>2. g(k) = heap
        BY <1>5, <1>9
      <3> HIDE DEF g
      <3> QED
        BY <1>8, <3>1, <3>2
    <2> QED
      BY <1>3, <2>1, <2>2 DEF FlagOK, Marked, Unmarked
  <1>10. CASE moved(k)
    <2> DEFINE n == successor(k)
    <2>1. n \in Members \ {accounts[k]} /\ default_account' = n /\ n \in DOMAIN heap
      <3>1. successor(k) \in Members \ {accounts[k]}
        BY <1>2, <1>5, <1>6, <1>10 DEF successor, Injective
      <3>2. ~last(k)
        BY <1>5, <1>10
      <3> QED
        BY <1>1, <1>2, <1>10, <3>1, <3>2
    <2>2. \A j \in DOMAIN heap : g(k)[j].is_default = IF j = n THEN TRUE ELSE heap[j].is_default
      <3>1. g(k) = [heap EXCEPT ![n].is_default = TRUE]
        BY <1>10
      <3>2. [heap[n] EXCEPT !.is_default = TRUE].is_default = TRUE
        BY <1>2, <2>1 DEF Typed, neoc_account_t
      <3> HIDE DEF g, n
      <3> QED
        BY <3>1, <3>2
    <2> HIDE DEF g, n
    <2>3. \A j \in DOMAIN heap \ {accounts[k]} : heap'[j].is_default = IF j = n THEN TRUE ELSE heap[j].is_default
      BY <1>8, <2>2, Zenon
    <2>4. Marked(heap', Members \ {accounts[k]}, n)
      BY <1>2, <1>10, <2>1, <2>3, Zenon DEF FlagOK, Marked
    <2>5. Unmarked(heap', held)
      BY <1>2, <1>6, <2>1, <2>3, Zenon DEF FlagOK, Unmarked
    <2> QED
      BY <1>3, <1>4, <2>1, <2>4, <2>5 DEF FlagOK
  <1>11. CASE ~last(k) /\ ~moved(k)
    <2>1. default_account' = default_account /\ g(k) = heap
      BY <1>1, <1>11
    <2> HIDE DEF g
    <2>2. \A j \in DOMAIN heap \ {accounts[k]} : heap'[j] = heap[j]
      BY <1>8, <2>1
    <2>3. Marked(heap', Members \ {accounts[k]}, default_account)
      BY <1>2, <2>2 DEF FlagOK, Marked
    <2>4. Unmarked(heap', held)
      BY <1>2, <1>6, <2>2 DEF FlagOK, Unmarked
    <2> QED
      BY <1>3, <1>4, <2>1, <2>3, <2>4 DEF FlagOK
  <1> QED
    BY <1>9, <1>10, <1>11

(* As long as callers leave the flag alone, every step keeps it in line with *)
(* the pointer.                                                              *)
LEMMA FlagStep ==
    ASSUME TypeInv, FlagOK, "flag" \notin work.calls, [Next]_vars
    PROVE  FlagOK'
  <1> USE DEF wallet, disk
  <1>0. /\ OwnInv /\ Typed(heap) /\ work \in Workload /\ doc \in Seq(neoc_nep6_account_t) /\ accounts \in Seq(Acct)
        /\ DOMAIN heap = held \cup Members /\ held \cap Members = {} /\ held \subseteq Acct
    BY TypeFacts DEF Ground, OwnInv, Ownership, Shape
  <1>d. /\ accounts = <<>> => default_account = NULL /\ Members = {}
        /\ accounts # <<>> => default_account \in Members
    BY <1>0 DEF OwnInv, DefaultLive, Members, Range
  <1>a. \A i \in Acct : accounts' = Append(accounts, i) => Members' = Members \cup {i}
    BY <1>0, AppendRange DEF Members
  <1>1. ASSUME UNCHANGED <<heap, held, accounts, default_account>> PROVE FlagOK'
    BY <1>0, <1>1, FlagsKept
  <1>2. ASSUME NEW a \in neoc_account_t, NEW i \in Fresh, held' = held,
               \/ add_account(i, With(heap, i, a)) /\ ~a.is_default
               \/ load_account(i, With(heap, i, a))
        PROVE  FlagOK'
    <2> DEFINE h == With(heap, i, a)
    <2>1. i \in Acct /\ i \notin DOMAIN heap /\ i # default_account
      BY <1>0, <1>2, <1>d, AcctAssumption DEF Fresh
    <2>2. DOMAIN h = DOMAIN heap \cup {i} /\ h[i] = a /\ \A j \in DOMAIN heap : h[j] = heap[j]
      BY <2>1 DEF With
    <2>3. (add_account(i, h) /\ ~h[i].is_default) \/ load_account(i, h)
      BY <1>2, <2>2
    <2> HIDE DEF h
    <2>4. Typed(h) /\ Marked(h, Members, default_account) /\ Unmarked(h, held)
      BY <1>0, <1>2, <2>1, <2>2 DEF Typed, FlagOK, Marked, Unmarked
    <2>5. /\ Marked(heap', Members \cup {i}, default_account')
          /\ \A j \in DOMAIN h \ (Members \cup {i}) : ~h[j].is_default => ~heap'[j].is_default
      BY <1>0, <1>d, <2>1, <2>2, <2>3, <2>4, JoinedFlags, Zenon
    <2>6. Unmarked(heap', held)
      BY <1>0, <2>1, <2>2, <2>4, <2>5 DEF Unmarked
    <2>7. accounts' = Append(accounts, i)
      BY <2>3, AddEffect, LoadEffect
    <2> QED
      BY <1>2, <1>a, <2>1, <2>5, <2>6, <2>7, Zenon DEF FlagOK
  <1>3. ASSUME NEW i \in held, neoc_wallet_add_account(i) PROVE FlagOK'
    <2>1. i \in DOMAIN heap /\ i \notin Members /\ i \in Acct /\ i # default_account
      BY <1>0, <1>d, <1>3, AcctAssumption
    <2>2. add_account(i, heap) /\ held' = held \ {i} /\ ~heap[i].is_default
      BY <1>3 DEF neoc_wallet_add_account, FlagOK, Unmarked
    <2>3. /\ Marked(heap', Members \cup {i}, default_account')
          /\ \A j \in DOMAIN heap \ (Members \cup {i}) : ~heap[j].is_default => ~heap'[j].is_default
      BY <1>0, <1>d, <2>1, <2>2, JoinedFlags DEF FlagOK
    <2>4. Unmarked(heap', held')
      BY <1>0, <2>2, <2>3 DEF FlagOK, Unmarked
    <2>5. Members' = Members \cup {i}
      BY <1>a, <2>1, <2>2, AddEffect
    <2> QED
      BY <2>3, <2>4, <2>5 DEF FlagOK
  <1>4. ASSUME NEW x, neoc_wallet_set_default_account(x) PROVE FlagOK'
    <2>1. PICK k \in index_of(x) : make_default(accounts[k], heap)
      BY <1>4 DEF neoc_wallet_set_default_account
    <2>2. accounts[k] \in Members /\ accounts[k] \in DOMAIN heap
      BY <1>0, <2>1 DEF Members, Range, index_of
    <2>3. \A j \in DOMAIN heap : heap'[j].is_default =
             IF j = accounts[k] THEN TRUE ELSE IF j = default_account THEN FALSE ELSE heap[j].is_default
      <3>1. Typed(heap)
        BY <1>0
      <3> QED
        BY <2>1, <2>2, <3>1, ChosenFlags, Zenon
    <2>4. default_account' = accounts[k] /\ UNCHANGED <<held, accounts>>
      BY <1>4, <2>1 DEF neoc_wallet_set_default_account, make_default
    <2>5. Members' = Members
      BY <2>4 DEF Members
    <2>6. Marked(heap', Members, accounts[k])
      BY <1>0, <2>2, <2>3, Zenon DEF FlagOK, Marked
    <2>7. Unmarked(heap', held)
      BY <1>0, <2>2, <2>3, Zenon DEF FlagOK, Unmarked
    <2> QED
      BY <2>4, <2>5, <2>6, <2>7 DEF FlagOK
  <1>5. ASSUME NEW a, ~a.is_default, neoc_account_create(a) PROVE FlagOK'
    <2>1. PICK i \in Fresh : heap' = With(heap, i, a) /\ held' = held \cup {i}
      BY <1>5 DEF neoc_account_create
    <2>2. i \notin DOMAIN heap /\ heap'[i] = a /\ \A j \in DOMAIN heap : heap'[j] = heap[j]
      <3>1. i \notin DOMAIN heap
        BY <2>1 DEF Fresh
      <3> QED
        BY <2>1, <3>1 DEF With
    <2>3. UNCHANGED <<accounts, default_account>>
      BY <1>5, Zenon DEF neoc_account_create
    <2> QED
      BY <1>0, <1>5, <2>1, <2>2, <2>3 DEF FlagOK, Marked, Unmarked, Members
  <1>6. ASSUME NEW i \in held, neoc_account_free(i) PROVE FlagOK'
    <2>1. held' = held \ {i} /\ UNCHANGED <<accounts, default_account>> /\ \A j \in DOMAIN heap \ {i} : heap'[j] = heap[j]
      BY <1>6 DEF neoc_account_free, Without
    <2> QED
      BY <1>0, <1>6, <2>1 DEF FlagOK, Marked, Unmarked, Members
  <1>7. ASSUME accounts' = <<>>, held' = held, heap' = Without(heap, Members) \/ heap' = heap PROVE FlagOK'
    <2>1. \A i \in held : heap'[i] = heap[i]
      BY <1>0, <1>7 DEF Without
    <2> QED
      BY <1>7, <2>1, FlagsEmptied
  <1>8. ASSUME NEW b \in BOOLEAN, set_locks(b) PROVE FlagOK'
    <2>1. DOMAIN heap' = DOMAIN heap /\ UNCHANGED <<held, accounts, default_account>>
      BY <1>8 DEF set_locks
    <2>2. ASSUME NEW i \in DOMAIN heap PROVE heap'[i].is_default = heap[i].is_default
      <3>1. heap[i] \in neoc_account_t
        BY <1>0, <2>2 DEF Typed
      <3>2. heap'[i] = heap[i] \/ heap'[i] = [heap[i] EXCEPT !.is_locked = b]
        BY <1>8, <2>2 DEF set_locks
      <3>3. [heap[i] EXCEPT !.is_locked = b].is_default = heap[i].is_default
        BY <1>8, <3>1, FlagsEvolve
      <3> QED
        BY <3>2, <3>3, Zenon
    <2> QED
      BY <1>0, <2>1, <2>2, FlagsKept
  <1>9. CASE LockOne
    <2>1. ASSUME NEW i \in DOMAIN heap, NEW b \in BOOLEAN, Update(i, [heap[i] EXCEPT !.is_locked = b]) PROVE FlagOK'
      BY <1>0, <2>1, FlagsEvolve, UpdateFlags, Zenon DEF Typed
    <2> QED
      BY <1>9, <2>1, Zenon DEF LockOne, neoc_account_lock_internal, neoc_account_unlock_internal
  <1>10. CASE Crypt
    BY <1>0, <1>10, EncryptEvolves, DecryptEvolves, UpdateFlags
       DEF Typed, Crypt, neoc_account_encrypt, neoc_account_decrypt
  <1>11. ASSUME "store" \in work.calls, Store PROVE FlagOK'
    <2>1. PICK i \in DOMAIN heap : \E e \in OwnKeys(i) : neoc_account_set_encrypted_private_key(i, e)
      BY <1>11 DEF Store
    <2>2. PICK e \in OwnKeys(i) : neoc_account_set_encrypted_private_key(i, e)
      BY <2>1
    <2>3. heap[i] \in neoc_account_t /\ heap[i].address \in Address
      BY <1>0 DEF Typed, neoc_account_t
    <2>4. e \in nep2_key \cup {NULL} /\ (e # NULL => e.key = heap[i].address)
      BY <2>3 DEF OwnKeys, nep2_key
    <2> QED
      BY <1>0, <1>11, <2>2, <2>3, <2>4, SetKeyEvolves, UpdateFlags DEF neoc_account_set_encrypted_private_key
  <1>12. CASE load_next
    <2>1. PICK a \in from_nep6(doc[Len(accounts) + 1]) : \E i \in Fresh : load_account(i, With(heap, i, a))
      BY <1>12 DEF load_next
    <2>2. Len(accounts) < Len(doc) /\ held' = held
      BY <1>12 DEF load_next
    <2>3. doc[Len(accounts) + 1] \in neoc_nep6_account_t
      BY <1>0, <2>2
    <2>4. a \in neoc_account_t
      BY <2>1, <2>3, FromNep6
    <2> QED
      BY <1>2, <2>1, <2>2, <2>4
  <1>13. CASE Import
    <2>1. ASSUME NEW a \in neoc_account_t, ~a.is_default, neoc_wallet_import(a) PROVE FlagOK'
      BY <1>2, <2>1 DEF neoc_wallet_import
    <2>2. \A x \in work.addresses : create_from_key_pair(x) \in neoc_account_t /\ ~create_from_key_pair(x).is_default
      BY <1>0, WorkloadAssumption, Constructors
    <2>3. \A e \in nep2_key, p \in Pass : \A a \in create_from_nep2(e, p) : a \in neoc_account_t /\ ~a.is_default
      BY Decrypted, Constructors DEF create_from_nep2
    <2> QED
      BY <1>13, <2>1, <2>2, <2>3 DEF Import
  <1>14. CASE Hold
    <2>1. ASSUME NEW x \in work.addresses, NEW a \in Constructed(x), neoc_account_create(a) PROVE FlagOK'
      <3>1. ~a.is_default
        BY <1>0, <2>1, ConstructedAccount
      <3> QED
        BY <1>5, <2>1, <3>1
    <2> QED
      BY <1>3, <1>6, <1>14, <2>1 DEF Hold
  <1>15. CASE Manage
    BY <1>4, <1>7, <1>15, RemoveFlags DEF Manage, neoc_wallet_create, neoc_wallet_free
  <1>16. CASE Nep6 \/ Save
    BY <1>1, <1>7, <1>12, <1>16
       DEF Nep6, Save, neoc_wallet_load, Load, neoc_wallet_from_nep6, load_fail, load_fail_frees, load_done,
           save_open, save_write
  <1>17. CASE crash
    BY <1>17, FlagsEmptied DEF crash
  <1>18. CASE UNCHANGED vars
    BY <1>1, <1>18 DEF vars
  <1> QED
    BY <1>8, <1>9, <1>10, <1>11, <1>13, <1>14, <1>15, <1>16, <1>17, <1>18, Zenon
    DEF Next, Lock, neoc_wallet_lock_all, neoc_wallet_unlock_all

(* For any accounts, documents and calls, as long as callers do not set the  *)
(* flag themselves: is_default marks exactly the account the wallet's        *)
(* default pointer names, so what neoc_wallet_save writes elects it again.   *)
THEOREM FlagFollowsPointer == Spec => []DefaultFlag
  <1> DEFINE Inv == TypeInv /\ ("flag" \notin work.calls => FlagOK)
  <1>1. Init => Inv
    <2> SUFFICES ASSUME Init PROVE FlagOK
      BY TypeInit
    <2>1. Members = {} /\ held = {}
      BY DEF Init, Members, Range
    <2> QED
      BY <2>1 DEF FlagOK, Marked, Unmarked
  <1>2. Inv /\ [Next]_vars => Inv'
    <2> SUFFICES ASSUME Inv, [Next]_vars PROVE Inv'
      OBVIOUS
    <2>1. TypeInv' /\ work' = work
      BY TypeStep, FrameStep DEF Frame
    <2> QED
      BY <2>1, FlagStep
  <1>3. Inv => DefaultFlag
    BY DEF DefaultFlag, FlagOK, Marked, Unmarked
  <1> QED
    BY <1>1, <1>2, <1>3, PTL DEF Spec

-----------------------------------------------------------------------------
(* Loading a document.                                                       *)

(* After n accounts of a document, m is the default: the last marked one, or *)
(* the first account.                                                        *)
ElectedIn(d, m, n) ==
    \/ d[m].is_default /\ \A j \in (m + 1) .. n : ~d[j].is_default
    \/ m = 1 /\ \A j \in 1 .. n : ~d[j].is_default

(* A load in progress has turned the first accounts of the document into     *)
(* accounts of the wallet, in order, and elected among them.                 *)
Loaded ==
    /\ Len(accounts) <= Len(doc)
    /\ \A k \in DOMAIN accounts : /\ heap[accounts[k]].address = doc[k].address
                                  /\ heap[accounts[k]].encrypted_key = doc[k].key
    /\ accounts # <<>> =>
         \E m \in DOMAIN accounts : default_account = accounts[m] /\ ElectedIn(doc, m, Len(accounts))

LoadInv == pc = "loading" => Loaded

(* What is elected among all accounts of a document is what it elects.       *)
LEMMA ElectedAll ==
    ASSUME NEW d \in Seq(neoc_nep6_account_t), NEW m \in DOMAIN d, ElectedIn(d, m, Len(d))
    PROVE  Elected(d) = m
  <1> DEFINE marked == {k \in DOMAIN d : d[k].is_default}
  <1>0. DOMAIN d = 1 .. Len(d) /\ Len(d) \in Nat
    OBVIOUS
  <1>1. CASE m = 1 /\ \A j \in 1 .. Len(d) : ~d[j].is_default
    <2>1. marked = {}
      BY <1>0, <1>1
    <2> QED
      BY <1>1, <2>1 DEF Elected
  <1>2. CASE d[m].is_default /\ \A j \in (m + 1) .. Len(d) : ~d[j].is_default
    <2>1. m \in marked
      BY <1>2
    <2>2. \A j \in marked : j \in Nat /\ j <= m
      BY <1>0, <1>2
    <2> DEFINE c == CHOOSE k \in marked : \A j \in marked : j <= k
    <2>3. Elected(d) = c
      BY <2>1 DEF Elected
    <2>4. c \in marked /\ \A j \in marked : j <= c
      <3> HIDE DEF marked
      <3> QED
        BY <2>1, <2>2
    <2> HIDE DEF marked, c
    <2>5. c = m
      BY <2>1, <2>2, <2>4
    <2> QED
      BY <2>3, <2>5
  <1> QED
    BY <1>1, <1>2 DEF ElectedIn

(* While a document is loaded only the load itself moves; a load starts with *)
(* an empty wallet.                                                          *)
LEMMA WhileLoading ==
    ASSUME [Next]_vars
    PROVE  /\ pc = "loading" => load_next \/ load_fail \/ load_done \/ crash \/ UNCHANGED vars
           /\ pc # "loading" /\ pc' = "loading" => accounts' = <<>> /\ doc' \in {wallet_to_nep6, from_json(file.accounts)}
  <1>1. CASE UNCHANGED vars
    BY <1>1 DEF vars
  <1>2. ASSUME ~UNCHANGED vars, ~(Nep6 \/ crash) PROVE pc # "loading" /\ pc' # "loading"
    <2>1. CASE Manage \/ Import \/ Hold
      BY <2>1, Zenon DEF Manage, Import, Hold, Ready, neoc_wallet_create, neoc_wallet_free, neoc_wallet_remove_account,
         neoc_wallet_set_default_account, neoc_wallet_import, neoc_account_create, neoc_wallet_add_account,
         neoc_account_free
    <2>2. CASE Flag \/ LockOne \/ Crypt \/ Store
      <3>1. \A i, a : Update(i, a) => pc # "loading" /\ pc' # "loading"
        BY DEF Update
      <3> QED
        BY <2>2, <3>1 DEF Flag, LockOne, Crypt, Store, neoc_account_set_default, neoc_account_lock_internal,
           neoc_account_unlock_internal, neoc_account_encrypt, neoc_account_decrypt,
           neoc_account_set_encrypted_private_key
    <2>3. CASE Lock \/ Save
      BY <2>3 DEF Lock, Save, neoc_wallet_lock_all, neoc_wallet_unlock_all, set_locks, Ready, save_open, save_write
    <2> QED
      BY <1>2, <2>1, <2>2, <2>3 DEF Next
  <1>3. CASE Nep6
    BY <1>3 DEF Nep6, neoc_wallet_load, Load, neoc_wallet_from_nep6, Ready, load_next, load_fail, load_done
  <1>4. CASE crash
    BY <1>4 DEF crash
  <1> QED
    BY <1>1, <1>2, <1>3, <1>4

(* Converting one more account of the document keeps what is loaded so far.  *)
LEMMA LoadNext ==
    ASSUME TypeInv, Loaded, load_next
    PROVE  Loaded'
  <1> DEFINE n == Len(accounts) + 1
  <1>0. /\ OwnInv /\ Typed(heap) /\ doc \in Seq(neoc_nep6_account_t) /\ accounts \in Seq(Acct)
        /\ DOMAIN heap = held \cup Members /\ Len(accounts) \in Nat /\ DOMAIN accounts = 1 .. Len(accounts)
    BY TypeFacts DEF Ground, OwnInv, Ownership
  <1>1. PICK a \in from_nep6(doc[n]), i \in Fresh : load_account(i, With(heap, i, a))
    BY DEF load_next
  <1>2. Len(accounts) < Len(doc) /\ doc' = doc /\ Len(doc) \in Nat
    BY <1>0 DEF load_next
  <1>3. doc[n] \in neoc_nep6_account_t
    BY <1>0, <1>2
  <1>4. a \in neoc_account_t /\ a.address = doc[n].address /\ a.is_default = doc[n].is_default
        /\ a.encrypted_key = doc[n].key
    BY <1>1, <1>3, FromNep6
  <1> DEFINE h == With(heap, i, a)
  <1>5. i \in Acct /\ i \notin DOMAIN heap /\ i \notin Members
    BY <1>0, <1>1 DEF Fresh
  <1>6. DOMAIN h = DOMAIN heap \cup {i} /\ h[i] = a /\ \A j \in DOMAIN heap : h[j] = heap[j]
    BY <1>5 DEF With
  <1>l. load_account(i, h)
    BY <1>1
  <1> HIDE DEF h
  <1>7. Typed(h) /\ i \in DOMAIN h
    BY <1>0, <1>4, <1>5, <1>6 DEF Typed
  <1>8. \A j \in DOMAIN h : heap'[j].address = h[j].address /\ heap'[j].encrypted_key = h[j].encrypted_key
    <2>1. \A j \in DOMAIN h : Alike(h[j], heap'[j]) /\ h[j] \in neoc_account_t
      BY <1>l, <1>7, AddContents DEF Typed
    <2> QED
      BY <2>1, AlikeKeeps
  <1>9. accounts' = Append(accounts, i)
    BY <1>l, LoadEffect
  <1>10. /\ Len(accounts') = n /\ DOMAIN accounts' = 1 .. n /\ accounts'[n] = i
         /\ \A k \in 1 .. Len(accounts) : accounts'[k] = accounts[k]
    BY <1>0, <1>5, <1>9
  <1>11. \A k \in 1 .. Len(accounts) : accounts[k] \in DOMAIN heap
    BY <1>0 DEF Members, Range
  <1>12. \A k \in DOMAIN accounts' : /\ heap'[accounts'[k]].address = doc'[k].address
                                    /\ heap'[accounts'[k]].encrypted_key = doc'[k].key
    <2>1. ASSUME NEW k \in 1 .. Len(accounts)
          PROVE  heap'[accounts'[k]].address = doc'[k].address /\ heap'[accounts'[k]].encrypted_key = doc'[k].key
      <3>1. heap[accounts[k]].address = doc[k].address /\ heap[accounts[k]].encrypted_key = doc[k].key
        BY <1>0 DEF Loaded
      <3> QED
        BY <1>2, <1>6, <1>8, <1>10, <1>11, <3>1
    <2>2. heap'[accounts'[n]].address = doc'[n].address /\ heap'[accounts'[n]].encrypted_key = doc'[n].key
      BY <1>2, <1>4, <1>6, <1>7, <1>8, <1>10
    <2>3. \A k \in DOMAIN accounts' : k \in 1 .. Len(accounts) \/ k = n
      BY <1>0, <1>10
    <2> QED
      BY <2>1, <2>2, <2>3
  <1>13. \E m \in DOMAIN accounts' : default_account' = accounts'[m] /\ ElectedIn(doc', m, Len(accounts'))
    <2>1. ASSUME doc[n].is_default PROVE n \in DOMAIN accounts' /\ default_account' = accounts'[n] /\ ElectedIn(doc', n, n)
      <3>1. h[i].is_default
        BY <1>4, <1>6, <2>1, Zenon
      <3>2. default_account' = i
        BY <1>l, <3>1 DEF load_account, make_default
      <3>3. (n + 1) .. n = {}
        BY <1>0
      <3>4. ElectedIn(doc', n, n)
        BY <1>2, <2>1, <3>3 DEF ElectedIn
      <3>5. n \in DOMAIN accounts'
        BY <1>0, <1>10
      <3> QED
        BY <1>10, <3>2, <3>4, <3>5
    <2>2. CASE ~doc[n].is_default
      <3>1. ~h[i].is_default
        BY <1>4, <1>6, <2>2
      <3>2. default_account' = IF accounts = <<>> THEN i ELSE default_account
        BY <1>l, <3>1 DEF load_account, add_account
      <3>3. CASE accounts = <<>>
        <4>1. n = 1
          BY <3>3
        <4>2. ElectedIn(doc', 1, 1)
          BY <1>2, <2>2, <4>1 DEF ElectedIn
        <4> QED
          BY <1>10, <3>2, <3>3, <4>1, <4>2
      <3>4. CASE accounts # <<>>
        <4>1. PICK m \in DOMAIN accounts : default_account = accounts[m] /\ ElectedIn(doc, m, Len(accounts))
          BY <3>4 DEF Loaded
        <4>2. \A j \in (m + 1) .. n : j \in (m + 1) .. Len(accounts) \/ j = n
          BY <1>0
        <4>3. \A j \in 1 .. n : j \in 1 .. Len(accounts) \/ j = n
          BY <1>0
        <4>4. ElectedIn(doc', m, n)
          <5>1. CASE m = 1 /\ \A j \in 1 .. Len(accounts) : ~doc[j].is_default
            BY <1>2, <2>2, <4>3, <5>1 DEF ElectedIn
          <5>2. CASE doc[m].is_default /\ \A j \in (m + 1) .. Len(accounts) : ~doc[j].is_default
            BY <1>2, <2>2, <4>2, <5>2 DEF ElectedIn
          <5> QED
            BY <4>1, <5>1, <5>2 DEF ElectedIn
        <4>5. m \in DOMAIN accounts' /\ accounts'[m] = accounts[m]
          BY <1>0, <1>10
        <4>6. default_account' = accounts'[m]
          BY <3>2, <3>4, <4>1, <4>5
        <4> QED
          BY <1>10, <4>4, <4>5, <4>6
      <3> QED
        BY <3>3, <3>4
    <2> QED
      BY <1>10, <2>1, <2>2
  <1> QED
    BY <1>0, <1>2, <1>10, <1>12, <1>13 DEF Loaded

(* For any accounts, documents and calls: neoc_wallet_from_nep6 either gives *)
(* a wallet with all accounts of the document, in its order, with its keys   *)
(* and with the default it elects, or gives none.                            *)
THEOREM LoadsWholeDocument == Spec => LoadFaithful
  <1> DEFINE Inv == TypeInv /\ LoadInv
  <1>1. Init => Inv
    BY TypeInit DEF Init, LoadInv
  <1>2. Inv /\ [Next]_vars => Inv'
    <2> SUFFICES ASSUME Inv, [Next]_vars, pc' = "loading" PROVE Loaded'
      BY TypeStep DEF LoadInv
    <2>1. CASE pc # "loading"
      <3>1. accounts' = <<>> /\ doc' \in Seq(neoc_nep6_account_t)
        BY <2>1, WhileLoading, FrameStep DEF Frame, Entries
      <3>2. Len(doc') \in Nat
        BY <3>1
      <3> QED
        BY <3>1, <3>2 DEF Loaded
    <2>2. CASE pc = "loading"
      <3>1. Loaded
        BY <2>2 DEF LoadInv
      <3>2. load_next \/ UNCHANGED vars
        BY <2>2, WhileLoading DEF load_fail, load_done, crash
      <3>3. CASE UNCHANGED vars
        BY <3>1, <3>3 DEF vars, wallet, disk, Loaded
      <3> QED
        BY <3>1, <3>2, <3>3, LoadNext
    <2> QED
      BY <2>1, <2>2
  <1>3. Inv /\ [Next]_vars =>
          [pc = "loading" /\ pc' = "idle" /\ open' =>
            /\ Len(accounts') = Len(doc)
            /\ \A k \in DOMAIN doc : /\ heap'[accounts'[k]].address = doc[k].address
                                      /\ heap'[accounts'[k]].encrypted_key = doc[k].key
            /\ doc # <<>> => default_account' = accounts'[Elected(doc)]]_vars
    <2> SUFFICES ASSUME Inv, [Next]_vars, pc = "loading", pc' = "idle", open'
                 PROVE  /\ Len(accounts') = Len(doc)
                        /\ \A k \in DOMAIN doc : /\ heap'[accounts'[k]].address = doc[k].address
                                                 /\ heap'[accounts'[k]].encrypted_key = doc[k].key
                        /\ doc # <<>> => default_account' = accounts'[Elected(doc)]
      OBVIOUS
    <2>1. load_done
      BY WhileLoading DEF load_next, load_fail, crash, vars
    <2>2. Loaded /\ doc \in Seq(neoc_nep6_account_t) /\ accounts \in Seq(Acct)
      BY TypeFacts DEF LoadInv, Ground
    <2>3. Len(accounts) = Len(doc) /\ UNCHANGED <<heap, accounts, default_account>>
      BY <2>1 DEF load_done, wallet
    <2>4. DOMAIN doc = DOMAIN accounts
      BY <2>2, <2>3
    <2>5. ASSUME doc # <<>> PROVE default_account = accounts[Elected(doc)]
      <3>1. accounts # <<>>
        BY <2>2, <2>3, <2>5
      <3>2. PICK m \in DOMAIN accounts : default_account = accounts[m] /\ ElectedIn(doc, m, Len(accounts))
        BY <2>2, <3>1 DEF Loaded
      <3> QED
        BY <2>2, <2>3, <2>4, <3>2, ElectedAll
    <2> QED
      BY <2>2, <2>3, <2>4, <2>5 DEF Loaded
  <1> QED
    BY <1>1, <1>2, <1>3, PTL DEF Spec, LoadFaithful
=============================================================================
