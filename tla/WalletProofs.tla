---------------------------- MODULE WalletProofs ----------------------------
(***************************************************************************)
(* Proofs about the wallet for any number of accounts, addresses and       *)
(* documents and any mix of calls: the default pointer never dangles and   *)
(* every account has exactly one owner.                                    *)
(***************************************************************************)
EXTENDS Wallet, TLAPS

Injective(s) == \A j, k \in DOMAIN s : s[j] = s[k] => j = k

(* Appending an account to the array adds that one member.                   *)
LEMMA AppendRange ==
    ASSUME NEW S, NEW s \in Seq(S), NEW x \in S
    PROVE  /\ Append(s, x) \in Seq(S) /\ Append(s, x) # <<>>
           /\ Range(Append(s, x)) = Range(s) \cup {x}
           /\ Injective(s) /\ x \notin Range(s) => Injective(Append(s, x))
  <1>1. Append(s, x) \in Seq(S) /\ Len(Append(s, x)) = Len(s) + 1 /\ DOMAIN Append(s, x) = 1 .. (Len(s) + 1)
    OBVIOUS
  <1>2. \A j \in 1 .. Len(s) : Append(s, x)[j] = s[j]
    OBVIOUS
  <1>3. Append(s, x)[Len(s) + 1] = x /\ DOMAIN s = 1 .. Len(s) /\ Len(s) \in Nat
    OBVIOUS
  <1>4. Range(Append(s, x)) = Range(s) \cup {x}
    BY <1>1, <1>2, <1>3 DEF Range
  <1>5. Injective(s) /\ x \notin Range(s) => Injective(Append(s, x))
    BY <1>1, <1>2, <1>3 DEF Range, Injective
  <1>6. Append(s, x) # <<>>
    BY <1>1, <1>3
  <1> QED
    BY <1>1, <1>4, <1>5, <1>6

(* A function on 1..n is a sequence of length n.                             *)
LEMMA FunctionIsSeq ==
    ASSUME NEW S, NEW n \in Nat, NEW f \in [1 .. n -> S]
    PROVE  f \in Seq(S) /\ Len(f) = n /\ DOMAIN f = 1 .. n
  OBVIOUS

Shifted(s, k) == [j \in 1 .. (Len(s) - 1) |-> IF j < k THEN s[j] ELSE s[j + 1]]

(* The shift loop of neoc_wallet_remove_account takes out one member.        *)
LEMMA ShiftRange ==
    ASSUME NEW S, NEW s \in Seq(S), Injective(s), NEW k \in DOMAIN s
    PROVE  /\ Shifted(s, k) \in Seq(S) /\ Injective(Shifted(s, k))
           /\ Range(Shifted(s, k)) = Range(s) \ {s[k]}
           /\ Shifted(s, k) = <<>> <=> Len(s) = 1
  <1>1. DOMAIN s = 1 .. Len(s) /\ Len(s) \in Nat /\ k \in 1 .. Len(s) /\ Len(s) - 1 \in Nat
    OBVIOUS
  <1>2. Shifted(s, k) \in [1 .. (Len(s) - 1) -> S]
    BY <1>1 DEF Shifted
  <1>3. Shifted(s, k) \in Seq(S) /\ Len(Shifted(s, k)) = Len(s) - 1 /\ DOMAIN Shifted(s, k) = 1 .. (Len(s) - 1)
    BY <1>1, <1>2, FunctionIsSeq
  <1>4. \A j \in 1 .. (Len(s) - 1) : Shifted(s, k)[j] = IF j < k THEN s[j] ELSE s[j + 1]
    BY DEF Shifted
  <1>5. Injective(Shifted(s, k))
    BY <1>1, <1>3, <1>4 DEF Injective
  <1>6. ASSUME NEW x \in Range(s) \ {s[k]}
        PROVE  x \in Range(Shifted(s, k))
    <2>1. PICK j \in 1 .. Len(s) : x = s[j] /\ j # k
      BY <1>1 DEF Range
    <2>2. CASE j < k
      BY <1>1, <1>3, <1>4, <2>1, <2>2 DEF Range
    <2>3. CASE j > k
      <3>1. j - 1 \in 1 .. (Len(s) - 1) /\ ~(j - 1 < k) /\ (j - 1) + 1 = j
        BY <1>1, <2>1, <2>3
      <3>2. Shifted(s, k)[j - 1] = x
        BY <1>4, <2>1, <3>1
      <3> QED
        BY <1>3, <3>1, <3>2 DEF Range
    <2> QED
      BY <1>1, <2>1, <2>2, <2>3
  <1>7. ASSUME NEW x \in Range(Shifted(s, k))
        PROVE  x \in Range(s) \ {s[k]}
    <2>1. PICK j \in 1 .. (Len(s) - 1) : x = Shifted(s, k)[j]
      BY <1>3 DEF Range
    <2>2. PICK l \in 1 .. Len(s) : x = s[l] /\ l # k
      BY <1>1, <1>4, <2>1
    <2> QED
      BY <1>1, <2>2 DEF Range, Injective
  <1>8. Shifted(s, k) = <<>> <=> Len(s) = 1
    BY <1>1, <1>3
  <1> QED
    BY <1>3, <1>5, <1>6, <1>7, <1>8
-----------------------------------------------------------------------------
(* The inductive invariant: a closed wallet is empty, a load runs on an open *)
(* one; with that, ownership and the default pointer carry over every step.  *)
Shape ==
    /\ accounts \in Seq(Acct) /\ held \subseteq Acct
    /\ ~open => accounts = <<>>
    /\ pc = "loading" => open

OwnInv == Shape /\ Ownership /\ DefaultLive

(* What adding an account does to the array and the default.                 *)
LEMMA Added ==
    ASSUME OwnInv, NEW i \in Acct, i \notin Members,
           accounts' = Append(accounts, i), default_account' \in {i, default_account},
           accounts = <<>> => default_account' = i
    PROVE  /\ accounts' \in Seq(Acct) /\ Members' = Members \cup {i}
           /\ Injective(accounts') /\ DefaultLive'
  <1>1. accounts \in Seq(Acct) /\ Injective(accounts)
    BY DEF OwnInv, Shape, Ownership, Injective
  <1>2. /\ accounts' \in Seq(Acct) /\ accounts' # <<>> /\ Range(accounts') = Range(accounts) \cup {i}
        /\ Injective(accounts')
    BY <1>1, AppendRange DEF Members
  <1>3. default_account' \in Range(accounts')
    BY <1>2 DEF OwnInv, DefaultLive, Members
  <1> QED
    BY <1>2, <1>3 DEF DefaultLive, Members

(* Domains of the heap after a block was added or released.                  *)
LEMMA Domains ==
    ASSUME NEW f, NEW i, NEW a, NEW S
    PROVE  DOMAIN With(f, i, a) = DOMAIN f \cup {i} /\ DOMAIN Without(f, S) = DOMAIN f \ S
  BY DEF With, Without

(* The array after neoc_wallet_add_account or a load's next account.         *)
LEMMA AddEffect ==
    ASSUME NEW i, NEW h, add_account(i, h)
    PROVE  /\ accounts' = Append(accounts, i) /\ DOMAIN heap' = DOMAIN h
           /\ default_account' \in {i, default_account}
           /\ accounts = <<>> => default_account' = i
  BY DEF add_account

(* Loading adds the account to the list and keeps a default when there is one. *)
LEMMA LoadEffect ==
    ASSUME NEW i, NEW h, load_account(i, h)
    PROVE  /\ accounts' = Append(accounts, i) /\ DOMAIN heap' = DOMAIN h
           /\ default_account' \in {i, default_account}
           /\ accounts = <<>> => default_account' = i
  <1>1. CASE add_account(i, h)
    BY <1>1, AddEffect
  <1>2. CASE accounts' = Append(accounts, i) /\ make_default(i, h)
    BY <1>2 DEF make_default
  <1> QED
    BY <1>1, <1>2 DEF load_account

(* A wallet without accounts, when only the caller's accounts are live.      *)
LEMMA EmptyArray ==
    ASSUME accounts' = <<>>, default_account' = NULL, DOMAIN heap' = held', held' \subseteq Acct,
           pc' = "loading" => open'
    PROVE  OwnInv'
  <1>1. DOMAIN accounts' = {} /\ accounts' \in Seq(Acct)
    OBVIOUS
  <1>2. Members' = {}
    BY <1>1 DEF Members, Range
  <1> QED
    BY <1>1, <1>2 DEF OwnInv, Shape, Ownership, DefaultLive

(* Freeing a wallet frees every account in it and leaves the caller's.       *)
LEMMA EmptyEffect ==
    ASSUME OwnInv, accounts' = <<>>, default_account' = NULL, pc' = "loading" => open',
           held' = held, heap' = Without(heap, Members)
    PROVE  OwnInv'
  <1>1. DOMAIN heap = held \cup Members /\ held \cap Members = {} /\ held \subseteq Acct
    BY DEF OwnInv, Ownership, Shape
  <1>2. DOMAIN heap' = held'
    BY <1>1 DEF Without
  <1> QED
    BY <1>1, <1>2, EmptyArray

(* Steps that change only what accounts contain.                             *)
LEMMA Kept ==
    ASSUME OwnInv, DOMAIN heap' = DOMAIN heap, held' = held, open' = open, accounts' = accounts,
           default_account' = default_account, pc' = "loading" => open
    PROVE  OwnInv'
  BY DEF OwnInv, Shape, Ownership, DefaultLive, Members

(* Every step of the wallet preserves ownership and the default pointer.     *)
LEMMA OwnStep == OwnInv /\ [Next]_vars => OwnInv'
  <1> SUFFICES ASSUME OwnInv, [Next]_vars PROVE OwnInv'
    OBVIOUS
  <1> USE DEF wallet, disk
  <1>1. CASE neoc_wallet_create
    <2>1. accounts = <<>>
      BY <1>1 DEF neoc_wallet_create, OwnInv, Shape
    <2>2. Members = {}
      BY <2>1 DEF Members, Range
    <2> QED
      BY <1>1, <2>2, EmptyArray DEF neoc_wallet_create, OwnInv, Ownership, Shape
  <1>2. CASE neoc_wallet_free
    BY <1>2, EmptyEffect DEF neoc_wallet_free, Ready
  <1>3. ASSUME NEW x, neoc_wallet_remove_account(x) PROVE OwnInv'
    <2> DEFINE moved(k) == default_account = accounts[k] /\ Len(accounts) > 1
    <2>0. PICK k \in index_of(x) :
            /\ accounts' = Shifted(accounts, k)
            /\ default_account' = IF default_account = accounts[k] /\ Len(accounts) = 1 THEN NULL
                                  ELSE IF moved(k) THEN successor(k) ELSE default_account
            /\ heap' = Without(IF moved(k) THEN [heap EXCEPT ![successor(k)].is_default = TRUE] ELSE heap,
                               {accounts[k]})
      BY <1>3, Zenon DEF neoc_wallet_remove_account, Shifted
    <2>10. accounts \in Seq(Acct) /\ Len(accounts) \in Nat \ {0}
      BY <2>0 DEF OwnInv, Shape, index_of
    <2>1. /\ DOMAIN heap' = DOMAIN heap \ {accounts[k]}
          /\ accounts' = Shifted(accounts, k)
          /\ default_account' = IF default_account = accounts[k]
                                THEN IF Len(accounts) = 1 THEN NULL ELSE successor(k)
                                ELSE default_account
      <3>1. DOMAIN heap' = DOMAIN heap \ {accounts[k]}
        BY <2>0 DEF Without
      <3>3. \A n \in Nat \ {0} : n = 1 <=> ~(n > 1)
        OBVIOUS
      <3>2. Len(accounts) = 1 <=> ~(Len(accounts) > 1)
        BY <2>10, <3>3
      <3> QED
        BY <2>0, <3>1, <3>2, Zenon
    <2>2. accounts \in Seq(Acct) /\ k \in DOMAIN accounts /\ Injective(accounts)
      BY <2>1 DEF index_of, OwnInv, Shape, Ownership, Injective
    <2>3. /\ accounts' \in Seq(Acct) /\ Injective(accounts') /\ Members' = Members \ {accounts[k]}
          /\ accounts' = <<>> <=> Len(accounts) = 1
      BY <2>1, <2>2, ShiftRange DEF Members
    <2>4. accounts # <<>> /\ default_account \in Members
      BY <2>2 DEF OwnInv, DefaultLive
    <2>5. Len(accounts) # 1 => successor(k) \in Members \ {accounts[k]}
      <3>1. DOMAIN accounts = 1 .. Len(accounts) /\ Len(accounts) \in Nat /\ k \in 1 .. Len(accounts)
        BY <2>2
      <3> QED
        BY <2>2, <3>1 DEF successor, Members, Range, Injective
    <2>6. DefaultLive'
      <3>1. CASE Len(accounts) = 1
        <4>1. Members = {accounts[k]}
          BY <2>2, <3>1 DEF Members, Range
        <4> QED
          BY <2>1, <2>3, <2>4, <3>1, <4>1 DEF DefaultLive
      <3>2. CASE Len(accounts) # 1
        BY <2>1, <2>3, <2>4, <2>5, <3>2 DEF DefaultLive
      <3> QED
        BY <3>1, <3>2
    <2>7. held' = held /\ open' = open /\ pc' = pc /\ open
      BY <1>3 DEF neoc_wallet_remove_account, Ready
    <2>8. accounts[k] \in Members
      BY <2>2 DEF Members, Range
    <2>9. Ownership'
      BY <2>1, <2>3, <2>7, <2>8 DEF OwnInv, Ownership, Injective
    <2> QED
      BY <2>3, <2>6, <2>7, <2>9 DEF OwnInv, Shape
  <1>4. ASSUME NEW x, neoc_wallet_set_default_account(x) PROVE OwnInv'
    <2>1. PICK k \in index_of(x) : default_account' = accounts[k] /\ DOMAIN heap' = DOMAIN heap
      BY <1>4 DEF neoc_wallet_set_default_account, make_default
    <2>2. accounts[k] \in Members /\ accounts # <<>>
      BY <2>1 DEF Members, Range, index_of
    <2> QED
      BY <1>4, <2>1, <2>2 DEF neoc_wallet_set_default_account, OwnInv, Shape, Ownership, DefaultLive, Members
  <1>5. ASSUME NEW a, neoc_wallet_import(a) PROVE OwnInv'
    <2>1. PICK i \in Fresh : add_account(i, With(heap, i, a))
      BY <1>5 DEF neoc_wallet_import
    <2>2. i \in Acct /\ i \notin Members /\ i \notin held
      BY <2>1 DEF Fresh, OwnInv, Ownership
    <2>4. /\ accounts' = Append(accounts, i) /\ DOMAIN heap' = DOMAIN With(heap, i, a)
          /\ default_account' \in {i, default_account}
          /\ accounts = <<>> => default_account' = i
      BY <2>1, AddEffect
    <2>3. /\ accounts' \in Seq(Acct) /\ Members' = Members \cup {i}
          /\ Injective(accounts') /\ DefaultLive' /\ DOMAIN heap' = DOMAIN heap \cup {i}
      BY <2>2, <2>4, Added DEF With
    <2> QED
      BY <1>5, <2>2, <2>3 DEF neoc_wallet_import, Ready, OwnInv, Shape, Ownership, Injective
  <1>6. ASSUME NEW i \in held, neoc_wallet_add_account(i) PROVE OwnInv'
    <2>1. i \in Acct /\ i \notin Members /\ held' = held \ {i}
      BY <1>6 DEF neoc_wallet_add_account, OwnInv, Ownership, Shape
    <2>3. /\ accounts' = Append(accounts, i) /\ DOMAIN heap' = DOMAIN heap
          /\ default_account' \in {i, default_account}
          /\ accounts = <<>> => default_account' = i
      BY <1>6, AddEffect DEF neoc_wallet_add_account
    <2>2. /\ accounts' \in Seq(Acct) /\ Members' = Members \cup {i}
          /\ Injective(accounts') /\ DefaultLive' /\ DOMAIN heap' = DOMAIN heap
      BY <2>1, <2>3, Added
    <2> QED
      BY <1>6, <2>1, <2>2 DEF neoc_wallet_add_account, Ready, OwnInv, Shape, Ownership, Injective
  <1>7. ASSUME NEW a, neoc_account_create(a) PROVE OwnInv'
    <2>1. PICK i \in Fresh : heap' = With(heap, i, a) /\ held' = held \cup {i}
      BY <1>7 DEF neoc_account_create
    <2>2. DOMAIN heap' = DOMAIN heap \cup {i} /\ i \in Acct /\ i \notin DOMAIN heap
      BY <2>1, Domains DEF Fresh
    <2> QED
      BY <1>7, <2>1, <2>2 DEF neoc_account_create, OwnInv, Shape, Ownership, DefaultLive, Members
  <1>8. ASSUME NEW i \in held, neoc_account_free(i) PROVE OwnInv'
    <2>1. DOMAIN heap' = DOMAIN heap \ {i} /\ held' = held \ {i}
      BY <1>8, Domains DEF neoc_account_free
    <2> QED
      BY <1>8, <2>1 DEF neoc_account_free, OwnInv, Shape, Ownership, DefaultLive, Members
  <1>9. ASSUME NEW i, NEW a, Update(i, a) PROVE OwnInv'
    BY <1>9, Kept DEF Update
  <1>10. ASSUME NEW b, set_locks(b) PROVE OwnInv'
    BY <1>10, Kept DEF set_locks, Ready
  <1>11. CASE neoc_wallet_load
    <2>1. accounts = <<>>
      BY <1>11 DEF neoc_wallet_load, Load, OwnInv, Shape
    <2>2. Members = {}
      BY <2>1 DEF Members, Range
    <2> QED
      BY <1>11, <2>2, EmptyArray DEF neoc_wallet_load, Load, OwnInv, Ownership, Shape
  <1>12. CASE neoc_wallet_from_nep6
    BY <1>12, EmptyEffect DEF neoc_wallet_from_nep6, Ready
  <1>13. CASE load_next
    <2>1. PICK a \in from_nep6(doc[Len(accounts) + 1]) : \E i \in Fresh : load_account(i, With(heap, i, a))
      BY <1>13 DEF load_next
    <2>0. PICK i \in Fresh : load_account(i, With(heap, i, a))
      BY <2>1
    <2>2. i \in Acct /\ i \notin Members /\ i \notin held
      BY <2>0 DEF Fresh, OwnInv, Ownership
    <2>4. /\ accounts' = Append(accounts, i) /\ DOMAIN heap' = DOMAIN With(heap, i, a)
          /\ default_account' \in {i, default_account}
          /\ accounts = <<>> => default_account' = i
      BY <2>0, LoadEffect
    <2>3. /\ accounts' \in Seq(Acct) /\ Members' = Members \cup {i}
          /\ Injective(accounts') /\ DefaultLive' /\ DOMAIN heap' = DOMAIN heap \cup {i}
      BY <2>2, <2>4, Added DEF With
    <2> QED
      BY <1>13, <2>2, <2>3 DEF load_next, OwnInv, Shape, Ownership, Injective
  <1>14. CASE load_fail
    BY <1>14, EmptyEffect DEF load_fail, load_fail_frees
  <1>15. CASE load_done
    BY <1>15, Kept DEF load_done
  <1>16. CASE save_open
    BY <1>16, Kept DEF save_open
  <1>17. CASE save_write
    BY <1>17, Kept DEF save_write
  <1>18. CASE crash
    <2>1. DOMAIN heap' = {}
      BY <1>18 DEF crash
    <2> QED
      BY <1>18, <2>1, EmptyArray DEF crash
  <1>19. CASE UNCHANGED vars
    BY <1>19, Kept DEF vars, OwnInv, Shape
  <1> QED
    BY <1>1, <1>2, <1>3, <1>4, <1>5, <1>6, <1>7, <1>8, <1>9, <1>10, <1>11, <1>12, <1>13, <1>14, <1>15,
       <1>16, <1>17, <1>18, <1>19
    DEF Next, Manage, Import, Hold, Flag, Lock, LockOne, Crypt, Store, Nep6, Save,
        neoc_account_set_default, neoc_account_lock_internal, neoc_account_unlock_internal,
        neoc_account_encrypt, neoc_account_decrypt, neoc_account_set_encrypted_private_key,
        neoc_wallet_lock_all, neoc_wallet_unlock_all

(* At the start there are no accounts.                                       *)
LEMMA OwnInit == Init => OwnInv
  BY DEF Init, OwnInv, Shape, Ownership, DefaultLive, Members, Range

(* For any accounts, documents and calls: every live account is owned once,  *)
(* by the wallet or by the caller, so neoc_wallet_free and                   *)
(* neoc_wallet_remove_account free each account once and nothing leaks.      *)
THEOREM OwnedOnce == Spec => []Ownership
  BY OwnInit, OwnStep, PTL DEF Spec, OwnInv

(* For any accounts, documents and calls: the default account is a member of *)
(* the wallet, and absent only when the wallet is empty.                     *)
THEOREM DefaultNeverDangles == Spec => []DefaultLive
  BY OwnInit, OwnStep, PTL DEF Spec, OwnInv
=============================================================================
