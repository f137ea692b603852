-------------------------- MODULE Nep6WalletProofs --------------------------
(***************************************************************************)
(* Proofs about Nep6Wallet for any addresses, files, capacities and bound: *)
(* what may be in its array, and which account is its default.             *)
(***************************************************************************)
EXTENDS Nep6Wallet, SequenceTheorems, TLAPS

(* An account behind the first few has no address of one before it.          *)
Fresh(list, few) == \A j \in (few + 1)..Len(list) : \A i \in 1..(j - 1) : list[i].address # list[j].address

(* An array whose capacity is known has room for its accounts; one that was  *)
(* read from a file has lost its capacity and not gained an account since.   *)
Sized(length, capacity, few) ==
    /\ capacity = 0 => length = few
    /\ capacity # 0 => length <= capacity

(* The account that was chosen last is the only one marked.                  *)
ChosenOnly(list, choice) ==
    /\ choice \in 0..Len(list)
    /\ \A i \in 1..Len(list) : list[i].is_default <=> i = choice

Inv ==
    /\ TypeOK
    /\ Fresh(accounts, loaded)
    /\ fault = "none" => Sized(Len(accounts), account_capacity, loaded)
    /\ fault = "overrun" => loaded >= FirstCapacity
    /\ ~ambiguous => ChosenOnly(accounts, chosen)

-----------------------------------------------------------------------------
(* Closing the gap that an account leaves keeps the others and their order.  *)
LEMMA RemoveAtElements ==
  ASSUME NEW S, NEW s \in Seq(S), NEW i \in 1 .. Len(s)
  PROVE  /\ RemoveAt(s, i) \in Seq(S)
         /\ Len(RemoveAt(s, i)) = Len(s) - 1
         /\ \A k \in 1 .. (Len(s) - 1) : RemoveAt(s, i)[k] = s[IF k < i THEN k ELSE k + 1]
<1> DEFINE a == SubSeq(s, 1, i - 1)
           b == SubSeq(s, i + 1, Len(s))
<1>1. Len(s) \in Nat /\ i \in Nat /\ 1 <= i /\ i <= Len(s) /\ \A j \in 1 .. Len(s) : s[j] \in S
  OBVIOUS
<1>2. a \in Seq(S) /\ Len(a) = i - 1 /\ \A k \in 1 .. (i - 1) : a[k] = s[k]
  <2>1. \A k \in 1 .. (i - 1) : s[k] \in S
    BY <1>1
  <2>2. /\ a \in Seq(S) /\ Len(a) = (IF 1 <= i - 1 THEN (i - 1) - 1 + 1 ELSE 0)
        /\ \A k \in 1 .. ((i - 1) - 1 + 1) : a[k] = s[1 + k - 1]
    BY <1>1, <2>1, SubSeqProperties
  <2> HIDE DEF a
  <2> QED
    BY <1>1, <2>2
<1>3. b \in Seq(S) /\ Len(b) = Len(s) - i /\ \A k \in 1 .. (Len(s) - i) : b[k] = s[i + k]
  <2>1. \A k \in (i + 1) .. Len(s) : s[k] \in S
    BY <1>1
  <2>2. /\ b \in Seq(S) /\ Len(b) = (IF i + 1 <= Len(s) THEN Len(s) - (i + 1) + 1 ELSE 0)
        /\ \A k \in 1 .. (Len(s) - (i + 1) + 1) : b[k] = s[(i + 1) + k - 1]
    BY <1>1, <2>1, SubSeqProperties
  <2> HIDE DEF b
  <2> QED
    BY <1>1, <2>2
<1>4. RemoveAt(s, i) = a \o b
  BY DEF RemoveAt
<1> HIDE DEF a, b
<1>5. /\ a \o b \in Seq(S) /\ Len(a \o b) = Len(s) - 1
      /\ \A k \in 1 .. (Len(s) - 1) : (a \o b)[k] = IF k <= i - 1 THEN a[k] ELSE b[k - (i - 1)]
  <2>1. Len(a) + Len(b) = Len(s) - 1
    BY <1>1, <1>2, <1>3
  <2>2. /\ a \o b \in Seq(S) /\ Len(a \o b) = Len(a) + Len(b)
        /\ \A k \in 1 .. (Len(a) + Len(b)) : (a \o b)[k] = IF k <= Len(a) THEN a[k] ELSE b[k - Len(a)]
    BY <1>2, <1>3, ConcatProperties
  <2> QED
    BY <1>2, <2>1, <2>2
<1>6. ASSUME NEW k \in 1 .. (Len(s) - 1) PROVE (a \o b)[k] = s[IF k < i THEN k ELSE k + 1]
  <2>1. CASE k < i
    BY <1>1, <1>2, <1>5, <2>1
  <2>2. CASE ~(k < i)
    <3>1. k - (i - 1) \in 1 .. (Len(s) - i) /\ i + (k - (i - 1)) = k + 1 /\ ~(k <= i - 1)
      BY <1>1, <2>2
    <3> QED
      BY <1>3, <1>5, <2>2, <3>1
  <2> QED
    BY <2>1, <2>2, Zenon
<1> QED
  BY <1>4, <1>5, <1>6

(* Of accounts of which at most one is marked, it is the one found.          *)
LEMMA OneMarked ==
  ASSUME NEW list \in Seq(nep6_account),
         \A i, j \in DOMAIN list : list[i].is_default /\ list[j].is_default => i = j
  PROVE  ChosenOnly(list, first_marked(list))
<1> DEFINE marks == {i \in DOMAIN list : list[i].is_default}
<1>1. Len(list) \in Nat /\ DOMAIN list = 1..Len(list)
  OBVIOUS
<1>2. CASE marks = {}
  <2>1. first_marked(list) = 0
    BY <1>2 DEF first_marked
  <2> QED
    BY <1>1, <1>2, <2>1 DEF ChosenOnly
<1>3. CASE marks # {}
  <2>1. PICK m \in marks : TRUE
    BY <1>3
  <2>2. m \in 1..Len(list) /\ \A j \in marks : j = m
    BY <1>1, <2>1
  <2>3. m \in marks /\ \A j \in marks : m <= j
    BY <1>1, <2>1, <2>2
  <2>4. first_marked(list) = CHOOSE i \in marks : \A j \in marks : i <= j
    BY <1>3 DEF first_marked
  <2>5. first_marked(list) \in marks
    BY <2>3, <2>4
  <2>6. first_marked(list) = m
    BY <2>2, <2>5
  <2> QED
    BY <1>1, <2>1, <2>2, <2>6 DEF ChosenOnly
<1> QED
  BY <1>2, <1>3

(* neoc_nep6_wallet_add_account_existing keeps the invariant.                *)
LEMMA AddKeeps ==
  ASSUME Inv, fault = "none", NEW address \in Address, NEW is_default \in BOOLEAN,
         add_account_existing(address, is_default)
  PROVE  Inv'
<1> DEFINE before == IF is_default THEN [i \in DOMAIN accounts |-> Unmarked(accounts[i])] ELSE accounts
           added == [address |-> address, is_default |-> is_default]
           n == Len(accounts)
<1>0. /\ accounts \in Seq(nep6_account) /\ n \in Nat /\ DOMAIN accounts = 1..n
      /\ \A i \in 1..n : accounts[i] \in nep6_account
  BY DEF Inv, TypeOK
<1>1. /\ address \notin Addresses /\ account_capacity' = Grown
      /\ accounts' = Append(before, added)
      /\ fault' = IF n >= account_capacity' THEN "overrun" ELSE fault
      /\ chosen' = IF is_default THEN n + 1 ELSE chosen
      /\ ambiguous' = (ambiguous /\ ~is_default)
      /\ loaded' = loaded
  BY DEF add_account_existing, Added
<1>2. added \in nep6_account
  BY DEF nep6_account
<1>3. /\ before \in Seq(nep6_account) /\ Len(before) = n
      /\ \A i \in 1..n : /\ before[i].address = accounts[i].address
                         /\ before[i].is_default = (~is_default /\ accounts[i].is_default)
  <2>1. CASE is_default
    <3>1. \A i \in 1..n : /\ Unmarked(accounts[i]) \in nep6_account
                          /\ Unmarked(accounts[i]).address = accounts[i].address
                          /\ Unmarked(accounts[i]).is_default = FALSE
      BY <1>0 DEF Unmarked, nep6_account
    <3>2. before = [i \in 1..n |-> Unmarked(accounts[i])]
      BY <1>0, <2>1
    <3> HIDE DEF before
    <3>3. before \in Seq(nep6_account) /\ Len(before) = n
      BY <1>0, <3>1, <3>2
    <3> QED
      BY <2>1, <3>1, <3>2, <3>3
  <2>2. CASE ~is_default
    <3>1. \A i \in 1..n : accounts[i].is_default \in BOOLEAN
      BY <1>0 DEF nep6_account
    <3> QED
      BY <1>0, <2>2, <3>1
  <2> QED
    BY <2>1, <2>2
<1> HIDE DEF before
<1>4. /\ accounts' \in Seq(nep6_account) /\ Len(accounts') = n + 1
      /\ \A i \in 1..n : accounts'[i] = before[i]
      /\ accounts'[n + 1] = added
  <2> HIDE DEF added
  <2> QED
    BY <1>0, <1>1, <1>2, <1>3, AppendProperties
<1>5. \A i \in 1..n : accounts[i].address # address
  BY <1>0, <1>1 DEF Addresses
<1>6. loaded \in 0..n /\ account_capacity \in Nat /\ ambiguous \in BOOLEAN
  BY DEF Inv, TypeOK
<1>7. account_capacity' \in Nat /\ Sized(n, account_capacity, loaded)
  BY <1>0, <1>1, <1>6, CapacityAssumption DEF Inv, Grown
<1>8. Fresh(accounts, loaded)' 
  <2> SUFFICES ASSUME NEW j \in (loaded + 1)..(n + 1), NEW i \in 1..(j - 1)
               PROVE  accounts'[i].address # accounts'[j].address
    BY <1>0, <1>1, <1>4, <1>6 DEF Fresh
  <2>1. i \in 1..n /\ accounts'[i].address = accounts[i].address
    BY <1>0, <1>3, <1>4, <1>6
  <2>2. CASE j = n + 1
    BY <1>4, <1>5, <2>1, <2>2
  <2>3. CASE j # n + 1
    <3>1. j \in 1..n /\ j \in (loaded + 1)..n
      BY <1>0, <1>6, <2>3
    <3>2. accounts'[j].address = accounts[j].address
      BY <1>3, <1>4, <3>1
    <3> QED
      BY <2>1, <3>1, <3>2 DEF Inv, Fresh
  <2> QED
    BY <2>2, <2>3
<1>9. /\ fault' = "none" => Sized(n + 1, account_capacity', loaded)
      /\ fault' = "overrun" => loaded >= FirstCapacity
  <2>0. fault' = IF n >= account_capacity' THEN "overrun" ELSE "none"
    BY <1>1
  <2>1. CASE n < account_capacity
    <3>1. account_capacity' = account_capacity
      BY <1>1, <2>1 DEF Grown
    <3> QED
      BY <1>0, <1>6, <2>0, <2>1, <3>1 DEF Sized
  <2>2. CASE ~(n < account_capacity) /\ account_capacity = 0
    <3>1. account_capacity' = FirstCapacity /\ n = loaded
      BY <1>1, <1>7, <2>2 DEF Grown, Sized
    <3> QED
      BY <1>0, <1>6, <2>0, <3>1, CapacityAssumption DEF Sized
  <2>3. CASE ~(n < account_capacity) /\ account_capacity # 0
    <3>0. account_capacity' = 2 * account_capacity
      BY <1>1, <2>3 DEF Grown
    <3>1. n \in Nat /\ account_capacity \in Nat /\ n <= account_capacity
      BY <1>0, <1>6, <1>7, <2>3, Zenon DEF Sized
    <3> HIDE DEF n
    <3>2. n = account_capacity
      BY <2>3, <3>1
    <3> QED
      BY <2>0, <2>3, <3>0, <3>1, <3>2 DEF Sized
  <2> QED
    BY <2>1, <2>2, <2>3
<1>10. ~ambiguous' => ChosenOnly(accounts, chosen)'
  <2>1. CASE is_default
    <3>1. chosen' = n + 1
      BY <1>1, <2>1
    <3>2. \A i \in 1..n : ~accounts'[i].is_default
      BY <1>3, <1>4, <2>1
    <3>3. accounts'[n + 1].is_default
      BY <1>4, <2>1
    <3> QED
      BY <1>0, <1>4, <3>1, <3>2, <3>3 DEF ChosenOnly
  <2>2. CASE ~is_default /\ ~ambiguous
    <3>1. chosen' = chosen /\ chosen \in 0..n /\ \A i \in 1..n : accounts[i].is_default <=> i = chosen
      BY <1>1, <2>2 DEF Inv, ChosenOnly
    <3>2. \A i \in 1..n : accounts'[i].is_default <=> i = chosen
      BY <1>3, <1>4, <2>2, <3>1
    <3>3. ~accounts'[n + 1].is_default
      BY <1>4, <2>2
    <3> QED
      BY <1>0, <1>4, <3>1, <3>2, <3>3 DEF ChosenOnly
  <2> QED
    BY <1>1, <2>1, <2>2
<1>11. TypeOK'
  <2>1. ambiguous' \/ chosen' \in 0..Len(accounts')
    BY <1>10 DEF ChosenOnly
  <2> QED
    BY <1>0, <1>1, <1>4, <1>6, <1>7, <2>1 DEF TypeOK
<1> QED
  BY <1>1, <1>4, <1>8, <1>9, <1>10, <1>11 DEF Inv

(* neoc_nep6_wallet_remove_account keeps it: the accounts behind the gap     *)
(* move up, those from the file stay at the front and the chosen one is      *)
(* found one place earlier.                                                  *)
LEMMA RemoveKeeps ==
  ASSUME Inv, fault = "none", NEW address \in Address, remove_account(address)
  PROVE  Inv'
<1> DEFINE n == Len(accounts)
<1>0. /\ accounts \in Seq(nep6_account) /\ n \in Nat /\ DOMAIN accounts = 1..n
      /\ loaded \in 0..n /\ account_capacity \in Nat /\ ambiguous \in BOOLEAN
  BY DEF Inv, TypeOK
<1>1. CASE fault' = "unaddressed" /\ UNCHANGED <<accounts, account_capacity, loaded, chosen, ambiguous>>
  BY <1>1 DEF Inv, TypeOK
<1>2. ASSUME NEW i \in 1..n, accounts' = RemoveAt(accounts, i),
             loaded' = IF i <= loaded THEN loaded - 1 ELSE loaded,
             chosen' = IF chosen = i THEN 0 ELSE IF chosen > i THEN chosen - 1 ELSE chosen,
             UNCHANGED <<account_capacity, ambiguous, fault>>
      PROVE  Inv'
  <2> DEFINE from(k) == IF k < i THEN k ELSE k + 1
  <2>1. /\ accounts' \in Seq(nep6_account) /\ Len(accounts') = n - 1
        /\ \A k \in 1..(n - 1) : accounts'[k] = accounts[from(k)]
    BY <1>0, <1>2, RemoveAtElements
  <2>2. loaded' \in 0..(n - 1)
    BY <1>0, <1>2
  <2>4. Fresh(accounts, loaded)'
    <3> SUFFICES ASSUME NEW k \in (loaded' + 1)..(n - 1), NEW j \in 1..(k - 1)
                 PROVE  accounts'[j].address # accounts'[k].address
      BY <2>1 DEF Fresh
    <3>1. k \in 1..(n - 1) /\ j \in 1..(n - 1)
      BY <1>0, <2>2
    <3>2. from(k) \in (loaded + 1)..n /\ from(j) \in 1..(from(k) - 1)
      BY <1>0, <1>2, <3>1
    <3> HIDE DEF from
    <3> QED
      BY <2>1, <3>1, <3>2 DEF Inv, Fresh
  <2>5. fault' = "none" => Sized(Len(accounts), account_capacity, loaded)'
    <3>1. Sized(n, account_capacity, loaded)
      BY DEF Inv
    <3>2. Len(accounts') = n - 1 /\ account_capacity' = account_capacity
      BY <1>2, <2>1
    <3>3. CASE account_capacity = 0
      <4>0. n = loaded /\ i \in 1..n
        BY <3>1, <3>3, Zenon DEF Sized
      <4>1. n = loaded /\ loaded' = loaded - 1
        BY <1>0, <1>2, <4>0
      <4> QED
        BY <3>2, <3>3, <4>1 DEF Sized
    <3>4. CASE account_capacity # 0
      <4>0. n \in Nat /\ account_capacity \in Nat /\ n <= account_capacity
        BY <1>0, <3>1, <3>4, Zenon DEF Sized
      <4> HIDE DEF n
      <4>1. n - 1 <= account_capacity
        BY <4>0
      <4> QED
        BY <3>2, <3>4, <4>1 DEF Sized
    <3> QED
      BY <3>3, <3>4
  <2>6. ASSUME ~ambiguous' PROVE ChosenOnly(accounts, chosen)'
    <3>1. chosen \in 0..n /\ \A k \in 1..n : accounts[k].is_default <=> k = chosen
      BY <1>2, <2>6 DEF Inv, ChosenOnly
    <3>2. chosen' \in 0..(n - 1)
      BY <1>0, <1>2, <3>1
    <3>3. ASSUME NEW k \in 1..(n - 1) PROVE accounts'[k].is_default <=> k = chosen'
      <4>1. from(k) \in 1..n /\ (from(k) = chosen <=> k = chosen')
        BY <1>0, <1>2, <3>1
      <4> HIDE DEF from
      <4> QED
        BY <2>1, <3>1, <4>1
    <3> QED
      BY <2>1, <3>2, <3>3 DEF ChosenOnly
  <2>7. TypeOK'
    BY <1>0, <1>2, <2>1, <2>2, <2>6 DEF Inv, TypeOK, ChosenOnly
  <2>8. fault' # "overrun"
    BY <1>2
  <2> QED
    BY <2>4, <2>5, <2>6, <2>7, <2>8, Zenon DEF Inv
<1> QED
  BY <1>0, <1>1, <1>2 DEF remove_account

(* neoc_nep6_account_set_default keeps it: it claims nothing of the marks    *)
(* any more, and addresses and sizes are as they were.                       *)
LEMMA MarkKeeps ==
  ASSUME Inv, fault = "none", NEW i, NEW is_default \in BOOLEAN, set_default(i, is_default)
  PROVE  Inv'
<1> DEFINE n == Len(accounts)
<1>0. /\ accounts \in Seq(nep6_account) /\ n \in Nat /\ DOMAIN accounts = 1..n
      /\ loaded \in 0..n /\ account_capacity \in Nat /\ ambiguous \in BOOLEAN
  BY DEF Inv, TypeOK
<1>1. /\ i \in 1..n /\ accounts' = [accounts EXCEPT ![i].is_default = is_default]
      /\ ambiguous' = TRUE /\ UNCHANGED <<account_capacity, loaded, chosen, fault>>
  BY <1>0 DEF set_default
<1>2. /\ accounts' \in Seq(nep6_account) /\ Len(accounts') = n
      /\ \A k \in 1..n : accounts'[k].address = accounts[k].address
  <2> DEFINE now == [accounts[i] EXCEPT !.is_default = is_default]
  <2>1. accounts[i] \in nep6_account
    BY <1>0, <1>1
  <2>2. now \in nep6_account /\ now.address = accounts[i].address
    BY <2>1 DEF nep6_account
  <2>3. accounts' = [accounts EXCEPT ![i] = now]
    BY <1>1
  <2> HIDE DEF now
  <2> QED
    BY <1>0, <1>1, <2>2, <2>3
<1>3. Fresh(accounts, loaded)'
  <2> SUFFICES ASSUME NEW k \in (loaded + 1)..n, NEW j \in 1..(k - 1)
               PROVE  accounts'[j].address # accounts'[k].address
    BY <1>1, <1>2 DEF Fresh
  <2>1. k \in 1..n /\ j \in 1..n
    BY <1>0
  <2> QED
    BY <1>2, <2>1 DEF Inv, Fresh
<1> QED
  BY <1>0, <1>1, <1>2, <1>3 DEF Inv, TypeOK

(* neoc_nep6_wallet_from_json keeps it, whatever the file holds.             *)
LEMMA ReadKeeps ==
  ASSUME Inv, fault = "none", NEW document \in Document, from_json(document)
  PROVE  Inv'
<1>1. document \in Seq(nep6_account) /\ Len(document) \in Nat
  BY DocumentAssumption
<1>2. CASE fault' = "exhausted" /\ UNCHANGED <<accounts, account_capacity, loaded, chosen, ambiguous>>
  BY <1>2 DEF Inv, TypeOK
<1>3. CASE /\ accounts' = document /\ account_capacity' = 0 /\ loaded' = Len(document)
           /\ chosen' = first_marked(document)
           /\ ambiguous' = (\E i, j \in DOMAIN document : i # j /\ document[i].is_default /\ document[j].is_default)
           /\ UNCHANGED fault
  <2>1. Fresh(accounts, loaded)' /\ Sized(Len(accounts), account_capacity, loaded)'
    BY <1>1, <1>3 DEF Fresh, Sized
  <2>2. ASSUME ~ambiguous' PROVE ChosenOnly(accounts, chosen)'
    <3>1. \A i, j \in DOMAIN document : document[i].is_default /\ document[j].is_default => i = j
      BY <1>3, <2>2
    <3>2. ChosenOnly(document, first_marked(document))
      BY <1>1, <3>1, OneMarked
    <3> QED
      BY <1>3, <3>2
  <2> QED
    BY <1>1, <1>3, <2>1, <2>2 DEF Inv, TypeOK, ChosenOnly
<1> QED
  BY <1>2, <1>3 DEF from_json

LEMMA WalletInit == Init => Inv
<1> SUFFICES ASSUME Init PROVE Inv
  OBVIOUS
<1>1. /\ accounts = <<>> /\ account_capacity = InitialCapacity
      /\ loaded = 0 /\ chosen = 0 /\ ambiguous = FALSE /\ fault = "none"
  BY DEF Init
<1>2. accounts \in Seq(nep6_account) /\ Len(accounts) = 0
  BY <1>1
<1>3. TypeOK
  <2>1. account_capacity \in Nat /\ 0 \in 0..Len(accounts)
    BY <1>1, <1>2, CapacityAssumption
  <2> QED
    BY <1>1, <1>2, <2>1, Zenon DEF TypeOK
<1>4. Fresh(accounts, loaded) /\ Sized(Len(accounts), account_capacity, loaded) /\ ChosenOnly(accounts, chosen)
  BY <1>1, <1>2, CapacityAssumption DEF Fresh, Sized, ChosenOnly
<1> QED
  BY <1>1, <1>3, <1>4 DEF Inv

LEMMA WalletStep == Inv /\ [Next]_vars => Inv'
<1> SUFFICES ASSUME Inv, [Next]_vars PROVE Inv'
  OBVIOUS
<1>1. CASE UNCHANGED vars
  BY <1>1 DEF vars, Inv, TypeOK
<1>2. CASE Next /\ fault = "none"
  BY <1>2, AddKeeps, RemoveKeeps, MarkKeeps, ReadKeeps DEF Next
<1>3. CASE Next /\ fault # "none"
  BY <1>1, <1>3 DEF Next
<1> QED
  BY <1>1, <1>2, <1>3

(* neoc_nep6_wallet_add_account_existing, for any sequence of calls and any  *)
(* files: an added account repeats no address before it, and the array is    *)
(* overrun in no wallet with fewer than FirstCapacity accounts from a file.  *)
THEOREM AddedWithinArray == Spec => []WithinArray
<1>1. ASSUME Inv PROVE WithinArray
  <2>1. loaded \in Nat /\ FirstCapacity \in Nat
    BY <1>1, CapacityAssumption DEF Inv, TypeOK
  <2>2. loaded < FirstCapacity => fault # "overrun"
    BY <1>1, <2>1 DEF Inv
  <2> QED
    BY <1>1, <2>2 DEF Inv, WithinArray, Fresh
<1> QED
  BY <1>1, WalletInit, WalletStep, PTL DEF Spec

(* neoc_nep6_wallet_get_default_account, for any sequence of calls and any   *)
(* files: unless several marks were set behind the back of the wallet, the   *)
(* account found is the one made the default last.                           *)
THEOREM DefaultIsChosen == Spec => []DefaultLookup
<1>1. ASSUME Inv PROVE DefaultLookup
  <2>1. CASE ~ambiguous
    <3>1. accounts \in Seq(nep6_account) /\ ChosenOnly(accounts, chosen)
      BY <1>1, <2>1 DEF Inv, TypeOK
    <3>2. \A i, j \in DOMAIN accounts : accounts[i].is_default /\ accounts[j].is_default => i = j
      BY <3>1 DEF ChosenOnly
    <3>3. ChosenOnly(accounts, first_marked(accounts))
      BY <3>1, <3>2, OneMarked
    <3>4. first_marked(accounts) = chosen
      BY <3>1, <3>3 DEF ChosenOnly
    <3> QED
      BY <3>4 DEF DefaultLookup, get_default_account
  <2> QED
    BY <2>1 DEF DefaultLookup
<1> QED
  BY <1>1, WalletInit, WalletStep, PTL DEF Spec
=============================================================================
