----------------------------- MODULE Nep6Wallet -----------------------------
(* The NEP-6 wallet (wallet/nep6.c): an array of accounts with room for some  *)
(* more, of which one is the default.  Keys, labels and the parameters of     *)
(* scrypt are left out: no call looks at them to change the array.            *)
(*                                                                            *)
(* A file may hold any list of accounts.  It need not be one this wallet was  *)
(* saved to: for an account without a deployed contract                       *)
(* neoc_nep6_wallet_to_file writes a bracket too many (nep6.c:506), and the   *)
(* file is refused when it is read.  Saving changes no wallet and is no step. *)
EXTENDS Naturals, FiniteSets, Sequences, SequencesExt

CONSTANTS Address, NULL,
          Document,         \* what the files hold: lists of accounts
          InitialCapacity,  \* of a wallet made by neoc_nep6_wallet_create: 10
          FirstCapacity,    \* of one that had none: 4
          MaxAccounts

nep6_account == [address : Address \cup {NULL}, is_default : BOOLEAN]

ASSUME DocumentAssumption == NULL \notin Address /\ Document \subseteq Seq(nep6_account)
ASSUME CapacityAssumption == InitialCapacity \in Nat /\ FirstCapacity \in Nat \ {0}

VARIABLES accounts,         \* the address of each, NULL if missing, and whether it is marked as default
          account_capacity,
          loaded,           \* how many accounts at the front were read from a file
          chosen,           \* where the account is that was last made the default, 0 for none
          ambiguous,        \* marks were set that no call of the wallet took back
          fault             \* the undefined behaviour that has happened, if any
vars == <<accounts, account_capacity, loaded, chosen, ambiguous, fault>>

Addresses == {accounts[i].address : i \in DOMAIN accounts}
first_marked(list) ==
    LET marks == {i \in DOMAIN list : list[i].is_default} IN
    IF marks = {} THEN 0 ELSE CHOOSE i \in marks : \A j \in marks : i <= j
get_default_account ==
    IF first_marked(accounts) # 0 THEN first_marked(accounts) ELSE IF accounts # <<>> THEN 1 ELSE 0

(* An account whose address is in the wallet is refused.  A full array is     *)
(* doubled, and given FirstCapacity when its capacity is 0.                   *)
Unmarked(account) == [account EXCEPT !.is_default = FALSE]
GrownLate ==                            \* mutant: a full array passes for one with room
    IF Len(accounts) <= account_capacity THEN account_capacity
    ELSE IF account_capacity = 0 THEN FirstCapacity ELSE 2 * account_capacity
Grown ==
    IF Len(accounts) < account_capacity THEN account_capacity
    ELSE IF account_capacity = 0 THEN FirstCapacity ELSE 2 * account_capacity
Added(address, is_default, before) ==
    /\ address \notin Addresses /\ Len(accounts) < MaxAccounts
    /\ account_capacity' = Grown
    /\ accounts' = Append(before, [address |-> address, is_default |-> is_default])
    /\ fault' = IF Len(accounts) >= account_capacity' THEN "overrun" ELSE fault
    /\ chosen' = IF is_default THEN Len(accounts) + 1 ELSE chosen
    /\ ambiguous' = (ambiguous /\ ~is_default)
    /\ UNCHANGED loaded
BothMarked(address, is_default) ==      \* mutant: the account that was the default stays marked
    Added(address, is_default, accounts)
add_account_existing(address, is_default) ==
    Added(address, is_default,
          IF is_default THEN [i \in DOMAIN accounts |-> Unmarked(accounts[i])] ELSE accounts)
(* The first account with the address goes; one without any on the way to it  *)
(* is compared all the same.                                                  *)
remove_account(address) ==
    \E i \in DOMAIN accounts :
        /\ accounts[i].address \in {address, NULL} /\ \A j \in 1..(i - 1) : accounts[j].address \notin {address, NULL}
        /\ \/ /\ accounts[i].address = NULL
              /\ fault' = "unaddressed"
              /\ UNCHANGED <<accounts, account_capacity, loaded, chosen, ambiguous>>
           \/ /\ accounts[i].address = address
              /\ accounts' = RemoveAt(accounts, i)
              /\ loaded' = IF i <= loaded THEN loaded - 1 ELSE loaded
              /\ chosen' = IF chosen = i THEN 0 ELSE IF chosen > i THEN chosen - 1 ELSE chosen
              /\ UNCHANGED <<account_capacity, ambiguous, fault>>
(* neoc_nep6_account_set_default on an account got from the wallet.           *)
set_default(i, is_default) ==
    /\ i \in DOMAIN accounts
    /\ accounts' = [accounts EXCEPT ![i].is_default = is_default]
    /\ ambiguous' = TRUE
    /\ UNCHANGED <<account_capacity, loaded, chosen, fault>>
(* neoc_nep6_wallet_from_file into the place of a wallet that was freed: the  *)
(* accounts of the file unchecked, whatever their addresses and marks, in an  *)
(* array whose capacity is not recorded.  No allocation is checked.           *)
from_json(document) ==
    \/ /\ accounts' = document /\ account_capacity' = 0 /\ loaded' = Len(document)
       /\ chosen' = first_marked(document)
       /\ ambiguous' = (\E i, j \in DOMAIN document : i # j /\ document[i].is_default /\ document[j].is_default)
       /\ UNCHANGED fault
    \/ /\ document # <<>> /\ fault' = "exhausted"
       /\ UNCHANGED <<accounts, account_capacity, loaded, chosen, ambiguous>>

Init ==
    /\ accounts = <<>> /\ account_capacity = InitialCapacity
    /\ loaded = 0 /\ chosen = 0 /\ ambiguous = FALSE /\ fault = "none"
(* Behind undefined behaviour nothing is said.                                *)
Next ==
    \/ /\ fault = "none"
       /\ \/ \E address \in Address, is_default \in BOOLEAN : add_account_existing(address, is_default)
          \/ \E address \in Address : remove_account(address)
          \/ \E i \in 1..MaxAccounts, is_default \in BOOLEAN : set_default(i, is_default)
          \/ \E document \in Document : from_json(document)
    \/ fault # "none" /\ UNCHANGED vars
Spec == Init /\ [][Next]_vars

(****************************************************************************)
(* Properties                                                                 *)
(****************************************************************************)
TypeOK ==
    /\ accounts \in Seq(nep6_account) /\ account_capacity \in Nat
    /\ loaded \in 0..Len(accounts) /\ ambiguous \in BOOLEAN /\ (ambiguous \/ chosen \in 0..Len(accounts))
    /\ fault \in {"none", "overrun", "unaddressed", "exhausted"}

(* neoc_nep6_wallet_add_account_existing: an account that was added shares    *)
(* its address with none before it, whatever the file the others came from    *)
(* repeats or leaves out; and as long as a wallet has fewer than              *)
(* FirstCapacity accounts from a file, its array has room for every account   *)
(* that is added, across doublings, removals and a capacity of 0.             *)
WithinArray ==
    /\ \A j \in (loaded + 1)..Len(accounts) : \A i \in 1..(j - 1) : accounts[i].address # accounts[j].address
    /\ loaded < FirstCapacity => fault # "overrun"

(* neoc_nep6_wallet_get_default_account: as long as at most one account of    *)
(* the file was marked and the application leaves the marks alone - or once   *)
(* an account has been added as the default, which takes back all others -    *)
(* the default is the account last made so, by adding it or in the file, and  *)
(* after it was removed the first one.                                        *)
DefaultLookup ==
    ~ambiguous => get_default_account = IF chosen # 0 THEN chosen ELSE IF accounts # <<>> THEN 1 ELSE 0
=============================================================================
