# Verification of NeoC

NeoC is a C library for the Neo N3 blockchain: it keeps keys and wallets, builds
and signs transactions, and talks to nodes over JSON-RPC. This directory holds
TLA+ models of its stateful core, TLC configurations that check them on small
instances, and TLAPS proofs for every instance. `PROJECT.json` maps each
definition to the source lines it models and lists runs, mutants, findings,
hazards and theorems. Paths below are relative to the repository.

## 1. Inventory

| Component | State | Operations that change it | What is hard about it |
|---|---|---|---|
| Memory layer, `src/neoc_memory.c` | list of tracked blocks, spin lock, six atomic counters, custom allocator | malloc, calloc, realloc, free, duplicates, set/reset allocator, debug calls | runs in every thread; counters are updated outside the lock; a tracking entry may fail to be allocated |
| Account, `src/wallet/account.c` | key pair, encrypted key, cached script, two flags | constructors, encrypt, decrypt, lock, NEP-6 conversion | the key exists in two forms, either may be absent; failures half way |
| Wallet, `src/wallet/wallet.c` | owning array of accounts, default pointer, file | add, import, remove, choose default, lock, convert, save, load, free | the default is kept twice (pointer and flag); loads fail half way; a save truncates first |
| Transaction, `src/transaction/transaction.c` | fields, script, signers, attributes, witnesses, cached hash | setters, add, hash, sign, clone, JSON, free | the cached hash goes stale; ownership of signers |
| Transaction builder, `src/transaction/transaction_builder.c` | fields, script, two fixed arrays, pointer to the built transaction | setters, add, reorder, build, fees, sign, hash, free | pointers move from builder to transaction; failed builds leave holes |
| NEP-6 wallet, `src/wallet/nep6.c`, `nep6/` | accounts, capacity, marks | add, remove, default look-up, file | the default is a mark on one of several; a wallet read from a file forgets its capacity |
| Stack items, `src/protocol/stack_item.c` | graph of counted references | create, refer, release, add, set | sharing, cycles, release before reference |
| Binary writer and reader, `src/serialization/` | buffer, position, capacity, mark | writes, reads, seek, mark | prefixes of several lengths; a failed write stays half written |
| libcurl's set-up, RPC client, service, `src/utils/url_session.c`, `src/protocol/` | one flag, handles, requests | create, free, send | a set-up without a lock; lost, late, empty and malformed answers |
| Block polling, `src/protocol/core/polling/` | last index told | start, poll, set, reset | a count is compared with an index; nodes lag; memory runs out |
| Objects: keys, scripts, witnesses, signers, manifests, some forty response types, contracts, arrays, texts, services | trees of owned blocks | constructors, parsers, setters, copies, destructors | each of them can fail at every step |
| Enumerations, fixed-size values, error tables, cryptography | none, or one value | | pure functions |

Interactions: every component allocates through the memory layer; a wallet owns
accounts and saves them as NEP-6; a builder owns signers until it hands them to a
transaction; accounts sign transactions; a poller asks through a Neo client, an RPC
client and libcurl, which it shares with every service; contracts use scripts and the
RPC client.

## 2. Plan

1. Done: the memory layer; accounts and wallet; transactions and builder; polling and
   requests over an unreliable network, with the refinement of an abstract follower;
   ownership in the functions that build and release objects; stack items, the binary
   writer and reader, the NEP-6 wallet.
2. Proofs: every safety property of the memory layer, the wallet, the builder, the
   network and the NEP-6 wallet that is not a sum or a recursive function over data is
   proved (section 5). `CountsAgree` would first need a release without recursion.
3. Refinement still wanted: an abstract wallet, a map from addresses to accounts with
   a chosen one, by the array and pointer of the code.
4. Pure algorithms still wanted: the integer encodings of scripts and the order of keys
   in a multi-signature script against reference definitions.

Modules meant for proofs use neither RECURSIVE operators nor bitwise operations.

## 3. Modules

| Module | Models |
|---|---|
| `NeocMemory` | `src/neoc_memory.c`, one step per shared access |
| `Account` | the operations of an account as operators on its record |
| `Wallet` | `src/wallet/wallet.c` with the accounts it owns, its caller and its file |
| `Transaction` | `src/transaction/transaction.c` and the ownership of signers |
| `TxBuilder` | `src/transaction/transaction_builder.c`, on top of `Transaction` |
| `Network` | libcurl's set-up, RPC client, service and block polling, with nodes that grow, lag and fail |
| `ChainFollower` | what following a chain promises; `Network` implements it |
| `StackItems` | `src/protocol/stack_item.c` |
| `Serialization` | `src/serialization/binary_writer.c`, `binary_reader.c` |
| `Nep6Wallet` | `src/wallet/nep6.c` |
| `Procedures` | the steps that functions on owned objects are made of |
| `Ownership` | runs one procedure and its caller, every step failing or not |
| `Encodings`, `Keys`, `KeyDerivation`, `ScriptObjects`, `Witnesses`, `Manifests`, `Responses`, `TokenResponses`, `LedgerResponses`, `StateResponses`, `NodeResponses`, `Accounts`, `Transactions`, `RpcClient`, `Contracts`, `Collections`, `Services` | the functions of the library as procedures, 488 of them in tables |
| `MCNeocMemory`, `MCWallet`, `MCTxBuilder`, `MCNetwork`, `MCStructures`, `MCOwnership` | instances for TLC |
| `NeocMemoryProofs`, `MemoryListProofs` | theorems on `NeocMemory`: types and the lock; blocks, list and count |
| `WalletProofs`, `WalletContentProofs` | theorems on `Wallet`: owners and the default; contents, keys, flags and loads |
| `TxBuilderProofs`, `TxContentProofs` | theorems on `TxBuilder`: owners; contents and signatures |
| `NetworkProofs`, `Nep6WalletProofs` | theorems on `Network`, with the refinement of `ChainFollower`, and on `Nep6Wallet` |

**NeocMemory.** `alloc_head`, `alloc_lock`, `stats` and `custom_allocator` are the
file's globals. `heap` is the C heap, which may refuse any request, and `user` the
pointers callers hold with the bytes they asked for. Each thread has a `pc` and the
locals of its call. Every atomic operation on a counter, every access to the list
inside a critical section, and every use of the allocator is a step of its own, so
TLC interleaves them as hardware would under sequential consistency. Sizes are
modulo `SizeMod`. `custom_allocator` is not atomic in the code; the model treats
each read and each assignment of the structure as one step. `neoc_memory_debug_disable`
stores 0 into one counter after the other; several callers may be inside it, so that at
any moment any counter may be the next.

**Account and Wallet.** A private key is named by the address it derives and a
script by the address it hashes to, so "the key belongs to the account" is an
equality. NEP-2 is ideal: the right passphrase gives the key, a wrong one an error.
Encrypted keys are those of the account they are stored with (`OwnKeys`), because
decryption does not compare the address of what it gets (`account.c:1476-1511`); what a
foreign key would lead to is outside the model. A contract in a document that cannot be
decoded leaves the account without a script.
An operation that may fail returns the set of its outcomes. In `Wallet`, `heap` holds
the account objects, `held` those the caller owns, `accounts` the wallet's array.
Loading takes one step per account of the document and saving has a step between the
`fopen` that truncates and the `fwrite`; `crash` may come between any two. A refused
`neoc_wallet_import` makes an account and frees it within one call; the wallet is used by
one thread, so that this leaves no trace and is no step.

**Transaction and TxBuilder.** Signers are heap objects because their ownership is
what can go wrong: `signer` maps live ones to accounts, `mine` is the caller's,
`kept` the transactions the caller must free. A hash is the content it was computed
from, so a stale hash differs from a fresh one. A nonce is drawn (`Drawn`), and a caller
may add witnesses of its own to a transaction before and after signing. `NULL` in
`builder.signers` is a slot a failed build emptied. `data` holds the live blocks of
attribute data. The builder's attribute array keeps slots beyond its count, with the
addresses in them, as the code does: an attribute without data stored in such a slot
takes the address over, which `reused` records. The data is freed slot by slot, so that
an address in two slots, or in none that is live, is a `misfreed` one; `undefined`
records that and nothing is said after it.

**Network and ChainFollower.** `initialized` is the static flag of `ensure_curl_init`
and `curl` whether `curl_global_init` has not run, is running or has ended; reading the
flag, entering and leaving libcurl and setting the flag are steps of their own, since the
code has no lock. libcurl has one from version 7.84 on, and a second caller waits for it.
`CMakeLists.txt:58` asks for no version, so a workload has an older libcurl, in which a
second caller comes back at once or goes in as well, which `raced` records. A request is on
`wire[t]` until libcurl ends it with an answer, an error or the timeout. Several nodes
may serve one address, so that a count can be lower than the one before. An answer is
reduced to its status and to what its members `error` and `result` are. An empty body
leaves the RPC client with an uninitialized buffer; the model lets it read nothing that
parses or the text of its last answer. When a transfer timed out or failed, libcurl has
closed its connection and a late answer is not read; this is libcurl's promise, not the
library's, which never compares the number in an answer. `ChainFollower` has only
`blocks` and `told`: an application sets out at a block that some node has (`Exists`) and
hears of consecutive indexes up to the one some node has next (`Due`). The refinement
mapping is the identity on these two variables, so every request, failure, timeout and
set-up step must leave them alone or be a step of the follower.

**Procedures and Ownership.** Most of the library makes objects field by field and
undoes its work when a step fails. A function is written as the sequence of its
allocations, checks, hand-overs and releases, each with the clean-up of its failure;
calls are inlined with the callee's places seen from the caller. `Ownership` executes
a procedure chosen in the initial state: each allocation succeeds or not, each check
passes or not, and then the caller releases what it owns. `heap` knows the allocator of
each block. Where a function departs from the discipline the procedure says so as the
code does, and `MCOwnership` names it in the set of the property it breaks (`Leaks`,
`FreesTwice`, `CrossesAllocators`, `ReadsWild`); all others are held to it. Conventions: attaching to a cJSON tree never fails; adjacent checks with
the same clean-up are one; a check that cannot fail after those before it is left out;
arrays have at most `Items` elements and inputs at most `Absences` absent parts;
destructors go over the elements that are there; a service has no table of functions of
its own and a callback releases the response it is given.

**StackItems, Serialization, Nep6Wallet.** Items are addresses with a count and a
sequence of children; releasing is recursive as in the code. `undefined` records a
write to freed memory, or behind an array, and nothing is said after it. A byte is a
digit to base `Base`; the last three digits are the prefixes of lengths, so all ends of
ranges are met with small numbers. `torn` counts writes that failed and left a part.
A NEP-6 wallet is read from any of the files in `Document`, which may repeat an address,
leave one out and mark several accounts, since the code checks nothing of it. `loaded` is
the number of accounts from the file; `chosen` is the account last made the default;
`ambiguous` says that marks were set which no call took back, by the file or by the
application; `fault` names undefined behaviour (a store behind the array, a comparison
with a missing address, an allocation that was not checked), and nothing is said after it.
What saving writes does not parse for most wallets (section 7), so reading takes its
files from outside.

**Workloads.** Each instance covers several kinds of programs. `work` is chosen in
the initial state and never changes: it enables groups of calls and failures, and
bounds what would be unbounded. A property with a hypothesis ("as long as the
allocator is not exchanged") is conditioned on `work`. The proofs hold for every
workload.

## 4. Runs

| Run | Checks | Instance |
|---|---|---|
| `memory_threads` | `TypeOK`, `MutualExclusion`, `ListFaithful`, `QuietExact`, `QuietBalanced`, `NoUnderflow`, `RequestHonoured`, `NoPhantomLeak` | 2 threads, 2 addresses, 1 to 3 calls each, 4 workloads |
| `memory_live` | `CallsReturn` | as above, 2 workloads, no symmetry |
| `wallet_calls` | `TypeOK`, `DefaultLive`, `Ownership`, `AddressesUnique`, `DefaultFlag`, `SignsForItself`, `LoadFaithful`, `KeyKept` | 2 to 4 live accounts, 3 addresses, 2 passphrases, capacity 1, 4 workloads |
| `builder_ownership` | `TypeOK`, `SignerOwnedOnce`, `SignersUnique`, `AttributesOwned`, `SignsCurrent`, `BuiltFaithful` | 4 signers, 2 transactions, 3 accounts of which 1 can sign, 2 blocks of attribute data, 2 values per field with fees that wrap, 6 workloads |
| `network` | `SetUpBeforeUse`, `Contiguous`, `FollowsChain`, `NeverStale`, `CallsReturn`, `EveryBlockTold` | 1 poller, 2 callers, 2 nodes, 3 blocks, 6 workloads |
| `ownership` | `NoLeak`, `FreedOnce`, `SameAllocator`, `NothingWild` | 488 procedures, arrays of at most 2, at most 2 absent parts |
| `structures` | `WithinRoom`, `WithinArray`, `CountsAgree`, `NothingLost`, `OwnedIsSafe`, `RoundTrip`, `DefaultLookup` | 3 items with 2 values; base 8, 2 writes; 4 addresses, at most 4 accounts, 5 files; one structure per behaviour |
| `memory_calloc_wrap`, `wallet_save`, `builder_dangling`, `tx_hash_stale`, `network_early` | one property each that the code does not keep | see section 7 |

What they show:

- *Memory.* Under every interleaving the list holds exactly live blocks, once each;
  between calls the counters equal the heap; while calls overlap `current_usage`
  never wraps and `neoc_get_allocation_count` never reports more blocks than were
  outstanding when it began. Every call returns.
- *Wallet.* After any mix of calls, failed loads and crashes, the default is a
  member of the wallet, every account has one owner, addresses are unique, the flag
  and the pointer agree, and a load gives the accounts and the default of its document.
  A wrong passphrase never installs a key and no call loses the only form of one.
- *Transactions.* A signer never has two owners, also after builds and clones that
  fail half way; no account signs twice; a built transaction has what the builder
  was given, fees as they are after wrapping; signing signs the current content, whatever
  was hashed before and whatever witnesses the caller added. Every block of attribute data
  is in one slot in use and is freed once, however slots move, until the builder puts an
  attribute without data where an old address was left.
- *Network.* No thread reaches a handle before libcurl is set up, though the flag has
  no lock: always with a libcurl that locks, and with an older one as long as no two
  threads are in `curl_global_init` at once. Whatever is lost, late, repeated or out of
  memory, an application hears of every index once and in order, and of none behind the
  next block; an answer never serves another call, but for the empty body; calls return;
  every block is told. `network_early` shows that the last index told may have no block yet.
- *Ownership.* On every path through 488 functions, at each step that may fail, blocks
  are released once, by the allocator they came from, and none is left, except in the
  functions `MCOwnership` lists in `Leaks`, `FreesTwice`, `CrossesAllocators` and
  `ReadsWild`, one set per property. These do what the property forbids; several hazards
  of `PROJECT.json` are about them and are therefore guarded by no property.
- *Structures.* Counts equal references under any sharing, with none to what was freed;
  what the application owns survives even a misuse of `stack_item_map_set`; and nothing is lost unless
  it was put below itself; what is written is read back or not at all. A NEP-6 wallet with
  fewer accounts from a file than `FirstCapacity` has room for every account that is added,
  and no added account repeats an address; the default is the one last made so, across
  additions, removals and files, where marks are not set by other means.

Bounds. Two threads and two addresses give every race on the list and on one
address freed and reused; a third call lets one thread allocate, free and allocate
while the other is inside a call. Initial capacity 1 makes the wallet's array grow
twice. Three addresses let the default be first, middle and last when one is
removed; four objects add one the caller holds. Two slots for signers and three for
attributes are the smallest with a first, a last and (for attributes) a middle one.
Two blocks of data let one be freed and its address be used again while another is live.
The workloads that set values have one transaction and two signers at a time (`Few`).
`MaxFee` = 1 makes fees wrap. All four limits (capacity, signers, attributes,
witnesses) are reached. Two nodes are enough for one to lag, three blocks for a poll
that tells two at once behind one that told one. Three items make every shape of
sharing between two containers and a value, and cycles of up to three. Base 8 puts the
ends of all four ranges of lengths within reach. `FirstCapacity` = 3 lets a file have as
many accounts, which makes the next one overrun the array, or fewer, which does not. Two elements tell the first from the
last, and a loop that fails at the second has something to undo. `MaxWitnesses` and the call bounds are the model's; the code
has no such limit.

Deadlock is checked everywhere. `Finished` in `NeocMemory` is the state in which the
bound on calls is used up.

Fairness. `memory_live` assumes weak fairness of each thread's steps inside a call:
the operating system schedules every runnable thread. Weak fairness is enough only
because the number of calls is bounded: a spin lock gives no guarantee against
overtaking by a thread that calls for ever, and nothing here claims one. No thread is
obliged to call.

`network` assumes weak fairness of `TimedOut` (libcurl's clock runs) and of `Create` (a
thread that sets libcurl up runs on); this is what `CallsReturn` rests on, and it is
claimed only where no timeout of 0 was set. `EveryBlockTold` needs the world as well:
nodes hear of blocks (weak, `NewBlock`), the application goes on polling (weak, `Ask`),
and now and then a node answers in time and the answer is read with memory to spare
(strong, `NodeCounts` and `Start` or `PollOnce`). Strong fairness is needed because a
timeout disables the answer again and again. These are assumptions about the
environment, not about the library, and the property says nothing without them.

## 5. Proofs

TLAPS checks these for all values of the constants that meet the named assumptions,
all workloads, and unbounded numbers of threads, accounts, signers and calls.

| Theorem | States | Inductive invariant |
|---|---|---|
| `NeocMemoryProofs!Exclusion` | `[]MutualExclusion` | `LockInv`: the labels are labels, and exclusion itself |
| `NeocMemoryProofs!TypeCorrect` | `[]TypeOK` | `TypeInv`: `TypeOK`, and a call past its allocation has a pointer that is not NULL |
| `MemoryListProofs!RequestsHonoured` | `[](NoWrap => RequestHonoured)` | `BlockInv`: every live block has one owner, a caller or a call, and room for the request |
| `MemoryListProofs!ListIsFaithful` | `[]ListFaithful` | `BlockInv`, `LockInv` and `ListInv`: what each call in progress knows of its block and of the list |
| `MemoryListProofs!NeverOverstated` | `[]NoPhantomLeak`, while `FreesFit` | `TypeInv` and the property |
| `WalletProofs!OwnedOnce` | `[]Ownership` | `OwnInv`: shape, `Ownership` and `DefaultLive` together |
| `WalletProofs!DefaultNeverDangles` | `[]DefaultLive` | the same |
| `WalletContentProofs!TypeCorrect` | `[]TypeOK` | `TypeInv`: `OwnInv`, `TypeOK`, and an open wallet has a capacity |
| `WalletContentProofs!LookupUnambiguous` | `[]AddressesUnique` | `TypeInv` and the property |
| `WalletContentProofs!FlagFollowsPointer` | `[]DefaultFlag` | `TypeInv`, and `FlagOK` in programs that leave the flag alone |
| `WalletContentProofs!KeyNeverLost` | `KeyKept`, an action property | `TypeInv` |
| `WalletContentProofs!SignaturesMatch` | `[]SignsForItself`, if documents carry own keys | `SoundInv`: accounts, document and file hold no foreign key |
| `WalletContentProofs!LoadsWholeDocument` | `LoadFaithful`, an action property | `TypeInv` and `LoadInv`: what a load has read is the beginning of its document |
| `TxBuilderProofs!SignersHaveOneOwner` | `[]SignerOwnedOnce` | `IInv`: shape of the records that hold pointers, and `SignerOwnedOnce` |
| `TxContentProofs!StructuresWellFormed` | `[]TypeOK` | `ContentInv`: types, owned attribute data, and distinct accounts among signers |
| `TxContentProofs!AccountsSignOnce` | `[]SignersUnique` | the same |
| `TxContentProofs!AttributesHaveOneOwner` | `[]AttributesOwned` | the same |
| `TxContentProofs!BuiltAsDescribed` | `BuiltFaithful`, an action property | the same |
| `TxContentProofs!WitnessesSignCurrent` | `SignsCurrent`, an action property | the same |
| `NetworkProofs!SetUp` | `[]SetUpBeforeUse` | `SetUpInv`: types, and without a race one thread is inside `curl_global_init` while it runs, and libcurl is up for a thread about to set the flag or to allocate |
| `NetworkProofs!NoneSkipped` | `[]Contiguous` | `Inv`: `ChainInv` and `FollowInv` |
| `NetworkProofs!NoneInvented` | `[]AtMostOneAhead` | the same |
| `NetworkProofs!AnswersAreFresh` | `NeverStale`, an action property | `Inv` and `FreshInv`: a connection is empty between calls and holds nothing older than its request |
| `NetworkProofs!Implements` | `FollowsChain`, the specification of `ChainFollower` | `Inv`, in both states of a step |
| `Nep6WalletProofs!DefaultIsChosen` | `[]DefaultLookup` | `Inv`: types, added addresses are new, room, and without ambiguity the chosen account alone is marked |
| `Nep6WalletProofs!AddedWithinArray` | `[]WithinArray` | the same |

Assumptions. Those on constants are named in the modules that declare them and are met
by the code: NULL is no address, capacities and widths are not 0, fees fit their width.
Four theorems have a hypothesis of their own. `RequestsHonoured` is about programs in
which no product of `neoc_calloc` that wraps is handed to a custom allocator; without
it the statement is false, as `memory_calloc_wrap` shows. `NeverOverstated` holds as
long as `free_count` has not wrapped. `SignaturesMatch` asks of the files of other
programs that each account carries its own key. `AnswersAreFresh` asks that the two
constants for a connection with and without a request differ.

### The memory layer

`Exclusion`: every call enters outside the critical sections (`CallEnters`), and of
all steps only the acquisition enters one, which needs the lock to be free.

`TypeCorrect`: entries and callers receive the pointer in a call's locals, which may be
NULL at first, so the invariant adds at which labels it is not. `CallBegins` covers the
calls, `StepTypes` the form every later step has, and there is a lemma for the list,
the heap and the counters.

`RequestsHonoured`: that a caller's block is live is not inductive, since a call of
another thread may be about to free what it holds. `Live` therefore gives every block
one owner: callers own what is in `user`, and a call owns its `ptr` from the label at
which it got it to the label at which it gave it back (`Owns`). `Room` adds that the
block is as large as what was asked. `OwnStep`, `GiveStep` and `ReturnStep` are the
three ways in which owners change, and each action is one of them.

`ListIsFaithful`: between reading `alloc_head` and writing it, a call holds a copy of
the list, and between unlinking and freeing, a block is live and not listed. `CallInv`
says what holds of a call at each label: where its block is certainly not listed, where
the size it remembers is the size the heap has, and that the copy it is about to write
is the list (exclusion) or the list without its own block. `ListStep` shows that other
calls keep theirs because blocks have one owner; `RemoveAtElements` and `RemoveAtKeeps`
are about unlinking. It is claimed for programs that leave the allocator alone, as the
property is.

`NeverOverstated`: `free_count` only grows, so the value loaded last is at least the
one at the beginning; allocations between the loads are not counted.

### The wallet

`OwnedOnce` and `DefaultNeverDangles` need each other: removing an account keeps the
default alive only because accounts are not in the array twice, and choosing a
default changes no owner only because the default is a member. Lemmas on `Append` and on the
shift loop say what happens to the set of members; there is one step per call.

`TypeCorrect` of the contents rests on these: it says in addition that the array fits
its capacity. `ContentStep` lists how a call may change an account; `KeyNeverLost`,
`SignaturesMatch` and the part of `FlagFollowsPointer` about single accounts follow from
it. `LookupUnambiguous` needs that addresses never change and that the calls that
extend the array look the address up first. `FlagFollowsPointer` has a step for removal
(which elects a new default), choosing, adding and loading. `LoadsWholeDocument` compares
the array with the part of the document read so far; `ElectedIn` says which of the
accounts read so far is the default.

### Transactions

`SignersHaveOneOwner` has a lemma per call. `Frame` covers those that move no
pointer, `HandOver` those that build, `Appears` those that add a transaction with
fresh signers. The shape is needed because an update of a record field is only
meaningful if the record has it. The content theorems use the owners: a signer freed
with one structure is in no other, so that the signers the others hold keep their
accounts. `AttributesHaveOneOwner` has a lemma each for storing in the next slot, for
closing the gap of a removed one and for freeing (`StoredOwns`, `UnslottedOwns`,
`Freeable`). Storing keeps the property unless an attribute without data takes an address
over (`takes_over`), which is its one exception. The property is inductive with the types.

### The network

`SetUp` holds although the flag may be stale: a thread that reads it as unset only calls
`curl_global_init` once more, and the flag is written behind it. It needs that a second
caller does not come back while the first is inside: this is libcurl's lock, and without
it the hypothesis `~raced`, which the property has for an older libcurl.

`NoneSkipped` and `NoneInvented` need to know of every count that can still arrive.
`ChainInv` says that what is on a connection, or left in the buffer of a former answer,
is at most what some node has (chains only grow, `KnownKept`), and `FollowInv` that the
indexes told are consecutive, end with the current index and are known to a node. One
lemma each covers `Start`, `PollOnce` and the steps that leave a poller alone.
The run has no invariant for `NoneInvented`, which `FollowsChain` implies.
`Implements` adds per action that it is `Grow`, `SetOut`, `Tell` or a stutter. The
follower promises no index behind the next block, not that the block exists: that is false
(`network_early`).

`AnswersAreFresh`: every way out of a call empties the connection (`FreshReturn`), so a
request meets no answer of an earlier one; and an answer, made while the call waits, is
at least what the slowest node had when it began, since chains grow. That the slowest
node is the slowest (`SlowestLeast`) follows from the well-foundedness of the naturals.

### The NEP-6 wallet

Files may hold anything, so nothing can be said of the addresses that came from one; an
added account differs from all before it (`Fresh`), and removals keep that.
`AddedWithinArray` needs `Sized`: a known capacity is large enough, and one that was lost
when the wallet was read belongs to an array of `loaded` accounts. `DefaultIsChosen` rests
on `ChosenOnly`: as long as there is no ambiguity, an account is marked if and only if it
is the chosen one. Adding an account as the default takes back all marks and so ends an
ambiguity.

### Only model-checked

- Liveness: `CallsReturn` and `EveryBlockTold`. The prover has no rules for fairness.
- `QuietExact`, `QuietBalanced` and `NoUnderflow` compare a counter with a sum over all
  blocks or threads, which needs induction over a set. `NoUnderflow` moreover depends on
  the bounds: the code's counters wrap after enough calls.
- `RoundTrip`: digits and prefixes are computed recursively.
- `CountsAgree`, `NothingLost`, `OwnedIsSafe` and `WithinRoom` involve `StackItems`,
  whose release is recursive.
- The properties of `Ownership`, which concern the procedures there are. There is no
  parameter to generalise over, so the run is the whole statement, up to the lengths of
  arrays.

## 6. Hazards

`PROJECT.json` lists them by line with the properties that guard them. A hazard without
a property has a note that says why: the code does what the hazard describes and is
excepted by name, or no document says what should happen. A note beside properties says
which part of the hazard they leave out. Of hazards that repeat in many
functions (a failure half way through a constructor) one stands for all.

## 7. Where code and documents part

Five are shown by runs with expected violations:

- `memory_calloc_wrap`: with a custom allocator `neoc_calloc` passes on a product
  that wrapped (`src/neoc_memory.c:136`).
- `wallet_save`: the JSON of a wallet with accounts has a bracket too many, so what
  was saved cannot be loaded (`src/wallet/nep6.c:506`), against the wallet test.
- `builder_dangling`: `neoc_tx_builder_calculate_fees`, and a `build_and_sign` whose
  signing fails, leave a pointer to a freed transaction
  (`src/transaction/transaction_builder.c:503`).
- `tx_hash_stale`: setters do not forget the cached hash, which
  `neoc_transaction_get_hash` returns (`src/transaction/transaction.c:375`).
- `network_early`: `neoc_block_index_polling_poll_once` takes the number of blocks for the
  last index and tells an index that has no block yet (`block_index_polling.c:94`), against
  the comments of `block_index_polling.h`; `start` subtracts one.

Others are in the models as the code has them, without a run of their own:

- `neoc_free` counts a free for a block of a custom allocator that was never counted
  as allocated, once the allocator is reset (`src/neoc_memory.c:221`), and
  `neoc_realloc` of an untracked block leaves the count high (`:192`).
- `neoc_memory_debug_disable` zeroes the counters while blocks are live (`:361`);
  `neoc_memory_debug_get_stats` subtracts without the test its sibling has (`:385`).
- `neoc_malloc` is documented to zero its block and does not.
- `neoc_wallet_lock_all` and `neoc_wallet_unlock_all` ignore the passphrase
  (`src/wallet/wallet.c:365`, `:381`).
- `neoc_tx_builder_get_hash` builds a transaction nobody frees
  (`src/transaction/transaction_builder.c:633`); attributes are never transferred to the
  transaction (`:540`); the result of copying the script is ignored (`:538`); a slot
  reused for an attribute without data keeps the old pointer (`:354`), and freeing the
  builder frees it again (`:891`); fees wrap without a check (`:409`).
- `neoc_transaction_free` frees the array of signers but not the signers
  (`src/transaction/transaction.c:556`).
- A witness made from a signature carries `0x21 key 0xAC`, which is not the
  verification script of the account (`src/transaction/witness.c:93`).
- The RPC client parses its buffer although an empty body never wrote to it
  (`rpc_client.c:193`), and never compares the number of an answer.
- A service's `auto_retry` and `max_retries` (`include/neoc/protocol/service.h:52`) and
  an HTTP service's headers are stored and not used.
- `neoc_array_insert` moves elements before it allocates, so that a failure leaves one
  twice and the last behind the count (`src/utils/array.c:126`).
- `neoc_ec_key_pair_free` leaves the EC_KEY (`src/crypto/ec_key_pair.c:336`) and
  `neoc_account_free` the verification script.
- `neoc_neo_c_build` loses the configuration when the client cannot be made
  (`src/protocol/neo_c.c:64`); the asynchronous calls of Neo Express lose the request
  (`src/protocol/neo_c_express.c:72`).
- Several response constructors that adopt a result free it when they fail later, while
  the caller still holds it; RPC getters lose the JSON tree of an answer of the wrong type.
- Buffers of the binary writer come from `malloc` and are released with `neoc_free`;
  smart contracts the other way round; texts of cJSON are released with `neoc_free` by
  `neoc_service_send_request` (`src/protocol/service.c`).
- `stack_item_map_set` releases the old value before it refers to the new one, so
  setting a key to the value it has frees it (`src/protocol/stack_item.c:464`).
- A NEP-6 wallet read from a file has capacity 0 (`src/wallet/nep6.c:186`), so that with
  four accounts or more the next one is stored behind the array; its accounts are neither
  compared with each other nor required to have an address (`:601`);
  `neoc_nep6_account_decrypt_private_key` uses the default parameters of scrypt where
  `neoc_nep6_wallet_add_account` encrypts with those of the wallet.
- A contract parameters context never becomes complete
  (`src/transaction/contract_parameters_context.c:124`).
- `neoc_byte_array_from_hex_string` and `neoc_byte_array_pad` leave the length at 0.
- The JSON of a transaction is cut at 4095 characters (`src/transaction/transaction.c:789`).

## 8. Not modelled

Names, labels, versions and texts; bytes of serialised forms other than those of
`Serialization`; cryptography, which appears as ideal functions; the analysis of
scripts in `neoc_account_create_from_verification_script` (both outcomes are allowed);
weak memory orderings; argument checks for NULL that change nothing. Sums of sizes in
the binary reader and writer that wrap need buffers no machine has.

In the procedures, what fields contain: a text is a block. Functions that only read,
compare or convert in a caller's buffer are left out of the tables.

Not modelled at all, with the reason in `PROJECT.json`: enumerations and tables, values
of fixed size, error tables and the thread-local error, `neoc_array.c`,
`response_types.c` (structures nothing fills), the publishers of the reactive extension
(not implemented), the hash functions, the command line tools and examples, and the
sources `CMakeLists.txt` excludes (`neo_transaction.c`, `protocol/response/`, some of
`protocol/core/response/`).
