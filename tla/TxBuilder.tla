----------------------------- MODULE TxBuilder -----------------------------
(***************************************************************************)
(* The transaction builder of NeoC,                                        *)
(* src/src/transaction/transaction_builder.c, with the transactions it     *)
(* builds.  A builder copies the signers it is given; building moves them  *)
(* into the transaction, which the caller then owns while the builder      *)
(* keeps a pointer to it.                                                  *)
(***************************************************************************)
EXTENDS Transaction

CONSTANTS
    MaxSigners,     \* TX_BUILDER_MAX_SIGNERS
    MaxFee,         \* UINT64_MAX
    Blk             \* identities of blocks that hold the data of attributes

ASSUME SizeAssumption == MaxSigners \in Nat \ {0}
ASSUME FeeAssumption == MaxFee \in Nat \ {0} /\ Value \subseteq 0 .. MaxFee
ASSUME BlkAssumption == NULL \notin Blk

VARIABLES
    builder,        \* the builder, or NULL
    data,           \* the live blocks of attribute data
    reused,         \* an attribute without data was put where an address was left
    undefined       \* a block was freed that was not live

heap == <<data, reused, undefined>>
vars == <<tvars, builder, heap, work>>

slots == 1 .. MaxAttributes
Slot == [type : AttributeType \cup {NULL}, data : Blk \cup {NULL}]

(* The defaults of the last block and the network fee are not zero; the      *)
(* nonce v is random; calloc zeroes the array of attributes.                 *)
defaults(v) ==
    [f \in FieldName |-> IF f = "nonce" THEN v
                         ELSE IF f \in {"valid_until_block", "network_fee"} THEN 1 ELSE 0]

new_builder(v) ==
    [fields |-> defaults(v), script |-> NULL, signers |-> <<>>,
     attributes |-> [k \in slots |-> [type |-> NULL, data |-> NULL]], attribute_count |-> 0,
     is_signed |-> FALSE, built_transaction |-> NULL]

Init == TxInit /\ builder = NULL /\ data = {} /\ reused = FALSE /\ undefined = FALSE

neoc_tx_builder_create ==
    /\ builder = NULL
    /\ \E v \in Drawn : builder' = new_builder(v)
    /\ UNCHANGED <<tvars, heap, work>>

(* Freeing the data of the slots in K, once per slot, frees what is not live *)
(* when an address is that of no block or is in two of them.                 *)
misfreed(b, K) ==
    \E k \in K : /\ b.attributes[k].data # NULL
                 /\ \/ b.attributes[k].data \notin data
                    \/ \E j \in K \ {k} : b.attributes[j].data = b.attributes[k].data

counted(b) == 1 .. b.attribute_count

neoc_tx_builder_free ==
    /\ builder # NULL
    /\ signer' = Without(signer, Range(builder.signers))
    /\ data' = data \ {builder.attributes[k].data : k \in counted(builder)}
    /\ undefined' = misfreed(builder, counted(builder))
    /\ builder' = NULL
    /\ UNCHANGED <<mine, tx, kept, reused, work>>

(* set_version, set_nonce, set_valid_until_block and                         *)
(* set_valid_until_block_from_rpc, whose height plus increment is not zero.  *)
neoc_tx_builder_set_field(f, v) ==
    /\ builder # NULL
    /\ f \in {"version", "nonce"} \/ (f = "valid_until_block" /\ v # 0)
    /\ builder' = [builder EXCEPT !.fields[f] = v]
    /\ UNCHANGED <<tvars, heap, work>>

neoc_tx_builder_add_fee(f, v) ==
    /\ builder # NULL /\ f \in {"system_fee", "network_fee"}
    /\ builder' = [builder EXCEPT !.fields[f] = (@ + v) % (MaxFee + 1)]
    /\ UNCHANGED <<tvars, heap, work>>

(* The old script is freed first; an empty script or a failed malloc leaves  *)
(* none.                                                                     *)
neoc_tx_builder_set_script(s) ==
    /\ builder # NULL
    /\ builder' = [builder EXCEPT !.script = s]
    /\ UNCHANGED <<tvars, heap, work>>

-----------------------------------------------------------------------------
(* Signers.                                                                  *)

holes(s) == {k \in DOMAIN s : s[k] = NULL}
listed(s) == {signer[s[k]] : k \in DOMAIN s \ holes(s)}

(* Mutants: the bound is off by one; the search for a duplicate is dropped.  *)
accepts_one_more(s, a) == Len(s) <= MaxSigners /\ a \notin listed(s)
accepts_duplicate(s, a) == Len(s) < MaxSigners

accepts(s, a) == Len(s) < MaxSigners /\ a \notin listed(s)

(* A copy of the caller's signer, or one made from an account.               *)
neoc_tx_builder_add_signer(a) ==
    /\ builder # NULL
    /\ accepts(builder.signers, a)
    /\ \E x \in Sgn \ DOMAIN signer :
        /\ signer' = With(signer, x, a)
        /\ builder' = [builder EXCEPT !.signers = Append(@, x)]
    /\ UNCHANGED <<mine, tx, kept, heap, work>>

moved_first(s, k) == [j \in DOMAIN s |-> IF j = 1 THEN s[k] ELSE IF j <= k THEN s[j - 1] ELSE s[j]]

(* Where the search for a stops: in a hole an uninitialised hash is compared *)
(* and may match.                                                            *)
found(s, a) ==
    {k \in DOMAIN s : /\ s[k] # NULL => signer[s[k]] = a
                      /\ \A j \in 1 .. (k - 1) : s[j] # NULL => signer[s[j]] # a}

neoc_tx_builder_set_first_signer(a) ==
    /\ builder # NULL
    /\ \E k \in found(builder.signers, a) : builder' = [builder EXCEPT !.signers = moved_first(@, k)]
    /\ UNCHANGED <<tvars, heap, work>>

-----------------------------------------------------------------------------
(* Attributes live in a fixed array; a slot past the count keeps what it had *)
(* and an attribute without data does not clear it.                          *)

has_room(b) == b.attribute_count < MaxAttributes

stored(b, type, d) ==
    [b EXCEPT !.attributes[b.attribute_count + 1] =
                  [type |-> type, data |-> IF d = NULL THEN @.data ELSE d],
              !.attribute_count = @ + 1]

(* Storing an attribute without data takes over an address left in its slot. *)
takes_over(b) == b.attributes[b.attribute_count + 1].data # NULL

neoc_tx_builder_add_attribute(type, d) ==
    /\ builder # NULL /\ has_room(builder)
    /\ d \in (Blk \ data) \cup {NULL}
    /\ \/ /\ builder' = stored(builder, type, d) /\ data' = data \cup ({d} \ {NULL})
          /\ reused' = (reused \/ (d = NULL /\ takes_over(builder)))
       \/ /\ "oom" \in work /\ d # NULL
          /\ builder' = [builder EXCEPT !.attributes[builder.attribute_count + 1] = [type |-> type, data |-> NULL]]
          /\ UNCHANGED <<data, reused>>
    /\ UNCHANGED <<tvars, undefined, work>>

(* Mutant: the last slot in use is not moved.                                *)
unslotted_last_kept(b, k) ==
    [b EXCEPT !.attributes = [j \in slots |-> IF j >= k /\ j < b.attribute_count - 1 THEN @[j + 1] ELSE @[j]],
              !.attribute_count = @ - 1]

(* The slots after k move down by one; the last one is not cleared.          *)
unslotted(b, k) ==
    [b EXCEPT !.attributes = [j \in slots |-> IF j >= k /\ j < b.attribute_count THEN @[j + 1] ELSE @[j]],
              !.attribute_count = @ - 1]

neoc_tx_builder_set_high_priority(high) ==
    /\ builder # NULL
    /\ LET old == {k \in counted(builder) : builder.attributes[k].type = "HIGH_PRIORITY"}
           k == CHOOSE x \in old : \A y \in old : x <= y
           b == IF old = {} THEN builder ELSE unslotted(builder, k)
       IN  /\ data' = IF old = {} THEN data ELSE data \ {builder.attributes[k].data}
           /\ undefined' = (old # {} /\ misfreed(builder, {k}))
           /\ builder' = IF high /\ has_room(b)
                         THEN stored(b, "HIGH_PRIORITY", NULL) ELSE b
           /\ reused' = (reused \/ (high /\ has_room(b) /\ takes_over(b)))
    /\ UNCHANGED <<tvars, work>>

-----------------------------------------------------------------------------
(* Building.                                                                 *)

(* Mutant: the two fees are exchanged.                                       *)
unsigned_fees_swapped(b, s) ==
    [transaction([b.fields EXCEPT !["system_fee"] = b.fields["network_fee"],
                                  !["network_fee"] = b.fields["system_fee"]])
        EXCEPT !.script = s, !.signers = b.signers]

(* The transaction a builder describes; its attributes are not transferred.  *)
unsigned(b, s) == [transaction(b.fields) EXCEPT !.script = s, !.signers = b.signers]

(* Mutant: the builder keeps its pointers to the signers it handed over.     *)
handed_over_kept(b, j) == [b EXCEPT !.built_transaction = j]

handed_over(b, j) == [b EXCEPT !.signers = <<>>, !.built_transaction = j]

can_build ==
    /\ builder # NULL
    /\ builder.script # NULL /\ builder.fields["valid_until_block"] # 0 /\ builder.signers # <<>>

(* neoc_transaction_add_signer refuses signer k of s.                        *)
refused(s, k) == s[k] # NULL => \E j \in 1 .. (k - 1) : s[j] # NULL /\ signer[s[j]] = signer[s[k]]

(* The transactions building at j gives; the result of set_script is not     *)
(* looked at.                                                                *)
Unsigned(j) ==
    IF can_build /\ j \notin DOMAIN tx /\ \A k \in DOMAIN builder.signers : ~refused(builder.signers, k)
    THEN {unsigned(builder, s) : s \in {builder.script} \cup IF "oom" \in work THEN {NULL} ELSE {}}
    ELSE {}

neoc_tx_builder_build_unsigned(j) ==
    /\ \E t \in Unsigned(j) : tx' = With(tx, j, t)
    /\ builder' = handed_over(builder, j) /\ kept' = kept \cup {j}
    /\ UNCHANGED <<signer, mine, heap, work>>

(* In any of the calls that build, adding signer k fails: those before it    *)
(* are gone with the transaction, their slots are NULL and still counted.    *)
build_fail ==
    /\ can_build
    /\ \E k \in DOMAIN builder.signers :
        /\ refused(builder.signers, k) \/ "oom" \in work
        /\ \A j \in 1 .. (k - 1) : ~refused(builder.signers, j)
        /\ builder' = [builder EXCEPT !.signers = [j \in DOMAIN @ |-> IF j < k THEN NULL ELSE @[j]]]
    /\ UNCHANGED <<tvars, heap, work>>

(* The size is that of a transaction built for the purpose and freed.        *)
neoc_tx_builder_calculate_fees(j) ==
    /\ Unsigned(j) # {}
    /\ builder' = handed_over(builder, j)
    /\ UNCHANGED <<tvars, heap, work>>

(* The pointer to the built transaction must not be one the caller freed.    *)
neoc_tx_builder_sign(as) ==
    /\ builder # NULL /\ builder.built_transaction \in DOMAIN tx
    /\ as # <<>> /\ Len(tx[builder.built_transaction].witnesses) + Len(as) <= MaxWitnesses
    /\ \E n \in signing(as) :
        /\ tx' = [tx EXCEPT ![builder.built_transaction] = signed(@, as, n)]
        /\ builder' = [builder EXCEPT !.is_signed = @ \/ n = Len(as)]
    /\ UNCHANGED <<signer, mine, kept, heap, work>>

(* With an account that cannot sign, or none, the transaction is freed.      *)
neoc_tx_builder_build_and_sign(j, as) ==
    /\ Len(as) <= MaxWitnesses
    /\ \E t \in Unsigned(j), n \in signing(as) :
        LET done == as # <<>> /\ n = Len(as) IN
        /\ tx' = IF done THEN With(tx, j, signed(t, as, n)) ELSE tx
        /\ kept' = IF done THEN kept \cup {j} ELSE kept
        /\ builder' = [handed_over(builder, j) EXCEPT !.is_signed = @ \/ done]
    /\ UNCHANGED <<signer, mine, heap, work>>

(* Builds when nothing was built yet, and gives the caller only the hash.    *)
neoc_tx_builder_get_hash(j) ==
    /\ builder # NULL
    /\ \/ /\ builder.built_transaction = NULL
          /\ \E t \in Unsigned(j) :
              \/ tx' = With(tx, j, calculated(t))
              \/ "oom" \in work /\ tx' = With(tx, j, t)
          /\ builder' = handed_over(builder, j)
       \/ /\ builder.built_transaction = j /\ j \in DOMAIN tx
          /\ tx' = [tx EXCEPT ![j] = calculated(@)]
          /\ UNCHANGED builder
    /\ UNCHANGED <<signer, mine, kept, heap, work>>

(* neoc_tx_builder_create_nep17_transfer, with one signer, and               *)
(* neoc_tx_builder_create_contract_call, with any; a duplicate undoes all.   *)
neoc_tx_builder_create_call(s, as) ==
    /\ builder = NULL
    /\ Len(as) <= MaxSigners /\ IsInjective(as)
    /\ \E c \in Places(Len(as)) :
        /\ signer' = [x \in DOMAIN signer \cup Range(c) |->
                        IF x \in DOMAIN signer THEN signer[x] ELSE as[CHOOSE k \in DOMAIN c : c[k] = x]]
        /\ \E v \in Drawn : builder' = [new_builder(v) EXCEPT !.script = s, !.signers = c]
    /\ UNCHANGED <<mine, tx, kept, heap, work>>

-----------------------------------------------------------------------------

Set ==
    \/ \E f \in FieldName \cap work, v \in Value : neoc_tx_builder_set_field(f, v)
    \/ \E f \in FieldName \cap work, v \in Value : neoc_tx_builder_add_fee(f, v)
    \/ \E s \in Script \cup {NULL} : neoc_tx_builder_set_script(s)

Order == \E a \in Account : neoc_tx_builder_add_signer(a) \/ neoc_tx_builder_set_first_signer(a)

Attribute ==
    \/ \E type \in AttributeType, d \in Blk \cup {NULL} : neoc_tx_builder_add_attribute(type, d)
    \/ \E high \in BOOLEAN : neoc_tx_builder_set_high_priority(high)

Build == (\E j \in Txn : neoc_tx_builder_build_unsigned(j)) \/ build_fail

Sign ==
    \/ \E as \in Parties : neoc_tx_builder_sign(as)
    \/ \E j \in Txn, as \in Parties \cup {<<>>} : neoc_tx_builder_build_and_sign(j, as)

Call ==
    \/ "b_create" \in work /\ neoc_tx_builder_create
    \/ neoc_tx_builder_free
    \/ "b_call" \in work /\ \E s \in Script, as \in Parties \cup {<<>>} : neoc_tx_builder_create_call(s, as)
    \/ "b_set" \in work /\ Set
    \/ "b_signer" \in work /\ Order
    \/ "b_attribute" \in work /\ Attribute
    \/ "b_build" \in work /\ Build
    \/ "b_sign" \in work /\ Sign
    \/ "b_hash" \in work /\ \E j \in Txn : neoc_tx_builder_get_hash(j)
    \/ "b_fees" \in work /\ \E j \in Txn : neoc_tx_builder_calculate_fees(j)
    \/ TxNext /\ UNCHANGED <<builder, heap, work>>

(* Behind undefined behaviour nothing is said.                               *)
Next ==
    \/ ~undefined /\ Call
    \/ undefined /\ UNCHANGED vars

Spec == Init /\ [][Next]_vars

-----------------------------------------------------------------------------
(* Correctness.                                                              *)

Fields == [FieldName -> 0 .. MaxFee]

Builder ==
    [fields : Fields, script : Script \cup {NULL}, signers : Seq(Sgn \cup {NULL}),
     attributes : [slots -> Slot], attribute_count : 0 .. MaxAttributes,
     is_signed : BOOLEAN, built_transaction : Txn \cup {NULL}]

ASSUME BuilderAssumption == NULL \notin Builder

(* Every structure is well formed, and neither array of the builder is       *)
(* filled past its end, whatever the order of its calls.                     *)
TypeOK ==
    /\ DOMAIN signer \subseteq Sgn /\ Range(signer) \subseteq Account
    /\ mine \subseteq Sgn /\ data \subseteq Blk /\ reused \in BOOLEAN /\ undefined \in BOOLEAN
    /\ kept \subseteq DOMAIN tx /\ DOMAIN tx \subseteq Txn
    /\ \A i \in DOMAIN tx : /\ tx[i].fields \in Fields /\ tx[i].script \in Script \cup {NULL, Torn}
                            /\ tx[i].signers \in Seq(Sgn) /\ tx[i].attributes \in Seq(AttributeType)
                            /\ Len(tx[i].witnesses) <= MaxWitnesses
    /\ builder # NULL => builder \in Builder /\ Len(builder.signers) <= MaxSigners

(* The signers the builder points to, holes included.                        *)
Pending == IF builder = NULL THEN <<>> ELSE builder.signers

(* No signer has two owners: a pointer in a slot of the builder, in a        *)
(* transaction or in the caller's hands is to a live signer and is nowhere   *)
(* else.  neoc_tx_builder_free, neoc_signer_free and serialisation rely on   *)
(* it after every handing over, also after a build that failed half way.     *)
SignerOwnedOnce ==
    /\ \A k \in DOMAIN Pending :
        Pending[k] # NULL => /\ Pending[k] \in DOMAIN signer \ mine
                             /\ \A j \in DOMAIN Pending : Pending[j] = Pending[k] => j = k
    /\ mine \subseteq DOMAIN signer
    /\ \A i \in DOMAIN tx : \A k \in DOMAIN tx[i].signers :
        /\ tx[i].signers[k] \in DOMAIN signer \ mine
        /\ tx[i].signers[k] \notin Range(Pending)
        /\ \A j \in DOMAIN tx : \A l \in DOMAIN tx[j].signers :
            tx[j].signers[l] = tx[i].signers[k] => j = i /\ l = k

(* No account signs twice: neither a builder nor a transaction ever holds    *)
(* two signers of one account, which a node would reject.                    *)
SignersUnique ==
    /\ \A j, k \in DOMAIN Pending \ holes(Pending) : signer[Pending[j]] = signer[Pending[k]] => j = k
    /\ \A i \in DOMAIN tx : IsInjective(accounts(tx[i].signers))

(* Each of the blocks is in a slot that counts, and each address in such a   *)
(* slot is that of one of the blocks and is in no other.                     *)
Owns(b, blocks) ==
    /\ \A d \in blocks : \E k \in counted(b) : b.attributes[k].data = d
    /\ \A k \in counted(b) :
        b.attributes[k].data # NULL =>
            /\ b.attributes[k].data \in blocks
            /\ \A j \in counted(b) : b.attributes[j].data = b.attributes[k].data => j = k

(* No block of attribute data has two owners, is freed twice, is used after  *)
(* it was freed or is lost, while slots move, high priority goes on and off, *)
(* allocations fail and builders end - as long as no attribute without data  *)
(* is put into a slot that neoc_tx_builder_set_high_priority left with an    *)
(* address in it, which neoc_tx_builder_add_attribute does not clear.        *)
AttributesOwned ==
    ~reused =>
        /\ ~undefined
        /\ IF builder = NULL THEN data = {} ELSE Owns(builder, data)

(* A transaction that appears in a builder's call has exactly the fields,    *)
(* the script and the signers, in order, that the builder had been given, if *)
(* the script could be copied.                                               *)
BuiltFaithful ==
    [][builder # NULL /\ "oom" \notin work =>
        \A j \in DOMAIN tx' \ DOMAIN tx :
            builder'.built_transaction = j /\ builder'.signers # builder.signers =>
                /\ tx'[j].fields = builder.fields /\ tx'[j].script = builder.script
                /\ tx'[j].signers = builder.signers]_vars

(* Whatever was hashed or changed before, a witness that signing adds signs  *)
(* the transaction as it is at that moment, and the cached hash becomes that *)
(* - also next to witnesses that the caller adds.                            *)
SignsCurrent ==
    [][\A i \in DOMAIN tx \cap DOMAIN tx' :
        \A k \in (Len(tx[i].witnesses) + 1) .. Len(tx'[i].witnesses) :
            tx'[i].witnesses[k].signed # NULL =>
                tx'[i].witnesses[k].signed = body(tx'[i]) /\ tx'[i].hash = body(tx'[i])]_vars

-----------------------------------------------------------------------------
(* What comments and headers say and the code does not keep.                 *)

(* The pointer kept to the built transaction is one the caller owns          *)
(* (transaction_builder.c:552).  neoc_tx_builder_calculate_fees and a failed *)
(* neoc_tx_builder_build_and_sign free the transaction and keep the pointer. *)
BuiltLive == builder # NULL /\ builder.built_transaction # NULL => builder.built_transaction \in DOMAIN tx

(* The hash of a transaction is the computed one (transaction.h:54).  The    *)
(* setters leave an old hash, and neoc_transaction_get_hash returns it.      *)
CachedHash == \A i \in DOMAIN tx : tx[i].hash \in {NULL, body(tx[i])}
=============================================================================
