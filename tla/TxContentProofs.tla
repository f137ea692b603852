-------------------------- MODULE TxContentProofs --------------------------
(***************************************************************************)
(* What builders and transactions hold, for any number of accounts,        *)
(* signers, transactions and slots and any sequence of calls: every        *)
(* structure stays well formed and within its arrays, no account signs     *)
(* twice, a transaction is built exactly as the builder describes it, and  *)
(* a witness signs the transaction as it is when it is added.  The proofs  *)
(* build on the single owner of every signer, TxBuilderProofs.             *)
(***************************************************************************)
EXTENDS TxBuilderProofs, FiniteSetTheorems

List(w) == \E S : w \in Seq(S)

TxTyped(t) ==
    /\ TxShape(t) /\ t.fields \in Fields /\ t.script \in Script \cup {NULL, Torn}
    /\ t.attributes \in Seq(AttributeType) /\ List(t.witnesses) /\ Len(t.witnesses) <= MaxWitnesses

BuilderTyped(b) == b \in Builder /\ Len(b.signers) <= MaxSigners

(* What TypeOK says beyond the shapes of the records.                        *)
SignerTyped == \A x \in DOMAIN signer : signer[x] \in Account
TxsTyped == DOMAIN tx \subseteq Txn /\ \A i \in DOMAIN tx : TxTyped(tx[i])
Typed ==
    /\ IInv /\ KeptLive
    /\ SignerTyped /\ TxsTyped /\ data \subseteq Blk
    /\ builder # NULL => BuilderTyped(builder)

-----------------------------------------------------------------------------
(* The operators on transactions.                                            *)

(* Witnesses appended to witnesses.                                          *)
LEMMA Joined ==
    ASSUME NEW w, NEW v, List(w), List(v)
    PROVE  /\ List(w \o v) /\ Len(w \o v) = Len(w) + Len(v) /\ Len(w) \in Nat /\ Len(v) \in Nat
           /\ \A k \in 1 .. Len(w \o v) : k > Len(w) => k - Len(w) \in 1 .. Len(v) /\ (w \o v)[k] = v[k - Len(w)]
  <1>1. PICK S : w \in Seq(S)
    BY DEF List
  <1>2. PICK T : v \in Seq(T)
    BY DEF List
  <1>3. w \in Seq(S \cup T) /\ v \in Seq(S \cup T)
    BY <1>1, <1>2
  <1>4. w \o v \in Seq(S \cup T)
    BY <1>3
  <1> QED
    BY <1>3, <1>4 DEF List

(* A witness after witnesses.                                                *)
LEMMA OneMore ==
    ASSUME NEW w, NEW a, List(w)
    PROVE  /\ List(Append(w, a)) /\ Len(w) \in Nat /\ Len(Append(w, a)) = Len(w) + 1
           /\ Append(w, a)[Len(w) + 1] = a
  <1>1. PICK S : w \in Seq(S)
    BY DEF List
  <1>2. w \in Seq(S \cup {a}) /\ a \in S \cup {a}
    BY <1>1
  <1> QED
    BY <1>2 DEF List

(* No more accounts sign than are given.                                     *)
LEMMA SigningBound ==
    ASSUME NEW ps \in Seq(Account), NEW n \in signing(ps)
    PROVE  n \in 0 .. Len(ps)
  <1> DEFINE able == {k \in DOMAIN ps : \A j \in 1 .. k : ps[j] \in Keyed}
  <1>1. Len(ps) \in Nat /\ able \subseteq 1 .. Len(ps)
    OBVIOUS
  <1>2. IsFiniteSet(1 .. Len(ps)) /\ Cardinality(1 .. Len(ps)) = Len(ps)
    <2> DEFINE l == Len(ps)
    <2>1. l \in Int /\ l >= 0 /\ 1 \in Int
      BY <1>1
    <2> HIDE DEF l
    <2>2. IsFiniteSet(1 .. l) /\ Cardinality(1 .. l) = IF 1 > l THEN 0 ELSE l - 1 + 1
      BY <2>1, FS_Interval
    <2>3. Cardinality(1 .. l) = l
      BY <2>1, <2>2
    <2> QED
      BY <2>2, <2>3 DEF l
  <1> HIDE DEF able
  <1>3. Cardinality(able) \in Nat /\ Cardinality(able) <= Len(ps)
    BY <1>1, <1>2, FS_Subset, FS_CardinalityType, Zenon
  <1>4. n \in 0 .. Cardinality(able)
    BY <1>3 DEF signing, able
  <1> QED
    BY <1>1, <1>3, <1>4

(* The witnesses the first n accounts add.                                   *)
Witnesses(ps, h, n) == [k \in 1 .. n |-> neoc_witness_create_from_signature(ps[k], h)]

(* They are n, and each signs the hash.                                      *)
LEMMA NewWitnesses ==
    ASSUME NEW ps, NEW h, NEW n \in Nat
    PROVE  LET v == Witnesses(ps, h, n)
           IN  List(v) /\ Len(v) = n /\ \A k \in 1 .. n : v[k].signed = h
  <1> DEFINE v == [k \in 1 .. n |-> neoc_witness_create_from_signature(ps[k], h)]
             S == {neoc_witness_create_from_signature(ps[k], h) : k \in 1 .. n}
  <1>1. v \in Seq(S)
    OBVIOUS
  <1>2. List(v)
    BY <1>1, Zenon DEF List
  <1>3. Len(v) = n
    OBVIOUS
  <1>4. \A k \in 1 .. n : v[k].signed = h
    BY DEF neoc_witness_create_from_signature
  <1> QED
    BY <1>2, <1>3, <1>4 DEF Witnesses

(* What signing makes of a transaction.                                      *)
LEMMA SignedParts ==
    ASSUME NEW t, TxShape(t), NEW ps, NEW n
    PROVE  LET s == signed(t, ps, n) IN
           /\ s.fields = t.fields /\ s.script = t.script /\ s.signers = t.signers /\ s.attributes = t.attributes
           /\ ps # <<>> => s.hash = body(t)
           /\ s.witnesses = t.witnesses \o Witnesses(ps, body(t), n)
  BY Zenon DEF signed, signed_hash, TxShape, TxParts, Witnesses

(* Signing within the bound keeps a transaction well formed.                 *)
LEMMA SignedTyped ==
    ASSUME NEW t, TxTyped(t), NEW ps, NEW n \in Nat, Len(t.witnesses) + n <= MaxWitnesses
    PROVE  TxTyped(signed(t, ps, n))
  <1> DEFINE v == Witnesses(ps, body(t), n)
             s == signed(t, ps, n)
  <1>1. TxShape(t) /\ List(t.witnesses)
    BY DEF TxTyped
  <1>2. TxShape(s)
    BY <1>1, Signed
  <1>3. /\ s.fields = t.fields /\ s.script = t.script /\ s.attributes = t.attributes
        /\ s.witnesses = t.witnesses \o v
    BY <1>1, SignedParts
  <1>4. List(v) /\ Len(v) = n
    BY NewWitnesses
  <1> HIDE DEF v, s
  <1>5. List(s.witnesses) /\ Len(s.witnesses) = Len(t.witnesses) + n
    BY <1>1, <1>3, <1>4, Joined, Zenon
  <1> QED
    BY <1>2, <1>3, <1>5 DEF TxTyped, s

(* Hashing changes the hash only.                                            *)
LEMMA CalculatedTyped ==
    ASSUME NEW t, TxShape(t)
    PROVE  LET c == calculated(t) IN
           /\ TxTyped(t) => TxTyped(c)
           /\ c.fields = t.fields /\ c.script = t.script /\ c.signers = t.signers
           /\ c.attributes = t.attributes /\ c.witnesses = t.witnesses
  <1> DEFINE c == calculated(t)
  <1>1. /\ c.fields = t.fields /\ c.script = t.script /\ c.signers = t.signers
        /\ c.attributes = t.attributes /\ c.witnesses = t.witnesses
    BY DEF calculated, TxShape, TxParts
  <1>2. TxShape(c)
    BY Signed
  <1> QED
    BY <1>1, <1>2 DEF TxTyped

(* A new transaction has the fields given and nothing else.                  *)
LEMMA TransactionParts ==
    ASSUME NEW f
    PROVE  LET t == transaction(f) IN
           /\ t.fields = f /\ t.script = NULL /\ t.signers = <<>> /\ t.attributes = <<>> /\ t.witnesses = <<>>
           /\ f \in Fields => TxTyped(t)
  <1> DEFINE t == transaction(f)
  <1>1. t.fields = f /\ t.script = NULL /\ t.signers = <<>> /\ t.attributes = <<>> /\ t.witnesses = <<>>
    BY DEF transaction
  <1>2. List(<<>>) /\ Len(<<>>) = 0 /\ <<>> \in Seq(AttributeType)
    <2>1. <<>> \in Seq({})
      OBVIOUS
    <2> QED
      BY <2>1 DEF List
  <1> QED
    BY <1>1, <1>2, NewTransaction, BoundAssumption DEF TxTyped

-----------------------------------------------------------------------------
(* The operators on builders.                                                *)

(* What is built has the builder's fields, script and signers.               *)
LEMMA UnsignedParts ==
    ASSUME Typed, NEW j, NEW t \in Unsigned(j)
    PROVE  /\ builder # NULL /\ j \notin DOMAIN tx
           /\ t.fields = builder.fields /\ t.signers = builder.signers /\ t.witnesses = <<>>
           /\ "oom" \notin work => t.script = builder.script
           /\ TxTyped(t)
           /\ \A k \in DOMAIN builder.signers : ~refused(builder.signers, k)
  <1>1. /\ can_build /\ j \notin DOMAIN tx
        /\ \A k \in DOMAIN builder.signers : ~refused(builder.signers, k)
        /\ t \in {unsigned(builder, s) : s \in {builder.script} \cup IF "oom" \in work THEN {NULL} ELSE {}}
    BY Zenon DEF Unsigned
  <1>2. PICK s : /\ t = unsigned(builder, s)
                 /\ s \in {builder.script, NULL} /\ ("oom" \notin work => s = builder.script)
    BY <1>1
  <1>3. builder # NULL /\ builder \in Builder /\ TxShape(t) /\ t.signers = builder.signers
    BY <1>1, Built DEF can_build, Typed, BuilderTyped, Pending
  <1>4. builder.fields \in Fields /\ builder.script \in Script \cup {NULL}
    BY <1>3 DEF Builder
  <1> DEFINE e == transaction(builder.fields)
  <1>5. /\ e.fields = builder.fields /\ e.attributes = <<>> /\ e.witnesses = <<>>
        /\ TxTyped(e) /\ DOMAIN e = TxParts
    BY <1>4, TransactionParts DEF TxTyped, TxShape
  <1>6. t = [e EXCEPT !.script = s, !.signers = builder.signers]
    BY <1>2 DEF unsigned
  <1> HIDE DEF e
  <1>7. t.fields = builder.fields /\ t.attributes = <<>> /\ t.witnesses = <<>> /\ t.script = s
    BY <1>5, <1>6 DEF TxParts
  <1>8. TxTyped(t)
    BY <1>2, <1>3, <1>4, <1>5, <1>7 DEF TxTyped
  <1> QED
    BY <1>1, <1>2, <1>3, <1>7, <1>8

(* A new builder, and one that handed over its signers.                      *)
LEMMA NewBuilderTyped ==
    ASSUME NEW v \in Value
    PROVE  BuilderTyped(new_builder(v))
  <1>1. defaults(v) \in Fields
    <2>1. v \in 0 .. MaxFee /\ 1 \in 0 .. MaxFee /\ 0 \in 0 .. MaxFee
      BY FeeAssumption
    <2> QED
      BY <2>1 DEF defaults, Fields
  <1>2. [k \in slots |-> [type |-> NULL, data |-> NULL]] \in [slots -> Slot]
    BY DEF Slot
  <1>3. 0 \in 0 .. MaxAttributes /\ <<>> \in Seq(Sgn \cup {NULL}) /\ Len(<<>>) <= MaxSigners
    BY BoundAssumption, SizeAssumption
  <1> QED
    BY <1>1, <1>2, <1>3 DEF BuilderTyped, new_builder, Builder

(* Handing over empties the list of signers.                                 *)
LEMMA HandedTyped ==
    ASSUME NEW b, BuilderTyped(b), NEW j \in Txn
    PROVE  /\ BuilderTyped(handed_over(b, j)) /\ handed_over(b, j).signers = <<>>
           /\ handed_over(b, j).built_transaction = j
           /\ \A x \in BOOLEAN : BuilderTyped([handed_over(b, j) EXCEPT !.is_signed = x])
  <1> DEFINE h == handed_over(b, j)
  <1>1. <<>> \in Seq(Sgn \cup {NULL}) /\ Len(<<>>) <= MaxSigners
    BY SizeAssumption
  <1>2. h \in Builder /\ h.signers = <<>> /\ h.built_transaction = j
    BY <1>1, Zenon DEF BuilderTyped, handed_over, Builder
  <1> HIDE DEF h
  <1>3. \A x \in BOOLEAN : [h EXCEPT !.is_signed = x] \in Builder /\ [h EXCEPT !.is_signed = x].signers = <<>>
    BY <1>2 DEF Builder
  <1> QED
    BY <1>1, <1>2, <1>3 DEF BuilderTyped, h

(* Adding and removing an attribute stay within the array.                   *)
LEMMA StoredTyped ==
    ASSUME NEW b, BuilderTyped(b), has_room(b), NEW type \in AttributeType, NEW d \in Blk \cup {NULL}
    PROVE  /\ BuilderTyped(stored(b, type, d))
           /\ BuilderTyped([b EXCEPT !.attributes[b.attribute_count + 1] = [type |-> type, data |-> NULL]])
  <1> DEFINE n == b.attribute_count + 1
  <1>1. b \in Builder /\ n \in slots /\ n \in 0 .. MaxAttributes /\ b.attribute_count \in Nat
    BY BoundAssumption DEF BuilderTyped, Builder, slots, has_room
  <1>2. b.attributes \in [slots -> Slot] /\ b.attributes[n] \in Slot
    BY <1>1 DEF Builder
  <1>3. [type |-> type, data |-> IF d = NULL THEN b.attributes[n].data ELSE d] \in Slot
        /\ [type |-> type, data |-> NULL] \in Slot
    BY <1>2 DEF Slot
  <1> DEFINE x == [type |-> type, data |-> IF d = NULL THEN b.attributes[n].data ELSE d]
             y == [type |-> type, data |-> NULL]
  <1>4. stored(b, type, d) = [b EXCEPT !.attributes = [b.attributes EXCEPT ![n] = x], !.attribute_count = n]
    BY <1>1 DEF stored, Builder
  <1>5. [b EXCEPT !.attributes[b.attribute_count + 1] = [type |-> type, data |-> NULL]] =
        [b EXCEPT !.attributes = [b.attributes EXCEPT ![n] = y]]
    BY <1>1 DEF Builder
  <1>6. x \in Slot /\ y \in Slot
    BY <1>3
  <1> HIDE DEF x, y, n
  <1>7. [b.attributes EXCEPT ![n] = x] \in [slots -> Slot] /\ [b.attributes EXCEPT ![n] = y] \in [slots -> Slot]
    BY <1>2, <1>6, Zenon
  <1>8. \A f \in [slots -> Slot] :
          /\ [b EXCEPT !.attributes = f] \in Builder /\ [b EXCEPT !.attributes = f].signers = b.signers
          /\ [b EXCEPT !.attributes = f, !.attribute_count = n] \in Builder
          /\ [b EXCEPT !.attributes = f, !.attribute_count = n].signers = b.signers
    BY <1>1, Zenon DEF Builder
  <1> QED
    BY <1>4, <1>5, <1>7, <1>8, Zenon DEF BuilderTyped, n

(* A builder counts its attributes.                                          *)
LEMMA CountTyped ==
    ASSUME NEW b, BuilderTyped(b)
    PROVE  b.attribute_count \in Nat
  BY BoundAssumption DEF BuilderTyped, Builder

(* The slots that move down stay in the array.                               *)
LEMMA UnslottedTyped ==
    ASSUME NEW b, BuilderTyped(b), NEW k, b.attribute_count >= 1
    PROVE  BuilderTyped(unslotted(b, k))
  <1> DEFINE f == [j \in slots |-> IF j >= k /\ j < b.attribute_count THEN b.attributes[j + 1] ELSE b.attributes[j]]
  <1>1. b \in Builder /\ b.attribute_count \in 1 .. MaxAttributes /\ b.attributes \in [slots -> Slot]
    BY DEF BuilderTyped, Builder
  <1>2. \A j \in slots : j < b.attribute_count => j + 1 \in slots
    BY <1>1, BoundAssumption DEF slots
  <1>3. f \in [slots -> Slot]
    BY <1>1, <1>2
  <1>4. unslotted(b, k) = [b EXCEPT !.attributes = f, !.attribute_count = b.attribute_count - 1]
    BY <1>1 DEF unslotted, Builder
  <1>5. b.attribute_count - 1 \in 0 .. MaxAttributes
    BY <1>1, BoundAssumption
  <1> HIDE DEF f
  <1> QED
    BY <1>1, <1>3, <1>4, <1>5, Zenon DEF BuilderTyped, Builder

-----------------------------------------------------------------------------
(* The signers.                                                              *)

(* The account of a live signer never changes, and new ones have one.        *)
SignersKept ==
    /\ \A x \in DOMAIN signer \cap DOMAIN signer' : signer'[x] = signer[x]
    /\ \A x \in DOMAIN signer' \ DOMAIN signer : signer'[x] \in Account

(* Copies of live signers have their accounts.                               *)
LEMMA Copies ==
    ASSUME Typed, NEW i \in DOMAIN tx, NEW n \in 0 .. Len(tx[i].signers), NEW c \in Places(n),
           signer' = copied(tx[i].signers, c)
    PROVE  /\ SignersKept /\ DOMAIN c = 1 .. n
           /\ \A k \in DOMAIN c : c[k] \in DOMAIN signer' /\ signer'[c[k]] = signer[tx[i].signers[k]]
  <1>1. tx[i].signers \in Seq(Sgn) /\ Len(tx[i].signers) \in Nat /\ n \in Nat
    BY DEF Typed, IInv, Shape, TxShape
  <1>2. /\ DOMAIN c = 1 .. n /\ \A k \in DOMAIN c : c[k] \notin DOMAIN signer
        /\ \A j, k \in DOMAIN c : c[j] = c[k] => j = k
    BY <1>1, FreshPlaces
  <1>3. \A k \in 1 .. n : tx[i].signers[k] \in DOMAIN signer
    BY <1>1 DEF Typed, IInv, SignerOwnedOnce
  <1>4. DOMAIN signer' = DOMAIN signer \cup Range(c) /\ \A x \in DOMAIN signer : signer'[x] = signer[x]
    BY DEF copied
  <1>5. \A k \in DOMAIN c : c[k] \in DOMAIN signer' /\ signer'[c[k]] = signer[tx[i].signers[k]]
    <2> TAKE k \in DOMAIN c
    <2>1. c[k] \in Range(c) /\ c[k] \notin DOMAIN signer
      BY <1>2 DEF Range
    <2>2. (CHOOSE l \in DOMAIN c : c[l] = c[k]) = k
      BY <1>2
    <2>3. signer'[c[k]] = signer[tx[i].signers[CHOOSE l \in DOMAIN c : c[l] = c[k]]]
      BY <2>1 DEF copied
    <2> QED
      BY <1>4, <2>1, <2>2, <2>3, Zenon
  <1>6. \A x \in DOMAIN signer' \ DOMAIN signer : \E k \in DOMAIN c : x = c[k]
    BY <1>4 DEF Range
  <1> QED
    BY <1>2, <1>3, <1>4, <1>5, <1>6 DEF SignersKept, Typed, SignerTyped

(* The nonces drawn are values of the field.                                 *)
LEMMA DrawnValues == Drawn \subseteq Value
  BY ValueAssumption DEF Drawn

(* The signers of a builder made in one call have the accounts given.        *)
LEMMA CallSigners ==
    ASSUME NEW s, NEW ps \in Parties \cup {<<>>}, neoc_tx_builder_create_call(s, ps)
    PROVE  /\ SignersKept
           /\ \E v \in Value, c \in Seq(Sgn) :
                /\ builder' = [new_builder(v) EXCEPT !.script = s, !.signers = c]
                /\ Len(c) = Len(ps) /\ \A j, k \in DOMAIN c : signer'[c[j]] = signer'[c[k]] => j = k
  <1>0. ps \in Seq(Account)
    <2>1. <<>> \in Seq(Account)
      OBVIOUS
    <2> QED
      BY <2>1, KeyedAssumption, Zenon
  <1>1. ps \in Seq(Account) /\ Len(ps) \in Nat /\ DOMAIN ps = 1 .. Len(ps)
    BY <1>0
  <1>2. PICK c \in Places(Len(ps)) :
          /\ signer' = [x \in DOMAIN signer \cup Range(c) |->
                          IF x \in DOMAIN signer THEN signer[x] ELSE ps[CHOOSE k \in DOMAIN c : c[k] = x]]
          /\ \E v \in Drawn : builder' = [new_builder(v) EXCEPT !.script = s, !.signers = c]
    BY Zenon DEF neoc_tx_builder_create_call
  <1>3. /\ c \in Seq(Sgn) /\ DOMAIN c = 1 .. Len(ps) /\ \A k \in DOMAIN c : c[k] \notin DOMAIN signer
        /\ \A j, k \in DOMAIN c : c[j] = c[k] => j = k
    BY <1>1, FreshPlaces
  <1>4. DOMAIN signer' = DOMAIN signer \cup Range(c) /\ \A x \in DOMAIN signer : signer'[x] = signer[x]
    BY <1>2
  <1>5. \A k \in DOMAIN c : signer'[c[k]] = ps[k]
    <2> TAKE k \in DOMAIN c
    <2>1. c[k] \in Range(c) /\ c[k] \notin DOMAIN signer
      BY <1>3 DEF Range
    <2>2. (CHOOSE l \in DOMAIN c : c[l] = c[k]) = k
      BY <1>3
    <2>3. signer'[c[k]] = ps[CHOOSE l \in DOMAIN c : c[l] = c[k]]
      BY <1>2, <2>1
    <2> QED
      BY <2>2, <2>3, Zenon
  <1>6. \A x \in DOMAIN signer' \ DOMAIN signer : \E k \in DOMAIN c : x = c[k]
    BY <1>4 DEF Range
  <1>7. SignersKept
    BY <1>1, <1>3, <1>4, <1>5, <1>6 DEF SignersKept
  <1>8. \A j, k \in DOMAIN ps : ps[j] = ps[k] => j = k
    BY DEF neoc_tx_builder_create_call, IsInjective
  <1>9. \A j, k \in DOMAIN c : signer'[c[j]] = signer'[c[k]] => j = k
    BY <1>1, <1>3, <1>5, <1>8
  <1>10. Len(c) = Len(ps)
    BY <1>1, <1>3
  <1> QED
    BY <1>2, <1>3, <1>7, <1>9, <1>10, DrawnValues, Zenon

(* Every step keeps the accounts of the signers.                             *)
LEMMA SignerStep ==
    ASSUME Typed, [Next]_vars
    PROVE  SignersKept
  <1> USE DEF tvars
  <1>1. ASSUME signer' = signer PROVE SignersKept
    BY <1>1 DEF SignersKept
  <1>2. CASE neoc_tx_builder_create \/ Set \/ Attribute \/ Build
    BY <1>1, <1>2, Zenon DEF neoc_tx_builder_create, Set, neoc_tx_builder_set_field, neoc_tx_builder_add_fee,
       neoc_tx_builder_set_script, Attribute, neoc_tx_builder_add_attribute, neoc_tx_builder_set_high_priority,
       Build, neoc_tx_builder_build_unsigned, build_fail
  <1>3. CASE neoc_tx_builder_free
    BY <1>3 DEF neoc_tx_builder_free, SignersKept, Without
  <1>4. CASE \E s \in Script, ps \in Parties \cup {<<>>} : neoc_tx_builder_create_call(s, ps)
    BY <1>4, CallSigners, Zenon
  <1>5. CASE Order
    BY <1>1, <1>5, Zenon DEF Order, neoc_tx_builder_add_signer, neoc_tx_builder_set_first_signer, SignersKept, With
  <1>6. CASE Sign
    <2>1. \A ps : neoc_tx_builder_sign(ps) => signer' = signer
      BY DEF neoc_tx_builder_sign
    <2>2. \A j, ps : neoc_tx_builder_build_and_sign(j, ps) => signer' = signer
      BY DEF neoc_tx_builder_build_and_sign
    <2> QED
      BY <1>1, <1>6, <2>1, <2>2, Zenon DEF Sign
  <1>7. CASE \E j : neoc_tx_builder_get_hash(j) \/ neoc_tx_builder_calculate_fees(j)
    BY <1>1, <1>7 DEF neoc_tx_builder_get_hash, neoc_tx_builder_calculate_fees
  <1>8. CASE TxNext
    <2>1. CASE \E i : neoc_transaction_create(i) \/ neoc_transaction_free(i)
      BY <1>1, <2>1 DEF neoc_transaction_create, neoc_transaction_free
    <2>2. CASE Edit
      BY <1>1, <2>2 DEF Edit, neoc_transaction_set_field, neoc_transaction_set_script, neoc_transaction_add_signer,
              neoc_transaction_add_attribute, neoc_transaction_add_witness
    <2>3. CASE Signers
      BY <2>3, Zenon DEF Signers, neoc_signer_create, neoc_signer_free, SignersKept, With, Without
    <2>4. CASE TxSign
      BY <1>1, <2>4 DEF TxSign, neoc_transaction_calculate_hash, neoc_transaction_get_hash,
                        neoc_transaction_sign_multi
    <2>5. CASE Copy
      <3>1. PICK i \in DOMAIN tx : clone_fail(i) \/ \E j \in Txn : neoc_transaction_clone(i, j) \/ neoc_transaction_from_json(i, j)
        BY <2>5 DEF Copy, Typed, KeptLive
      <3>2. Len(tx[i].signers) \in Nat
        BY DEF Typed, IInv, Shape, TxShape
      <3>3. CASE clone_fail(i)
        <4>1. PICK n \in 1 .. Len(tx[i].signers) : \E c \in Places(n) : signer' = copied(tx[i].signers, c)
          BY <3>3 DEF clone_fail
        <4>2. n \in 0 .. Len(tx[i].signers)
          BY <3>2
        <4> QED
          BY <4>1, <4>2, Copies
      <3>4. CASE \E j : neoc_transaction_clone(i, j)
        <4>1. Len(tx[i].signers) \in 0 .. Len(tx[i].signers)
          BY <3>2
        <4> QED
          BY <3>4, <4>1, Copies DEF neoc_transaction_clone
      <3>5. CASE \E j : neoc_transaction_from_json(i, j)
        BY <1>1, <3>5 DEF neoc_transaction_from_json
      <3> QED
        BY <3>1, <3>3, <3>4, <3>5
    <2> QED
      BY <1>8, <2>1, <2>2, <2>3, <2>4, <2>5 DEF TxNext
  <1>9. CASE UNCHANGED vars
    BY <1>1, <1>9 DEF vars
  <1> QED
    BY <1>2, <1>3, <1>4, <1>5, <1>6, <1>7, <1>8, <1>9 DEF Next, Call

-----------------------------------------------------------------------------
(* The transactions.                                                         *)

(* What a call makes of a transaction that stays: its signers are the same   *)
(* or one more, of another account; its witnesses are the same, one more of  *)
(* the caller's or those of a signature of what it is.                       *)
Extended(t, u) ==
    \E s \in DOMAIN signer : /\ u.signers = Append(t.signers, s)
                             /\ signer[s] \notin Range(accounts(t.signers)) /\ signer' = signer
Countersigned(t, u) == \E ps, n : ps # <<>> /\ n \in Nat /\ u = signed(t, ps, n)
Witnessed(t, u) == u.witnesses = Append(t.witnesses, neoc_witness_create)
Edited(t, u) ==
    /\ u.signers = t.signers \/ Extended(t, u)
    /\ u.witnesses = t.witnesses \/ Witnessed(t, u) \/ Countersigned(t, u)

(* Where the contents of a new transaction come from.                        *)
Copied(t) ==
    \E i \in DOMAIN tx :
        /\ DOMAIN t.signers = DOMAIN tx[i].signers
        /\ \A k \in DOMAIN t.signers : signer'[t.signers[k]] = signer[tx[i].signers[k]]
FromBuilder(t) ==
    /\ builder # NULL /\ signer' = signer
    /\ t.fields = builder.fields /\ t.signers = builder.signers
    /\ "oom" \notin work => t.script = builder.script
    /\ \A k \in DOMAIN builder.signers : ~refused(builder.signers, k)
Made(t) ==
    \/ UNCHANGED builder /\ (t.signers = <<>> \/ Copied(t))
    \/ FromBuilder(t)

TxsKept ==
    /\ TxsTyped'
    /\ \A j \in DOMAIN tx' \cap DOMAIN tx : Edited(tx[j], tx'[j])
    /\ \A j \in DOMAIN tx' \ DOMAIN tx : Made(tx'[j])

(* Transactions that are left alone or freed.                                *)
LEMMA TxsSame ==
    ASSUME Typed, DOMAIN tx' \subseteq DOMAIN tx, \A j \in DOMAIN tx' : tx'[j] = tx[j]
    PROVE  TxsKept
  BY DEF TxsKept, Typed, TxsTyped, Edited

(* A transaction that appears.                                               *)
LEMMA TxsWith ==
    ASSUME Typed, NEW j \in Txn, j \notin DOMAIN tx, NEW t, TxTyped(t), Made(t), tx' = With(tx, j, t)
    PROVE  TxsKept
  <1>1. DOMAIN tx' = DOMAIN tx \cup {j} /\ tx'[j] = t /\ \A i \in DOMAIN tx : tx'[i] = tx[i]
    BY DEF With
  <1> QED
    BY <1>1 DEF TxsKept, Typed, TxsTyped, Edited

(* A transaction that is edited.                                             *)
LEMMA TxsEdit ==
    ASSUME Typed, NEW i, NEW u, tx' = [tx EXCEPT ![i] = u], i \in DOMAIN tx => TxTyped(u) /\ Edited(tx[i], u)
    PROVE  TxsKept
  <1>1. DOMAIN tx' = DOMAIN tx /\ \A j \in DOMAIN tx : tx'[j] = IF j = i THEN u ELSE tx[j]
    OBVIOUS
  <1>2. \A j \in DOMAIN tx : TxTyped(tx'[j]) /\ Edited(tx[j], tx'[j])
    <2> TAKE j \in DOMAIN tx
    <2>1. CASE j = i
      BY <1>1, <2>1
    <2>2. CASE j # i
      BY <1>1, <2>2 DEF Typed, TxsTyped, Edited
    <2> QED
      BY <2>1, <2>2
  <1> QED
    BY <1>1, <1>2 DEF TxsKept, Typed, TxsTyped

(* A setter of one part.                                                     *)
LEMMA SetParts ==
    ASSUME NEW t, TxTyped(t)
    PROVE  /\ \A f \in FieldName, v \in Value : LET u == [t EXCEPT !.fields[f] = v] IN TxTyped(u) /\ Edited(t, u)
           /\ \A s \in Script \cup {NULL, Torn} : LET u == [t EXCEPT !.script = s] IN TxTyped(u) /\ Edited(t, u)
           /\ \A a \in AttributeType :
                LET u == [t EXCEPT !.attributes = Append(t.attributes, a)] IN TxTyped(u) /\ Edited(t, u)
  <1> USE DEF TxTyped, TxShape, TxParts, Edited
  <1>1. ASSUME NEW f \in FieldName, NEW v \in Value
        PROVE  LET u == [t EXCEPT !.fields[f] = v] IN TxTyped(u) /\ Edited(t, u)
    <2>1. [t.fields EXCEPT ![f] = v] \in Fields
      BY FeeAssumption DEF Fields
    <2>2. [t EXCEPT !.fields[f] = v] = [t EXCEPT !.fields = [t.fields EXCEPT ![f] = v]]
      OBVIOUS
    <2> DEFINE g == [t.fields EXCEPT ![f] = v]
    <2> HIDE DEF g
    <2>3. g \in Fields => LET u == [t EXCEPT !.fields = g] IN TxTyped(u) /\ Edited(t, u)
      OBVIOUS
    <2> QED
      BY <2>1, <2>2, <2>3 DEF g
  <1>2. ASSUME NEW s \in Script \cup {NULL, Torn}
        PROVE  LET u == [t EXCEPT !.script = s] IN TxTyped(u) /\ Edited(t, u)
    OBVIOUS
  <1>3. ASSUME NEW a \in AttributeType
        PROVE  LET u == [t EXCEPT !.attributes = Append(t.attributes, a)] IN TxTyped(u) /\ Edited(t, u)
    OBVIOUS
  <1> QED
    BY <1>1, <1>2, <1>3

(* Signing one that is there.                                                *)
LEMMA SignedKept ==
    ASSUME Typed, NEW i, NEW ps \in Parties, NEW n \in signing(ps), ps # <<>>,
           i \in DOMAIN tx => Len(tx[i].witnesses) + Len(ps) <= MaxWitnesses,
           tx' = [tx EXCEPT ![i] = signed(tx[i], ps, n)]
    PROVE  TxsKept
  <1>1. n \in 0 .. Len(ps) /\ Len(ps) \in Nat
    BY SigningBound, KeyedAssumption
  <1>2. ASSUME i \in DOMAIN tx PROVE TxTyped(signed(tx[i], ps, n)) /\ Edited(tx[i], signed(tx[i], ps, n))
    <2>1. TxTyped(tx[i]) /\ TxShape(tx[i]) /\ List(tx[i].witnesses)
      BY <1>2 DEF Typed, TxsTyped, TxTyped
    <2>2. Len(tx[i].witnesses) \in Nat
      BY <2>1 DEF List
    <2>3. Len(tx[i].witnesses) + n <= MaxWitnesses /\ n \in Nat
      BY <1>1, <1>2, <2>2, BoundAssumption
    <2>4. signed(tx[i], ps, n).signers = tx[i].signers
      BY <2>1, SignedParts
    <2> QED
      BY <2>1, <2>3, <2>4, SignedTyped DEF Edited, Countersigned
  <1> QED
    BY <1>2, TxsEdit, Zenon

(* Copying a transaction, or reading one back.                               *)
LEMMA CopyKept ==
    ASSUME Typed, UNCHANGED builder, NEW i \in DOMAIN tx, NEW j \in Txn,
           neoc_transaction_clone(i, j) \/ neoc_transaction_from_json(i, j)
    PROVE  TxsKept
  <1> DEFINE t == tx[i]
  <1>0. TxTyped(t) /\ DOMAIN t = TxParts /\ t.signers \in Seq(Sgn) /\ Len(t.signers) \in Nat
    BY DEF Typed, TxsTyped, TxTyped, TxShape
  <1>1. CASE neoc_transaction_clone(i, j)
    <2>1. PICK c \in Places(Len(t.signers)) : signer' = copied(t.signers, c) /\ tx' = With(tx, j, cloned(t, c))
      BY <1>1 DEF neoc_transaction_clone
    <2>2. Len(t.signers) \in 0 .. Len(t.signers)
      BY <1>0
    <2>3. DOMAIN c = 1 .. Len(t.signers) /\ \A k \in DOMAIN c : signer'[c[k]] = signer[t.signers[k]]
      BY <2>1, <2>2, Copies
    <2>4. c \in Seq(Sgn)
      BY <1>0, FreshPlaces
    <2> DEFINE u == cloned(t, c)
    <2>5. /\ DOMAIN u = TxParts /\ u.signers = c /\ u.fields = t.fields /\ u.attributes = t.attributes
          /\ u.witnesses = t.witnesses /\ u.script = IF t.script = Torn THEN NULL ELSE t.script
      BY <1>0 DEF cloned, TxParts
    <2> HIDE DEF u
    <2>6. TxTyped(u)
      BY <1>0, <2>4, <2>5 DEF TxTyped, TxShape
    <2>7. Made(u)
      BY <1>0, <2>3, <2>5 DEF Made, Copied
    <2>8. j \notin DOMAIN tx /\ tx' = With(tx, j, u)
      BY <1>1, <2>1 DEF neoc_transaction_clone, u
    <2> QED
      BY <2>6, <2>7, <2>8, TxsWith
  <1>2. CASE neoc_transaction_from_json(i, j)
    <2>1. PICK x \in {IF t.script = Torn THEN NULL ELSE t.script} \cup (IF "oom" \in work THEN {NULL, Torn} ELSE {}) :
            tx' = With(tx, j, [transaction(t.fields) EXCEPT !.hash = t.hash, !.script = x])
      BY <1>2, Zenon DEF neoc_transaction_from_json
    <2> DEFINE e == transaction(t.fields)
               u == [e EXCEPT !.hash = t.hash, !.script = x]
    <2>2. TxTyped(e) /\ e.signers = <<>> /\ DOMAIN e = TxParts
      BY <1>0, TransactionParts DEF TxTyped, TxShape
    <2>3. x \in Script \cup {NULL, Torn}
      BY <1>0, <2>1 DEF TxTyped
    <2>8. j \notin DOMAIN tx /\ tx' = With(tx, j, u)
      BY <1>2, <2>1, Zenon DEF neoc_transaction_from_json
    <2> HIDE DEF e
    <2>4. DOMAIN u = TxParts /\ u.signers = e.signers /\ u.fields = e.fields /\ u.attributes = e.attributes
          /\ u.witnesses = e.witnesses /\ u.script = x
      BY <2>2 DEF TxParts
    <2> HIDE DEF u
    <2>5. TxTyped(u) /\ Made(u)
      BY <2>2, <2>3, <2>4 DEF TxTyped, TxShape, Made
    <2> QED
      BY <2>5, <2>8, TxsWith
  <1> QED
    BY <1>1, <1>2

(* The calls that build.                                                     *)
LEMMA BuildKept ==
    ASSUME Typed, NEW j \in Txn, NEW ps \in Parties \cup {<<>>},
           \/ neoc_tx_builder_build_unsigned(j) \/ neoc_tx_builder_build_and_sign(j, ps)
           \/ neoc_tx_builder_get_hash(j)
    PROVE  TxsKept
  <1>1. signer' = signer
    BY DEF neoc_tx_builder_build_unsigned, neoc_tx_builder_build_and_sign, neoc_tx_builder_get_hash
  <1>2. ASSUME NEW t \in Unsigned(j), NEW u, TxTyped(u), tx' = With(tx, j, u),
               u.fields = t.fields, u.script = t.script, u.signers = t.signers
        PROVE  TxsKept
    <2>1. j \notin DOMAIN tx /\ FromBuilder(u)
      BY <1>1, <1>2, UnsignedParts DEF FromBuilder
    <2> QED
      BY <1>2, <2>1, TxsWith DEF Made
  <1>3. CASE neoc_tx_builder_build_unsigned(j)
    <2>1. PICK t \in Unsigned(j) : tx' = With(tx, j, t)
      BY <1>3 DEF neoc_tx_builder_build_unsigned
    <2> QED
      BY <1>2, <2>1, UnsignedParts
  <1>4. CASE neoc_tx_builder_build_and_sign(j, ps)
    <2>1. PICK t \in Unsigned(j), n \in signing(ps) : tx' = With(tx, j, signed(t, ps, n)) \/ tx' = tx
      BY <1>4, Zenon DEF neoc_tx_builder_build_and_sign
    <2>2. TxTyped(t) /\ t.witnesses = <<>> /\ TxShape(t)
      BY UnsignedParts DEF TxTyped
    <2>3. Len(ps) <= MaxWitnesses /\ ps \in Seq(Account)
      <3>1. <<>> \in Seq(Account)
        OBVIOUS
      <3> QED
        BY <1>4, <3>1, KeyedAssumption, Zenon DEF neoc_tx_builder_build_and_sign
    <2>4. n \in 0 .. Len(ps) /\ Len(ps) \in Nat
      BY <2>3, SigningBound
    <2>5. Len(t.witnesses) + n <= MaxWitnesses /\ n \in Nat
      BY <2>2, <2>3, <2>4, BoundAssumption
    <2>6. TxTyped(signed(t, ps, n))
      BY <2>2, <2>5, SignedTyped
    <2> DEFINE u == signed(t, ps, n)
    <2>7. u.fields = t.fields /\ u.script = t.script /\ u.signers = t.signers
      BY <2>2, SignedParts
    <2> HIDE DEF u
    <2> QED
      BY <1>2, <2>1, <2>6, <2>7, TxsSame DEF u
  <1>5. CASE neoc_tx_builder_get_hash(j)
    <2>1. CASE \E t \in Unsigned(j) : tx' = With(tx, j, calculated(t)) \/ tx' = With(tx, j, t)
      <3>1. PICK t \in Unsigned(j) : tx' = With(tx, j, calculated(t)) \/ tx' = With(tx, j, t)
        BY <2>1
      <3>2. TxTyped(t) /\ TxShape(t)
        BY UnsignedParts DEF TxTyped
      <3> DEFINE u == calculated(t)
      <3>3. TxTyped(u) /\ u.fields = t.fields /\ u.script = t.script /\ u.signers = t.signers
        BY <3>2, CalculatedTyped
      <3> HIDE DEF u
      <3> QED
        BY <1>2, <3>1, <3>2, <3>3 DEF u
    <2>2. CASE tx' = [tx EXCEPT ![j] = calculated(tx[j])]
      <3>1. ASSUME j \in DOMAIN tx PROVE TxTyped(calculated(tx[j])) /\ Edited(tx[j], calculated(tx[j]))
        BY <3>1, CalculatedTyped DEF Typed, TxsTyped, TxTyped, Edited
      <3> QED
        BY <2>2, <3>1, TxsEdit, Zenon
    <2> QED
      BY <1>5, <2>1, <2>2 DEF neoc_tx_builder_get_hash
  <1> QED
    BY <1>3, <1>4, <1>5

(* Every step treats transactions in one of these ways.                      *)
LEMMA TxsStep ==
    ASSUME Typed, [Next]_vars
    PROVE  TxsKept
  <1> USE DEF tvars
  <1>1. ASSUME tx' = tx PROVE TxsKept
    BY <1>1, TxsSame
  <1>2. CASE neoc_tx_builder_create \/ neoc_tx_builder_free \/ Set \/ Attribute \/ Order
    BY <1>1, <1>2, Zenon DEF neoc_tx_builder_create, neoc_tx_builder_free, Set, neoc_tx_builder_set_field,
       neoc_tx_builder_add_fee, neoc_tx_builder_set_script, Attribute, neoc_tx_builder_add_attribute,
       neoc_tx_builder_set_high_priority, Order, neoc_tx_builder_add_signer, neoc_tx_builder_set_first_signer
  <1>3. CASE \E s, ps : neoc_tx_builder_create_call(s, ps)
    BY <1>1, <1>3 DEF neoc_tx_builder_create_call
  <1>4. CASE Build
    <2>1. <<>> \in Parties \cup {<<>>}
      OBVIOUS
    <2>2. build_fail => tx' = tx
      BY DEF build_fail
    <2> QED
      BY <1>1, <1>4, <2>1, <2>2, BuildKept DEF Build
  <1>5. CASE Sign
    <2>1. ASSUME NEW ps \in Parties, neoc_tx_builder_sign(ps) PROVE TxsKept
      <3>1. PICK n \in signing(ps) : tx' = [tx EXCEPT ![builder.built_transaction] = signed(@, ps, n)]
        BY <2>1, Zenon DEF neoc_tx_builder_sign
      <3>2. ps # <<>> /\ Len(tx[builder.built_transaction].witnesses) + Len(ps) <= MaxWitnesses
        BY <2>1 DEF neoc_tx_builder_sign
      <3> QED
        BY <3>1, <3>2, SignedKept, Zenon
    <2> QED
      BY <1>5, <2>1, BuildKept, Zenon DEF Sign
  <1>6. CASE \E j \in Txn : neoc_tx_builder_get_hash(j) \/ neoc_tx_builder_calculate_fees(j)
    <2>1. \A j : neoc_tx_builder_calculate_fees(j) => tx' = tx
      BY DEF neoc_tx_builder_calculate_fees
    <2>2. <<>> \in Parties \cup {<<>>}
      OBVIOUS
    <2> QED
      BY <1>1, <1>6, <2>1, <2>2, BuildKept
  <1>7. CASE TxNext /\ UNCHANGED builder
    <2>0. \A i \in kept : i \in DOMAIN tx /\ TxTyped(tx[i]) /\ TxShape(tx[i])
      BY DEF Typed, KeptLive, TxsTyped, TxTyped
    <2>1. CASE \E i \in Txn : neoc_transaction_create(i)
      <3>1. PICK i \in Txn : neoc_transaction_create(i)
        BY <2>1
      <3>2. PICK v \in Value : tx' = With(tx, i, transaction([f \in FieldName |-> IF f = "nonce" THEN v ELSE 0]))
        BY <3>1, DrawnValues, Zenon DEF neoc_transaction_create
      <3>3. [f \in FieldName |-> IF f = "nonce" THEN v ELSE 0] \in Fields
        BY FeeAssumption, ValueAssumption DEF Fields
      <3> DEFINE u == transaction([f \in FieldName |-> IF f = "nonce" THEN v ELSE 0])
      <3>4. TxTyped(u) /\ u.signers = <<>>
        BY <3>3, TransactionParts
      <3> HIDE DEF u
      <3>5. Made(u)
        BY <1>7, <3>4 DEF Made
      <3> QED
        BY <3>1, <3>2, <3>4, <3>5, TxsWith, Zenon DEF neoc_transaction_create, u
    <2>2. CASE \E i : neoc_transaction_free(i)
      <3>1. DOMAIN tx' \subseteq DOMAIN tx /\ \A j \in DOMAIN tx' : tx'[j] = tx[j]
        BY <2>2 DEF neoc_transaction_free, Without
      <3> QED
        BY <3>1, TxsSame
    <2>3. ASSUME NEW i \in kept, NEW f \in FieldName, NEW v \in Value, neoc_transaction_set_field(i, f, v) PROVE TxsKept
      <3>1. tx' = [tx EXCEPT ![i] = [tx[i] EXCEPT !.fields[f] = v]]
        BY <2>3 DEF neoc_transaction_set_field
      <3> DEFINE u == [tx[i] EXCEPT !.fields[f] = v]
      <3>2. TxTyped(u) /\ Edited(tx[i], u)
        BY <2>0, SetParts
      <3> HIDE DEF u
      <3> QED
        BY <3>1, <3>2, TxsEdit, Zenon DEF u
    <2>4. ASSUME NEW i \in kept, NEW s \in Script, neoc_transaction_set_script(i, s) PROVE TxsKept
      <3>1. PICK x \in Script \cup {NULL, Torn} : tx' = [tx EXCEPT ![i] = [tx[i] EXCEPT !.script = x]]
        BY <2>0, <2>4 DEF neoc_transaction_set_script
      <3> DEFINE u == [tx[i] EXCEPT !.script = x]
      <3>2. TxTyped(u) /\ Edited(tx[i], u)
        BY <2>0, SetParts
      <3> HIDE DEF u
      <3> QED
        BY <3>1, <3>2, TxsEdit, Zenon DEF u
    <2>5. ASSUME NEW i \in kept, NEW a \in AttributeType, neoc_transaction_add_attribute(i, a) PROVE TxsKept
      <3>1. tx' = [tx EXCEPT ![i] = [tx[i] EXCEPT !.attributes = Append(tx[i].attributes, a)]]
        BY <2>5 DEF neoc_transaction_add_attribute
      <3> DEFINE u == [tx[i] EXCEPT !.attributes = Append(tx[i].attributes, a)]
      <3>2. TxTyped(u) /\ Edited(tx[i], u)
        BY <2>0, SetParts
      <3> HIDE DEF u
      <3> QED
        BY <3>1, <3>2, TxsEdit, Zenon DEF u
    <2>6. ASSUME NEW i \in kept, NEW s \in mine, neoc_transaction_add_signer(i, s) PROVE TxsKept
      <3> DEFINE u == [tx[i] EXCEPT !.signers = Append(tx[i].signers, s)]
      <3>1. tx' = [tx EXCEPT ![i] = u] /\ signer' = signer /\ signer[s] \notin Range(accounts(tx[i].signers))
        BY <2>6 DEF neoc_transaction_add_signer
      <3>2. s \in DOMAIN signer /\ s \in Sgn
        BY <2>6 DEF Typed, IInv, Shape, SignerOwnedOnce
      <3>3. TxTyped(u) /\ u.signers = Append(tx[i].signers, s) /\ u.witnesses = tx[i].witnesses
        BY <2>0, <2>6, <3>2 DEF TxTyped, TxShape, TxParts
      <3> HIDE DEF u
      <3>4. Edited(tx[i], u)
        BY <3>1, <3>2, <3>3 DEF Edited, Extended
      <3> QED
        BY <3>1, <3>3, <3>4, TxsEdit, Zenon
    <2>11. ASSUME NEW i \in kept, neoc_transaction_add_witness(i) PROVE TxsKept
      <3> DEFINE w == tx[i].witnesses
                 u == [tx[i] EXCEPT !.witnesses = Append(w, neoc_witness_create)]
      <3>1. tx' = [tx EXCEPT ![i] = u] /\ Len(w) < MaxWitnesses
        BY <2>11 DEF neoc_transaction_add_witness
      <3>2. /\ DOMAIN u = DOMAIN tx[i] /\ u.fields = tx[i].fields /\ u.script = tx[i].script
            /\ u.signers = tx[i].signers /\ u.attributes = tx[i].attributes
            /\ u.witnesses = Append(w, neoc_witness_create)
        BY <2>0 DEF TxShape, TxParts
      <3>3. List(w)
        BY <2>0 DEF TxTyped
      <3> HIDE DEF u, w
      <3>4. List(Append(w, neoc_witness_create)) /\ Len(Append(w, neoc_witness_create)) <= MaxWitnesses
        BY <3>1, <3>3, OneMore, BoundAssumption
      <3>5. TxTyped(u)
        BY <2>0, <3>2, <3>4 DEF TxTyped, TxShape
      <3>6. Edited(tx[i], u)
        BY <3>2 DEF Edited, Witnessed, w
      <3> QED
        BY <3>1, <3>5, <3>6, TxsEdit, Zenon
    <2>7. CASE Edit
      BY <2>3, <2>4, <2>5, <2>6, <2>7, <2>11, Zenon DEF Edit
    <2>8. CASE Signers
      BY <1>1, <2>8, Zenon DEF Signers, neoc_signer_create, neoc_signer_free
    <2>9. CASE TxSign
      <3>1. PICK i \in kept : \/ neoc_transaction_calculate_hash(i) \/ neoc_transaction_get_hash(i)
                              \/ \E ps \in Parties : neoc_transaction_sign_multi(i, ps)
        BY <2>9 DEF TxSign
      <3> DEFINE u == calculated(tx[i])
      <3>2. TxTyped(u) /\ Edited(tx[i], u)
        BY <2>0, CalculatedTyped DEF Edited
      <3>3. CASE neoc_transaction_calculate_hash(i) \/ neoc_transaction_get_hash(i)
        <4>1. tx' = [tx EXCEPT ![i] = u] \/ tx' = [tx EXCEPT ![i] = tx[i]]
          BY <3>3 DEF neoc_transaction_calculate_hash, neoc_transaction_get_hash
        <4>2. tx' = [tx EXCEPT ![i] = tx[i]] => TxsKept
          BY <2>0, TxsEdit, Zenon DEF Edited
        <4> HIDE DEF u
        <4> QED
          BY <3>2, <4>1, <4>2, TxsEdit
      <3>4. CASE \E ps \in Parties : neoc_transaction_sign_multi(i, ps)
        <4>1. PICK ps \in Parties : neoc_transaction_sign_multi(i, ps)
          BY <3>4
        <4>2. PICK n \in signing(ps) : tx' = [tx EXCEPT ![i] = signed(@, ps, n)]
          BY <4>1, Zenon DEF neoc_transaction_sign_multi
        <4>3. ps # <<>> /\ Len(tx[i].witnesses) + Len(ps) <= MaxWitnesses
          BY <4>1 DEF neoc_transaction_sign_multi
        <4> QED
          BY <4>2, <4>3, SignedKept, Zenon
      <3> QED
        BY <3>1, <3>3, <3>4
    <2>10. CASE Copy
      <3>1. \A i : clone_fail(i) => tx' = tx
        BY DEF clone_fail
      <3> QED
        BY <1>1, <1>7, <2>0, <2>10, <3>1, CopyKept DEF Copy
    <2> QED
      BY <1>7, <2>1, <2>2, <2>7, <2>8, <2>9, <2>10 DEF TxNext
  <1>8. CASE UNCHANGED vars
    BY <1>1, <1>8 DEF vars
  <1> QED
    BY <1>2, <1>3, <1>4, <1>5, <1>6, <1>7, <1>8 DEF Next, Call

-----------------------------------------------------------------------------
(* The builder.                                                              *)

(* No two signers of the list s are of one account, in the heap h.           *)
Distinct(h, s) ==
    \A j, k \in DOMAIN s : s[j] # NULL /\ s[k] # NULL /\ h[s[j]] = h[s[k]] => j = k

(* Slots that are dropped, emptied or moved about stay distinct.             *)
LEMMA Moved ==
    ASSUME Typed, IInv', SignersKept, Distinct(signer, Pending), NEW from,
           \A j \in DOMAIN Pending' : Pending'[j] # NULL => from[j] \in DOMAIN Pending /\ Pending'[j] = Pending[from[j]],
           \A j, l \in DOMAIN Pending' : from[j] = from[l] => j = l
    PROVE  Distinct(signer', Pending')
  <1> SUFFICES ASSUME NEW j \in DOMAIN Pending', NEW l \in DOMAIN Pending', Pending'[j] # NULL, Pending'[l] # NULL,
                      signer'[Pending'[j]] = signer'[Pending'[l]]
               PROVE  j = l
    BY DEF Distinct
  <1>1. /\ from[j] \in DOMAIN Pending /\ Pending'[j] = Pending[from[j]]
        /\ from[l] \in DOMAIN Pending /\ Pending'[l] = Pending[from[l]]
    OBVIOUS
  <1>2. Pending'[j] \in DOMAIN signer' /\ Pending'[l] \in DOMAIN signer'
    BY DEF IInv, SignerOwnedOnce
  <1>3. Pending'[j] \in DOMAIN signer /\ Pending'[l] \in DOMAIN signer
    BY <1>1 DEF Typed, IInv, SignerOwnedOnce
  <1>4. signer[Pending[from[j]]] = signer[Pending[from[l]]]
    BY <1>1, <1>2, <1>3 DEF SignersKept
  <1> QED
    BY <1>1, <1>4 DEF Distinct

(* The list stays as it is, or is emptied.                                   *)
LEMMA SameList ==
    ASSUME Typed, IInv', SignersKept, Distinct(signer, Pending), Pending' \in {Pending, <<>>}
    PROVE  Distinct(signer', Pending')
  <1> DEFINE from == [j \in DOMAIN Pending |-> j]
  <1>1. \A j \in DOMAIN Pending' : from[j] \in DOMAIN Pending /\ Pending'[j] = Pending[from[j]]
    OBVIOUS
  <1>2. \A j, l \in DOMAIN Pending' : from[j] = from[l] => j = l
    OBVIOUS
  <1> QED
    BY <1>1, <1>2, Moved, Zenon

(* A signer of another account is added.                                     *)
LEMMA AddDistinct ==
    ASSUME Typed, IInv', Distinct(signer, Pending), NEW a \in Account, neoc_tx_builder_add_signer(a)
    PROVE  BuilderTyped(builder') /\ Distinct(signer', Pending')
  <1>1. PICK x \in Sgn \ DOMAIN signer :
          signer' = With(signer, x, a) /\ builder' = [builder EXCEPT !.signers = Append(@, x)]
    BY DEF neoc_tx_builder_add_signer
  <1>2. /\ builder # NULL /\ builder \in Builder /\ Len(builder.signers) < MaxSigners
        /\ a \notin listed(builder.signers) /\ Pending = builder.signers
    BY DEF neoc_tx_builder_add_signer, accepts, Typed, BuilderTyped, Pending
  <1>3. builder.signers \in Seq(Sgn \cup {NULL})
    BY <1>2 DEF Builder
  <1>4. builder' \in Builder /\ builder'.signers = Append(Pending, x)
    <2> DEFINE p == Append(Pending, x)
    <2>1. p \in Seq(Sgn \cup {NULL})
      BY <1>1, <1>2, <1>3
    <2>2. builder' = [builder EXCEPT !.signers = p]
      BY <1>1, <1>2
    <2> HIDE DEF p
    <2>3. builder' \in Builder /\ builder'.signers = p
      BY <1>2, <2>1, <2>2 DEF Builder
    <2> QED
      BY <2>3 DEF p
  <1>5. Len(builder'.signers) <= MaxSigners
    BY <1>2, <1>3, <1>4, SizeAssumption
  <1>6. builder' # NULL => Pending' = Append(Pending, x)
    BY <1>4 DEF Pending
  <1>7. /\ \A k \in DOMAIN Pending : Pending[k] # NULL => Pending[k] \in DOMAIN signer /\ signer[Pending[k]] # a
    BY <1>2 DEF listed, holes, Typed, IInv, SignerOwnedOnce
  <1>8. signer'[x] = a /\ \A y \in DOMAIN signer : signer'[y] = signer[y]
    BY <1>1 DEF With
  <1>9. ASSUME Pending' = Append(Pending, x) PROVE Distinct(signer', Pending')
    <2>1. \A k \in DOMAIN Pending' : \/ k \in DOMAIN Pending /\ Pending'[k] = Pending[k]
                                     \/ k = Len(Pending) + 1 /\ Pending'[k] = x
      BY <1>2, <1>3, <1>9
    <2> QED
      BY <1>7, <1>8, <2>1 DEF Distinct
  <1>10. Pending' = <<>> => Distinct(signer', Pending')
    BY DEF Distinct
  <1> QED
    BY <1>4, <1>5, <1>6, <1>9, <1>10 DEF BuilderTyped, Pending

(* neoc_tx_builder_set_first_signer moves the slots before k up by one.      *)
LEMMA FirstDistinct ==
    ASSUME Typed, IInv', Distinct(signer, Pending), SignersKept, NEW a, neoc_tx_builder_set_first_signer(a)
    PROVE  BuilderTyped(builder') /\ Distinct(signer', Pending')
  <1>1. PICK k \in DOMAIN builder.signers : builder' = [builder EXCEPT !.signers = moved_first(@, k)]
    BY DEF neoc_tx_builder_set_first_signer, found
  <1>2. builder # NULL /\ builder \in Builder /\ Pending = builder.signers
    BY DEF neoc_tx_builder_set_first_signer, Typed, BuilderTyped, Pending
  <1>3. /\ Pending \in Seq(Sgn \cup {NULL}) /\ DOMAIN Pending = 1 .. Len(Pending) /\ Len(Pending) \in Nat
        /\ k \in 1 .. Len(Pending) /\ Len(Pending) <= MaxSigners
    BY <1>1, <1>2 DEF Builder, Typed, BuilderTyped
  <1> DEFINE from == [j \in 1 .. Len(Pending) |-> IF j = 1 THEN k ELSE IF j <= k THEN j - 1 ELSE j]
             p == [j \in 1 .. Len(Pending) |-> Pending[from[j]]]
  <1>4. \A j \in 1 .. Len(Pending) : from[j] \in 1 .. Len(Pending)
    BY <1>3
  <1>5. \A j, l \in 1 .. Len(Pending) : from[j] = from[l] => j = l
    BY <1>3
  <1>6. builder' = [builder EXCEPT !.signers = p]
    BY <1>1, <1>2, <1>3, Zenon DEF moved_first
  <1> HIDE DEF from
  <1>7. p \in Seq(Sgn \cup {NULL}) /\ Len(p) = Len(Pending)
    BY <1>3, <1>4
  <1>8. DOMAIN p = 1 .. Len(Pending) /\ \A j \in 1 .. Len(Pending) : p[j] = Pending[from[j]]
    OBVIOUS
  <1> HIDE DEF p
  <1>9. builder' \in Builder /\ builder'.signers = p
    BY <1>2, <1>6, <1>7, Zenon DEF Builder
  <1>10. Pending' = p \/ Pending' = <<>>
    BY <1>9 DEF Pending
  <1>11. /\ \A j \in DOMAIN Pending' : Pending'[j] # NULL => from[j] \in DOMAIN Pending /\ Pending'[j] = Pending[from[j]]
         /\ \A j, l \in DOMAIN Pending' : from[j] = from[l] => j = l
    BY <1>3, <1>4, <1>5, <1>8, <1>10
  <1>12. Distinct(signer', Pending')
    BY <1>11, Moved
  <1> QED
    BY <1>3, <1>7, <1>9, <1>12 DEF BuilderTyped

(* A build that fails empties slots.                                         *)
LEMMA FailDistinct ==
    ASSUME Typed, IInv', Distinct(signer, Pending), SignersKept, build_fail
    PROVE  BuilderTyped(builder') /\ Distinct(signer', Pending')
  <1>1. PICK k : builder' = [builder EXCEPT !.signers = [j \in DOMAIN @ |-> IF j < k THEN NULL ELSE @[j]]]
    BY Zenon DEF build_fail
  <1>2. builder # NULL /\ builder \in Builder /\ Pending = builder.signers /\ Len(Pending) <= MaxSigners
    BY DEF build_fail, can_build, Typed, BuilderTyped, Pending
  <1>3. Pending \in Seq(Sgn \cup {NULL})
    BY <1>2 DEF Builder
  <1> DEFINE p == [j \in DOMAIN Pending |-> IF j < k THEN NULL ELSE Pending[j]]
             from == [j \in DOMAIN Pending |-> j]
  <1>4. builder' = [builder EXCEPT !.signers = p]
    BY <1>1, <1>2 DEF Builder
  <1>5. p \in Seq(Sgn \cup {NULL}) /\ Len(p) = Len(Pending)
    BY <1>3
  <1>6. DOMAIN p = DOMAIN Pending /\ \A j \in DOMAIN Pending : p[j] # NULL => p[j] = Pending[j]
    OBVIOUS
  <1> HIDE DEF p
  <1>7. builder' \in Builder /\ builder'.signers = p
    BY <1>2, <1>4, <1>5, Zenon DEF Builder
  <1>8. Pending' = p \/ Pending' = <<>>
    BY <1>7 DEF Pending
  <1>9. /\ \A j \in DOMAIN Pending' : Pending'[j] # NULL => from[j] \in DOMAIN Pending /\ Pending'[j] = Pending[from[j]]
        /\ \A j, l \in DOMAIN Pending' : from[j] = from[l] => j = l
    BY <1>6, <1>8
  <1>10. Distinct(signer', Pending')
    BY <1>9, Moved, Zenon
  <1> QED
    BY <1>2, <1>5, <1>7, <1>10 DEF BuilderTyped

(* A builder made in one call, for accounts that are pairwise different.     *)
LEMMA CallDistinct ==
    ASSUME NEW s \in Script, NEW ps \in Parties \cup {<<>>}, neoc_tx_builder_create_call(s, ps)
    PROVE  BuilderTyped(builder') /\ Distinct(signer', Pending')
  <1>1. PICK v \in Value, c \in Seq(Sgn) :
          /\ builder' = [new_builder(v) EXCEPT !.script = s, !.signers = c]
          /\ Len(c) = Len(ps) /\ \A j, k \in DOMAIN c : signer'[c[j]] = signer'[c[k]] => j = k
    BY CallSigners, Zenon
  <1> DEFINE b == new_builder(v)
  <1>2. b \in Builder
    BY NewBuilderTyped DEF BuilderTyped
  <1> HIDE DEF b
  <1>3. builder' = [b EXCEPT !.script = s, !.signers = c]
    BY <1>1 DEF b
  <1>4. c \in Seq(Sgn \cup {NULL})
    BY <1>1
  <1>5. builder' \in Builder /\ builder'.signers = c
    BY <1>2, <1>3, <1>4, Zenon DEF Builder
  <1>6. Len(c) <= MaxSigners
    BY <1>1 DEF neoc_tx_builder_create_call
  <1>7. Pending' = c \/ Pending' = <<>>
    BY <1>5 DEF Pending
  <1>8. Distinct(signer', c) /\ Distinct(signer', <<>>)
    BY <1>1 DEF Distinct
  <1> QED
    BY <1>5, <1>6, <1>7, <1>8 DEF BuilderTyped

(* The setters of the builder, by the width of the fields.                   *)
LEMMA SetTyped ==
    ASSUME Typed, Set
    PROVE  BuilderTyped(builder') /\ builder'.signers = builder.signers
  <1>0. builder # NULL /\ builder \in Builder /\ Len(builder.signers) <= MaxSigners /\ builder.fields \in Fields
    BY DEF Set, neoc_tx_builder_set_field, neoc_tx_builder_add_fee, neoc_tx_builder_set_script, Typed, BuilderTyped,
           Builder
  <1>1. ASSUME NEW g \in Fields, builder' = [builder EXCEPT !.fields = g]
        PROVE  BuilderTyped(builder') /\ builder'.signers = builder.signers
    BY <1>0, <1>1 DEF BuilderTyped, Builder
  <1>2. ASSUME NEW f \in FieldName, NEW v \in 0 .. MaxFee, builder' = [builder EXCEPT !.fields[f] = v]
        PROVE  BuilderTyped(builder') /\ builder'.signers = builder.signers
    <2>1. [builder.fields EXCEPT ![f] = v] \in Fields
      BY <1>0, <1>2 DEF Fields
    <2>2. builder' = [builder EXCEPT !.fields = [builder.fields EXCEPT ![f] = v]]
      BY <1>2
    <2> QED
      BY <1>1, <2>1, <2>2
  <1>3. ASSUME NEW f \in FieldName, NEW v \in Value, neoc_tx_builder_add_fee(f, v)
        PROVE  BuilderTyped(builder') /\ builder'.signers = builder.signers
    <2> DEFINE w == (builder.fields[f] + v) % (MaxFee + 1)
    <2>1. builder.fields[f] \in Nat /\ v \in Nat
      BY <1>0, <1>3, ValueAssumption, FeeAssumption DEF Fields
    <2>2. w \in 0 .. MaxFee
      BY <2>1, FeeAssumption
    <2>3. builder' = [builder EXCEPT !.fields[f] = w]
      BY <1>3 DEF neoc_tx_builder_add_fee
    <2> HIDE DEF w
    <2> QED
      BY <1>2, <2>2, <2>3
  <1>4. ASSUME NEW f \in FieldName, NEW v \in Value, neoc_tx_builder_set_field(f, v)
        PROVE  BuilderTyped(builder') /\ builder'.signers = builder.signers
    BY <1>2, <1>4, FeeAssumption DEF neoc_tx_builder_set_field
  <1>5. ASSUME NEW s \in Script \cup {NULL}, neoc_tx_builder_set_script(s)
        PROVE  BuilderTyped(builder') /\ builder'.signers = builder.signers
    BY <1>0, <1>5 DEF neoc_tx_builder_set_script, BuilderTyped, Builder
  <1> QED
    BY <1>3, <1>4, <1>5 DEF Set

(* The calls on attributes.                                                  *)
LEMMA AttributeTyped ==
    ASSUME Typed, Attribute
    PROVE  BuilderTyped(builder') /\ data' \subseteq Blk
  <1>0. builder # NULL /\ BuilderTyped(builder) /\ data \subseteq Blk
    BY Zenon DEF Attribute, neoc_tx_builder_add_attribute, neoc_tx_builder_set_high_priority, Typed
  <1>1. ASSUME NEW type \in AttributeType, NEW d \in Blk \cup {NULL}, neoc_tx_builder_add_attribute(type, d)
        PROVE  BuilderTyped(builder') /\ data' \subseteq Blk
    <2>1. has_room(builder)
      BY <1>1 DEF neoc_tx_builder_add_attribute
    <2>2. /\ BuilderTyped(stored(builder, type, d))
          /\ BuilderTyped([builder EXCEPT !.attributes[builder.attribute_count + 1] = [type |-> type, data |-> NULL]])
      BY <1>0, <2>1, StoredTyped
    <2>3. /\ \/ builder' = stored(builder, type, d)
             \/ builder' = [builder EXCEPT !.attributes[builder.attribute_count + 1] = [type |-> type, data |-> NULL]]
          /\ data' \in {data, data \cup ({d} \ {NULL})}
      BY <1>1 DEF neoc_tx_builder_add_attribute
    <2>4. data' \subseteq Blk
      BY <1>0, <2>3
    <2> QED
      BY <2>2, <2>3, <2>4
  <1>2. ASSUME NEW high \in BOOLEAN, neoc_tx_builder_set_high_priority(high)
        PROVE  BuilderTyped(builder') /\ data' \subseteq Blk
    <2> DEFINE old == {k \in counted(builder) : builder.attributes[k].type = "HIGH_PRIORITY"}
               k == CHOOSE x \in old : \A y \in old : x <= y
               b == IF old = {} THEN builder ELSE unslotted(builder, k)
    <2>1. /\ data' = IF old = {} THEN data ELSE data \ {builder.attributes[k].data}
          /\ builder' = IF high /\ has_room(b) THEN stored(b, "HIGH_PRIORITY", NULL) ELSE b
      BY <1>2, Zenon DEF neoc_tx_builder_set_high_priority
    <2>2. old # {} => builder.attribute_count >= 1
      <3>1. builder.attribute_count \in Nat
        BY <1>0, BoundAssumption DEF BuilderTyped, Builder
      <3> QED
        BY <3>1 DEF counted
    <2> HIDE DEF old, k
    <2>3. BuilderTyped(b)
      BY <1>0, <2>2, UnslottedTyped
    <2> HIDE DEF b
    <2>4. "HIGH_PRIORITY" \in AttributeType /\ NULL \in Blk \cup {NULL}
      BY DEF AttributeType
    <2>5. BuilderTyped(builder')
      BY <2>1, <2>3, <2>4, StoredTyped, Zenon
    <2> QED
      BY <1>0, <2>1, <2>5
  <1> QED
    BY <1>1, <1>2 DEF Attribute

(* Every step keeps the builder well formed and its signers distinct.        *)
LEMMA BuilderStep ==
    ASSUME Typed, IInv', SignersKept, Distinct(signer, Pending), [Next]_vars
    PROVE  (builder' # NULL => BuilderTyped(builder')) /\ data' \subseteq Blk /\ Distinct(signer', Pending')
  <1> USE DEF heap
  <1> DEFINE Goal == /\ builder' # NULL => BuilderTyped(builder')
                     /\ data' \subseteq Blk /\ Distinct(signer', Pending')
  <1>0. data \subseteq Blk /\ (builder # NULL => BuilderTyped(builder))
    BY DEF Typed
  <1>1. ASSUME data' = data, builder' = builder PROVE Goal
    BY <1>0, <1>1, SameList DEF Pending
  <1>2. ASSUME data' = data, BuilderTyped(builder'), builder'.signers = <<>> PROVE Goal
    BY <1>0, <1>2, SameList DEF Pending
  <1>3. ASSUME builder # NULL, data' \subseteq Blk, BuilderTyped(builder'), builder'.signers = builder.signers PROVE Goal
    BY <1>0, <1>3, SameList DEF Pending
  <1> SUFFICES Goal
    OBVIOUS
  <1> HIDE DEF Goal
  <1>4. CASE neoc_tx_builder_create
    <2>1. PICK v \in Value : builder' = new_builder(v)
      BY <1>4, DrawnValues, Zenon DEF neoc_tx_builder_create
    <2>2. BuilderTyped(builder') /\ builder'.signers = <<>>
      BY <2>1, NewBuilderTyped, NewBuilder
    <2> QED
      BY <1>2, <1>4, <2>2 DEF neoc_tx_builder_create
  <1>5. CASE neoc_tx_builder_free
    <2>1. builder' = NULL /\ data' \subseteq data
      BY <1>5 DEF neoc_tx_builder_free
    <2>2. Pending' = <<>>
      BY <2>1 DEF Pending
    <2>3. Distinct(signer', Pending')
      BY <2>2, SameList
    <2> QED
      BY <1>0, <2>1, <2>3 DEF Goal
  <1>6. CASE \E s \in Script, ps \in Parties \cup {<<>>} : neoc_tx_builder_create_call(s, ps)
    BY <1>0, <1>6, CallDistinct, Zenon DEF Goal, neoc_tx_builder_create_call
  <1>7. CASE Set
    <2>1. builder # NULL /\ data' = data
      BY <1>7 DEF Set, neoc_tx_builder_set_field, neoc_tx_builder_add_fee, neoc_tx_builder_set_script
    <2> QED
      BY <1>0, <1>3, <1>7, <2>1, SetTyped
  <1>8. CASE Order
    <2>1. data' = data
      BY <1>8 DEF Order, neoc_tx_builder_add_signer, neoc_tx_builder_set_first_signer
    <2> QED
      BY <1>0, <1>8, <2>1, AddDistinct, FirstDistinct DEF Order, Goal
  <1>9. CASE Attribute
    <2>1. builder # NULL
      BY <1>9, Zenon DEF Attribute, neoc_tx_builder_add_attribute, neoc_tx_builder_set_high_priority
    <2>2. DOMAIN builder = BuilderParts
      BY <2>1 DEF Typed, IInv, Shape, BuilderShape
    <2>3. builder'.signers = builder.signers
      BY <1>9, <2>2, AttributeSigners
    <2> QED
      BY <1>3, <1>9, <2>1, <2>3, AttributeTyped
  <1>10. ASSUME NEW j \in Txn, NEW x \in BOOLEAN, builder # NULL, data' = data,
                \/ builder' = handed_over(builder, j) \/ builder' = [handed_over(builder, j) EXCEPT !.is_signed = x]
         PROVE  Goal
    <2> DEFINE h == handed_over(builder, j)
    <2>1. BuilderTyped(h) /\ h.signers = <<>> /\ BuilderTyped([h EXCEPT !.is_signed = x])
      BY <1>0, <1>10, HandedTyped
    <2> HIDE DEF h
    <2>2. [h EXCEPT !.is_signed = x].signers = <<>>
      BY <2>1 DEF BuilderTyped, Builder
    <2>3. builder' = h \/ builder' = [h EXCEPT !.is_signed = x]
      BY <1>10 DEF h
    <2> QED
      BY <1>2, <1>10, <2>1, <2>2, <2>3, Zenon
  <1>11. CASE Build
    <2>1. build_fail => data' = data
      BY DEF build_fail
    <2>2. \A j : neoc_tx_builder_build_unsigned(j) => data' = data /\ builder # NULL /\ builder' = handed_over(builder, j)
      BY UnsignedParts DEF neoc_tx_builder_build_unsigned
    <2>3. TRUE \in BOOLEAN
      OBVIOUS
    <2> QED
      BY <1>0, <1>10, <1>11, <2>1, <2>2, <2>3, FailDistinct, Zenon DEF Build, Goal
  <1>12. CASE Sign
    <2>1. ASSUME NEW ps, neoc_tx_builder_sign(ps) PROVE Goal
      <3>1. PICK n \in signing(ps) : builder' = [builder EXCEPT !.is_signed = @ \/ n = Len(ps)]
        BY <2>1, Zenon DEF neoc_tx_builder_sign
      <3>2. builder # NULL /\ data' = data
        BY <2>1 DEF neoc_tx_builder_sign
      <3>3. builder.is_signed \in BOOLEAN
        BY <1>0, <3>2 DEF BuilderTyped, Builder
      <3>4. PICK x \in BOOLEAN : x = (builder.is_signed \/ n = Len(ps))
        BY Zenon
      <3>5. builder' = [builder EXCEPT !.is_signed = x]
        BY <3>1, <3>4, Zenon
      <3>6. BuilderTyped(builder') /\ builder'.signers = builder.signers
        BY <1>0, <3>2, <3>5 DEF BuilderTyped, Builder
      <3> QED
        BY <1>0, <1>3, <3>2, <3>6
    <2>2. ASSUME NEW j \in Txn, NEW ps, neoc_tx_builder_build_and_sign(j, ps) PROVE Goal
      <3>1. PICK t \in Unsigned(j), n \in signing(ps) :
              builder' = [handed_over(builder, j) EXCEPT !.is_signed = @ \/ (ps # <<>> /\ n = Len(ps))]
        BY <2>2, Zenon DEF neoc_tx_builder_build_and_sign
      <3>2. builder # NULL /\ data' = data
        BY <2>2, UnsignedParts DEF neoc_tx_builder_build_and_sign
      <3>3. PICK x \in BOOLEAN : x = (handed_over(builder, j).is_signed \/ (ps # <<>> /\ n = Len(ps)))
        BY Zenon
      <3>4. builder' = [handed_over(builder, j) EXCEPT !.is_signed = x]
        BY <3>1, <3>3, Zenon
      <3> QED
        BY <1>10, <3>2, <3>4
    <2> QED
      BY <1>12, <2>1, <2>2, Zenon DEF Sign
  <1>13. CASE \E j \in Txn : neoc_tx_builder_get_hash(j) \/ neoc_tx_builder_calculate_fees(j)
    <2>1. ASSUME NEW j \in Txn, neoc_tx_builder_get_hash(j) PROVE Goal
      BY <1>1, <1>10, <2>1, Zenon DEF neoc_tx_builder_get_hash
    <2>2. ASSUME NEW j \in Txn, neoc_tx_builder_calculate_fees(j) PROVE Goal
      <3>1. builder # NULL
        BY <2>2, UnsignedParts DEF neoc_tx_builder_calculate_fees
      <3> QED
        BY <1>10, <2>2, <3>1, Zenon DEF neoc_tx_builder_calculate_fees
    <2> QED
      BY <1>13, <2>1, <2>2
  <1>14. CASE UNCHANGED <<builder, data>>
    BY <1>1, <1>14
  <1> QED
    BY <1>4, <1>5, <1>6, <1>7, <1>8, <1>9, <1>11, <1>12, <1>13, <1>14 DEF Next, Call, vars

-----------------------------------------------------------------------------
(* The blocks of attribute data.                                             *)

Flags == reused \in BOOLEAN /\ undefined \in BOOLEAN

(* A builder with the slots of b.                                            *)
SlotsOf(b, c) == c \in Builder /\ c.attributes = b.attributes /\ c.attribute_count = b.attribute_count

(* Setting anything else leaves the slots alone.                             *)
LEMMA SlotsAlone ==
    ASSUME NEW b \in Builder, NEW x, NEW y
    PROVE  /\ [b EXCEPT !.script = x].attributes = b.attributes
           /\ [b EXCEPT !.script = x].attribute_count = b.attribute_count
           /\ [b EXCEPT !.signers = x].attributes = b.attributes
           /\ [b EXCEPT !.signers = x].attribute_count = b.attribute_count
           /\ [b EXCEPT !.fields = x].attributes = b.attributes
           /\ [b EXCEPT !.fields = x].attribute_count = b.attribute_count
           /\ [b EXCEPT !.is_signed = x].attributes = b.attributes
           /\ [b EXCEPT !.is_signed = x].attribute_count = b.attribute_count
           /\ [b EXCEPT !.signers = x, !.built_transaction = y].attributes = b.attributes
           /\ [b EXCEPT !.signers = x, !.built_transaction = y].attribute_count = b.attribute_count
  BY DEF Builder

(* The calls that build or sign.                                             *)
LEMMA BuildingSlots ==
    ASSUME Typed, builder # NULL, NEW j \in Txn, NEW x \in BOOLEAN,
           \/ builder' = handed_over(builder, j) \/ builder' = [handed_over(builder, j) EXCEPT !.is_signed = x]
           \/ builder' = [builder EXCEPT !.is_signed = x]
    PROVE  SlotsOf(builder, builder')
  <1> DEFINE h == handed_over(builder, j)
  <1>1. builder \in Builder /\ BuilderTyped(builder)
    BY DEF Typed, BuilderTyped
  <1>2. h \in Builder /\ [h EXCEPT !.is_signed = x] \in Builder
    BY <1>1, HandedTyped DEF BuilderTyped
  <1>3. h.attributes = builder.attributes /\ h.attribute_count = builder.attribute_count
    BY <1>1, SlotsAlone DEF handed_over
  <1>4. CASE builder' = [builder EXCEPT !.is_signed = x]
    <2>1. builder' \in Builder
      BY <1>1, <1>4 DEF Builder
    <2> QED
      BY <1>1, <1>4, <2>1, SlotsAlone, Zenon DEF SlotsOf
  <1> HIDE DEF h
  <1>5. [h EXCEPT !.is_signed = x].attributes = h.attributes /\ [h EXCEPT !.is_signed = x].attribute_count = h.attribute_count
    BY <1>2, SlotsAlone, Zenon
  <1>6. CASE builder' = h \/ builder' = [h EXCEPT !.is_signed = x]
    BY <1>2, <1>3, <1>5, <1>6, Zenon DEF SlotsOf
  <1> QED
    BY <1>4, <1>6 DEF h

(* What a step does to the builder and the blocks.                           *)
LEMMA SlotsStep ==
    ASSUME Typed, IInv', SignersKept, Distinct(signer, Pending), [Next]_vars
    PROVE  \/ UNCHANGED <<builder, heap>>
           \/ UNCHANGED heap /\ builder # NULL /\ SlotsOf(builder, builder')
           \/ UNCHANGED heap /\ builder = NULL /\ builder' \in Builder /\ builder'.attribute_count = 0
           \/ ~undefined /\ neoc_tx_builder_free
           \/ ~undefined /\ Attribute
  <1> DEFINE Goal == \/ UNCHANGED <<builder, heap>>
                     \/ UNCHANGED heap /\ builder # NULL /\ SlotsOf(builder, builder')
                     \/ UNCHANGED heap /\ builder = NULL /\ builder' \in Builder /\ builder'.attribute_count = 0
                     \/ ~undefined /\ neoc_tx_builder_free
                     \/ ~undefined /\ Attribute
  <1> SUFFICES Goal
    OBVIOUS
  <1>0. builder # NULL => builder \in Builder /\ BuilderTyped(builder)
    BY DEF Typed, BuilderTyped
  <1>1. ASSUME UNCHANGED heap, builder # NULL, SlotsOf(builder, builder') PROVE Goal
    BY <1>1
  <1>2. CASE neoc_tx_builder_create
    <2>1. PICK v \in Value : builder' = new_builder(v)
      BY <1>2, DrawnValues, Zenon DEF neoc_tx_builder_create
    <2>2. builder' \in Builder /\ builder'.attribute_count = 0
      BY <2>1, NewBuilderTyped DEF BuilderTyped, new_builder
    <2> QED
      BY <1>2, <2>2, Zenon DEF neoc_tx_builder_create
  <1>3. CASE \E s \in Script, ps \in Parties \cup {<<>>} : neoc_tx_builder_create_call(s, ps)
    <2>1. PICK s \in Script, ps \in Parties \cup {<<>>} : neoc_tx_builder_create_call(s, ps)
      BY <1>3, Zenon
    <2>2. PICK v, c : builder' = [new_builder(v) EXCEPT !.script = s, !.signers = c]
      BY <2>1, CallSigners, Zenon
    <2>3. builder'.attribute_count = 0
      BY <2>2 DEF new_builder
    <2>4. builder' \in Builder
      BY <2>1, CallDistinct, Zenon DEF BuilderTyped
    <2> QED
      BY <2>1, <2>3, <2>4, Zenon DEF neoc_tx_builder_create_call
  <1>4. CASE Set
    <2>1. builder # NULL /\ heap' = heap
      BY <1>4, Zenon DEF Set, neoc_tx_builder_set_field, neoc_tx_builder_add_fee, neoc_tx_builder_set_script
    <2>2. builder' \in Builder
      BY <1>4, SetTyped DEF BuilderTyped
    <2>3. (\E x : builder' = [builder EXCEPT !.fields = x]) \/ (\E x : builder' = [builder EXCEPT !.script = x])
      <3>1. ASSUME NEW f, NEW v, neoc_tx_builder_set_field(f, v) \/ neoc_tx_builder_add_fee(f, v)
            PROVE  \E x : builder' = [builder EXCEPT !.fields = x]
        <4>1. \E z : builder' = [builder EXCEPT !.fields[f] = z]
          BY <3>1 DEF neoc_tx_builder_set_field, neoc_tx_builder_add_fee
        <4> QED
          BY <4>1
      <3> QED
        BY <1>4, <3>1, Zenon DEF Set, neoc_tx_builder_set_script
    <2>4. builder'.attributes = builder.attributes /\ builder'.attribute_count = builder.attribute_count
      <3>1. CASE \E x : builder' = [builder EXCEPT !.fields = x]
        BY <1>0, <2>1, <3>1, SlotsAlone
      <3>2. CASE \E x : builder' = [builder EXCEPT !.script = x]
        BY <1>0, <2>1, <3>2, SlotsAlone
      <3> QED
        BY <2>3, <3>1, <3>2
    <2> QED
      BY <1>1, <2>1, <2>2, <2>4, Zenon DEF SlotsOf
  <1>5. CASE Order \/ build_fail
    <2>1. builder # NULL /\ heap' = heap
      BY <1>5, Zenon DEF Order, neoc_tx_builder_add_signer, neoc_tx_builder_set_first_signer, build_fail, can_build
    <2>2. builder' \in Builder
      BY <1>5, AddDistinct, FirstDistinct, FailDistinct, Zenon DEF Order, BuilderTyped
    <2>3. \E x : builder' = [builder EXCEPT !.signers = x]
      BY <1>5, Zenon DEF Order, neoc_tx_builder_add_signer, neoc_tx_builder_set_first_signer, build_fail
    <2>4. builder'.attributes = builder.attributes /\ builder'.attribute_count = builder.attribute_count
      BY <1>0, <2>1, <2>3, SlotsAlone
    <2> QED
      BY <1>1, <2>1, <2>2, <2>4, Zenon DEF SlotsOf
  <1>6. ASSUME NEW j \in Txn, neoc_tx_builder_build_unsigned(j) \/ neoc_tx_builder_calculate_fees(j) PROVE Goal
    <2>1. builder # NULL /\ heap' = heap /\ builder' = handed_over(builder, j)
      BY <1>6, UnsignedParts, Zenon DEF neoc_tx_builder_build_unsigned, neoc_tx_builder_calculate_fees
    <2> QED
      BY <1>1, <2>1, BuildingSlots, Zenon
  <1>7. CASE Build
    BY <1>5, <1>6, <1>7, Zenon DEF Build
  <1>8. CASE Sign
    <2>2. ASSUME NEW ps, neoc_tx_builder_sign(ps) PROVE Goal
      <3>1. PICK n : builder' = [builder EXCEPT !.is_signed = @ \/ n = Len(ps)]
        BY <2>2, Zenon DEF neoc_tx_builder_sign
      <3>2. builder # NULL /\ heap' = heap /\ builder.built_transaction \in DOMAIN tx
        BY <2>2, Zenon DEF neoc_tx_builder_sign
      <3>3. builder.built_transaction \in Txn
        BY <3>2 DEF Typed, TxsTyped
      <3>4. PICK x \in BOOLEAN : x = (builder.is_signed \/ n = Len(ps))
        BY Zenon
      <3>5. builder' = [builder EXCEPT !.is_signed = x]
        BY <3>1, <3>4, Zenon
      <3> QED
        BY <1>1, <3>2, <3>3, <3>5, BuildingSlots, Zenon
    <2>3. ASSUME NEW j \in Txn, NEW ps, neoc_tx_builder_build_and_sign(j, ps) PROVE Goal
      <3>1. PICK t \in Unsigned(j), n \in signing(ps) :
              builder' = [handed_over(builder, j) EXCEPT !.is_signed = @ \/ (ps # <<>> /\ n = Len(ps))]
        BY <2>3, Zenon DEF neoc_tx_builder_build_and_sign
      <3>2. builder # NULL /\ heap' = heap
        BY <2>3, <3>1, UnsignedParts, Zenon DEF neoc_tx_builder_build_and_sign
      <3>3. PICK x \in BOOLEAN : x = (handed_over(builder, j).is_signed \/ (ps # <<>> /\ n = Len(ps)))
        BY Zenon
      <3>4. builder' = [handed_over(builder, j) EXCEPT !.is_signed = x]
        BY <3>1, <3>3, Zenon
      <3> QED
        BY <1>1, <3>2, <3>4, BuildingSlots, Zenon
    <2> QED
      BY <1>8, <2>2, <2>3, Zenon DEF Sign
  <1>9. ASSUME NEW j \in Txn, neoc_tx_builder_get_hash(j) PROVE Goal
    <2>1. builder # NULL /\ heap' = heap /\ (builder' = builder \/ builder' = handed_over(builder, j))
      BY <1>9, Zenon DEF neoc_tx_builder_get_hash
    <2>2. TRUE \in BOOLEAN
      OBVIOUS
    <2> QED
      BY <1>1, <2>1, <2>2, BuildingSlots, Zenon
  <1>10. CASE UNCHANGED <<builder, heap>>
    BY <1>10
  <1> HIDE DEF Goal
  <1>11. Goal \/ (~undefined /\ (neoc_tx_builder_free \/ Attribute))
    BY <1>2, <1>3, <1>4, <1>5, <1>6, <1>7, <1>8, <1>9, <1>10, Zenon DEF Next, Call, vars
  <1> QED
    BY <1>11, Zenon DEF Goal

(* Some number of a set of naturals is its least.                            *)
LEMMA LeastNumber ==
    ASSUME NEW S, S \subseteq Nat, S # {}
    PROVE  \E x \in S : \A y \in S : x <= y
  <1>1. PICK x \in S : \A y \in S : ~(<<y, x>> \in OpToRel(<, Nat))
    BY NatLessThanWellFounded, WFMin
  <1>2. \A y \in S : ~(y < x)
    BY <1>1 DEF OpToRel
  <1> QED
    BY <1>2

(* Where a builder keeps the attributes when one is added or removed.        *)
LEMMA StoredSlots ==
    ASSUME NEW b, BuilderTyped(b), has_room(b), NEW type, NEW d, ~takes_over(b) \/ d # NULL
    PROVE  LET c == stored(b, type, d)
               n == b.attribute_count + 1
           IN  /\ n \in Nat /\ n \notin counted(b) /\ counted(c) = counted(b) \cup {n}
               /\ \A k \in counted(b) : c.attributes[k] = b.attributes[k]
               /\ c.attributes[n].data = d
  <1> DEFINE c == stored(b, type, d)
             n == b.attribute_count + 1
             x == [type |-> type, data |-> IF d = NULL THEN b.attributes[n].data ELSE d]
  <1>1. b \in Builder /\ n \in slots /\ b.attribute_count \in Nat /\ b.attributes \in [slots -> Slot]
    BY BoundAssumption DEF BuilderTyped, Builder, slots, has_room
  <1>2. c = [b EXCEPT !.attributes = [b.attributes EXCEPT ![n] = x], !.attribute_count = n]
    BY <1>1 DEF stored, Builder
  <1>3. x.data = d
    BY DEF takes_over
  <1> HIDE DEF x
  <1>4. c.attributes = [b.attributes EXCEPT ![n] = x] /\ c.attribute_count = n
    BY <1>1, <1>2 DEF Builder
  <1> HIDE DEF c
  <1>5. counted(b) \subseteq slots
    BY <1>1, BoundAssumption DEF counted, slots
  <1>6. n \in Nat /\ n \notin counted(b) /\ counted(c) = counted(b) \cup {n}
    BY <1>1, <1>4 DEF counted
  <1>7. c.attributes[n] = x /\ \A k \in counted(b) : c.attributes[k] = b.attributes[k]
    BY <1>1, <1>4, <1>5, <1>6
  <1> QED
    BY <1>3, <1>6, <1>7 DEF c

LEMMA UnslottedSlots ==
    ASSUME NEW b, BuilderTyped(b), NEW k \in counted(b)
    PROVE  LET c == unslotted(b, k)
               from(j) == IF j < k THEN j ELSE j + 1
               to(j) == IF j < k THEN j ELSE j - 1
           IN  /\ \A j \in counted(c) : from(j) \in counted(b) \ {k} /\ c.attributes[j] = b.attributes[from(j)]
               /\ \A i, j \in counted(c) : from(i) = from(j) => i = j
               /\ \A j \in counted(b) \ {k} : to(j) \in counted(c) /\ from(to(j)) = j
  <1> DEFINE c == unslotted(b, k)
             f == [j \in slots |-> IF j >= k /\ j < b.attribute_count THEN b.attributes[j + 1] ELSE b.attributes[j]]
             n == b.attribute_count
  <1>1. b \in Builder /\ n \in 1 .. MaxAttributes /\ k \in 1 .. n
    BY BoundAssumption DEF BuilderTyped, Builder, counted
  <1>2. c = [b EXCEPT !.attributes = f, !.attribute_count = n - 1]
    BY <1>1 DEF unslotted, Builder
  <1> HIDE DEF f
  <1>3. c.attributes = f /\ c.attribute_count = n - 1
    BY <1>1, <1>2 DEF Builder
  <1> HIDE DEF c
  <1>4. counted(c) = 1 .. (n - 1) /\ counted(b) = 1 .. n /\ n \in Nat
    BY <1>1, <1>3, BoundAssumption DEF counted
  <1>5. \A j \in 1 .. (n - 1) : f[j] = b.attributes[IF j < k THEN j ELSE j + 1]
    BY <1>1, BoundAssumption DEF f, slots
  <1> HIDE DEF n
  <1> QED
    BY <1>1, <1>3, <1>4, <1>5 DEF c

(* Storing data in a slot that it does not share keeps every block owned.    *)
LEMMA StoredOwns ==
    ASSUME NEW b, BuilderTyped(b), has_room(b), NEW type, NEW d, NEW blocks, Owns(b, blocks), NULL \notin blocks,
           d \notin blocks, ~takes_over(b) \/ d # NULL
    PROVE  Owns(stored(b, type, d), blocks \cup ({d} \ {NULL}))
  <1> DEFINE c == stored(b, type, d)
             n == b.attribute_count + 1
  <1>1. /\ n \notin counted(b) /\ counted(c) = counted(b) \cup {n}
        /\ \A k \in counted(b) : c.attributes[k] = b.attributes[k]
        /\ c.attributes[n].data = d
    BY StoredSlots
  <1> HIDE DEF c, n
  <1>2. \A k \in counted(b) : b.attributes[k].data # NULL => b.attributes[k].data \in blocks /\ b.attributes[k].data # d
    BY DEF Owns
  <1> QED
    BY <1>1, <1>2 DEF Owns, c

(* So does removing an attribute with its data.                              *)
LEMMA UnslottedOwns ==
    ASSUME NEW b, BuilderTyped(b), NEW k \in counted(b), NEW blocks, Owns(b, blocks), NULL \notin blocks
    PROVE  Owns(unslotted(b, k), blocks \ {b.attributes[k].data})
  <1> DEFINE c == unslotted(b, k)
             from(j) == IF j < k THEN j ELSE j + 1
             to(j) == IF j < k THEN j ELSE j - 1
             left == blocks \ {b.attributes[k].data}
  <1>1. /\ \A j \in counted(c) : from(j) \in counted(b) \ {k} /\ c.attributes[j] = b.attributes[from(j)]
        /\ \A i, j \in counted(c) : from(i) = from(j) => i = j
        /\ \A j \in counted(b) \ {k} : to(j) \in counted(c) /\ from(to(j)) = j
    BY UnslottedSlots
  <1> HIDE DEF c, from, to
  <1>2. \A d \in left : \E j \in counted(c) : c.attributes[j].data = d
    <2> TAKE d \in left
    <2>1. PICK j \in counted(b) : b.attributes[j].data = d
      BY DEF Owns
    <2>2. j # k
      BY <2>1
    <2> QED
      BY <1>1, <2>1, <2>2
  <1>3. ASSUME NEW j \in counted(c), c.attributes[j].data # NULL
        PROVE  c.attributes[j].data \in left
    <2>1. from(j) \in counted(b) /\ from(j) # k /\ c.attributes[j].data = b.attributes[from(j)].data
      BY <1>1
    <2>2. b.attributes[from(j)].data \in blocks
      BY <1>3, <2>1 DEF Owns
    <2>3. b.attributes[k].data # b.attributes[from(j)].data
      BY <1>3, <2>1 DEF Owns
    <2> QED
      BY <2>1, <2>2, <2>3
  <1>4. ASSUME NEW j \in counted(c), c.attributes[j].data # NULL,
               NEW i \in counted(c), c.attributes[i].data = c.attributes[j].data
        PROVE  i = j
    <2>1. from(i) \in counted(b) /\ from(j) \in counted(b) /\ b.attributes[from(i)].data = b.attributes[from(j)].data
          /\ b.attributes[from(j)].data # NULL
      BY <1>1, <1>4
    <2>2. from(i) = from(j)
      BY <2>1 DEF Owns
    <2> QED
      BY <1>1, <2>2
  <1> HIDE DEF left
  <1>5. Owns(c, left)
    BY <1>2, <1>3, <1>4 DEF Owns
  <1> QED
    BY <1>5 DEF c, left

(* Data the slots own can be freed.                                          *)
LEMMA Freeable ==
    ASSUME NEW b, Owns(b, data), NEW K, K \subseteq counted(b)
    PROVE  ~misfreed(b, K)
  BY Zenon DEF misfreed, Owns

(* Every step keeps the ownership of the blocks.                             *)
LEMMA AttributesStep ==
    ASSUME Typed, IInv', SignersKept, Distinct(signer, Pending), Flags, AttributesOwned, [Next]_vars
    PROVE  Flags' /\ AttributesOwned'
  <1>0. /\ builder # NULL => BuilderTyped(builder)
        /\ data \subseteq Blk /\ NULL \notin data
    BY BlkAssumption DEF Typed
  <1>f. (reused \in BOOLEAN) /\ (undefined \in BOOLEAN)
    BY DEF Flags
  <1>1. CASE UNCHANGED <<builder, heap>>
    BY <1>1 DEF Flags, AttributesOwned, Owns, heap, counted
  <1>2. CASE UNCHANGED heap /\ builder # NULL /\ SlotsOf(builder, builder')
    <2>1. builder' # NULL
      BY <1>2, BuilderAssumption DEF SlotsOf
    <2>2. ASSUME Owns(builder, data) PROVE Owns(builder', data)
      BY <1>2, <2>2 DEF Owns, counted, SlotsOf
    <2> QED
      BY <1>2, <2>1, <2>2 DEF Flags, AttributesOwned, heap
  <1>3. CASE UNCHANGED heap /\ builder = NULL /\ builder' \in Builder /\ builder'.attribute_count = 0
    <2>1. builder' # NULL /\ counted(builder') = {}
      BY <1>3, BuilderAssumption DEF counted
    <2>2. Owns(builder', {})
      BY <2>1 DEF Owns
    <2> QED
      BY <1>3, <2>1, <2>2 DEF Flags, AttributesOwned, heap
  <1>4. CASE ~undefined /\ neoc_tx_builder_free
    <2>1. /\ builder # NULL /\ builder' = NULL /\ reused' = reused
          /\ data' = data \ {builder.attributes[k].data : k \in counted(builder)}
          /\ undefined' = misfreed(builder, counted(builder))
      BY <1>4, Zenon DEF neoc_tx_builder_free
    <2>2. undefined' \in BOOLEAN
      BY <2>1, Zenon DEF misfreed
    <2>3. ASSUME ~reused PROVE undefined' = FALSE /\ data' = {}
      <3>1. Owns(builder, data)
        BY <2>1, <2>3, Zenon DEF AttributesOwned
      <3>2. ~misfreed(builder, counted(builder))
        BY <3>1, Freeable, Zenon
      <3>3. data' = {}
        BY <2>1, <3>1 DEF Owns
      <3> QED
        BY <2>1, <2>2, <3>2, <3>3, Zenon
    <2> QED
      BY <1>f, <2>1, <2>2, <2>3, Zenon DEF Flags, AttributesOwned
  <1>5. ASSUME ~undefined, NEW type \in AttributeType, NEW d \in Blk \cup {NULL}, neoc_tx_builder_add_attribute(type, d)
        PROVE  Flags' /\ AttributesOwned'
    <2>1. /\ builder # NULL /\ has_room(builder) /\ BuilderTyped(builder) /\ undefined' = undefined /\ d \notin data
      BY <1>0, <1>5, Zenon DEF neoc_tx_builder_add_attribute
    <2> DEFINE n == builder.attribute_count + 1
               x == [type |-> type, data |-> NULL]
    <2>2. builder' \in Builder /\ builder' # NULL
      BY <1>5, AttributeTyped, BuilderAssumption, Zenon DEF Attribute, BuilderTyped
    <2>3. ASSUME builder' = stored(builder, type, d), data' = data \cup ({d} \ {NULL}),
                 reused' = (reused \/ (d = NULL /\ takes_over(builder)))
          PROVE  Flags' /\ AttributesOwned'
      <3>1. reused' \in BOOLEAN /\ (~reused' => ~reused /\ (~takes_over(builder) \/ d # NULL))
        BY <2>3, Zenon
      <3>2. ASSUME ~reused' PROVE Owns(builder', data')
        <4>1. Owns(builder, data)
          BY <2>1, <3>1, <3>2, Zenon DEF AttributesOwned
        <4> QED
          BY <1>0, <2>1, <2>3, <3>1, <3>2, <4>1, StoredOwns, Zenon
      <3> QED
        BY <1>5, <1>f, <2>1, <2>2, <3>1, <3>2, Zenon DEF Flags, AttributesOwned
    <2>4. ASSUME builder' = [builder EXCEPT !.attributes[n] = x], UNCHANGED <<data, reused>>
          PROVE  Flags' /\ AttributesOwned'
      <3> HIDE DEF x
      <3>1. builder \in Builder /\ builder.attribute_count \in Nat
        BY <2>1, BoundAssumption DEF BuilderTyped, Builder
      <3>2. builder'.attributes = [builder.attributes EXCEPT ![n] = x] /\ builder'.attribute_count = builder.attribute_count
        BY <2>4, <3>1 DEF Builder
      <3>3. n \notin counted(builder) /\ counted(builder') = counted(builder)
        BY <3>1, <3>2 DEF counted
      <3>4. \A k \in counted(builder) : builder'.attributes[k] = builder.attributes[k]
        <4>1. counted(builder) \subseteq slots /\ builder.attributes \in [slots -> Slot]
          BY <3>1, BoundAssumption DEF counted, slots, Builder
        <4> QED
          BY <3>2, <3>3, <4>1
      <3>5. ASSUME Owns(builder, data) PROVE Owns(builder', data)
        BY <3>3, <3>4, <3>5 DEF Owns
      <3> QED
        BY <1>5, <1>f, <2>1, <2>2, <2>4, <3>5 DEF Flags, AttributesOwned
    <2> QED
      BY <1>5, <2>3, <2>4, Zenon DEF neoc_tx_builder_add_attribute
  <1>6. ASSUME ~undefined, NEW high \in BOOLEAN, neoc_tx_builder_set_high_priority(high)
        PROVE  Flags' /\ AttributesOwned'
    <2> DEFINE old == {k \in counted(builder) : builder.attributes[k].type = "HIGH_PRIORITY"}
               k == CHOOSE x \in old : \A y \in old : x <= y
               b == IF old = {} THEN builder ELSE unslotted(builder, k)
               left == IF old = {} THEN data ELSE data \ {builder.attributes[k].data}
    <2>1. /\ builder # NULL /\ BuilderTyped(builder) /\ data' = left
          /\ undefined' = (old # {} /\ misfreed(builder, {k}))
          /\ builder' = IF high /\ has_room(b) THEN stored(b, "HIGH_PRIORITY", NULL) ELSE b
          /\ reused' = (reused \/ (high /\ has_room(b) /\ takes_over(b)))
      BY <1>0, <1>6, Zenon DEF neoc_tx_builder_set_high_priority
    <2>2. old # {} => k \in counted(builder)
      <3>1. old \subseteq Nat
        BY DEF counted
      <3>2. old # {} => k \in old
        BY <3>1, LeastNumber, ZenonT(30)
      <3> QED
        BY <3>2
    <2>3. builder' # NULL
      BY <1>6, AttributeTyped, BuilderAssumption, Zenon DEF Attribute, BuilderTyped
    <2>4. BuilderTyped(b)
      <3> HIDE DEF old, k
      <3>1. builder.attribute_count \in Nat
        BY <2>1, CountTyped, Zenon
      <3>2. old # {} => builder.attribute_count >= 1
        BY <2>2, <3>1 DEF counted
      <3> QED
        BY <2>1, <3>2, UnslottedTyped
    <2> HIDE DEF old, k
    <2>5. ASSUME ~reused PROVE Owns(b, left) /\ undefined' = FALSE
      <3>1. Owns(builder, data)
        BY <2>1, <2>5, Zenon DEF AttributesOwned
      <3>2. old # {} => ~misfreed(builder, {k})
        <4>1. old # {} => {k} \subseteq counted(builder)
          BY <2>2
        <4> QED
          BY <3>1, <4>1, Freeable
      <3>3. undefined' = FALSE
        BY <2>1, <3>2, Zenon
      <3>4. old # {} => Owns(unslotted(builder, k), data \ {builder.attributes[k].data})
        BY <1>0, <2>1, <2>2, <3>1, UnslottedOwns
      <3> QED
        BY <3>1, <3>3, <3>4, Zenon
    <2>6. undefined' \in BOOLEAN /\ reused' \in BOOLEAN /\ NULL \notin left
      BY <1>0, <2>1, Zenon
    <2> HIDE DEF b, left
    <2>7. ASSUME ~reused' PROVE Owns(builder', data') /\ ~undefined'
      <3>1. ~reused /\ (high /\ has_room(b) => ~takes_over(b))
        BY <2>1, <2>7, Zenon
      <3>2. CASE high /\ has_room(b)
        <4>1. builder' = stored(b, "HIGH_PRIORITY", NULL) /\ data' = left
          BY <2>1, <3>2, Zenon
        <4>2. Owns(stored(b, "HIGH_PRIORITY", NULL), left \cup ({NULL} \ {NULL}))
          BY <2>4, <2>5, <2>6, <3>1, <3>2, StoredOwns, Zenon
        <4>3. left \cup ({NULL} \ {NULL}) = left
          OBVIOUS
        <4> QED
          BY <2>5, <3>1, <4>1, <4>2, <4>3, Zenon
      <3>3. CASE ~(high /\ has_room(b))
        BY <2>1, <2>5, <3>1, <3>3, ZenonT(30)
      <3> QED
        BY <3>2, <3>3, Zenon
    <2> QED
      BY <2>3, <2>6, <2>7, Zenon DEF Flags, AttributesOwned
  <1> QED
    BY <1>1, <1>2, <1>3, <1>4, <1>5, <1>6, SlotsStep, Zenon DEF Attribute

-----------------------------------------------------------------------------
(* The theorems.                                                             *)

(* Well-formed structures, every block of data owned by one slot, and no     *)
(* account twice in a builder or transaction.                                *)
ContentInv ==
    /\ Typed /\ Flags /\ AttributesOwned
    /\ Distinct(signer, Pending)
    /\ \A i \in DOMAIN tx : Distinct(signer, tx[i].signers)

(* The signers of a transaction stay distinct, whatever made or edited it.   *)
LEMMA TxDistinct ==
    ASSUME ContentInv, IInv', SignersKept, TxsKept, NEW j \in DOMAIN tx'
    PROVE  Distinct(signer', tx'[j].signers)
  <1> DEFINE p == tx'[j].signers
  <1>0. \A k \in DOMAIN p : p[k] \in DOMAIN signer'
    BY SMTT(30) DEF IInv, SignerOwnedOnce
  <1>n. \A i \in DOMAIN tx : tx[i].signers \in Seq(Sgn) /\ \A k \in DOMAIN tx[i].signers :
            tx[i].signers[k] \in DOMAIN signer /\ tx[i].signers[k] # NULL
    <2>1. IInv
      BY DEF ContentInv, Typed
    <2>2. \A i \in DOMAIN tx : tx[i].signers \in Seq(Sgn)
      BY <2>1, Zenon DEF IInv, Shape, TxShape
    <2>3. \A i \in DOMAIN tx : \A k \in DOMAIN tx[i].signers : tx[i].signers[k] \in DOMAIN signer
      BY <2>1, Zenon DEF IInv, SignerOwnedOnce
    <2>4. NULL \notin DOMAIN signer
      BY <2>1, NullAssumption DEF IInv, Shape
    <2> QED
      BY <2>2, <2>3, <2>4, Zenon
  <1>1. ASSUME j \in DOMAIN tx, p = tx[j].signers PROVE Distinct(signer', p)
    <2>1. \A k \in DOMAIN p : signer'[p[k]] = signer[p[k]]
      BY <1>0, <1>n, <1>1 DEF SignersKept
    <2>2. Distinct(signer, p)
      BY <1>1 DEF ContentInv
    <2> HIDE DEF p
    <2> QED
      BY <2>1, <2>2 DEF Distinct
  <1>2. ASSUME j \in DOMAIN tx, Extended(tx[j], tx'[j]) PROVE Distinct(signer', p)
    <2>1. PICK x \in DOMAIN signer : /\ p = Append(tx[j].signers, x)
                                     /\ signer[x] \notin Range(accounts(tx[j].signers)) /\ signer' = signer
      BY <1>2 DEF Extended
    <2>2. \A k \in DOMAIN p : \/ k \in DOMAIN tx[j].signers /\ p[k] = tx[j].signers[k]
                              \/ k = Len(tx[j].signers) + 1 /\ p[k] = x
      <3>1. x \in Sgn /\ tx[j].signers \in Seq(Sgn)
        BY <1>n, <1>2, <2>1 DEF ContentInv, Typed, IInv, Shape
      <3>2. \A q \in Seq(Sgn), y \in Sgn : \A k \in DOMAIN Append(q, y) :
               \/ k \in DOMAIN q /\ Append(q, y)[k] = q[k]
               \/ k = Len(q) + 1 /\ Append(q, y)[k] = y
        OBVIOUS
      <3> HIDE DEF p
      <3> QED
        BY <2>1, <3>1, <3>2
    <2>3. \A k \in DOMAIN tx[j].signers : signer[tx[j].signers[k]] # signer[x]
      BY <2>1 DEF Range, accounts
    <2>4. Distinct(signer, tx[j].signers)
      BY <1>2 DEF ContentInv
    <2> HIDE DEF p
    <2> DEFINE q == tx[j].signers
    <2>5. \A k \in DOMAIN q : q[k] # NULL
      BY <1>n, <1>2
    <2> HIDE DEF q
    <2>6. \A k, l \in DOMAIN p : signer[p[k]] = signer[p[l]] => k = l
      <3> TAKE k, l \in DOMAIN p
      <3>1. CASE k \in DOMAIN q /\ p[k] = q[k] /\ l \in DOMAIN q /\ p[l] = q[l]
        BY <2>4, <2>5, <3>1 DEF Distinct, q
      <3>2. CASE (k \in DOMAIN q /\ p[k] = q[k] /\ p[l] = x) \/ (l \in DOMAIN q /\ p[l] = q[l] /\ p[k] = x)
        BY <2>3, <3>2 DEF q
      <3> QED
        BY <2>2, <3>1, <3>2 DEF q
    <2> QED
      BY <2>1, <2>6, Zenon DEF Distinct
  <1>3. ASSUME Copied(tx'[j]) PROVE Distinct(signer', p)
    <2>1. PICK i \in DOMAIN tx : /\ DOMAIN p = DOMAIN tx[i].signers
                                 /\ \A k \in DOMAIN p : signer'[p[k]] = signer[tx[i].signers[k]]
      BY <1>3 DEF Copied
    <2>2. Distinct(signer, tx[i].signers)
      BY DEF ContentInv
    <2> HIDE DEF p
    <2> QED
      BY <1>n, <2>1, <2>2 DEF Distinct
  <1>4. ASSUME FromBuilder(tx'[j]) PROVE Distinct(signer', p)
    <2>1. /\ p = builder.signers /\ signer' = signer
          /\ \A k \in DOMAIN p : p[k] # NULL /\ \A l \in 1 .. (k - 1) : p[l] # NULL => signer[p[l]] # signer[p[k]]
      BY <1>4 DEF FromBuilder, refused
    <2>2. p \in Seq(Sgn)
      BY DEF IInv, Shape, TxShape
    <2> HIDE DEF p
    <2> SUFFICES ASSUME NEW k \in DOMAIN p, NEW l \in DOMAIN p, signer[p[l]] = signer[p[k]] PROVE k = l
      BY <2>1 DEF Distinct
    <2>3. k \in Nat /\ l \in Nat /\ k >= 1 /\ l >= 1
      BY <2>2
    <2>4. ~(l \in 1 .. (k - 1)) /\ ~(k \in 1 .. (l - 1))
      BY <2>1
    <2> QED
      BY <2>3, <2>4
  <1>5. p = <<>> => Distinct(signer', p)
    BY DEF Distinct
  <1> QED
    BY <1>1, <1>2, <1>3, <1>4, <1>5, ZenonT(30) DEF TxsKept, Edited, Made

(* The invariant holds in the beginning and is kept by every step.           *)
LEMMA ContentInit == Init => ContentInv
  <1> SUFFICES ASSUME Init PROVE ContentInv
    OBVIOUS
  <1>1. /\ signer = <<>> /\ mine = {} /\ tx = <<>> /\ kept = {} /\ builder = NULL /\ data = {}
        /\ reused = FALSE /\ undefined = FALSE
    BY DEF Init, TxInit
  <1>2. DOMAIN signer = {} /\ DOMAIN tx = {} /\ Pending = <<>> /\ DOMAIN Pending = {}
    BY <1>1 DEF Pending
  <1> QED
    BY <1>1, <1>2
    DEF ContentInv, Typed, IInv, Shape, SignerOwnedOnce, KeptLive, SignerTyped, TxsTyped, Distinct, Flags, AttributesOwned

(* Each part of it follows from the lemma of that part.                      *)
LEMMA ContentStep == ContentInv /\ [Next]_vars => ContentInv'
  <1> SUFFICES ASSUME ContentInv, [Next]_vars PROVE ContentInv'
    OBVIOUS
  <1>1. Typed /\ IInv /\ KeptLive /\ Distinct(signer, Pending) /\ SignerTyped
    BY DEF ContentInv, Typed
  <1>2. IInv' /\ KeptLive'
    BY <1>1, OwnedStep, KeptStep
  <1>3. SignersKept /\ TxsKept
    BY <1>1, SignerStep, TxsStep
  <1>4. (builder' # NULL => BuilderTyped(builder')) /\ data' \subseteq Blk /\ Distinct(signer', Pending')
    BY <1>1, <1>2, <1>3, BuilderStep
  <1>5. \A j \in DOMAIN tx' : Distinct(signer', tx'[j].signers)
    BY <1>2, <1>3, TxDistinct
  <1>6. SignerTyped' /\ TxsTyped'
    BY <1>1, <1>3 DEF SignersKept, SignerTyped, TxsKept
  <1>7. Flags' /\ AttributesOwned'
    BY <1>1, <1>2, <1>3, AttributesStep, Zenon DEF ContentInv
  <1> QED
    BY <1>2, <1>4, <1>5, <1>6, <1>7, Zenon DEF ContentInv, Typed

(* For any accounts, sizes of the arrays and groups of calls, failures of    *)
(* malloc included: every structure is well formed, fees stay within their   *)
(* width, neither array of the builder is filled past its end, and no        *)
(* transaction has more witnesses than it may have.                          *)
THEOREM StructuresWellFormed == Spec => []TypeOK
  <1>1. ContentInv => TypeOK
    <2> SUFFICES ASSUME ContentInv PROVE TypeOK
      OBVIOUS
    <2>1. Range(signer) \subseteq Account /\ DOMAIN signer \subseteq Sgn /\ mine \subseteq DOMAIN signer
      BY SMTT(30) DEF ContentInv, Typed, SignerTyped, Range, IInv, Shape, SignerOwnedOnce
    <2> QED
      BY <2>1 DEF TypeOK, ContentInv, Typed, Flags, KeptLive, TxsTyped, TxTyped, TxShape, BuilderTyped
  <1> QED
    BY <1>1, ContentInit, ContentStep, PTL DEF Spec

(* For any accounts, sizes and groups of calls: neither a builder nor a      *)
(* transaction ever holds two signers of one account, also after a build     *)
(* that failed and left holes, after copies and after signers were added to  *)
(* a built transaction.                                                      *)
THEOREM AccountsSignOnce == Spec => []SignersUnique
  <1>1. ContentInv => SignersUnique
    <2> SUFFICES ASSUME ContentInv PROVE SignersUnique
      OBVIOUS
    <2>1. \A j, k \in DOMAIN Pending \ holes(Pending) : signer[Pending[j]] = signer[Pending[k]] => j = k
      BY DEF ContentInv, Distinct, holes
    <2>2. ASSUME NEW i \in DOMAIN tx PROVE IsInjective(accounts(tx[i].signers))
      <3>1. \A k \in DOMAIN tx[i].signers : tx[i].signers[k] # NULL
        BY <2>2, NullAssumption DEF ContentInv, Typed, IInv, Shape, TxShape
      <3>2. Distinct(signer, tx[i].signers)
        BY <2>2 DEF ContentInv
      <3> QED
        BY <3>1, <3>2 DEF Distinct, IsInjective, accounts
    <2> QED
      BY <2>1, <2>2, ZenonT(30) DEF SignersUnique
  <1> QED
    BY <1>1, ContentInit, ContentStep, PTL DEF Spec

(* For any accounts, sizes and groups of calls, failures of malloc included: *)
(* until an attribute without data is put into a slot that                   *)
(* neoc_tx_builder_set_high_priority left with an address in it, every block *)
(* of attribute data is in exactly one slot in use, none is freed twice or   *)
(* used after it was freed, and none is left when the builder is freed.      *)
THEOREM AttributesHaveOneOwner == Spec => []AttributesOwned
  <1>1. ContentInv => AttributesOwned
    BY DEF ContentInv
  <1> QED
    BY <1>1, ContentInit, ContentStep, PTL DEF Spec

(* For any accounts, sizes and groups of calls without a failing malloc: a   *)
(* transaction that neoc_tx_builder_build_unsigned, build_and_sign or        *)
(* get_hash makes has the builder's fields, script and signers, in order.    *)
THEOREM BuiltAsDescribed == Spec => BuiltFaithful
  <1>1. ContentInv /\ [Next]_vars =>
          [builder # NULL /\ "oom" \notin work =>
            \A j \in DOMAIN tx' \ DOMAIN tx :
                builder'.built_transaction = j /\ builder'.signers # builder.signers =>
                    /\ tx'[j].fields = builder.fields /\ tx'[j].script = builder.script
                    /\ tx'[j].signers = builder.signers]_vars
    <2> SUFFICES ASSUME ContentInv, [Next]_vars, "oom" \notin work, NEW j \in DOMAIN tx' \ DOMAIN tx,
                        builder'.signers # builder.signers
                 PROVE  /\ tx'[j].fields = builder.fields /\ tx'[j].script = builder.script
                        /\ tx'[j].signers = builder.signers
      OBVIOUS
    <2>1. TxsKept
      BY TxsStep DEF ContentInv
    <2>2. builder' # builder
      OBVIOUS
    <2> QED
      BY <2>1, <2>2 DEF TxsKept, Made, FromBuilder
  <1> QED
    BY <1>1, ContentInit, ContentStep, PTL DEF Spec, BuiltFaithful

(* For any accounts, sizes and groups of calls: a witness that               *)
(* neoc_transaction_sign_multi or neoc_tx_builder_sign adds signs the        *)
(* transaction as it is then, never a hash that was cached before.           *)
THEOREM WitnessesSignCurrent == Spec => SignsCurrent
  <1>1. ContentInv /\ [Next]_vars =>
          [\A i \in DOMAIN tx \cap DOMAIN tx' :
            \A k \in (Len(tx[i].witnesses) + 1) .. Len(tx'[i].witnesses) :
                tx'[i].witnesses[k].signed # NULL =>
                    tx'[i].witnesses[k].signed = body(tx'[i]) /\ tx'[i].hash = body(tx'[i])]_vars
    <2> SUFFICES ASSUME ContentInv, [Next]_vars, NEW i \in DOMAIN tx \cap DOMAIN tx',
                        NEW m \in (Len(tx[i].witnesses) + 1) .. Len(tx'[i].witnesses),
                        tx'[i].witnesses[m].signed # NULL
                 PROVE  tx'[i].witnesses[m].signed = body(tx'[i]) /\ tx'[i].hash = body(tx'[i])
      OBVIOUS
    <2>1. Edited(tx[i], tx'[i]) /\ TxTyped(tx[i]) /\ TxShape(tx[i]) /\ List(tx[i].witnesses)
      BY TxsStep, Zenon DEF TxsKept, ContentInv, Typed, TxsTyped, TxTyped
    <2>2. tx'[i].witnesses # tx[i].witnesses
      <3>1. Len(tx[i].witnesses) \in Nat
        BY <2>1 DEF List
      <3> QED
        BY <3>1
    <2>10. ~Witnessed(tx[i], tx'[i])
      <3> SUFFICES ASSUME Witnessed(tx[i], tx'[i]) PROVE FALSE
        OBVIOUS
      <3> DEFINE w == tx[i].witnesses
      <3>1. tx'[i].witnesses = Append(w, neoc_witness_create)
        BY DEF Witnessed
      <3>2. Len(w) \in Nat /\ Len(tx'[i].witnesses) = Len(w) + 1 /\ tx'[i].witnesses[Len(w) + 1] = neoc_witness_create
        BY <2>1, <3>1, OneMore
      <3> HIDE DEF w
      <3>3. m = Len(w) + 1
        BY <3>2 DEF w
      <3> QED
        BY <3>2, <3>3 DEF neoc_witness_create
    <2>3. PICK ps, n : ps # <<>> /\ n \in Nat /\ tx'[i] = signed(tx[i], ps, n)
      BY <2>1, <2>2, <2>10 DEF Edited, Countersigned
    <2> DEFINE t == tx[i]
               u == tx'[i]
               v == Witnesses(ps, body(t), n)
    <2>4. /\ u.fields = t.fields /\ u.script = t.script /\ u.signers = t.signers /\ u.attributes = t.attributes
          /\ u.hash = body(t) /\ u.witnesses = t.witnesses \o v
      <3> DEFINE w == signed(t, ps, n)
      <3>1. /\ w.fields = t.fields /\ w.script = t.script /\ w.signers = t.signers /\ w.attributes = t.attributes
            /\ w.hash = body(t) /\ w.witnesses = t.witnesses \o v
        <4>1. TxShape(t) /\ ps # <<>>
          BY <2>1, <2>3, Zenon
        <4> HIDE DEF t
        <4> QED
          BY <4>1, SignedParts
      <3>2. u = w
        BY <2>3
      <3> HIDE DEF w, u, t, v
      <3> QED
        BY <3>1, <3>2, ZenonT(30)
    <2>5. body(u) = body(t)
      BY <2>4 DEF body
    <2>6. List(v) /\ Len(v) = n /\ \A k \in 1 .. n : v[k].signed = body(t)
      BY <2>3, NewWitnesses
    <2> HIDE DEF v, t, u
    <2>7. \A k \in 1 .. Len(u.witnesses) :
            k > Len(t.witnesses) => k - Len(t.witnesses) \in 1 .. n /\ u.witnesses[k] = v[k - Len(t.witnesses)]
      BY <2>1, <2>4, <2>6, Joined DEF t
    <2>8. Len(t.witnesses) \in Nat /\ Len(u.witnesses) \in Nat
      BY <2>1, <2>3, <2>4, <2>6, Joined DEF t
    <2>9. m \in 1 .. Len(u.witnesses) /\ m > Len(t.witnesses)
      <3>1. m \in (Len(t.witnesses) + 1) .. Len(u.witnesses)
        BY DEF t, u
      <3> QED
        BY <2>8, <3>1
    <2>11. u.witnesses[m].signed = body(t)
      BY <2>6, <2>7, <2>9, Zenon
    <2> QED
      BY <2>4, <2>5, <2>11, Zenon DEF t, u
  <1> QED
    BY <1>1, ContentInit, ContentStep, PTL DEF Spec, SignsCurrent
=============================================================================
