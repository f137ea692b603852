-------------------------- MODULE TxBuilderProofs --------------------------
(***************************************************************************)
(* No signer ever has two owners, for any number of accounts, signers,     *)
(* transactions and slots and any sequence of calls, failing ones          *)
(* included.  The invariant SignerOwnedOnce is inductive together with the *)
(* shape of the records that hold the pointers.                            *)
(***************************************************************************)
EXTENDS TxBuilder, TLAPS

TxParts == {"fields", "script", "signers", "attributes", "witnesses", "hash"}
BuilderParts ==
    {"fields", "script", "signers", "attributes", "attribute_count", "is_signed", "built_transaction"}

TxShape(t) == DOMAIN t = TxParts /\ t.signers \in Seq(Sgn)
BuilderShape(b) == DOMAIN b = BuilderParts /\ b.signers \in Seq(Sgn \cup {NULL})

Shape ==
    /\ DOMAIN signer \subseteq Sgn
    /\ \A i \in DOMAIN tx : TxShape(tx[i])
    /\ builder # NULL => BuilderShape(builder)

IInv == Shape /\ SignerOwnedOnce

-----------------------------------------------------------------------------

(* Calls that change the contents of transactions or of the builder but no   *)
(* pointer to a signer keep the invariant.                                   *)
LEMMA Frame ==
    ASSUME IInv, UNCHANGED <<signer, mine>>,
           DOMAIN tx' = DOMAIN tx,
           \A i \in DOMAIN tx : TxShape(tx'[i]) /\ tx'[i].signers = tx[i].signers,
           builder' # NULL => BuilderShape(builder'),
           Pending' \in {Pending, <<>>}
    PROVE  IInv'
<1>1. Shape'
  BY DEF IInv, Shape
<1>2. \A k \in DOMAIN Pending' : k \in DOMAIN Pending /\ Pending'[k] = Pending[k]
  OBVIOUS
<1>3. Range(Pending') \subseteq Range(Pending)
  BY <1>2 DEF Range
<1> QED
  BY <1>1, <1>2, <1>3 DEF IInv, SignerOwnedOnce

(* A transaction built from the builder's signers takes all of them over.    *)
LEMMA HandOver ==
    ASSUME IInv, UNCHANGED <<signer, mine>>,
           NEW j, NEW t, j \notin DOMAIN tx, TxShape(t), t.signers = Pending,
           tx' = With(tx, j, t), builder' # NULL => BuilderShape(builder'), Pending' = <<>>
    PROVE  IInv'
<1>1. Shape'
  BY DEF IInv, Shape, With
<1>2. \A k \in DOMAIN Pending : Pending[k] \in Sgn /\ Pending[k] # NULL
  BY NullAssumption DEF TxShape
<1>3. DOMAIN Pending' = {} /\ Range(Pending') = {}
  BY DEF Range
<1>4. /\ DOMAIN tx' = DOMAIN tx \cup {j}
      /\ tx'[j] = t
      /\ \A i \in DOMAIN tx : tx'[i] = tx[i] /\ i # j
  BY DEF With
<1>5. \A i \in DOMAIN tx' : \A k \in DOMAIN tx'[i].signers :
        /\ tx'[i].signers[k] \in DOMAIN signer' \ mine'
        /\ tx'[i].signers[k] \notin Range(Pending')
  BY <1>2, <1>3, <1>4 DEF IInv, SignerOwnedOnce
<1>6. \A i \in DOMAIN tx' : \A k \in DOMAIN tx'[i].signers :
        \A l \in DOMAIN tx' : \A n \in DOMAIN tx'[l].signers :
            tx'[l].signers[n] = tx'[i].signers[k] => l = i /\ n = k
  BY <1>2, <1>4 DEF IInv, SignerOwnedOnce, Range
<1> QED
  BY <1>1, <1>3, <1>5, <1>6 DEF IInv, SignerOwnedOnce

-----------------------------------------------------------------------------
(* The shapes of what the operators return.                                  *)

(* A new transaction has no signers.                                         *)
LEMMA NewTransaction ==
    ASSUME NEW f
    PROVE  TxShape(transaction(f)) /\ transaction(f).signers = <<>>
BY DEF TxShape, transaction, TxParts

(* Hashing and signing a transaction leave its signers alone.                *)
LEMMA Signed ==
    ASSUME NEW t, TxShape(t)
    PROVE  /\ TxShape(calculated(t)) /\ calculated(t).signers = t.signers
           /\ \A ps, n : TxShape(signed(t, ps, n)) /\ signed(t, ps, n).signers = t.signers
BY DEF TxShape, calculated, signed, TxParts

(* What is built has the builder's signers, none of them missing.            *)
LEMMA Built ==
    ASSUME IInv, NEW j, NEW t \in Unsigned(j)
    PROVE  /\ builder # NULL /\ j \notin DOMAIN tx
           /\ TxShape(t) /\ t.signers = Pending
<1>1. /\ can_build /\ j \notin DOMAIN tx
      /\ \A k \in DOMAIN builder.signers : ~refused(builder.signers, k)
      /\ \E s : t = unsigned(builder, s)
  BY DEF Unsigned
<1>2. builder # NULL /\ BuilderShape(builder) /\ Pending = builder.signers
  BY <1>1 DEF can_build, IInv, Shape, Pending
<1>3. \A k \in DOMAIN builder.signers : builder.signers[k] # NULL
  BY <1>1 DEF refused
<1>4. builder.signers \in Seq(Sgn)
  BY <1>2, <1>3 DEF BuilderShape
<1>5. PICK s : t = unsigned(builder, s)
  BY <1>1
<1>6. TxShape(t) /\ t.signers = builder.signers
  BY <1>4, <1>5 DEF unsigned, transaction, TxShape, TxParts
<1> QED
  BY <1>1, <1>2, <1>6

(* A builder that has built keeps no signer.                                 *)
LEMMA Emptied ==
    ASSUME NEW b, BuilderShape(b), NEW j
    PROVE  BuilderShape(handed_over(b, j)) /\ handed_over(b, j).signers = <<>>
BY DEF BuilderShape, handed_over, BuilderParts

(* A new builder has no signers.                                             *)
LEMMA NewBuilder ==
    ASSUME NEW v
    PROVE  BuilderShape(new_builder(v)) /\ new_builder(v).signers = <<>>
BY DEF BuilderShape, new_builder, BuilderParts

-----------------------------------------------------------------------------
(* The calls that build.                                                     *)

(* neoc_tx_builder_build_unsigned moves every signer into the transaction.   *)
LEMMA BuildUnsigned ==
    ASSUME IInv, NEW j, neoc_tx_builder_build_unsigned(j)
    PROVE  IInv'
<1>1. PICK t \in Unsigned(j) : tx' = With(tx, j, t)
  BY DEF neoc_tx_builder_build_unsigned
<1>2. builder # NULL /\ j \notin DOMAIN tx /\ TxShape(t) /\ t.signers = Pending
  BY Built
<1>3. BuilderShape(builder') /\ builder'.signers = <<>>
  BY <1>2, Emptied DEF neoc_tx_builder_build_unsigned, IInv, Shape
<1>4. Pending' = <<>>
  BY <1>3 DEF Pending
<1>5. UNCHANGED <<signer, mine>>
  BY DEF neoc_tx_builder_build_unsigned
<1> QED
  BY <1>1, <1>2, <1>3, <1>4, <1>5, HandOver

(* neoc_tx_builder_calculate_fees drops the signers with the transaction it  *)
(* frees.                                                                    *)
LEMMA CalculateFees ==
    ASSUME IInv, NEW j, neoc_tx_builder_calculate_fees(j)
    PROVE  IInv'
<1>1. PICK t : t \in Unsigned(j)
  BY DEF neoc_tx_builder_calculate_fees
<1>2. BuilderShape(builder') /\ builder'.signers = <<>>
  BY <1>1, Built, Emptied DEF neoc_tx_builder_calculate_fees, IInv, Shape
<1>3. Pending' = <<>>
  BY <1>2 DEF Pending
<1>4. UNCHANGED <<signer, mine, tx>>
  BY DEF neoc_tx_builder_calculate_fees, tvars
<1> QED
  BY <1>2, <1>3, <1>4, Frame DEF IInv, Shape

(* neoc_tx_builder_build_and_sign keeps the transaction only when it signed. *)
LEMMA BuildAndSign ==
    ASSUME IInv, NEW j, NEW as, neoc_tx_builder_build_and_sign(j, as)
    PROVE  IInv'
<1>1. PICK t \in Unsigned(j) : \E n \in signing(as) :
        LET done == as # <<>> /\ n = Len(as) IN
        /\ tx' = IF done THEN With(tx, j, signed(t, as, n)) ELSE tx
        /\ builder' = [handed_over(builder, j) EXCEPT !.is_signed = @ \/ done]
  BY DEF neoc_tx_builder_build_and_sign
<1>2. PICK n : /\ tx' = With(tx, j, signed(t, as, n)) \/ tx' = tx
               /\ \E x : builder' = [handed_over(builder, j) EXCEPT !.is_signed = x]
  BY <1>1, Zenon
<1>3. builder # NULL /\ j \notin DOMAIN tx /\ TxShape(t) /\ t.signers = Pending
  BY Built
<1>4. BuilderShape(handed_over(builder, j)) /\ handed_over(builder, j).signers = <<>>
  BY <1>3, Emptied DEF IInv, Shape
<1>5. BuilderShape(builder') /\ builder'.signers = <<>>
  BY <1>2, <1>4 DEF BuilderShape, BuilderParts
<1>6. Pending' = <<>>
  BY <1>5 DEF Pending
<1>7. UNCHANGED <<signer, mine>>
  BY DEF neoc_tx_builder_build_and_sign
<1>8. CASE tx' = tx
  BY <1>5, <1>6, <1>7, <1>8, Frame DEF IInv, Shape
<1>9. CASE tx' = With(tx, j, signed(t, as, n))
  <2>1. TxShape(signed(t, as, n)) /\ signed(t, as, n).signers = Pending
    BY <1>3, Signed
  <2> QED
    BY <1>3, <1>5, <1>6, <1>7, <1>9, <2>1, HandOver
<1> QED
  BY <1>2, <1>8, <1>9

(* neoc_tx_builder_get_hash builds, or hashes what was built.                *)
LEMMA GetHash ==
    ASSUME IInv, NEW j, neoc_tx_builder_get_hash(j)
    PROVE  IInv'
<1>1. UNCHANGED <<signer, mine>>
  BY DEF neoc_tx_builder_get_hash
<1>2. CASE builder' = handed_over(builder, j) /\ \E t \in Unsigned(j) : tx' = With(tx, j, calculated(t)) \/ tx' = With(tx, j, t)
  <2>1. PICK t \in Unsigned(j) : tx' = With(tx, j, calculated(t)) \/ tx' = With(tx, j, t)
    BY <1>2
  <2>2. builder # NULL /\ j \notin DOMAIN tx /\ TxShape(t) /\ t.signers = Pending
    BY Built
  <2>3. BuilderShape(builder') /\ builder'.signers = <<>>
    BY <1>2, <2>2, Emptied DEF IInv, Shape
  <2>4. Pending' = <<>>
    BY <2>3 DEF Pending
  <2>5. TxShape(calculated(t)) /\ calculated(t).signers = Pending
    BY <2>2, Signed
  <2> QED
    BY <1>1, <2>1, <2>2, <2>3, <2>4, <2>5, HandOver
<1>3. CASE UNCHANGED builder /\ tx' = [tx EXCEPT ![j] = calculated(@)]
  <2>1. DOMAIN tx' = DOMAIN tx /\ \A i \in DOMAIN tx : tx'[i] = IF i = j THEN calculated(tx[j]) ELSE tx[i]
    BY <1>3
  <2>2. \A i \in DOMAIN tx : TxShape(tx'[i]) /\ tx'[i].signers = tx[i].signers
    BY <2>1, Signed DEF IInv, Shape
  <2> QED
    BY <1>1, <1>3, <2>1, <2>2, Frame DEF IInv, Shape, Pending
<1> QED
  BY <1>2, <1>3 DEF neoc_tx_builder_get_hash

(* neoc_tx_builder_sign adds witnesses to the transaction that was built.    *)
LEMMA SignBuilt ==
    ASSUME IInv, NEW as, neoc_tx_builder_sign(as)
    PROVE  IInv'
<1>1. builder # NULL /\ UNCHANGED <<signer, mine>>
  BY DEF neoc_tx_builder_sign
<1>2. PICK n : /\ tx' = [tx EXCEPT ![builder.built_transaction] = signed(@, as, n)]
               /\ \E x : builder' = [builder EXCEPT !.is_signed = x]
  BY Zenon DEF neoc_tx_builder_sign
<1>3. DOMAIN tx' = DOMAIN tx /\ \A i \in DOMAIN tx : tx'[i] \in {tx[i], signed(tx[i], as, n)}
  BY <1>2
<1>4. \A i \in DOMAIN tx : TxShape(tx'[i]) /\ tx'[i].signers = tx[i].signers
  <2> TAKE i \in DOMAIN tx
  <2>1. TxShape(tx[i])
    BY DEF IInv, Shape
  <2>2. TxShape(signed(tx[i], as, n)) /\ signed(tx[i], as, n).signers = tx[i].signers
    BY <2>1, Signed
  <2> QED
    BY <1>3, <2>1, <2>2
<1>5. BuilderShape(builder') /\ builder'.signers = builder.signers
  BY <1>1, <1>2 DEF BuilderShape, BuilderParts, IInv, Shape
<1>6. Pending' \in {Pending, <<>>}
  BY <1>1, <1>5 DEF Pending
<1> QED
  BY <1>1, <1>3, <1>4, <1>5, <1>6, Frame

(* A build that fails forgets some of the pointers.                          *)
LEMMA BuildFail ==
    ASSUME IInv, build_fail
    PROVE  IInv'
<1>1. PICK k : builder' = [builder EXCEPT !.signers = [j \in DOMAIN @ |-> IF j < k THEN NULL ELSE @[j]]]
  BY DEF build_fail
<1>2. builder # NULL /\ BuilderShape(builder) /\ UNCHANGED <<signer, mine, tx>>
  BY DEF build_fail, can_build, IInv, Shape, tvars
<1>3. /\ DOMAIN builder' = BuilderParts
      /\ builder'.signers = [j \in DOMAIN builder.signers |-> IF j < k THEN NULL ELSE builder.signers[j]]
  BY <1>1, <1>2 DEF BuilderShape, BuilderParts
<1>4. builder'.signers \in Seq(Sgn \cup {NULL})
  BY <1>2, <1>3 DEF BuilderShape
<1>5. \A j \in DOMAIN Pending' : /\ j \in DOMAIN Pending
                                 /\ Pending'[j] # NULL => Pending'[j] = Pending[j]
  BY <1>2, <1>3 DEF Pending
<1>6. \A x \in Range(Pending') : x = NULL \/ x \in Range(Pending)
  <2> TAKE x \in Range(Pending')
  <2>1. PICK j \in DOMAIN Pending' : x = Pending'[j]
    BY DEF Range
  <2>2. j \in DOMAIN Pending /\ (x # NULL => x = Pending[j])
    BY <1>5, <2>1
  <2> QED
    BY <2>2 DEF Range
<1>7. Shape'
  BY <1>2, <1>3, <1>4 DEF IInv, Shape, BuilderShape
<1>8. \A i \in DOMAIN tx : \A l \in DOMAIN tx[i].signers : tx[i].signers[l] # NULL
  BY NullAssumption DEF IInv, Shape, TxShape
<1>9. \A j \in DOMAIN Pending' :
        Pending'[j] # NULL => /\ Pending'[j] \in DOMAIN signer' \ mine'
                              /\ \A l \in DOMAIN Pending' : Pending'[l] = Pending'[j] => l = j
  BY <1>2, <1>5 DEF IInv, SignerOwnedOnce
<1> QED
  BY <1>2, <1>6, <1>7, <1>8, <1>9 DEF IInv, SignerOwnedOnce

-----------------------------------------------------------------------------
(* The other calls on the builder.                                           *)

(* neoc_tx_builder_create starts without signers.                            *)
LEMMA CreateBuilder ==
    ASSUME IInv, neoc_tx_builder_create
    PROVE  IInv'
<1>1. PICK v : builder' = new_builder(v)
  BY DEF neoc_tx_builder_create
<1>2. BuilderShape(builder') /\ Pending' = <<>>
  BY <1>1, NewBuilder DEF Pending
<1> QED
  BY <1>2, Frame DEF neoc_tx_builder_create, tvars, IInv, Shape

(* Only the builder's own signers are freed with it.                         *)
LEMMA FreeBuilder ==
    ASSUME IInv, neoc_tx_builder_free
    PROVE  IInv'
<1>1. Pending = builder.signers /\ Pending' = <<>> /\ builder' = NULL /\ UNCHANGED <<mine, tx>>
  BY DEF neoc_tx_builder_free, Pending
<1>2. DOMAIN signer' = DOMAIN signer \ Range(Pending)
  BY <1>1 DEF neoc_tx_builder_free, Without
<1>3. DOMAIN Pending' = {} /\ Range(Pending') = {}
  BY <1>1 DEF Range
<1>4. \A x \in Range(Pending) : x \notin mine
  BY NullAssumption DEF IInv, Shape, SignerOwnedOnce, Range
<1>5. Shape'
  BY <1>1, <1>2 DEF IInv, Shape
<1> QED
  BY <1>1, <1>2, <1>3, <1>4, <1>5 DEF IInv, SignerOwnedOnce

(* A step of the builder alone that leaves its signers as they are.          *)
LEMMA SameSigners ==
    ASSUME IInv, UNCHANGED <<signer, mine, tx>>, builder # NULL,
           DOMAIN builder' = DOMAIN builder, builder'.signers = builder.signers
    PROVE  IInv'
<1>1. BuilderShape(builder')
  BY DEF IInv, Shape, BuilderShape
<1>2. Pending' \in {Pending, <<>>}
  BY DEF Pending
<1> QED
  BY <1>1, <1>2, Frame DEF IInv, Shape

(* The builder's setters touch no signer.                                    *)
LEMMA SetBuilder ==
    ASSUME IInv, Set
    PROVE  IInv'
<1>1. builder # NULL /\ UNCHANGED <<signer, mine, tx>>
  BY DEF Set, neoc_tx_builder_set_field, neoc_tx_builder_add_fee, neoc_tx_builder_set_script, tvars
<1>2. DOMAIN builder = BuilderParts
  BY <1>1 DEF IInv, Shape, BuilderShape
<1>3. DOMAIN builder' = DOMAIN builder /\ builder'.signers = builder.signers
  BY <1>2 DEF Set, neoc_tx_builder_set_field, neoc_tx_builder_add_fee, neoc_tx_builder_set_script, BuilderParts
<1> QED
  BY <1>1, <1>3, SameSigners

(* The builder's calls on attributes touch no signer.                        *)
LEMMA AttributeSigners ==
    ASSUME DOMAIN builder = BuilderParts, Attribute
    PROVE  DOMAIN builder' = DOMAIN builder /\ builder'.signers = builder.signers
<1>0. ASSUME NEW b, DOMAIN b = BuilderParts
      PROVE  /\ \A type, d : DOMAIN stored(b, type, d) = BuilderParts /\ stored(b, type, d).signers = b.signers
             /\ \A k : DOMAIN unslotted(b, k) = BuilderParts /\ unslotted(b, k).signers = b.signers
  BY <1>0 DEF stored, unslotted, BuilderParts
<1>1. CASE \E type \in AttributeType, d \in Blk \cup {NULL} : neoc_tx_builder_add_attribute(type, d)
  BY <1>0, <1>1 DEF neoc_tx_builder_add_attribute, BuilderParts
<1>2. CASE \E high \in BOOLEAN : neoc_tx_builder_set_high_priority(high)
  <2>1. PICK b, k : /\ b = builder \/ b = unslotted(builder, k)
                    /\ builder' = b \/ builder' = stored(b, "HIGH_PRIORITY", NULL)
    BY <1>2 DEF neoc_tx_builder_set_high_priority
  <2>2. DOMAIN b = BuilderParts /\ b.signers = builder.signers
    BY <1>0, <2>1
  <2> QED
    BY <1>0, <2>1, <2>2
<1> QED
  BY <1>1, <1>2 DEF Attribute

(* So they keep the invariant.                                               *)
LEMMA SetAttributes ==
    ASSUME IInv, Attribute
    PROVE  IInv'
<1>1. builder # NULL /\ UNCHANGED <<signer, mine, tx>>
  BY DEF Attribute, neoc_tx_builder_add_attribute, neoc_tx_builder_set_high_priority, tvars
<1>2. DOMAIN builder = BuilderParts
  BY <1>1 DEF IInv, Shape, BuilderShape
<1> QED
  BY <1>1, <1>2, AttributeSigners, SameSigners

(* The copy a builder keeps is new.                                          *)
LEMMA AddSigner ==
    ASSUME IInv, NEW a, neoc_tx_builder_add_signer(a)
    PROVE  IInv'
<1>1. PICK x \in Sgn \ DOMAIN signer :
        signer' = With(signer, x, a) /\ builder' = [builder EXCEPT !.signers = Append(@, x)]
  BY DEF neoc_tx_builder_add_signer
<1>2. builder # NULL /\ UNCHANGED <<mine, tx>> /\ BuilderShape(builder) /\ Pending = builder.signers
  BY DEF neoc_tx_builder_add_signer, IInv, Shape, Pending
<1>3. BuilderShape(builder') /\ builder'.signers = Append(Pending, x)
  BY <1>1, <1>2 DEF BuilderShape, BuilderParts
<1>4. DOMAIN signer' = DOMAIN signer \cup {x}
  BY <1>1 DEF With
<1>5. Shape'
  BY <1>1, <1>2, <1>3, <1>4 DEF IInv, Shape
<1>6. Pending' = Append(Pending, x) \/ Pending' = <<>>
  BY <1>3 DEF Pending
<1>7. \A k \in DOMAIN Pending' : \/ k \in DOMAIN Pending /\ Pending'[k] = Pending[k]
                                 \/ k = Len(Pending) + 1 /\ Pending'[k] = x
  <2>1. Pending \in Seq(Sgn \cup {NULL})
    BY <1>2 DEF BuilderShape
  <2>2. CASE Pending' = <<>>
    BY <2>2
  <2>3. CASE Pending' = Append(Pending, x)
    BY <2>1, <2>3
  <2> QED
    BY <1>6, <2>2, <2>3
<1>8. \A k \in DOMAIN Pending : Pending[k] # x
  BY <1>1, NullAssumption DEF IInv, SignerOwnedOnce
<1>9. Range(Pending') \subseteq Range(Pending) \cup {x}
  BY <1>7 DEF Range
<1>10. x \notin mine /\ \A i \in DOMAIN tx : \A k \in DOMAIN tx[i].signers : tx[i].signers[k] # x
  BY <1>1 DEF IInv, SignerOwnedOnce
<1>11. \A k \in DOMAIN Pending' :
        Pending'[k] # NULL => /\ Pending'[k] \in DOMAIN signer' \ mine'
                              /\ \A j \in DOMAIN Pending' : Pending'[j] = Pending'[k] => j = k
  BY <1>2, <1>4, <1>7, <1>8, <1>10 DEF IInv, SignerOwnedOnce
<1> QED
  BY <1>2, <1>4, <1>5, <1>9, <1>10, <1>11 DEF IInv, SignerOwnedOnce

(* Moving a signer to the front permutes the slots.                          *)
LEMMA SetFirst ==
    ASSUME IInv, NEW a, neoc_tx_builder_set_first_signer(a)
    PROVE  IInv'
<1>1. PICK k \in DOMAIN builder.signers : builder' = [builder EXCEPT !.signers = moved_first(@, k)]
  BY DEF neoc_tx_builder_set_first_signer, found
<1>2. builder # NULL /\ UNCHANGED <<signer, mine, tx>> /\ BuilderShape(builder) /\ Pending = builder.signers
  BY DEF neoc_tx_builder_set_first_signer, IInv, Shape, Pending, tvars
<1>3. DOMAIN builder' = BuilderParts /\ builder'.signers = moved_first(Pending, k)
  BY <1>1, <1>2 DEF BuilderShape, BuilderParts
<1>4. /\ Pending \in Seq(Sgn \cup {NULL}) /\ DOMAIN Pending = 1 .. Len(Pending) /\ Len(Pending) \in Nat
      /\ k \in 1 .. Len(Pending)
  BY <1>1, <1>2 DEF BuilderShape
<1> DEFINE from(j) == IF j = 1 THEN k ELSE IF j <= k THEN j - 1 ELSE j
<1>5. \A j \in 1 .. Len(Pending) : from(j) \in 1 .. Len(Pending)
  BY <1>4
<1>6. \A j, l \in 1 .. Len(Pending) : from(j) = from(l) => j = l
  BY <1>4
<1>7. moved_first(Pending, k) = [j \in 1 .. Len(Pending) |-> Pending[from(j)]]
  BY <1>4 DEF moved_first
<1> HIDE DEF from
<1>8. moved_first(Pending, k) \in Seq(Sgn \cup {NULL})
  BY <1>4, <1>5, <1>7
<1>9. Shape'
  BY <1>2, <1>3, <1>8 DEF IInv, Shape, BuilderShape
<1>10. \A j \in DOMAIN Pending' :
        j \in 1 .. Len(Pending) /\ from(j) \in DOMAIN Pending /\ Pending'[j] = Pending[from(j)]
  BY <1>3, <1>4, <1>5, <1>7 DEF Pending
<1>11. Range(Pending') \subseteq Range(Pending)
  BY <1>10 DEF Range
<1>12. \A j \in DOMAIN Pending' :
        Pending'[j] # NULL => /\ Pending'[j] \in DOMAIN signer' \ mine'
                              /\ \A l \in DOMAIN Pending' : Pending'[l] = Pending'[j] => l = j
  BY <1>2, <1>6, <1>10 DEF IInv, SignerOwnedOnce
<1> QED
  BY <1>2, <1>9, <1>11, <1>12 DEF IInv, SignerOwnedOnce

(* Places for n copies: new, and pairwise different.                         *)
LEMMA FreshPlaces ==
    ASSUME NEW n \in Nat, NEW c \in Places(n)
    PROVE  /\ c \in Seq(Sgn) /\ DOMAIN c = 1 .. n
           /\ \A k \in DOMAIN c : c[k] \in Sgn /\ c[k] \notin DOMAIN signer
           /\ \A j, k \in DOMAIN c : c[j] = c[k] => j = k
<1>1. c \in [1 .. n -> Sgn \ DOMAIN signer] /\ IsInjective(c)
  BY DEF Places, Injection
<1> QED
  BY <1>1 DEF IsInjective

(* The calls that make a whole builder add signers no one else has.          *)
LEMMA CreateCall ==
    ASSUME IInv, NEW s, NEW ps \in Parties \cup {<<>>}, neoc_tx_builder_create_call(s, ps)
    PROVE  IInv'
<1>1. Len(ps) \in Nat
  BY KeyedAssumption
<1>2. PICK c \in Places(Len(ps)) :
        /\ DOMAIN signer' = DOMAIN signer \cup Range(c)
        /\ \E v : builder' = [new_builder(v) EXCEPT !.script = s, !.signers = c]
  BY DEF neoc_tx_builder_create_call
<1>3. /\ c \in Seq(Sgn) /\ DOMAIN c = 1 .. Len(ps)
      /\ \A k \in DOMAIN c : c[k] \in Sgn /\ c[k] \notin DOMAIN signer
      /\ \A j, k \in DOMAIN c : c[j] = c[k] => j = k
  BY <1>1, FreshPlaces
<1>4. Pending = <<>> /\ UNCHANGED <<mine, tx>>
  BY DEF neoc_tx_builder_create_call, Pending
<1>5. BuilderShape(builder') /\ builder'.signers = c
  BY <1>2, <1>3 DEF new_builder, BuilderShape, BuilderParts
<1>6. Pending' \in {c, <<>>}
  BY <1>5 DEF Pending
<1>7. \A x \in Range(c) : x \in Sgn /\ x \notin DOMAIN signer
  BY <1>3 DEF Range
<1>8. Shape'
  BY <1>2, <1>4, <1>5, <1>7 DEF IInv, Shape
<1>9. \A k \in DOMAIN Pending' : k \in DOMAIN c /\ Pending'[k] = c[k]
  BY <1>6
<1>10. \A x \in Range(Pending') : x \in Range(c)
  BY <1>9 DEF Range
<1>11. \A k \in DOMAIN c : c[k] \in Range(c)
  BY DEF Range
<1>12. \A k \in DOMAIN Pending' :
        Pending'[k] # NULL => /\ Pending'[k] \in DOMAIN signer' \ mine'
                              /\ \A j \in DOMAIN Pending' : Pending'[j] = Pending'[k] => j = k
  BY <1>2, <1>3, <1>4, <1>9, <1>11 DEF IInv, SignerOwnedOnce
<1> QED
  BY <1>2, <1>4, <1>7, <1>8, <1>10, <1>12 DEF IInv, SignerOwnedOnce

-----------------------------------------------------------------------------
(* The calls on transactions and on signers.                                 *)

(* A transaction that appears with signers nobody else has.                  *)
LEMMA Appears ==
    ASSUME IInv, UNCHANGED <<mine, builder>>, NEW j, j \notin DOMAIN tx, NEW t, TxShape(t), tx' = With(tx, j, t),
           DOMAIN signer' = DOMAIN signer \cup Range(t.signers),
           \A k \in DOMAIN t.signers : t.signers[k] \notin DOMAIN signer,
           \A k, l \in DOMAIN t.signers : t.signers[k] = t.signers[l] => k = l
    PROVE  IInv'
<1>1. /\ DOMAIN tx' = DOMAIN tx \cup {j} /\ tx'[j] = t
      /\ \A i \in DOMAIN tx : tx'[i] = tx[i] /\ i # j
  BY DEF With
<1>2. Pending' = Pending
  BY DEF Pending
<1>3. \A k \in DOMAIN t.signers : /\ t.signers[k] \in Sgn /\ t.signers[k] \in DOMAIN signer'
                                  /\ t.signers[k] # NULL
  BY NullAssumption DEF TxShape, Range
<1>4. \A k \in DOMAIN t.signers : t.signers[k] \notin Range(Pending)
  BY <1>3 DEF IInv, SignerOwnedOnce, Range
<1>5. DOMAIN signer' \subseteq Sgn
  BY <1>3 DEF IInv, Shape, Range
<1>6. Shape'
  BY <1>1, <1>5 DEF IInv, Shape
<1>7. \A i \in DOMAIN tx' : \A k \in DOMAIN tx'[i].signers :
        /\ tx'[i].signers[k] \in DOMAIN signer' \ mine'
        /\ tx'[i].signers[k] \notin Range(Pending')
  BY <1>1, <1>2, <1>3, <1>4 DEF IInv, SignerOwnedOnce
<1>8. \A i \in DOMAIN tx' : \A k \in DOMAIN tx'[i].signers :
        \A l \in DOMAIN tx' : \A n \in DOMAIN tx'[l].signers :
            tx'[l].signers[n] = tx'[i].signers[k] => l = i /\ n = k
  BY <1>1 DEF IInv, SignerOwnedOnce
<1> QED
  BY <1>2, <1>6, <1>7, <1>8 DEF IInv, SignerOwnedOnce

(* A new transaction and one read from JSON have no signers.                 *)
LEMMA CreateTx ==
    ASSUME IInv, UNCHANGED builder, NEW i, NEW j,
           neoc_transaction_create(j) \/ neoc_transaction_from_json(i, j)
    PROVE  IInv'
<1>1. j \notin DOMAIN tx /\ UNCHANGED <<signer, mine>>
  BY DEF neoc_transaction_create, neoc_transaction_from_json
<1>2. PICK f, h, s : \/ tx' = With(tx, j, transaction(f))
                     \/ tx' = With(tx, j, [transaction(f) EXCEPT !.hash = h, !.script = s])
  BY DEF neoc_transaction_create, neoc_transaction_from_json
<1> DEFINE r == [transaction(f) EXCEPT !.hash = h, !.script = s]
<1>5. TxShape(transaction(f)) /\ transaction(f).signers = <<>>
  BY NewTransaction
<1>6. TxShape(r) /\ r.signers = <<>>
  BY <1>5 DEF TxShape, TxParts
<1> HIDE DEF r
<1>3. PICK t : tx' = With(tx, j, t) /\ TxShape(t) /\ t.signers = <<>>
  BY <1>2, <1>5, <1>6, Zenon DEF r
<1>4. DOMAIN t.signers = {} /\ Range(t.signers) = {}
  BY <1>3 DEF Range
<1> QED
  BY <1>1, <1>3, <1>4, Appears

(* neoc_transaction_clone copies the signers.                                *)
LEMMA CloneTx ==
    ASSUME IInv, UNCHANGED builder, NEW i \in DOMAIN tx, NEW j, neoc_transaction_clone(i, j)
    PROVE  IInv'
<1>1. TxShape(tx[i]) /\ Len(tx[i].signers) \in Nat
  BY DEF IInv, Shape, TxShape
<1>2. PICK c \in Places(Len(tx[i].signers)) :
        DOMAIN signer' = DOMAIN signer \cup Range(c) /\ tx' = With(tx, j, cloned(tx[i], c))
  BY DEF neoc_transaction_clone, copied
<1>3. /\ c \in Seq(Sgn)
      /\ \A k \in DOMAIN c : c[k] \in Sgn /\ c[k] \notin DOMAIN signer
      /\ \A l, k \in DOMAIN c : c[l] = c[k] => l = k
  BY <1>1, FreshPlaces
<1>4. TxShape(cloned(tx[i], c)) /\ cloned(tx[i], c).signers = c
  BY <1>1, <1>3 DEF TxShape, cloned, TxParts
<1>5. j \notin DOMAIN tx /\ UNCHANGED mine
  BY DEF neoc_transaction_clone
<1> QED
  BY <1>2, <1>3, <1>4, <1>5, Appears

(* A clone that fails leaves signers that nothing points to.                 *)
LEMMA CloneFail ==
    ASSUME IInv, UNCHANGED builder, NEW i \in DOMAIN tx, clone_fail(i)
    PROVE  IInv'
<1>1. Len(tx[i].signers) \in Nat
  BY DEF IInv, Shape, TxShape
<1>2. PICK n \in 1 .. Len(tx[i].signers) : \E c \in Places(n) : signer' = copied(tx[i].signers, c)
  BY DEF clone_fail
<1>3. PICK c \in Places(n) : DOMAIN signer' = DOMAIN signer \cup Range(c)
  BY <1>2 DEF copied
<1>4. \A k \in DOMAIN c : c[k] \in Sgn
  BY <1>1, <1>2, FreshPlaces
<1>5. DOMAIN signer' \subseteq Sgn
  BY <1>3, <1>4 DEF IInv, Shape, Range
<1>6. UNCHANGED <<mine, tx>> /\ Pending' = Pending
  BY DEF clone_fail, Pending
<1> QED
  BY <1>3, <1>5, <1>6 DEF IInv, Shape, SignerOwnedOnce

(* Freeing a transaction frees none of its signers.                          *)
LEMMA FreeTx ==
    ASSUME IInv, UNCHANGED builder, NEW i, neoc_transaction_free(i)
    PROVE  IInv'
<1>1. /\ DOMAIN tx' \subseteq DOMAIN tx /\ \A j \in DOMAIN tx' : tx'[j] = tx[j]
      /\ UNCHANGED <<signer, mine>>
  BY DEF neoc_transaction_free, Without
<1>2. Pending' = Pending
  BY DEF Pending
<1> QED
  BY <1>1, <1>2 DEF IInv, Shape, SignerOwnedOnce

(* The setters, hashing and signing change no pointer to a signer.           *)
LEMMA EditTx ==
    ASSUME IInv, UNCHANGED builder, NEW i,
           \/ \E f, v : neoc_transaction_set_field(i, f, v)
           \/ \E s : neoc_transaction_set_script(i, s)
           \/ \E a : neoc_transaction_add_attribute(i, a)
           \/ neoc_transaction_add_witness(i)
           \/ neoc_transaction_calculate_hash(i)
           \/ neoc_transaction_get_hash(i)
           \/ \E ps : neoc_transaction_sign_multi(i, ps)
    PROVE  IInv'
<1>1. UNCHANGED <<signer, mine>>
  BY DEF neoc_transaction_set_field, neoc_transaction_set_script, neoc_transaction_add_attribute,
         neoc_transaction_add_witness, neoc_transaction_calculate_hash, neoc_transaction_get_hash, neoc_transaction_sign_multi
<1>2. PICK t : tx' = [tx EXCEPT ![i] = t] /\ (i \in DOMAIN tx => TxShape(t) /\ t.signers = tx[i].signers)
  <2>1. i \in DOMAIN tx => TxShape(tx[i])
    BY DEF IInv, Shape
  <2>2. CASE \E f, v : neoc_transaction_set_field(i, f, v)
    BY <2>1, <2>2 DEF neoc_transaction_set_field, TxShape, TxParts
  <2>3. CASE \E s : neoc_transaction_set_script(i, s)
    BY <2>1, <2>3 DEF neoc_transaction_set_script, TxShape, TxParts
  <2>4. CASE \E a : neoc_transaction_add_attribute(i, a)
    BY <2>1, <2>4 DEF neoc_transaction_add_attribute, TxShape, TxParts
  <2>5. CASE neoc_transaction_calculate_hash(i)
    BY <2>1, <2>5, Signed DEF neoc_transaction_calculate_hash
  <2>6. CASE neoc_transaction_get_hash(i)
    BY <2>1, <2>6, Signed DEF neoc_transaction_get_hash
  <2>7. CASE \E ps : neoc_transaction_sign_multi(i, ps)
    <3>1. PICK ps, n : tx' = [tx EXCEPT ![i] = signed(tx[i], ps, n)]
      BY <2>7 DEF neoc_transaction_sign_multi
    <3>2. i \in DOMAIN tx => TxShape(signed(tx[i], ps, n)) /\ signed(tx[i], ps, n).signers = tx[i].signers
      BY <2>1, Signed
    <3> QED
      BY <3>1, <3>2, Zenon
  <2>8. CASE neoc_transaction_add_witness(i)
    <3> DEFINE t == [tx[i] EXCEPT !.witnesses = Append(@, neoc_witness_create)]
    <3>1. tx' = [tx EXCEPT ![i] = t]
      BY <2>8 DEF neoc_transaction_add_witness
    <3>2. i \in DOMAIN tx => TxShape(t) /\ t.signers = tx[i].signers
      BY <2>1 DEF TxShape, TxParts
    <3> QED
      BY <3>1, <3>2
  <2> QED
    BY <2>2, <2>3, <2>4, <2>5, <2>6, <2>7, <2>8
<1>3. DOMAIN tx' = DOMAIN tx
  BY <1>2
<1>4. \A j \in DOMAIN tx : TxShape(tx'[j]) /\ tx'[j].signers = tx[j].signers
  BY <1>2 DEF IInv, Shape
<1>5. builder' # NULL => BuilderShape(builder')
  BY DEF IInv, Shape
<1>6. Pending' = Pending
  BY DEF Pending
<1> QED
  BY <1>1, <1>3, <1>4, <1>5, <1>6, Frame

(* The caller makes a signer, frees one, or hands one to a transaction.      *)
LEMMA MakeSigner ==
    ASSUME IInv, UNCHANGED builder, NEW s \in Sgn, NEW a, neoc_signer_create(s, a)
    PROVE  IInv'
<1>1. s \notin DOMAIN signer /\ DOMAIN signer' = DOMAIN signer \cup {s} /\ mine' = mine \cup {s} /\ UNCHANGED tx
  BY DEF neoc_signer_create, With
<1>2. Pending' = Pending
  BY DEF Pending
<1> QED
  BY <1>1, <1>2 DEF IInv, Shape, SignerOwnedOnce

(* A signer the caller frees is pointed to by nothing else.                  *)
LEMMA FreeSigner ==
    ASSUME IInv, UNCHANGED builder, NEW s \in mine, neoc_signer_free(s)
    PROVE  IInv'
<1>1. DOMAIN signer' = DOMAIN signer \ {s} /\ mine' = mine \ {s} /\ UNCHANGED tx
  BY DEF neoc_signer_free, Without
<1>2. Pending' = Pending
  BY DEF Pending
<1> QED
  BY <1>1, <1>2 DEF IInv, Shape, SignerOwnedOnce

(* neoc_transaction_add_signer takes the signer from the caller.             *)
LEMMA GiveSigner ==
    ASSUME IInv, UNCHANGED builder, NEW i \in DOMAIN tx, NEW s \in mine, neoc_transaction_add_signer(i, s)
    PROVE  IInv'
<1>1. /\ DOMAIN tx' = DOMAIN tx /\ mine' = mine \ {s} /\ UNCHANGED signer
      /\ tx'[i] = [tx[i] EXCEPT !.signers = Append(tx[i].signers, s)]
      /\ \A j \in DOMAIN tx : j # i => tx'[j] = tx[j]
  BY DEF neoc_transaction_add_signer
<1>2. TxShape(tx[i]) /\ s \in Sgn /\ s \in DOMAIN signer
  BY DEF IInv, Shape, SignerOwnedOnce
<1>3. TxShape(tx'[i]) /\ tx'[i].signers = Append(tx[i].signers, s)
  BY <1>1, <1>2 DEF TxShape, TxParts
<1>4. Pending' = Pending
  BY DEF Pending
<1>5. Shape'
  BY <1>1, <1>3 DEF IInv, Shape
<1> DEFINE last == Len(tx[i].signers) + 1
<1>6. /\ DOMAIN tx'[i].signers = DOMAIN tx[i].signers \cup {last} /\ last \notin DOMAIN tx[i].signers
      /\ tx'[i].signers[last] = s
      /\ \A k \in DOMAIN tx[i].signers : tx'[i].signers[k] = tx[i].signers[k]
  BY <1>2, <1>3 DEF TxShape
<1>7. s \notin Range(Pending)
  <2>1. \A k \in DOMAIN Pending : Pending[k] # s
    BY <1>2, NullAssumption DEF IInv, SignerOwnedOnce
  <2> QED
    BY <2>1 DEF Range
<1>8. \A j \in DOMAIN tx : \A k \in DOMAIN tx[j].signers : tx[j].signers[k] # s
  BY DEF IInv, SignerOwnedOnce
<1> HIDE DEF last
<1>9. \A j \in DOMAIN tx' : \A k \in DOMAIN tx'[j].signers :
        \/ j = i /\ k = last /\ tx'[j].signers[k] = s
        \/ k \in DOMAIN tx[j].signers /\ tx'[j].signers[k] = tx[j].signers[k]
  BY <1>1, <1>6
<1>10. \A j \in DOMAIN tx' : \A k \in DOMAIN tx'[j].signers :
        /\ tx'[j].signers[k] \in DOMAIN signer' \ mine'
        /\ tx'[j].signers[k] \notin Range(Pending')
  BY <1>1, <1>2, <1>4, <1>7, <1>9 DEF IInv, SignerOwnedOnce
<1>11. \A j \in DOMAIN tx' : \A k \in DOMAIN tx'[j].signers :
        \A l \in DOMAIN tx' : \A n \in DOMAIN tx'[l].signers :
            tx'[l].signers[n] = tx'[j].signers[k] => l = j /\ n = k
  BY <1>1, <1>8, <1>9 DEF IInv, SignerOwnedOnce
<1> QED
  BY <1>1, <1>4, <1>5, <1>10, <1>11 DEF IInv, SignerOwnedOnce

-----------------------------------------------------------------------------
(* The theorem.                                                              *)

(* The caller's pointers to transactions are live: the calls that free a     *)
(* transaction either take the pointer from the caller or never gave it.     *)
KeptLive == kept \subseteq DOMAIN tx

(* Every call keeps the caller's pointers to transactions live.              *)
LEMMA KeptStep ==
    ASSUME KeptLive, [Next]_vars
    PROVE  KeptLive'
<1> USE DEF KeptLive, With, Without, tvars
<1>1. CASE neoc_tx_builder_create \/ neoc_tx_builder_free
  BY <1>1 DEF neoc_tx_builder_create, neoc_tx_builder_free
<1>2. CASE \E s, ps : neoc_tx_builder_create_call(s, ps)
  BY <1>2 DEF neoc_tx_builder_create_call
<1>3. CASE Set \/ Attribute \/ Order
  BY <1>3 DEF Set, neoc_tx_builder_set_field, neoc_tx_builder_add_fee, neoc_tx_builder_set_script,
              Attribute, neoc_tx_builder_add_attribute, neoc_tx_builder_set_high_priority,
              Order, neoc_tx_builder_add_signer, neoc_tx_builder_set_first_signer
<1>4. CASE Build
  BY <1>4 DEF Build, neoc_tx_builder_build_unsigned, build_fail
<1>5. CASE \E ps : neoc_tx_builder_sign(ps)
  BY <1>5 DEF neoc_tx_builder_sign
<1>6. CASE \E j, ps : neoc_tx_builder_build_and_sign(j, ps)
  BY <1>6 DEF neoc_tx_builder_build_and_sign
<1>7. CASE \E j : neoc_tx_builder_get_hash(j) \/ neoc_tx_builder_calculate_fees(j)
  BY <1>7 DEF neoc_tx_builder_get_hash, neoc_tx_builder_calculate_fees
<1>8. CASE \E i : neoc_transaction_create(i) \/ neoc_transaction_free(i)
  BY <1>8 DEF neoc_transaction_create, neoc_transaction_free
<1>9. CASE Edit
  BY <1>9 DEF Edit, neoc_transaction_set_field, neoc_transaction_set_script, neoc_transaction_add_signer,
              neoc_transaction_add_attribute, neoc_transaction_add_witness
<1>10. CASE Signers
  BY <1>10 DEF Signers, neoc_signer_create, neoc_signer_free
<1>11. CASE TxSign
  BY <1>11 DEF TxSign, neoc_transaction_calculate_hash, neoc_transaction_get_hash, neoc_transaction_sign_multi
<1>12. CASE Copy
  BY <1>12 DEF Copy, clone_fail, neoc_transaction_clone, neoc_transaction_from_json
<1>13. CASE UNCHANGED vars
  BY <1>13 DEF vars
<1> QED
  BY <1>1, <1>2, <1>3, <1>4, <1>5, <1>6, <1>7, <1>8, <1>9, <1>10, <1>11, <1>12, <1>13
     DEF Next, Call, TxNext, Sign

(* Every call of the builder and of transactions keeps the invariant.        *)
LEMMA OwnedStep ==
    ASSUME IInv, KeptLive, [Next]_vars
    PROVE  IInv'
<1>1. CASE neoc_tx_builder_create \/ neoc_tx_builder_free
  BY <1>1, CreateBuilder, FreeBuilder
<1>2. CASE \E s \in Script, ps \in Parties \cup {<<>>} : neoc_tx_builder_create_call(s, ps)
  BY <1>2, CreateCall
<1>3. CASE Set \/ Attribute
  BY <1>3, SetBuilder, SetAttributes
<1>4. CASE Order
  BY <1>4, AddSigner, SetFirst DEF Order
<1>5. CASE Build
  BY <1>5, BuildUnsigned, BuildFail DEF Build
<1>6. CASE Sign
  <2>1. CASE \E ps : neoc_tx_builder_sign(ps)
    BY <2>1, SignBuilt, Zenon
  <2>2. CASE \E j, ps : neoc_tx_builder_build_and_sign(j, ps)
    BY <2>2, BuildAndSign, Zenon
  <2> QED
    BY <1>6, <2>1, <2>2, Zenon DEF Sign
<1>7. CASE \E j : neoc_tx_builder_get_hash(j) \/ neoc_tx_builder_calculate_fees(j)
  BY <1>7, GetHash, CalculateFees
<1>8. CASE TxNext /\ UNCHANGED builder
  <2>1. UNCHANGED builder
    BY <1>8
  <2>2. CASE \E i : neoc_transaction_create(i)
    BY <2>1, <2>2, CreateTx
  <2>3. CASE \E i \in kept : neoc_transaction_free(i)
    BY <2>1, <2>3, FreeTx
  <2>4. CASE Edit
    <3>1. CASE \E i \in kept, s \in mine : neoc_transaction_add_signer(i, s)
      BY <2>1, <3>1, GiveSigner DEF KeptLive
    <3>2. CASE \E i : \/ \E f, v : neoc_transaction_set_field(i, f, v)
                      \/ \E s : neoc_transaction_set_script(i, s)
                      \/ \E a : neoc_transaction_add_attribute(i, a)
                      \/ neoc_transaction_add_witness(i)
      BY <2>1, <3>2, EditTx, Zenon
    <3> QED
      BY <2>4, <3>1, <3>2, Zenon DEF Edit
  <2>5. CASE Signers
    BY <2>1, <2>5, MakeSigner, FreeSigner DEF Signers
  <2>6. CASE TxSign
    BY <2>1, <2>6, EditTx, Zenon DEF TxSign
  <2>7. CASE Copy
    <3>1. PICK i \in DOMAIN tx : clone_fail(i) \/ \E j \in Txn : neoc_transaction_clone(i, j) \/ neoc_transaction_from_json(i, j)
      BY <2>7 DEF Copy, KeptLive
    <3> QED
      BY <2>1, <3>1, CloneFail, CloneTx, CreateTx
  <2> QED
    BY <1>8, <2>2, <2>3, <2>4, <2>5, <2>6, <2>7 DEF TxNext
<1>9. CASE UNCHANGED vars
  BY <1>9 DEF vars, tvars, IInv, Shape, SignerOwnedOnce, Pending
<1> QED
  BY <1>1, <1>2, <1>3, <1>4, <1>5, <1>6, <1>7, <1>8, <1>9 DEF Next, Call

(* No signer ever has two owners or is used after it was freed, for any      *)
(* accounts, sizes of the builder's arrays and groups of calls, failures of  *)
(* malloc included: signers move from the caller or the builder into a       *)
(* transaction and are in one place at every moment.                         *)
THEOREM SignersHaveOneOwner == Spec => []SignerOwnedOnce
<1>1. Init => IInv /\ KeptLive
  <2> SUFFICES ASSUME Init PROVE IInv /\ KeptLive
    OBVIOUS
  <2>1. signer = <<>> /\ mine = {} /\ tx = <<>> /\ kept = {} /\ builder = NULL
    BY DEF Init, TxInit
  <2>2. DOMAIN signer = {} /\ DOMAIN tx = {} /\ Pending = <<>> /\ DOMAIN Pending = {}
    BY <2>1 DEF Pending
  <2> QED
    BY <2>1, <2>2 DEF IInv, Shape, SignerOwnedOnce, KeptLive
<1>2. IInv /\ KeptLive /\ [Next]_vars => (IInv /\ KeptLive)'
  BY OwnedStep, KeptStep
<1>3. IInv => SignerOwnedOnce
  BY DEF IInv
<1> QED
  BY <1>1, <1>2, <1>3, PTL DEF Spec
=============================================================================
