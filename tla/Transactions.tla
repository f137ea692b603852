---------------------------- MODULE Transactions ----------------------------
(* Transactions and blocks as objects (src/transaction/transaction.c,         *)
(* src/transaction/transaction_builder.c and                                  *)
(* src/protocol/core/response/neo_block.c).  A signer is one block here;      *)
(* Witnesses has its lists.                                                   *)
EXTENDS Accounts

(****************************************************************************)
(* transaction.c.  The destructor releases the array of signers and not the  *)
(* signers.                                                                  *)
(****************************************************************************)
neoc_tx_attribute_free == Fields({"data"})
neoc_transaction_free ==
    Fields({"script", "signers"}) \cup Objects("attributes", neoc_tx_attribute_free) \cup Objects("witnesses", neoc_witness_free)
neoc_transaction_create == <<Check, Must(self)>>
neoc_transaction_set_script == <<Check, Free(its("script")), Null(its("script")), Opt(its("script"))>>
neoc_transaction_get_script == <<Check, Null(self), Opt(self)>>
neoc_transaction_add_signer(i) == <<Check, Grow(its("signers")), Copy(arg("signer"), <<"self", "signers", i>>)>>
neoc_transaction_add_attribute(i) ==
    <<Check, Grow(its("attributes")), Copy(arg("attribute"), <<"self", "attributes", i>>)>>
neoc_transaction_add_witness(i) == <<Check, Grow(its("witnesses")), Copy(arg("witness"), <<"self", "witnesses", i>>)>>

(* The bytes come from a binary writer, that is from malloc; neoc_free        *)
(* releases them.                                                             *)
write_to(writer) == Call(neoc_binary_writer_write_bytes, writer, NoArgs)
neoc_tx_write_signers == ForSome(LAMBDA i : <<Check>> \o write_to(self))
neoc_tx_attribute_write == <<Check>> \o write_to(self)
neoc_tx_write_attributes == For(LAMBDA i : neoc_tx_attribute_write)
neoc_tx_write_witnesses ==
    LET bytes == <<"witness_bytes">> IN
    For(LAMBDA i : <<Check>> \o Make(neoc_witness_serialize, bytes, NoArgs) \o Finally(<<Free(bytes)>>, write_to(self)))
neoc_transaction_build_serialized(witnesses) ==
    LET writer == <<"writer">> IN
    <<Check>> \o Make(neoc_binary_writer_create, writer, NoArgs) \o
    Finally(<<DropWriter(writer)>>,
            Call(neoc_tx_write_signers, writer, NoArgs) \o Call(neoc_tx_write_attributes, writer, NoArgs) \o
            Call(witnesses, writer, NoArgs) \o Make(neoc_binary_writer_to_array, self, NoArgs))
neoc_transaction_calculate_hash ==
    LET data == <<"data">> IN
    <<Check>> \o Make(neoc_transaction_build_serialized(<<>>), data, NoArgs) \o Finally(<<Free(data)>>, <<Check>>)
neoc_transaction_get_hash == <<Check>> \o If(neoc_transaction_calculate_hash)
neoc_transaction_serialize ==
    LET data == <<"data">> IN
    <<Check>> \o Make(neoc_transaction_build_serialized(neoc_tx_write_witnesses), data, NoArgs) \o
    Finally(<<Free(data)>>, <<Check>>)
neoc_transaction_deserialize_simple == <<Check, Null(self)>>    \* not implemented: no transaction, whatever the bytes
neoc_transaction_sign(i) ==
    LET signature == <<"signature">>
        witness == <<"witness">> IN
    <<Check>> \o Call(neoc_transaction_calculate_hash, self, NoArgs) \o Make(neoc_account_sign, signature, NoArgs) \o
    Finally(<<Free(signature)>>, <<Check>> \o Make(neoc_witness_create_from_signature, witness, NoArgs)) \o
    On(<<Destroy(witness, neoc_witness_free)>>, Call(neoc_transaction_add_witness(i), self, [witness |-> witness]))
neoc_transaction_sign_multi == <<Check>> \o For(LAMBDA i : Call(neoc_transaction_sign(i), self, NoArgs))

neoc_tx_attribute_create == <<Check, Must(self)>> \o On(<<Free(self), Null(self)>>, <<Opt(its("data"))>>)
neoc_tx_attribute_clone_internal == <<Check>> \o neoc_tx_attribute_create
(* The counts of attributes and witnesses are set behind their loops, and the *)
(* destructor goes by the counts.                                             *)
neoc_transaction_clone ==
    LET drop == <<Destroy(self, neoc_transaction_free), Null(self)>>
        elements(x, One(_)) ==
            On(drop, <<Must(its(x))>> \o ForSome(LAMBDA i : On(<<Null(<<"self", x, 1>>)>>, One(<<"self", x, i>>)))) IN
    <<Check>> \o Make(neoc_transaction_create, self, NoArgs) \o
    On(drop, If(<<Must(its("script"))>>) \o
             If(<<Must(its("signers"))>> \o ForSome(LAMBDA i : <<Libc(Must(<<"self", "signers", i>>))>>))) \o
    If(elements("attributes", LAMBDA p : Make(neoc_tx_attribute_clone_internal, p, NoArgs))) \o
    If(elements("witnesses", LAMBDA p : Make(neoc_witness_clone, p, NoArgs)))

neoc_transaction_from_json ==
    <<Check, Node(root)>> \o On(<<Delete(root)>>, Make(neoc_transaction_create, self, NoArgs)) \o
    <<Try(its("script")), Delete(root)>>
neoc_transaction_to_json == <<Check, Must(self), Try(<<"script_hex">>), Free(<<"script_hex">>)>>

(****************************************************************************)
(* transaction_builder.c: a call of a contract with parameters from JSON.    *)
(****************************************************************************)
neoc_tx_builder_free ==
    Fields({"script"}) \cup Below(<<"signers">>, LibcPointers({}))
    \cup Below(<<"attributes">>, Elements(Fields({"data"}))) \cup Below(<<"witnesses">>, Pointers(neoc_witness_free))
neoc_tx_builder_create == <<Check, Must(self)>>
neoc_tx_builder_set_script == <<Check, Free(its("script")), Null(its("script")), Must(its("script"))>>
neoc_tx_builder_add_signer(i) == <<Check, Libc(Must(<<"self", "signers", i>>))>>
neoc_tx_builder_serialize == <<Check>> \o neoc_transaction_serialize
push_json_value == <<Check>> \o ForSome(LAMBDA i : Call(neoc_script_builder_emit_with_data, self, NoArgs))
neoc_tx_builder_create_contract_call ==
    LET sb == <<"sb">>
        params == <<"param_array">>
        script == <<"script">>
        emit == Call(neoc_script_builder_emit_with_data, sb, NoArgs)
        parsed == <<Node(params)>> \o Finally(<<Delete(params)>>, <<Check>> \o Call(push_json_value, sb, NoArgs) \o emit) IN
    <<Check>> \o Make(neoc_tx_builder_create, self, NoArgs) \o
    On(<<Destroy(self, neoc_tx_builder_free), Null(self)>>,
       Make(neoc_script_builder_create, sb, NoArgs) \o
       Finally(<<DropBuilder(sb)>>,
               Else(parsed, emit) \o emit \o Make(neoc_script_builder_to_array, script, NoArgs) \o
               Finally(<<LibcFree(script)>>, Call(neoc_tx_builder_set_script, self, NoArgs))) \o
       For(LAMBDA i : Call(neoc_tx_builder_add_signer(i), self, NoArgs)))

(****************************************************************************)
(* neo_block.c.  The destructor goes over the transactions by their count.   *)
(****************************************************************************)
neoc_neo_block_free == Object("witness", neoc_witness_free) \cup Objects("transactions", neoc_transaction_free)
neoc_neo_block_create == <<Must(self)>>
(* The clean-up of a failed clone releases the transactions and their array   *)
(* and then the block, whose count already covers them.                       *)
neoc_neo_block_clone ==
    LET element(i) == <<"self", "transactions", i>>
        release(i) == <<Destroy(element(i), neoc_transaction_free)>>
        copy(i) == On((IF i = 1 THEN <<>> ELSE release(1)) \o <<LibcFree(its("transactions"))>>,
                      Make(neoc_transaction_clone, element(i), NoArgs))
        one == <<Garbage(element(1))>> \o copy(1)
        two == <<Garbage(element(1)), Garbage(element(2))>> \o copy(1) \o copy(2) IN
    <<Check>> \o Make(neoc_neo_block_create, self, NoArgs) \o
    On(<<Destroy(self, neoc_neo_block_free)>>,
       If(Make(neoc_witness_create, its("witness"), NoArgs)) \o If(<<Must(its("transactions"))>> \o Else(one, two)))
neoc_neo_block_add_transaction(i) ==    \* a transaction that finds no room is dropped in silence
    Ignoring(<<Check, Grow(its("transactions")), Copy(arg("tx"), <<"self", "transactions", i>>)>>)
neoc_neo_block_calculate_merkle_root ==
    LET hashes == <<"hashes">>
        level == <<"level_hashes">>
        next == <<"next_level">> IN
    <<Must(hashes)>> \o
    Finally(<<Free(hashes)>>,
            ForSome(LAMBDA i : Ignoring(Call(neoc_transaction_calculate_hash, self, NoArgs))) \o
            ForSome(LAMBDA i : <<Must(next)>> \o On(<<Free(next)>>, <<Check>>) \o <<Free(level), Copy(next, level)>>) \o
            <<Free(level)>>)
neoc_neo_block_calculate_hash ==
    LET header_data == <<"header_data">> IN <<Must(header_data)>> \o Finally(<<Free(header_data)>>, <<Check>>)
neoc_neo_block_from_json ==
    LET text == <<"tx_str">>
        tx == <<"tx">> IN
    <<Check, Node(root)>> \o On(<<Delete(root)>>, Make(neoc_neo_block_create, self, NoArgs)) \o
    For(LAMBDA i : When(<<Node(text)>>,
                        When(Make(neoc_transaction_from_json, tx, NoArgs),
                             Call(neoc_neo_block_add_transaction(i), self, [tx |-> tx])) \o <<Free(text)>>)) \o
    <<Delete(root)>>
neoc_neo_block_to_json ==
    LET witness == <<"witness_json">>
        tx == <<"tx_json">> IN
    <<Check, Must(self)>> \o If(When(Make(neoc_witness_to_json, witness, NoArgs), <<Free(witness)>>)) \o
    For(LAMBDA i : When(Make(neoc_transaction_to_json, tx, NoArgs), <<Free(tx)>>))
neoc_neo_block_serialize == <<Check, Must(self)>>
neoc_neo_block_deserialize ==   \* neoc_transaction_deserialize_simple gives no transaction
    <<Check>> \o Make(neoc_neo_block_create, self, NoArgs) \o <<Libc(Try(its("transactions")))>> \o
    Ignoring(Call(neoc_neo_block_calculate_hash, self, NoArgs))

-----------------------------------------------------------------------------
TransactionProcs == [
    neoc_transaction_create |-> Constructor(neoc_transaction_create, neoc_transaction_free),
    neoc_transaction_set_script |-> Method(neoc_transaction_set_script, neoc_transaction_free, Fields({"script"})),
    neoc_transaction_get_script |-> Caller(neoc_transaction_get_script, Free(self)),
    neoc_transaction_add_signer |->
        Procedure(Whole(self, {}) \cup ByLibc({Block(arg("signer"))}),
                  neoc_transaction_add_signer(1),
                  <<LibcFree(<<"self", "signers", 1>>), Destroy(self, neoc_transaction_free)>>,
                  <<LibcFree(arg("signer")), Destroy(self, neoc_transaction_free)>>),
    neoc_transaction_add_attribute |->
        AdoptingMethod(neoc_transaction_add_attribute(1), neoc_transaction_free, {}, {"attribute"}, neoc_tx_attribute_free),
    neoc_transaction_add_witness |->
        AdoptingMethod(neoc_transaction_add_witness(1), neoc_transaction_free, {}, {"witness"}, neoc_witness_free),
    neoc_transaction_get_hash |-> Task(neoc_transaction_get_hash),
    neoc_transaction_serialize |-> Task(neoc_transaction_serialize),
    neoc_transaction_deserialize_simple |-> Constructor(neoc_transaction_deserialize_simple, neoc_transaction_free),
    neoc_transaction_sign_multi |-> Method(neoc_transaction_sign_multi, neoc_transaction_free, {}),
    neoc_tx_attribute_create |-> Constructor(neoc_tx_attribute_create, neoc_tx_attribute_free),
    neoc_transaction_clone |-> Constructor(neoc_transaction_clone, neoc_transaction_free),
    neoc_transaction_from_json |-> Constructor(neoc_transaction_from_json, neoc_transaction_free),
    neoc_transaction_to_json |-> Caller(neoc_transaction_to_json, Free(self)),
    neoc_tx_builder_serialize |-> Task(neoc_tx_builder_serialize),
    neoc_tx_builder_create_contract_call |-> Constructor(neoc_tx_builder_create_contract_call, neoc_tx_builder_free),
    neoc_neo_block_clone |-> Constructor(neoc_neo_block_clone, neoc_neo_block_free),
    neoc_neo_block_add_transaction |->
        Procedure(Whole(self, {}) \cup Whole(arg("tx"), neoc_transaction_free), neoc_neo_block_add_transaction(1),
                  <<Destroy(self, neoc_neo_block_free)>>, <<>>),
    neoc_neo_block_calculate_merkle_root |-> Task(neoc_neo_block_calculate_merkle_root),
    neoc_neo_block_calculate_hash |-> Task(neoc_neo_block_calculate_hash),
    neoc_neo_block_from_json |-> Constructor(neoc_neo_block_from_json, neoc_neo_block_free),
    neoc_neo_block_to_json |-> Caller(neoc_neo_block_to_json, Free(self)),
    neoc_neo_block_serialize |-> Caller(neoc_neo_block_serialize, Free(self)),
    neoc_neo_block_deserialize |-> Constructor(neoc_neo_block_deserialize, neoc_neo_block_free)
]
=============================================================================
