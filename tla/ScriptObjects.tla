---------------------------- MODULE ScriptObjects ----------------------------
(* Binary writers and readers, and the scripts built and taken apart with     *)
(* them (src/serialization, src/script).                                      *)
EXTENDS Keys

(****************************************************************************)
(* binary_writer.c, binary_reader.c: all on malloc and free.                 *)
(****************************************************************************)
neoc_binary_writer_free == ByLibc(Fields({"data"}))
DropWriter(p) == Libc(Destroy(p, neoc_binary_writer_free))
neoc_binary_writer_create ==
    <<Check, Libc(Must(self))>> \o On(<<LibcFree(self), Null(self)>>, <<Libc(Must(its("data")))>>)
ensure_capacity == <<Libc(Grow(its("data")))>>
neoc_binary_writer_write_bytes == <<Check>> \o ensure_capacity
neoc_binary_writer_to_array == <<Check, Libc(Must(self))>>
(* What is written goes to a new array, and the writer is dropped.            *)
Serialized ==
    LET writer == <<"writer">> IN
    <<Check>> \o Make(neoc_binary_writer_create, writer, NoArgs) \o
    Finally(<<DropWriter(writer)>>,
            Call(neoc_binary_writer_write_bytes, writer, NoArgs) \o Make(neoc_binary_writer_to_array, self, NoArgs))

neoc_binary_reader_free == ByLibc(Fields({"owned_data"}))
DropReader(p) == Libc(Destroy(p, neoc_binary_reader_free))
(* Without memory for the copy, the caller keeps a pointer to a freed reader. *)
neoc_binary_reader_create ==
    <<Check, Libc(Must(self))>> \o On(<<LibcFree(self)>>, <<Libc(Must(its("owned_data")))>>)
some_bytes == <<Libc(Must(self))>> \o On(<<LibcFree(self), Null(self)>>, <<Check>>)
neoc_binary_reader_read_var_bytes == <<Check, Null(self)>> \o If(some_bytes)
neoc_binary_reader_read_var_string ==
    LET data == <<"data">> IN
    <<Check>> \o
    Else(<<Libc(Must(self))>>,
         Call(some_bytes, data, NoArgs) \o Finally(<<LibcFree(data)>>, <<Libc(Must(self))>>))
neoc_binary_reader_read_encoded_ec_point == <<Check, Null(self)>> \o some_bytes
neoc_binary_reader_read_push_data == <<Check, Null(self)>> \o Else(<<Libc(Must(self))>>, some_bytes)
neoc_binary_reader_read_var_bytes_max == <<Check>> \o Else(<<Libc(Must(self))>>, some_bytes)

(****************************************************************************)
(* neo_serializable.c.  The functions of the type make one block.            *)
(****************************************************************************)
neoc_serializable_to_array == Serialized
neoc_serializable_from_array ==
    LET reader == <<"reader">> IN
    <<Check, Null(self)>> \o Call(neoc_binary_reader_create, reader, NoArgs) \o
    Finally(<<DropReader(reader)>>, <<Must(self)>> \o On(<<Free(self), Null(self)>>, <<Check>>))
neoc_serializable_array_free == Pointers({})
neoc_serializable_array_deserialize ==
    <<Check, Null(self)>> \o
    If(<<Must(self)>> \o ForSome(LAMBDA i : On(<<Destroy(self, neoc_serializable_array_free)>>, <<Must(<<"self", i>>)>>)))

(****************************************************************************)
(* script_builder.c, script_builder_full.c, script_helper.c                  *)
(****************************************************************************)
neoc_script_builder_free == ByLibc(Object("writer", Fields({"data"})))
DropBuilder(p) == Destroy(p, neoc_script_builder_free)
neoc_script_builder_create ==
    <<Check, Must(self)>> \o On(<<Free(self), Null(self)>>, Make(neoc_binary_writer_create, its("writer"), NoArgs))
neoc_script_builder_emit_with_data == <<Check>> \o Call(neoc_binary_writer_write_bytes, its("writer"), NoArgs)
neoc_script_builder_to_array == <<Check>> \o neoc_binary_writer_to_array
(* Instructions are emitted, copied out, and the builder is dropped.          *)
Scripted ==
    LET builder == <<"builder">> IN
    <<Check>> \o Make(neoc_script_builder_create, builder, NoArgs) \o
    Finally(<<DropBuilder(builder)>>,
            Call(neoc_script_builder_emit_with_data, builder, NoArgs) \o Make(neoc_script_builder_to_array, self, NoArgs))
neoc_script_builder_build_multisig_script == Scripted
neoc_script_create_single_sig_verification == Scripted
neoc_script_create_single_sig_invocation == Scripted
neoc_script_create_multi_sig_verification_internal == Scripted
neoc_script_create_multisig_verification == neoc_script_create_multi_sig_verification_internal
neoc_script_create_multi_sig_verification == neoc_script_create_multi_sig_verification_internal
neoc_script_create_contract_call == Scripted
neoc_script_create_nep17_transfer == Scripted
neoc_script_create_witness_invocation == Scripted
neoc_script_create_witness_multi_invocation == Scripted
neoc_script_hash_to_address == Converted

(****************************************************************************)
(* invocation_script.c                                                       *)
(****************************************************************************)
neoc_invocation_script_clear == Fields({"script"})
neoc_invocation_script_free == neoc_invocation_script_clear
neoc_invocation_append_data == <<Check, Grow(its("script"))>>
neoc_invocation_script_allocate ==
    <<Check, Must(self)>> \o
    If(On(<<Destroy(self, neoc_invocation_script_free), Null(self)>>, <<Check, Must(its("script"))>>))
neoc_invocation_script_create_single_sig ==
    <<Check, Must(self)>> \o On(<<Destroy(self, neoc_invocation_script_free)>>, neoc_invocation_append_data)
neoc_invocation_script_create_multi_sig ==
    <<Check, Must(self)>> \o
    For(LAMBDA i : On(<<Destroy(self, neoc_invocation_script_free)>>, <<Check>> \o neoc_invocation_append_data))
neoc_invocation_script_add_signature == <<Check>> \o neoc_invocation_append_data
neoc_invocation_script_free_signatures == Pointers({})
neoc_invocation_script_extract_signatures ==
    LET signatures == arg("signatures")
        lengths == arg("signature_lengths")
        release == <<Destroy(signatures, neoc_invocation_script_free_signatures), Free(lengths)>> IN
    <<Check, Null(signatures), Null(lengths)>> \o
    If(On(<<Free(signatures), Free(lengths), Null(signatures), Null(lengths)>>, Musts(<<signatures, lengths>>)) \o
       ForSome(LAMBDA i : On(release, <<Check, Must(signatures \o <<i>>)>>)))
neoc_invocation_script_serialize == Serialized
(* Shared by the two kinds of script: the bytes read are copied again.        *)
Deserialized(allocate) ==
    LET reader == <<"reader">>
        data == <<"data">> IN
    <<Check>> \o Call(neoc_binary_reader_create, reader, NoArgs) \o
    Finally(<<DropReader(reader)>>,
            Make(neoc_binary_reader_read_var_bytes, data, NoArgs) \o Finally(<<Free(data)>>, Make(allocate, self, NoArgs)))
neoc_invocation_script_deserialize == Deserialized(neoc_invocation_script_allocate)

(****************************************************************************)
(* verification_script.c                                                     *)
(****************************************************************************)
neoc_verification_script_clear == Fields({"script"})
neoc_verification_script_free == neoc_verification_script_clear
neoc_verification_script_allocate ==
    <<Check, Must(self)>> \o
    If(On(<<Destroy(self, neoc_verification_script_free), Null(self)>>, <<Check, Must(its("script"))>>))
neoc_verification_script_create_single_sig ==
    LET encoded == <<"encoded">>
        script == <<"script">> IN
    <<Check>> \o Make(neoc_ec_public_key_get_encoded, encoded, NoArgs) \o
    Finally(<<Free(encoded)>>, Make(neoc_script_builder_build_verification_script, script, NoArgs)) \o
    Finally(<<Free(script)>>, Make(neoc_verification_script_allocate, self, NoArgs))
neoc_verification_script_create_multi_sig ==
    LET entries == <<"entries">>
        script == <<"script">> IN
    <<Check, Must(entries)>> \o
    Finally(<<Destroy(entries, Elements(Fields({"data"})))>>,
            ForSome(LAMBDA i : <<Check>> \o Make(neoc_ec_public_key_get_encoded, entries \o <<i, "data">>, NoArgs)) \o
            Make(Scripted, script, NoArgs) \o Finally(<<Free(script)>>, Make(neoc_verification_script_allocate, self, NoArgs)))
public_key_array == LibcPointers(neoc_ec_public_key_free)
neoc_verification_script_get_public_keys ==
    <<Check, Null(self), Must(self)>> \o
    ForSome(LAMBDA i : On(<<Destroy(self, public_key_array), Null(self)>>,
                          <<Check>> \o Make(neoc_ec_public_key_from_bytes, <<"self", i>>, NoArgs)))
neoc_verification_script_get_nr_accounts ==
    LET keys == <<"keys">> IN
    <<Check>> \o Make(neoc_verification_script_get_public_keys, keys, NoArgs) \o <<Destroy(keys, public_key_array)>>
neoc_verification_script_get_address == <<Check>> \o Converted
neoc_verification_script_serialize == Serialized
neoc_verification_script_deserialize == Deserialized(neoc_verification_script_allocate)

(****************************************************************************)
(* script_reader.c                                                           *)
(****************************************************************************)
neoc_script_reader_to_opcode_string ==
    LET operand == <<"operand_data">> IN
    <<Check>> \o For(LAMBDA i : <<Check>> \o If(<<Check, Try(operand), Free(operand)>>))
neoc_script_reader_to_opcode_string_hex ==
    LET bytes == <<"script_bytes">> IN
    <<Check, Must(bytes)>> \o On(<<Free(bytes)>>, <<Check>>) \o
    Finally(<<LibcFree(bytes)>>, Call(neoc_script_reader_to_opcode_string, self, NoArgs))

ScriptProcs == [
    neoc_binary_reader_read_var_string |-> LibcConstructor(neoc_binary_reader_read_var_string, {}),
    neoc_binary_reader_read_encoded_ec_point |-> LibcConstructor(neoc_binary_reader_read_encoded_ec_point, {}),
    neoc_binary_reader_read_push_data |-> LibcConstructor(neoc_binary_reader_read_push_data, {}),
    neoc_binary_reader_read_var_bytes_max |-> LibcConstructor(neoc_binary_reader_read_var_bytes_max, {}),
    neoc_serializable_to_array |-> LibcConstructor(neoc_serializable_to_array, {}),
    neoc_serializable_from_array |-> Constructor(neoc_serializable_from_array, {}),
    neoc_serializable_array_deserialize |-> Constructor(neoc_serializable_array_deserialize, neoc_serializable_array_free),
    neoc_script_create_nep17_transfer |-> LibcConstructor(neoc_script_create_nep17_transfer, {}),
    neoc_script_hash_to_address |-> Constructor(neoc_script_hash_to_address, {}),
    neoc_invocation_script_create_single_sig |->
        Constructor(neoc_invocation_script_create_single_sig, neoc_invocation_script_free),
    neoc_invocation_script_create_multi_sig |->
        Constructor(neoc_invocation_script_create_multi_sig, neoc_invocation_script_free),
    neoc_invocation_script_add_signature |->
        Method(neoc_invocation_script_add_signature, neoc_invocation_script_free, Fields({"script"})),
    neoc_invocation_script_extract_signatures |->
        Caller(neoc_invocation_script_extract_signatures,
               Clear(<<"arg">>, Object("signatures", neoc_invocation_script_free_signatures) \cup Fields({"signature_lengths"}))),
    neoc_invocation_script_deserialize |-> Constructor(neoc_invocation_script_deserialize, neoc_invocation_script_free),
    neoc_verification_script_create_single_sig |->
        Constructor(neoc_verification_script_create_single_sig, neoc_verification_script_free),
    neoc_verification_script_create_multi_sig |->
        Constructor(neoc_verification_script_create_multi_sig, neoc_verification_script_free),
    neoc_verification_script_get_nr_accounts |-> Task(neoc_verification_script_get_nr_accounts),
    neoc_verification_script_get_address |-> Constructor(neoc_verification_script_get_address, {}),
    neoc_verification_script_deserialize |-> Constructor(neoc_verification_script_deserialize, neoc_verification_script_free),
    neoc_script_reader_to_opcode_string_hex |-> Task(neoc_script_reader_to_opcode_string_hex)]
=============================================================================
