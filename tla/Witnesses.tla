------------------------------ MODULE Witnesses ------------------------------
(* Witnesses, witness conditions and rules, signers and contract parameters   *)
(* (src/transaction, src/protocol/core/witnessrule, src/contract and          *)
(* src/types/contract_parameter.c, the signer and the witness of              *)
(* src/protocol/core/response).                                               *)
EXTENDS ScriptObjects

(****************************************************************************)
(* witness.c                                                                 *)
(****************************************************************************)
neoc_witness_free == Fields({"invocation_script", "verification_script"})
neoc_witness_create ==
    <<Check, Must(self)>> \o
    On(<<Destroy(self, neoc_witness_free), Null(self)>>, Opts(Its(<<"invocation_script", "verification_script">>)))
neoc_witness_create_from_signature ==
    <<Check>> \o Using(Must, Free, <<<<"invocation_script">>, <<"verification_script">>>>, Make(neoc_witness_create, self, NoArgs))
neoc_witness_serialize == Serialized
(* What the reader allocated with malloc is released with neoc_free.          *)
neoc_witness_deserialize ==
    LET reader == <<"reader">>
        invocation == <<"invocation">>
        verification == <<"verification">> IN
    <<Check>> \o Call(neoc_binary_reader_create, reader, NoArgs) \o
    Finally(<<Free(invocation), Free(verification), DropReader(reader)>>,
            Make(neoc_binary_reader_read_var_bytes, invocation, NoArgs) \o
            Make(neoc_binary_reader_read_var_bytes, verification, NoArgs) \o Make(neoc_witness_create, self, NoArgs))
neoc_witness_to_json ==
    LET hex == <<<<"invocation_hex">>, <<"verification_hex">>>>
        encode(p) == If(Ignoring(Make(neoc_hex_encode_alloc, p, NoArgs))) IN
    <<Check>> \o encode(hex[1]) \o encode(hex[2]) \o Finally(Map(Free, hex), <<Must(self)>>)
neoc_witness_clone == <<Check>> \o neoc_witness_create

(****************************************************************************)
(* neo_witness.c: the same scripts as base64 texts.                          *)
(****************************************************************************)
neoc_neo_witness_free == Fields({"invocation", "verification"})
base64_encode_bytes == Converted
base64_decode_string == neoc_base64_decode_alloc
neoc_neo_witness_create ==
    <<Check, Must(self)>> \o
    On(<<Destroy(self, neoc_neo_witness_free), Null(self)>>, Musts(Its(<<"invocation", "verification">>)))
neoc_neo_witness_from_witness ==
    LET inv == <<"inv">>
        ver == <<"ver">> IN
    <<Check, Null(ver)>> \o
    Finally(<<Free(inv), Free(ver)>>,
            Make(base64_encode_bytes, inv, NoArgs) \o Make(base64_encode_bytes, ver, NoArgs) \o
            Make(neoc_neo_witness_create, self, NoArgs))
neoc_neo_witness_from_json == FromText(Make(neoc_neo_witness_create, self, NoArgs))
neoc_neo_witness_to_json == ToText(<<>>)
neoc_neo_witness_copy == <<Check>> \o neoc_neo_witness_create
neoc_neo_witness_to_witness ==
    LET inv == <<"inv">>
        ver == <<"ver">> IN
    <<Check, Null(ver)>> \o
    Finally(<<Free(inv), Free(ver)>>,
            Make(base64_decode_string, inv, NoArgs) \o Make(base64_decode_string, ver, NoArgs) \o
            Make(neoc_witness_create, self, NoArgs))

(****************************************************************************)
(* witness_condition.c.  A condition of depth d holds conditions of depth    *)
(* d - 1; Nesting bounds the depth, which the code bounds at 2.  In a rule   *)
(* stands a condition without others inside.                                 *)
(****************************************************************************)
Nesting == 1
InRule == 0
neoc_witness_condition_release[d \in 0..Nesting] ==
    LibcObject("public_key", neoc_ec_public_key_free) \cup
    IF d = 0 THEN {}
    ELSE LibcObject("expression", neoc_witness_condition_release[d - 1])
         \cup LibcObject("expressions", LibcPointers(neoc_witness_condition_release[d - 1]))
neoc_witness_condition_free(p, d) == Libc(Destroy(p, neoc_witness_condition_release[d]))
(* The steps for a value or a hash, for a key, for NOT, and for AND and OR.   *)
ByType(d, plain, key, inner, list) == Else(plain, IF d = 0 THEN key ELSE Else(key, Else(inner, list)))

neoc_witness_condition_alloc == <<Libc(Must(self))>>
neoc_witness_condition_clone_public_key ==
    LET encoded == <<"encoded">> IN
    <<Check>> \o Make(neoc_ec_public_key_get_encoded, encoded, NoArgs) \o
    Finally(<<LibcFree(encoded)>>, Make(neoc_ec_public_key_from_bytes, self, NoArgs))
neoc_witness_condition_clone_internal[d \in 0..Nesting] ==
    LET inner(p) == Make(neoc_witness_condition_clone_internal[d - 1], p, NoArgs) IN
    <<Check>> \o neoc_witness_condition_alloc \o
    On(<<neoc_witness_condition_free(self, d)>>,
       ByType(d, <<>>, Make(neoc_witness_condition_clone_public_key, its("public_key"), NoArgs), inner(its("expression")),
              <<Libc(Must(its("expressions")))>> \o ForSome(LAMBDA i : inner(<<"self", "expressions", i>>))))
neoc_witness_condition_clone(d) == <<Check>> \o neoc_witness_condition_clone_internal[d]

neoc_witness_condition_create_boolean == <<Check>> \o neoc_witness_condition_alloc
neoc_witness_condition_create_script_hash == <<Check>> \o neoc_witness_condition_alloc
neoc_witness_condition_create_called_by_entry == <<Check>> \o neoc_witness_condition_alloc
neoc_witness_condition_create_called_by_contract == <<Check>> \o neoc_witness_condition_alloc
neoc_witness_condition_create_group ==
    <<Check>> \o neoc_witness_condition_alloc \o
    On(<<neoc_witness_condition_free(self, 0)>>,
       Make(neoc_witness_condition_clone_public_key, its("public_key"), NoArgs))
neoc_witness_condition_create_called_by_group == neoc_witness_condition_create_group
(* The operands are copied and stay the caller's.                             *)
neoc_witness_condition_create_not(d) ==
    <<Check>> \o neoc_witness_condition_alloc \o
    On(<<neoc_witness_condition_free(self, d)>>,
       Make(neoc_witness_condition_clone_internal[d - 1], its("expression"), NoArgs))
neoc_witness_condition_create_logical(d) ==
    <<Check>> \o neoc_witness_condition_alloc \o
    On(<<neoc_witness_condition_free(self, d)>>,
       <<Libc(Must(its("expressions")))>> \o
       ForSome(LAMBDA i : Make(neoc_witness_condition_clone_internal[d - 1], <<"self", "expressions", i>>, NoArgs)))
neoc_witness_condition_create_and(d) == neoc_witness_condition_create_logical(d)
neoc_witness_condition_create_or(d) == neoc_witness_condition_create_logical(d)

neoc_witness_condition_array_from_json(object, d) ==
    <<Check, Must(self)>> \o
    ForSome(LAMBDA i : On(<<Destroy(self, LibcPointers(neoc_witness_condition_release[d]))>>,
                          <<Check>> \o Make(object, <<"self", i>>, NoArgs)))
neoc_witness_condition_from_json_object[d \in 0..Nesting] ==
    LET bytes == <<"key_bytes">>
        key == <<"public_key">>
        inner == <<"inner">>
        items == <<"items">>
        group ==
            <<Check>> \o Make(neoc_hex_decode_alloc, bytes, NoArgs) \o
            Finally(<<Free(bytes)>>, <<Check>> \o Make(neoc_ec_public_key_from_bytes, key, NoArgs)) \o
            Finally(<<DropPublicKey(key)>>, Make(neoc_witness_condition_create_group, self, NoArgs))
        negated ==
            <<Check>> \o Make(neoc_witness_condition_from_json_object[d - 1], inner, NoArgs) \o
            Finally(<<neoc_witness_condition_free(inner, d - 1)>>, Make(neoc_witness_condition_create_not(d), self, NoArgs))
        list ==
            <<Check>> \o
            Make(neoc_witness_condition_array_from_json(neoc_witness_condition_from_json_object[d - 1], d - 1), items, NoArgs) \o
            Finally(<<Destroy(items, LibcPointers(neoc_witness_condition_release[d - 1]))>>,
                    Make(neoc_witness_condition_create_logical(d), self, NoArgs)) IN
    <<Check>> \o ByType(d, Make(neoc_witness_condition_create_boolean, self, NoArgs), group, negated, list)
neoc_witness_condition_from_json(d) == FromText(Make(neoc_witness_condition_from_json_object[d], self, NoArgs))

neoc_witness_condition_to_json_object[d \in 0..Nesting] ==
    LET encoded == <<"encoded">>
        hex == <<"hex">>
        array == <<"array">>
        inner(p) == Make(neoc_witness_condition_to_json_object[d - 1], p, NoArgs)
        group ==
            <<Check>> \o Make(neoc_ec_public_key_get_encoded, encoded, NoArgs) \o
            Finally(<<LibcFree(encoded)>>, Make(neoc_hex_encode_alloc, hex, NoArgs)) \o <<Free(hex)>>
        list ==
            <<Node(array)>> \o ForSome(LAMBDA i : On(<<Delete(array)>>, inner(array \o <<i>>))) \o
            <<Attach(array, self, "expressions")>> IN
    <<Check, Node(self)>> \o On(<<Delete(self)>>, ByType(d, <<Check>>, group, inner(its("expression")), list))
neoc_witness_condition_to_json(d) ==
    <<Check>> \o Make(neoc_witness_condition_to_json_object[d], root, NoArgs) \o
    Finally(<<Delete(root)>>, Make(neoc_json_to_string, self, NoArgs))

neoc_witness_condition_serialize_internal[d \in 0..Nesting] ==
    LET encoded == <<"encoded">>
        write == Call(neoc_binary_writer_write_bytes, arg("writer"), NoArgs)
        inner == Call(neoc_witness_condition_serialize_internal[d - 1], self, [writer |-> arg("writer")])
        group == Make(neoc_ec_public_key_get_encoded, encoded, NoArgs) \o Finally(<<LibcFree(encoded)>>, <<Check>> \o write) IN
    <<Check>> \o write \o ByType(d, write, group, inner, write \o ForSome(LAMBDA i : inner))
neoc_witness_condition_serialize(d) == <<Check>> \o neoc_witness_condition_serialize_internal[d]
neoc_witness_condition_deserialize_internal[d \in 0..Nesting] ==
    LET inner(p) == Make(neoc_witness_condition_deserialize_internal[d - 1], p, NoArgs) IN
    <<Check>> \o neoc_witness_condition_alloc \o
    On(<<neoc_witness_condition_free(self, d)>>,
       ByType(d, <<Check>>, <<Check>> \o Make(neoc_ec_public_key_from_bytes, its("public_key"), NoArgs), inner(its("expression")),
              <<Check, Libc(Must(its("expressions")))>> \o ForSome(LAMBDA i : inner(<<"self", "expressions", i>>))))
neoc_witness_condition_deserialize(d) == <<Check>> \o neoc_witness_condition_deserialize_internal[d]

(****************************************************************************)
(* witness_rule.c                                                            *)
(****************************************************************************)
neoc_witness_rule_free == LibcObject("condition", neoc_witness_condition_release[InRule])
neoc_witness_rule_alloc == <<Libc(Must(self))>>
neoc_witness_rule_copy_condition == <<Check>> \o neoc_witness_condition_clone(InRule)
neoc_witness_rule_create ==
    <<Check>> \o neoc_witness_rule_alloc \o
    On(<<LibcFree(self)>>, Make(neoc_witness_rule_copy_condition, its("condition"), NoArgs))
neoc_witness_rule_clone ==
    <<Check>> \o neoc_witness_rule_alloc \o
    If(On(<<Libc(Destroy(self, neoc_witness_rule_free))>>, Make(neoc_witness_condition_clone(InRule), its("condition"), NoArgs)))
neoc_witness_rule_serialize ==
    LET writer == <<"writer">>
        serialized == <<"serialized">> IN
    <<Check>> \o Make(neoc_binary_writer_create, writer, NoArgs) \o
    Finally(<<DropWriter(writer)>>,
            Call(neoc_binary_writer_write_bytes, writer, NoArgs) \o
            Call(neoc_witness_condition_serialize(InRule), self, [writer |-> writer]) \o
            Make(neoc_binary_writer_to_array, serialized, NoArgs)) \o
    <<LibcFree(serialized)>>
neoc_witness_rule_deserialize ==
    LET reader == <<"reader">>
        condition == <<"condition">> IN
    <<Check>> \o Call(neoc_binary_reader_create, reader, NoArgs) \o
    Finally(<<DropReader(reader)>>,
            <<Check>> \o Make(neoc_witness_condition_deserialize(InRule), condition, NoArgs) \o
            On(<<neoc_witness_condition_free(condition, InRule)>>, Make(neoc_witness_rule_alloc, self, NoArgs)) \o
            <<Copy(condition, its("condition"))>>)
neoc_witness_rule_from_json ==
    LET text == <<"condition_str">>
        condition == <<"condition">> IN
    FromText(<<Check>> \o Make(neoc_json_to_string, text, NoArgs) \o
             Finally(<<Free(text)>>, Make(neoc_witness_condition_from_json(InRule), condition, NoArgs)) \o
             On(<<neoc_witness_condition_free(condition, InRule)>>, Make(neoc_witness_rule_alloc, self, NoArgs)) \o
             <<Copy(condition, its("condition"))>>)
neoc_witness_rule_to_json ==
    LET text == <<"condition_str">> IN
    ToText(Make(neoc_witness_condition_to_json(InRule), text, NoArgs) \o
           Finally(<<Free(text)>>, <<Node(root \o <<"condition">>)>>))
neoc_witness_rule_equals ==
    Using(LAMBDA p : Libc(Must(p)), LibcFree, <<<<"buf1">>, <<"buf2">>>>,
          Ignoring(Call(neoc_witness_rule_serialize, self, NoArgs)) \o
          Ignoring(Call(neoc_witness_rule_serialize, self, NoArgs)))

(****************************************************************************)
(* signer.c: malloc throughout, and neoc_free for the array of rules.        *)
(****************************************************************************)
neoc_signer_free ==
    ByLibc(Fields({"allowed_contracts", "allowed_groups_sizes"})) \cup LibcObject("allowed_groups", LibcPointers({}))
    \cup Object("rules", LibcPointers(neoc_witness_rule_free))
neoc_signer_create == <<Check, Libc(Must(self))>>
neoc_signer_create_global == neoc_signer_create
neoc_signer_create_called_by_entry == neoc_signer_create
neoc_signer_add_allowed_contract == <<Check, Libc(Grow(its("allowed_contracts")))>>
(* The arrays may move when they grow, and the signer gets their new places   *)
(* only at the end: a failure in between releases the moved array and leaves  *)
(* the signer with the old pointer.                                           *)
neoc_signer_add_allowed_group ==
    LET groups == <<"new_groups">>
        sizes == <<"new_sizes">>
        key == <<"pubkey_copy">>
        move(p, q) == <<Libc(Must(q)), LibcFree(p)>>
        moved ==
            move(its("allowed_groups"), groups) \o
            On(<<LibcFree(groups)>>,
               move(its("allowed_groups_sizes"), sizes) \o On(<<LibcFree(sizes)>>, <<Libc(Must(key))>>)) \o
            <<Copy(<<"self", "allowed_groups", 1>>, <<"new_groups", 1>>), Copy(key, <<"new_groups", 2>>),
              Copy(groups, its("allowed_groups")), Copy(sizes, its("allowed_groups_sizes"))>>
        in_place ==
            <<Check, Libc(Must(key)), Copy(key, <<"self", "allowed_groups", 2>>)>> IN
    <<Check>> \o Else(in_place, moved)
(* A rule that cannot be copied loses the copies before it, which the         *)
(* signer does not count yet.                                                 *)
neoc_signer_copy ==
    LET uncounted == ByLibc(Fields({"allowed_contracts", "allowed_groups_sizes"}))
                     \cup LibcObject("allowed_groups", LibcPointers({})) \cup Fields({"rules"})
        fail == <<Libc(Destroy(self, uncounted)), Null(self)>>
        groups == Map(LAMBDA p : Libc(Must(p)), Its(<<"allowed_groups", "allowed_groups_sizes">>)) \o
                  ForSome(LAMBDA i : <<Libc(Must(<<"self", "allowed_groups", i>>))>>)
        rules == <<Libc(Must(its("rules")))>> \o
                 ForSome(LAMBDA i : If(Make(neoc_witness_rule_clone, <<"self", "rules", i>>, NoArgs))) IN
    <<Check, Libc(Must(self))>> \o On(fail, <<Libc(Opt(its("allowed_contracts")))>> \o If(groups) \o If(rules))
neoc_signer_serialize ==
    LET write == Call(neoc_binary_writer_write_bytes, arg("writer"), NoArgs) IN
    <<Check>> \o write \o If(Call(neoc_witness_condition_serialize(InRule), self, [writer |-> arg("writer")]))

(****************************************************************************)
(* contract/contract_parameter.c: made with malloc, the names and strings    *)
(* with neoc_strdup, and everything freed with free.                         *)
(****************************************************************************)
neoc_contract_param_free == ByLibc(Fields({"name", "byte_array", "string_value", "items", "keys", "values"}))
param_create == <<Check, Libc(Must(self))>>
neoc_contract_param_create_any == param_create
neoc_contract_param_create_boolean == param_create
neoc_contract_param_create_integer == param_create
neoc_contract_param_create_hash160 == param_create
neoc_contract_param_create_hash256 == param_create
neoc_contract_param_create_public_key == param_create
neoc_contract_param_create_signature == param_create
neoc_contract_param_create_byte_array == param_create \o On(<<LibcFree(self), Null(self)>>, <<Libc(Opt(its("byte_array")))>>)
neoc_contract_param_create_string == param_create \o On(<<LibcFree(self), Null(self)>>, <<Opt(its("string_value"))>>)
neoc_contract_param_create_array == param_create \o On(<<LibcFree(self), Null(self)>>, <<Libc(Opt(its("items")))>>)
neoc_contract_param_create_map ==
    param_create \o
    If(On(<<Libc(Destroy(self, neoc_contract_param_free)), Null(self)>>,
          <<Libc(Must(its("keys"))), Libc(Must(its("values")))>>))
neoc_contract_param_set_name == <<Check, LibcFree(its("name")), Null(its("name")), Opt(its("name"))>>
neoc_contract_param_serialize == Serialized

(****************************************************************************)
(* types/contract_parameter.c.  A failure leaves the caller's pointer set.   *)
(****************************************************************************)
neoc_contract_parameter_free == Fields({"name", "value"})
neoc_contract_parameter_create ==
    <<Check, Must(self)>> \o On(<<Destroy(self, neoc_contract_parameter_free)>>, Opts(Its(<<"name", "value">>)))

(****************************************************************************)
(* contract_signer.c, contract_parameters_context.c                          *)
(****************************************************************************)
neoc_contract_signer_free == Objects("verify_params", neoc_contract_parameter_free)
neoc_contract_signer_create == <<Check, Must(self)>>
neoc_contract_signer_add_parameter ==
    <<Check, Grow(its("verify_params")), Copy(arg("param"), <<"self", "verify_params", 1>>)>>

neoc_contract_parameters_context_free ==
    Object("parameters", Pointers(Pointers(neoc_contract_parameter_free)))
    \cup Fields({"script_hashes", "parameter_counts", "completed"})
(* The destructor goes over the arrays by the number of signers, which is set *)
(* before it is known that the arrays are there.                              *)
neoc_contract_parameters_context_create ==
    LET arrays == <<"script_hashes", "parameters", "parameter_counts", "completed">> IN
    <<Check, Must(self)>> \o On(<<Free(self), Null(self)>>, <<Check>>) \o
    On(<<Use(its("parameter_counts")), Use(its("parameters")),
         Destroy(self, neoc_contract_parameters_context_free), Null(self)>>, Musts(Its(arrays)) \o <<Check>>)
neoc_contract_parameters_context_add_signature ==
    LET param == <<"sig_param">> IN
    <<Check>> \o Call(neoc_contract_parameter_create, param, NoArgs) \o
    On(<<Destroy(param, neoc_contract_parameter_free)>>, <<Grow(<<"self", "parameters", 1>>)>>) \o
    <<Copy(param, <<"self", "parameters", 1, 1>>)>>
neoc_contract_parameters_context_get_witnesses ==
    LET builder == <<"builder">>
        script == <<"invocation_script">>
        witness(i) ==
            Make(neoc_script_builder_create, builder, NoArgs) \o
            Finally(<<DropBuilder(builder)>>, Make(neoc_script_builder_to_array, script, NoArgs)) \o
            Finally(<<Free(script)>>, Make(neoc_witness_create, <<"self", i>>, NoArgs)) IN
    <<Check, Must(self)>> \o For(LAMBDA i : On(<<Destroy(self, Pointers(neoc_witness_free)), Null(self)>>, witness(i)))

(****************************************************************************)
(* protocol/core/response/transaction_signer.c                               *)
(****************************************************************************)
free_string_array == Pointers({})
free_rules_array == LibcPointers(neoc_witness_rule_free)
copy_string_array ==
    <<Null(self), Must(self)>> \o ForSome(LAMBDA i : On(<<Destroy(self, free_string_array)>>, <<Must(<<"self", i>>)>>))
copy_rules ==
    <<Null(self), Must(self)>> \o
    ForSome(LAMBDA i : On(<<Destroy(self, free_rules_array)>>, Make(neoc_witness_rule_clone, <<"self", i>>, NoArgs)))
signer_lists == Object("allowed_contracts", free_string_array) \cup Object("allowed_groups", free_string_array)
neoc_transaction_signer_free == Fields({"account", "scopes"}) \cup signer_lists \cup Object("rules", free_rules_array)
neoc_transaction_signer_create == <<Check, Must(self)>>
neoc_transaction_signer_create_full ==
    <<Check>> \o neoc_transaction_signer_create \o
    On(<<Destroy(self, neoc_transaction_signer_free), Null(self)>>,
       <<Must(its("account")), Opt(its("scopes"))>> \o
       If(Make(copy_string_array, its("allowed_contracts"), NoArgs)) \o
       If(Make(copy_string_array, its("allowed_groups"), NoArgs)) \o
       If(Make(copy_rules, its("rules"), NoArgs)))
neoc_transaction_signer_create_with_scopes ==
    <<Check>> \o neoc_transaction_signer_create \o
    On(<<Destroy(self, neoc_transaction_signer_free), Null(self)>>, <<Must(its("account")), Opt(its("scopes"))>>)
neoc_transaction_signer_copy == <<Check>> \o neoc_transaction_signer_create_full
neoc_transaction_signer_add_scope == <<Check, Grow(its("scopes"))>>
(* When the string cannot be copied, the signer keeps the pointer realloc     *)
(* may have released.                                                         *)
add_allowed(list) ==
    LET moved == <<"arr">> IN
    <<Check>> \o
    Else(<<Check, Must(<<"self", list, 2>>)>>,
         <<Must(moved), Free(its(list)), Must(<<"arr", 2>>), Copy(<<"self", list, 1>>, <<"arr", 1>>), Copy(moved, its(list))>>)
neoc_transaction_signer_add_allowed_contract == add_allowed("allowed_contracts")
neoc_transaction_signer_add_allowed_group == add_allowed("allowed_groups")
parse_scope_array == <<Null(self)>> \o If(<<Must(self)>> \o ForSome(LAMBDA i : On(<<Free(self)>>, <<Check>>)))
parse_string_array ==
    <<Null(self)>> \o
    If(<<Must(self)>> \o ForSome(LAMBDA i : On(<<Destroy(self, free_string_array)>>, <<Must(<<"self", i>>)>>)))
parse_rules_array ==
    LET text == <<"entry_json">>
        rule(i) == <<Check>> \o Make(neoc_json_to_string, text, NoArgs) \o
                   Finally(<<Free(text)>>, Make(neoc_witness_rule_from_json, <<"self", i>>, NoArgs)) IN
    <<Null(self)>> \o If(<<Must(self)>> \o ForSome(LAMBDA i : On(<<Destroy(self, free_rules_array)>>, rule(i))))
(* A list that is wrong is taken as an empty one.                             *)
neoc_transaction_signer_from_json ==
    LET list(steps, x) == Ignoring(Make(steps, <<x>>, NoArgs)) IN
    FromText(<<Check>> \o list(parse_scope_array, "scopes") \o list(parse_string_array, "allowed_contracts") \o
             list(parse_string_array, "allowed_groups") \o list(parse_rules_array, "rules") \o
             Finally(<<Free(<<"scopes">>), Destroy(<<"allowed_contracts">>, free_string_array),
                       Destroy(<<"allowed_groups">>, free_string_array), Destroy(<<"rules">>, free_rules_array)>>,
                     Make(neoc_transaction_signer_create_full, self, NoArgs)))
(* A failure inside leaves the caller a pointer to the deleted array.         *)
scopes_to_json_array ==
    <<Node(self)>> \o For(LAMBDA i : On(<<Delete(self)>>, <<Node(<<"self", i>>)>>))
string_array_to_json(key) ==
    LET array == <<"arr", key>> IN
    <<Null(array)>> \o
    If(<<Node(array)>> \o ForSome(LAMBDA i : On(<<Delete(array)>>, <<Node(array \o <<i>>)>>)) \o <<Attach(array, root, key)>>)
rules_to_json_array ==
    LET text == <<"rule_json">>
        array == <<"rules_arr">>
        rule(i) == Ignoring(Make(neoc_witness_rule_to_json, text, NoArgs) \o
                            Ignoring(<<Node(array \o <<i>>)>>) \o <<Free(text)>>) IN
    If(<<Node(array)>> \o ForSome(rule) \o <<Attach(array, root, "rules")>>)
neoc_transaction_signer_to_json ==
    LET scopes == <<"scopes_arr">> IN
    ToText(Ignoring(Call(scopes_to_json_array, scopes, NoArgs)) \o <<Attach(scopes, root, "scopes")>> \o
           Ignoring(string_array_to_json("allowedcontracts")) \o Ignoring(string_array_to_json("allowedgroups")) \o
           Ignoring(rules_to_json_array))
neoc_transaction_signer_equals == <<Check>> \o For(LAMBDA i : neoc_witness_rule_equals)

WitnessProcs == [
    neoc_witness_create_from_signature |-> Constructor(neoc_witness_create_from_signature, neoc_witness_free),
    neoc_witness_serialize |-> LibcConstructor(neoc_witness_serialize, {}),
    neoc_witness_deserialize |-> Constructor(neoc_witness_deserialize, neoc_witness_free),
    neoc_witness_to_json |-> Constructor(neoc_witness_to_json, {}),
    neoc_witness_clone |-> Constructor(neoc_witness_clone, neoc_witness_free),
    neoc_neo_witness_from_witness |-> Constructor(neoc_neo_witness_from_witness, neoc_neo_witness_free),
    neoc_neo_witness_from_json |-> Constructor(neoc_neo_witness_from_json, neoc_neo_witness_free),
    neoc_neo_witness_to_json |-> Constructor(neoc_neo_witness_to_json, {}),
    neoc_neo_witness_copy |-> Constructor(neoc_neo_witness_copy, neoc_neo_witness_free),
    neoc_neo_witness_to_witness |-> Constructor(neoc_neo_witness_to_witness, neoc_witness_free),
    neoc_witness_condition_create_called_by_group |->
        LibcConstructor(neoc_witness_condition_create_called_by_group, neoc_witness_condition_release[0]),
    neoc_witness_condition_clone |->
        LibcConstructor(neoc_witness_condition_clone(Nesting), neoc_witness_condition_release[Nesting]),
    neoc_witness_condition_from_json |->
        LibcConstructor(neoc_witness_condition_from_json(Nesting), neoc_witness_condition_release[Nesting]),
    neoc_witness_condition_to_json |-> Constructor(neoc_witness_condition_to_json(Nesting), {}),
    neoc_witness_condition_serialize |->
        Procedure(ByLibc(Whole(arg("writer"), Fields({"data"}))), neoc_witness_condition_serialize(Nesting),
                  <<DropWriter(arg("writer"))>>, <<DropWriter(arg("writer"))>>),
    neoc_witness_condition_deserialize |->
        LibcConstructor(neoc_witness_condition_deserialize(Nesting), neoc_witness_condition_release[Nesting]),
    neoc_witness_rule_create |-> LibcConstructor(neoc_witness_rule_create, neoc_witness_rule_free),
    neoc_witness_rule_deserialize |-> LibcConstructor(neoc_witness_rule_deserialize, neoc_witness_rule_free),
    neoc_witness_rule_from_json |-> LibcConstructor(neoc_witness_rule_from_json, neoc_witness_rule_free),
    neoc_witness_rule_to_json |-> Constructor(neoc_witness_rule_to_json, {}),
    neoc_witness_rule_equals |-> Task(neoc_witness_rule_equals),
    neoc_signer_create_global |-> LibcConstructor(neoc_signer_create_global, neoc_signer_free),
    neoc_signer_add_allowed_contract |->
        LibcMethod(neoc_signer_add_allowed_contract, neoc_signer_free, ByLibc(Fields({"allowed_contracts"}))),
    neoc_signer_add_allowed_group |->
        LibcMethod(neoc_signer_add_allowed_group, neoc_signer_free,
                   ByLibc(Object("allowed_groups", Below(<<1>>, {Block(<<>>)})) \cup Fields({"allowed_groups_sizes"}))),
    neoc_signer_copy |-> LibcConstructor(neoc_signer_copy, neoc_signer_free),
    neoc_contract_param_create_byte_array |->
        LibcConstructor(neoc_contract_param_create_byte_array, neoc_contract_param_free),
    neoc_contract_param_create_string |-> LibcConstructor(neoc_contract_param_create_string, neoc_contract_param_free),
    neoc_contract_param_create_array |-> LibcConstructor(neoc_contract_param_create_array, neoc_contract_param_free),
    neoc_contract_param_create_map |-> LibcConstructor(neoc_contract_param_create_map, neoc_contract_param_free),
    neoc_contract_param_set_name |-> LibcMethod(neoc_contract_param_set_name, neoc_contract_param_free, {}),
    neoc_contract_param_serialize |-> LibcConstructor(neoc_contract_param_serialize, {}),
    neoc_contract_parameter_create |-> Constructor(neoc_contract_parameter_create, neoc_contract_parameter_free),
    neoc_contract_signer_add_parameter |->
        AdoptingMethod(neoc_contract_signer_add_parameter, neoc_contract_signer_free, {}, {"param"}, neoc_contract_parameter_free),
    neoc_contract_parameters_context_create |->
        Constructor(neoc_contract_parameters_context_create, neoc_contract_parameters_context_free),
    neoc_contract_parameters_context_add_signature |->
        Method(neoc_contract_parameters_context_add_signature, neoc_contract_parameters_context_free, Fields({"parameters"})),
    neoc_contract_parameters_context_get_witnesses |->
        Constructor(neoc_contract_parameters_context_get_witnesses, Pointers(neoc_witness_free)),
    neoc_transaction_signer_create_with_scopes |->
        Constructor(neoc_transaction_signer_create_with_scopes, neoc_transaction_signer_free),
    neoc_transaction_signer_copy |-> Constructor(neoc_transaction_signer_copy, neoc_transaction_signer_free),
    neoc_transaction_signer_add_scope |->
        Method(neoc_transaction_signer_add_scope, neoc_transaction_signer_free, Fields({"scopes"})),
    neoc_transaction_signer_add_allowed_contract |->
        Method(neoc_transaction_signer_add_allowed_contract, neoc_transaction_signer_free,
               Object("allowed_contracts", {Block(<<1>>)})),
    neoc_transaction_signer_add_allowed_group |->
        Method(neoc_transaction_signer_add_allowed_group, neoc_transaction_signer_free, Object("allowed_groups", {Block(<<1>>)})),
    neoc_transaction_signer_from_json |-> Constructor(neoc_transaction_signer_from_json, neoc_transaction_signer_free),
    neoc_transaction_signer_to_json |-> Constructor(neoc_transaction_signer_to_json, {}),
    neoc_transaction_signer_equals |-> Task(neoc_transaction_signer_equals)]
=============================================================================
