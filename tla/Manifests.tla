------------------------------ MODULE Manifests ------------------------------
(* Contracts as the node describes them: manifests (src/contract/             *)
(* contract_manifest.c), and the answers of src/protocol/core/response that   *)
(* carry one (contract_manifest.c, contract_nef.c, contract_state.c,          *)
(* native_contract_state.c, express_contract_state.c) or a part of one        *)
(* (contract_method_token.c, contract_storage_entry.c, nep17_contract.c).     *)
EXTENDS Responses

(****************************************************************************)
(* contract/contract_manifest.c                                              *)
(****************************************************************************)
described == Fields({"name", "parameters"})
permission == Fields({"contract"}) \cup Objects("methods", {})
neoc_contract_manifest_dispose ==
    Fields({"name", "extra"}) \cup Structs("groups", Fields({"pub_key", "signature"})) \cup
    Objects("supported_standards", {}) \cup Structs("methods", described) \cup Structs("events", described) \cup
    Structs("permissions", permission) \cup Objects("trusts", {})
neoc_contract_manifest_free == neoc_contract_manifest_dispose

neoc_contract_manifest_create == <<Check, Must(self)>> \o On(<<Free(self), Null(self)>>, <<Must(its("name"))>>)
(* A failed copy releases the copies before it and keeps the array, with a    *)
(* count of 0.                                                                *)
neoc_contract_manifest_set_standards ==
    LET standards == its("supported_standards") IN
    <<Check, Destroy(standards, Pointers({})), Null(standards), Must(standards)>> \o
    For(LAMBDA i : On(<<Clear(standards, Pointers({}))>>, <<Must(standards \o <<i>>)>>))
(* The parameters of an entry that has none stay as realloc left them.        *)
no_parameters(entry) == <<Garbage(entry \o <<"parameters">>)>>
some_parameters(entry) ==
    LET name == entry \o <<"name">> IN On(<<Free(name), Null(name)>>, <<Must(entry \o <<"parameters">>)>>)
neoc_contract_manifest_add_method(entry, parameters) ==
    <<Check, Grow(its("methods")), Must(entry \o <<"name">>)>> \o parameters
neoc_contract_manifest_add_event(entry) ==
    <<Check>> \o If(<<Grow(its("events"))>>) \o <<Must(entry \o <<"name">>)>>
    \o Else(some_parameters(entry), no_parameters(entry))
neoc_contract_manifest_add_permission(entry) ==
    LET contract == entry \o <<"contract">>
        methods == entry \o <<"methods">> IN
    <<Check>> \o If(<<Grow(its("permissions"))>>) \o <<Opt(contract)>> \o
    If(On(<<Free(contract), Null(contract)>>, <<Must(methods)>>) \o
       ForSome(LAMBDA i : On(<<Destroy(methods, Pointers({})), Free(contract), Null(methods), Null(contract)>>,
                             <<Must(methods \o <<i>>)>>)))
neoc_contract_manifest_set_features ==
    LET extra == <<"new_extra">> IN
    <<Check>> \o Else(<<Null(its("extra")), Try(its("extra"))>>,
                      Ignoring(<<Must(extra), Free(its("extra")), Copy(extra, its("extra"))>>))
neoc_contract_manifest_set_extra == <<Check, Free(its("extra")), Null(its("extra")), Try(its("extra"))>>
neoc_contract_manifest_has_storage_feature == <<Check, Node(root), Delete(root)>>
neoc_contract_manifest_has_payable_feature == neoc_contract_manifest_has_storage_feature

neoc_contract_manifest_to_json ==
    <<Check, Must(self)>> \o Ignoring(Call(neoc_contract_manifest_has_storage_feature, self, NoArgs)) \o
    Ignoring(Call(neoc_contract_manifest_has_payable_feature, self, NoArgs))
(* The names of the standards go through an array whose slot is not written   *)
(* when the input holds no string there.  A failed part is left out.          *)
neoc_contract_manifest_from_json ==
    LET names == <<"standard_names">>
        standard == names \o <<1>>
        method(i) == <<"self", "methods", i>> IN
    <<Check, Node(root)>> \o On(<<Delete(root)>>, neoc_contract_manifest_create) \o
    If(<<Free(its("name")), Null(its("name")), Try(its("name"))>>) \o
    If(Ignoring(<<Must(names)>> \o Else(<<>>, <<Garbage(standard), Use(standard)>>) \o
                Ignoring(neoc_contract_manifest_set_standards) \o <<Free(names)>>)) \o
    For(LAMBDA i : Ignoring(neoc_contract_manifest_add_method(method(i), no_parameters(method(i))))) \o
    <<Delete(root)>>
neoc_contract_manifest_clone ==
    LET text == <<"json">> IN
    <<Check>> \o Make(neoc_contract_manifest_to_json, text, NoArgs) \o
    Finally(<<Free(text)>>, Make(neoc_contract_manifest_from_json, self, NoArgs))

(****************************************************************************)
(* protocol/core/response/contract_manifest.c                                *)
(****************************************************************************)
neoc_contract_manifest_create_group == <<Check, Must(self)>>
neoc_contract_manifest_create_full == <<Check, Must(self), Try(its("name"))>>
neoc_contract_manifest_from_json_swift == <<Check, Must(self), Try(its("name"))>>
neoc_contract_manifest_to_json_swift == <<Check, Try(self)>>
neoc_contract_manifest_copy ==
    LET text == <<"json_str">> IN
    <<Check>> \o Call(neoc_contract_manifest_to_json_swift, text, NoArgs) \o
    Finally(<<Free(text)>>, Make(neoc_contract_manifest_from_json_swift, self, NoArgs))

(****************************************************************************)
(* contract_nef.c                                                            *)
(****************************************************************************)
neoc_contract_nef_dispose == Fields({"compiler", "source", "script", "tokens"})
neoc_contract_nef_free == neoc_contract_nef_dispose
neoc_contract_nef_create == <<Check, Must(self)>>
neoc_contract_nef_clone ==
    <<Check, Must(self)>> \o
    On(<<Destroy(self, neoc_contract_nef_dispose)>>, Opts(Its(<<"compiler", "source", "script", "tokens">>)))
neoc_contract_nef_from_json ==
    <<Check, Node(root)>> \o On(<<Delete(root)>>, <<Must(self)>>) \o
    Finally(<<Delete(root)>>,
            On(<<Destroy(self, neoc_contract_nef_free)>>,
               Musts(Its(<<"compiler", "source">>)) \o
               Else(Make(neoc_base64_decode_alloc, its("script"), NoArgs), <<Must(its("script"))>>)))
neoc_contract_nef_to_json ==
    LET script == <<"script_base64">> IN
    <<Check>> \o Make(neoc_base64_encode_alloc, script, NoArgs) \o Finally(<<Free(script)>>, <<Must(self)>>)
neoc_contract_nef_serialize == <<Check, Must(self)>>
neoc_contract_nef_deserialize ==
    <<Check, Must(self)>> \o
    On(<<Destroy(self, neoc_contract_nef_dispose)>>,
       <<Check>> \o Musts(Its(<<"compiler", "source">>)) \o <<Check, Must(its("script"))>>
       \o If(<<Check, Must(its("tokens"))>>))
neoc_contract_nef_calculate_checksum == <<Check, Must(<<"data">>), Free(<<"data">>)>>
neoc_contract_nef_validate == <<Check>> \o Ignoring(neoc_contract_nef_calculate_checksum)

(****************************************************************************)
(* contract_state.c.  The file and the manifest are structs inside the       *)
(* state, assigned from the object a parser returned.                        *)
(****************************************************************************)
neoc_contract_state_free ==
    Below(<<"nef">>, neoc_contract_nef_dispose) \cup Below(<<"manifest">>, neoc_contract_manifest_dispose)
neoc_contract_state_create == <<Check, Must(self)>>
(* The manifest is assigned from the original, which keeps it as well.        *)
neoc_contract_state_clone ==
    LET nef == <<"nef_clone">> IN
    <<Check>> \o neoc_contract_state_create \o
    Ignoring(Make(neoc_contract_nef_clone, nef, NoArgs) \o <<Copy(nef, its("nef")), Free(nef)>>) \o
    <<Copy(<<"arg", "state", "manifest">>, its("manifest"))>>
(* The text cJSON printed is released with neoc_free.                         *)
parsed_struct(x, from_json) ==
    LET text == <<"str">>
        parsed == <<"parsed">> IN
    If(Ignoring(<<Node(text)>> \o
                Ignoring(Make(from_json, parsed, NoArgs) \o <<Copy(parsed, its(x)), Free(parsed)>>) \o <<Free(text)>>))
neoc_contract_state_from_json ==
    <<Check, Node(root)>> \o On(<<Delete(root)>>, neoc_contract_state_create) \o
    parsed_struct("nef", neoc_contract_nef_from_json) \o
    parsed_struct("manifest", neoc_contract_manifest_from_json) \o <<Delete(root)>>
neoc_contract_state_to_json ==
    LET nef == <<"nef_json">> IN
    <<Check>> \o Make(neoc_contract_nef_to_json, nef, NoArgs) \o Finally(<<Free(nef)>>, <<Must(self)>>)
neoc_contract_identifiers_from_stack_item == <<Check, Must(self)>>

(****************************************************************************)
(* express_contract_state.c                                                  *)
(****************************************************************************)
neoc_express_contract_state_free == Object("manifest", neoc_contract_manifest_free)
neoc_express_contract_state_create ==
    <<Check, Must(self)>> \o On(<<Free(self)>>, Make(neoc_contract_manifest_clone, its("manifest"), NoArgs))
neoc_express_contract_state_clone == <<Check>> \o neoc_express_contract_state_create
neoc_express_contract_state_from_json ==
    LET text == <<"manifest_str">>
        manifest == <<"manifest">> IN
    FromText(<<Check>> \o Make(neoc_json_to_string, text, NoArgs) \o
             Finally(<<Free(text)>>, Make(neoc_contract_manifest_from_json, manifest, NoArgs)) \o
             Finally(<<Destroy(manifest, neoc_contract_manifest_free)>>,
                     Make(neoc_express_contract_state_create, self, NoArgs)))
neoc_express_contract_state_to_json ==
    LET manifest == <<"manifest_json">> IN
    <<Check>> \o Make(neoc_contract_manifest_to_json, manifest, NoArgs) \o Finally(<<Free(manifest)>>, <<Must(self)>>)

(****************************************************************************)
(* native_contract_state.c                                                   *)
(****************************************************************************)
neoc_native_contract_state_free_active_in == Pointers({})
neoc_native_contract_state_free ==
    Object("manifest", neoc_contract_manifest_free) \cup Object("nef", neoc_contract_nef_free) \cup
    Fields({"update_history"}) \cup Object("active_in", neoc_native_contract_state_free_active_in)
neoc_native_contract_state_alloc ==
    <<Check, Must(self)>> \o
    On(<<Destroy(self, neoc_native_contract_state_free)>>,
       Make(neoc_contract_manifest_clone, its("manifest"), NoArgs) \o
       Make(neoc_contract_nef_clone, its("nef"), NoArgs) \o <<Opt(its("update_history"))>>)
neoc_native_contract_state_create_swift == neoc_native_contract_state_alloc
neoc_native_contract_state_parse_update_history ==
    <<Null(self)>> \o If(<<Must(self)>> \o ForSome(LAMBDA i : On(<<Free(self)>>, <<Check>>)))
neoc_native_contract_state_parse_active_in ==
    <<Null(self)>> \o
    If(<<Must(self)>> \o
       ForSome(LAMBDA i : On(<<Destroy(self, neoc_native_contract_state_free_active_in)>>, <<Check, Must(<<"self", i>>)>>)))
(* The text cJSON printed is released with neoc_free.                         *)
neoc_native_contract_state_from_json_swift ==
    LET text == <<"json">>
        manifest == <<"manifest">>
        nef == <<"nef">>
        history == <<"history">>
        active == <<"active_in">>
        parsed(from_json, p) ==
            <<Check, Node(text)>> \o Finally(<<Free(text), Null(text)>>, Make(from_json, p, NoArgs)) IN
    <<Check>> \o ParseObject \o
    Finally(<<Delete(root)>>,
        <<Check>> \o parsed(neoc_contract_manifest_from_json, manifest) \o
        Finally(<<Destroy(manifest, neoc_contract_manifest_free)>>,
            parsed(neoc_contract_nef_from_json, nef) \o
            Finally(<<Destroy(nef, neoc_contract_nef_free)>>,
                Make(neoc_native_contract_state_parse_update_history, history, NoArgs) \o
                Finally(<<Free(history)>>,
                    Make(neoc_native_contract_state_parse_active_in, active, NoArgs) \o
                    On(<<Destroy(active, neoc_native_contract_state_free_active_in)>>,
                       Make(neoc_native_contract_state_alloc, self, NoArgs)) \o
                    <<Copy(active, its("active_in"))>>))))
neoc_native_contract_state_to_json_swift ==
    LET text == <<"json">>
        part(to_json, x) ==
            Make(to_json, text, NoArgs) \o Finally(<<Free(text), Null(text)>>, <<Node(Json(<<x>>))>>) IN
    <<Check, Node(root)>> \o
    On(<<Delete(root)>>,
       <<Check>> \o part(neoc_contract_manifest_to_json, "manifest") \o part(neoc_contract_nef_to_json, "nef") \o
       If(<<Node(Json(<<"updatehistory">>))>>) \o If(<<Node(Json(<<"activeIn">>))>>)) \o RenderRaw
neoc_native_contract_state_copy_swift ==
    <<Check>> \o neoc_native_contract_state_alloc \o
    On(<<Destroy(self, neoc_native_contract_state_free), Null(self)>>,
       If(<<Must(its("active_in"))>> \o ForSome(LAMBDA i : <<Opt(<<"self", "active_in", i>>)>>)))
neoc_native_contract_state_equals_swift ==
    LET first == <<"manifest_json_1">>
        second == <<"manifest_json_2">> IN
    <<Check>> \o Make(neoc_contract_manifest_to_json, first, NoArgs) \o
    Finally(<<Free(first), Free(second)>>, Make(neoc_contract_manifest_to_json, second, NoArgs))

(****************************************************************************)
(* contract_method_token.c and types/call_flags.c                            *)
(****************************************************************************)
neoc_call_flags_to_string == <<Must(self)>>
neoc_contract_method_token_free_internal == Fields({"method"})
neoc_contract_method_token_create_swift ==
    <<Check, Must(self)>> \o On(<<Destroy(self, neoc_contract_method_token_free_internal)>>, <<Must(its("method"))>>)
neoc_contract_method_token_from_json_swift ==
    FromText(<<Check>> \o Make(neoc_contract_method_token_create_swift, self, NoArgs))
neoc_contract_method_token_to_json_swift ==
    LET flags == <<"call_flags_str">> IN
    ToText(<<Check>> \o Make(neoc_call_flags_to_string, flags, NoArgs) \o <<Free(flags)>>)
neoc_contract_method_token_copy_swift ==
    LET flags == <<"flags_str">> IN
    <<Check>> \o Make(neoc_call_flags_to_string, flags, NoArgs) \o
    Finally(<<Free(flags)>>, Make(neoc_contract_method_token_create_swift, self, NoArgs))

(****************************************************************************)
(* contract_storage_entry.c                                                  *)
(****************************************************************************)
neoc_contract_storage_entry_free_internal == Fields({"key", "value"})
neoc_contract_storage_entry_set_bytes ==
    <<Check, Must(self)>> \o
    On(<<Destroy(self, neoc_contract_storage_entry_free_internal), Null(self)>>, Opts(Its(<<"key", "value">>)))
(* Text that is not hex is taken as an empty key or value.                    *)
neoc_contract_storage_entry_create_swift ==
    LET key == <<"key_bytes">>
        value == <<"value_bytes">> IN
    <<Check>> \o Ignoring(Make(neoc_hex_decode_alloc, key, NoArgs)) \o
    Ignoring(Make(neoc_hex_decode_alloc, value, NoArgs)) \o
    Finally(<<Free(key), Free(value)>>, Make(neoc_contract_storage_entry_set_bytes, self, NoArgs))
neoc_contract_storage_entry_from_json_swift ==
    FromText(<<Check>> \o Make(neoc_contract_storage_entry_create_swift, self, NoArgs))
neoc_contract_storage_entry_to_json_swift ==
    LET key == <<"key_hex">>
        value == <<"value_hex">> IN
    ToText(Finally(<<Free(key), Free(value)>>,
                   If(Make(neoc_hex_encode_alloc, key, NoArgs)) \o If(Make(neoc_hex_encode_alloc, value, NoArgs))))
neoc_contract_storage_entry_copy_swift == <<Check>> \o neoc_contract_storage_entry_set_bytes
neoc_contract_storage_entry_get_key_string == <<Check>> \o Else(Make(neoc_hex_encode_alloc, self, NoArgs), <<Must(self)>>)
neoc_contract_storage_entry_get_value_string == neoc_contract_storage_entry_get_key_string

(****************************************************************************)
(* nep17_contract.c                                                          *)
(****************************************************************************)
neoc_nep17_contract_free == Fields({"script_hash", "symbol"})
neoc_nep17_contract_create ==
    <<Check, Must(self)>> \o
    On(<<Destroy(self, neoc_nep17_contract_free), Null(self)>>, Musts(Its(<<"script_hash", "symbol">>)))
neoc_nep17_contract_from_json == FromText(<<Check>> \o Make(neoc_nep17_contract_create, self, NoArgs))
neoc_nep17_contract_to_json == ToText(<<>>)
neoc_nep17_contract_copy == <<Check>> \o neoc_nep17_contract_create

manifest_method(steps, has) == Method(steps, neoc_contract_manifest_free, has)
ManifestProcs == [
    neoc_contract_manifest_create |-> Constructor(neoc_contract_manifest_create, neoc_contract_manifest_free),
    neoc_contract_manifest_set_standards |->
        manifest_method(neoc_contract_manifest_set_standards, Object("supported_standards", {Block(<<1>>)})),
    neoc_contract_manifest_add_method |->
        manifest_method(LET entry == <<"self", "methods", 2>> IN
                        neoc_contract_manifest_add_method(entry, Else(some_parameters(entry), no_parameters(entry))),
                        Object("methods", Below(<<1>>, described))),
    neoc_contract_manifest_add_event |->
        manifest_method(neoc_contract_manifest_add_event(<<"self", "events", 2>>), Object("events", Below(<<1>>, described))),
    neoc_contract_manifest_add_permission |->
        manifest_method(neoc_contract_manifest_add_permission(<<"self", "permissions", 2>>),
                        Object("permissions", Below(<<1>>, permission))),
    neoc_contract_manifest_set_features |-> manifest_method(neoc_contract_manifest_set_features, {}),
    neoc_contract_manifest_set_extra |-> manifest_method(neoc_contract_manifest_set_extra, Fields({"extra"})),
    neoc_contract_manifest_to_json |-> Constructor(neoc_contract_manifest_to_json, {}),
    neoc_contract_manifest_from_json |-> Constructor(neoc_contract_manifest_from_json, neoc_contract_manifest_free),
    neoc_contract_manifest_clone |-> Constructor(neoc_contract_manifest_clone, neoc_contract_manifest_free),
    neoc_contract_manifest_create_group |-> Constructor(neoc_contract_manifest_create_group, {}),
    neoc_contract_manifest_create_full |-> Constructor(neoc_contract_manifest_create_full, neoc_contract_manifest_free),
    neoc_contract_manifest_copy |-> Constructor(neoc_contract_manifest_copy, neoc_contract_manifest_free),
    neoc_contract_nef_create |-> Constructor(neoc_contract_nef_create, neoc_contract_nef_free),
    neoc_contract_nef_clone |-> Constructor(neoc_contract_nef_clone, neoc_contract_nef_free),
    neoc_contract_nef_from_json |-> Constructor(neoc_contract_nef_from_json, neoc_contract_nef_free),
    neoc_contract_nef_to_json |-> Constructor(neoc_contract_nef_to_json, {}),
    neoc_contract_nef_serialize |-> Constructor(neoc_contract_nef_serialize, {}),
    neoc_contract_nef_deserialize |-> Constructor(neoc_contract_nef_deserialize, neoc_contract_nef_free),
    neoc_contract_nef_validate |-> Task(neoc_contract_nef_validate),
    neoc_contract_state_clone |->
        LET owns == Fields({"name"})
            state == Destroy(arg("state"), neoc_contract_state_free) IN
        Procedure(Whole(arg("state"), Below(<<"manifest">>, owns)), neoc_contract_state_clone,
                  <<Destroy(self, neoc_contract_state_free), state>>, <<state>>),
    neoc_contract_state_from_json |-> Constructor(neoc_contract_state_from_json, neoc_contract_state_free),
    neoc_contract_state_to_json |-> Constructor(neoc_contract_state_to_json, {}),
    neoc_contract_identifiers_from_stack_item |-> Constructor(neoc_contract_identifiers_from_stack_item, {}),
    neoc_express_contract_state_clone |->
        Constructor(neoc_express_contract_state_clone, neoc_express_contract_state_free),
    neoc_express_contract_state_from_json |->
        Constructor(neoc_express_contract_state_from_json, neoc_express_contract_state_free),
    neoc_express_contract_state_to_json |-> Constructor(neoc_express_contract_state_to_json, {}),
    neoc_native_contract_state_create_swift |->
        Constructor(neoc_native_contract_state_create_swift, neoc_native_contract_state_free),
    neoc_native_contract_state_from_json_swift |->
        Constructor(neoc_native_contract_state_from_json_swift, neoc_native_contract_state_free),
    neoc_native_contract_state_to_json_swift |-> LibcConstructor(neoc_native_contract_state_to_json_swift, {}),
    neoc_native_contract_state_copy_swift |->
        Constructor(neoc_native_contract_state_copy_swift, neoc_native_contract_state_free),
    neoc_native_contract_state_equals_swift |-> Task(neoc_native_contract_state_equals_swift),
    neoc_contract_method_token_from_json_swift |->
        Constructor(neoc_contract_method_token_from_json_swift, neoc_contract_method_token_free_internal),
    neoc_contract_method_token_to_json_swift |-> Constructor(neoc_contract_method_token_to_json_swift, {}),
    neoc_contract_method_token_copy_swift |->
        Constructor(neoc_contract_method_token_copy_swift, neoc_contract_method_token_free_internal),
    neoc_contract_storage_entry_from_json_swift |->
        Constructor(neoc_contract_storage_entry_from_json_swift, neoc_contract_storage_entry_free_internal),
    neoc_contract_storage_entry_to_json_swift |-> Constructor(neoc_contract_storage_entry_to_json_swift, {}),
    neoc_contract_storage_entry_copy_swift |->
        Constructor(neoc_contract_storage_entry_copy_swift, neoc_contract_storage_entry_free_internal),
    neoc_contract_storage_entry_get_key_string |-> Constructor(neoc_contract_storage_entry_get_key_string, {}),
    neoc_contract_storage_entry_get_value_string |-> Constructor(neoc_contract_storage_entry_get_value_string, {}),
    neoc_nep17_contract_from_json |-> Constructor(neoc_nep17_contract_from_json, neoc_nep17_contract_free),
    neoc_nep17_contract_to_json |-> Constructor(neoc_nep17_contract_to_json, {}),
    neoc_nep17_contract_copy |-> Constructor(neoc_nep17_contract_copy, neoc_nep17_contract_free)]
=============================================================================
