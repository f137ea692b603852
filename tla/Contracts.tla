------------------------------ MODULE Contracts ------------------------------
(* Contract files, tokens, native contracts and their invocations             *)
(* (src/contract), and the deployment of a contract (src/contracts).          *)
EXTENDS Transactions, RpcClient, StateResponses

builder == <<"builder">>
emit == Call(neoc_script_builder_emit_with_data, builder, NoArgs)
(* Instructions are written to a builder that is dropped when the call ends,  *)
(* after more was done with it.                                               *)
emitted(more) ==
    <<Check>> \o Make(neoc_script_builder_create, builder, NoArgs) \o Finally(<<DropBuilder(builder)>>, emit \o more)
(* The script is copied out of the builder, and dropped with it.              *)
script == <<"script">>
with_script(more) == Make(neoc_script_builder_to_array, script, NoArgs) \o Finally(<<Free(script)>>, more)
pushed_point ==
    LET encoded == <<"encoded_key">> IN
    Make(neoc_ec_point_get_encoded, encoded, NoArgs) \o Finally(<<Free(encoded)>>, emit)

(****************************************************************************)
(* nef_file.c                                                                *)
(****************************************************************************)
neoc_nef_file_free == Fields({"tokens", "script"})
calculate_checksum ==
    LET data == <<"data">> IN
    Make(Serialized, data, NoArgs) \o Finally(<<Free(data)>>, <<Check>>)
neoc_nef_file_create ==
    <<Check, Must(self)>> \o On(<<Free(self), Null(self)>>, <<Must(its("tokens"))>>) \o
    On(<<Free(its("tokens")), Free(self), Null(self)>>, <<Must(its("script"))>>) \o
    On(<<Free(its("script")), Free(its("tokens")), Free(self), Null(self)>>, Call(calculate_checksum, self, NoArgs))
neoc_nef_file_add_method_token == <<Check, Grow(its("tokens"))>> \o Call(calculate_checksum, self, NoArgs)
neoc_nef_file_verify_checksum == <<Check>> \o Ignoring(Call(calculate_checksum, self, NoArgs))
neoc_nef_file_to_bytes == Serialized
neoc_nef_file_to_file ==
    LET data == <<"data">> IN
    <<Check>> \o Make(neoc_nef_file_to_bytes, data, NoArgs) \o Finally(<<Free(data)>>, <<Check>>)
neoc_nef_file_from_bytes ==
    LET reader == <<"reader">> IN
    <<Check>> \o Make(neoc_binary_reader_create, reader, NoArgs) \o
    Finally(<<DropReader(reader)>>,
            <<Must(self)>> \o
            On(<<Destroy(self, neoc_nef_file_free), Null(self)>>,
               <<Check>> \o If(<<Must(its("tokens")), Check>>) \o
               Call(neoc_binary_reader_read_var_bytes, its("script"), NoArgs) \o <<Check>>))
neoc_nef_file_from_file ==
    LET data == <<"data">> IN
    <<Check, Must(data)>> \o Finally(<<Free(data)>>, <<Check>> \o Make(neoc_nef_file_from_bytes, self, NoArgs))

(****************************************************************************)
(* token.c, fungible_token.c, gas_token.c, neoc_token.c,                     *)
(* non_fungible_token.c                                                      *)
(****************************************************************************)
neoc_token_free == Fields({"contract_hash", "symbol", "name"})
neoc_token_create == <<Check, Must(self)>> \o On(<<Free(self), Null(self)>>, <<Must(its("contract_hash"))>>)
neoc_fungible_token_free == Below(<<"base">>, neoc_token_free)
neoc_fungible_token_create ==
    LET base == <<"base_token">> IN
    <<Check, Must(self)>> \o On(<<Free(self)>>, Make(neoc_token_create, base, NoArgs)) \o
    <<Copy(base \o <<"contract_hash">>, <<"self", "base", "contract_hash">>), Free(base)>>
neoc_fungible_token_balance_of == emitted(<<>>)
neoc_fungible_token_transfer == <<Check>> \o emitted(<<>>)
(* The balance of one token among those the node reports.                     *)
own_balance ==
    LET balances == <<"balances">> IN
    <<Check>> \o Make(neoc_rpc_get_nep17_balances, balances, NoArgs) \o
    <<Destroy(balances, neoc_rpc_nep17_balances_free)>>
neoc_fungible_token_balance_of_rpc == own_balance

neoc_gas_token_free == Object("fungible", neoc_fungible_token_free)
neoc_gas_token_create ==
    LET fungible == <<"fungible">> IN
    <<Check, Must(self)>> \o On(<<Free(self), Null(self)>>,
        <<Check>> \o Make(neoc_fungible_token_create, fungible, NoArgs) \o
        On(<<Destroy(fungible, neoc_fungible_token_free)>>, Musts(In(<<"fungible", "base">>, <<"name", "symbol">>)))) \o
    <<Copy(fungible, its("fungible"))>>
neoc_gas_token_balance_of == <<Check>> \o own_balance
neoc_gas_token_build_transfer_script == <<Check>> \o neoc_script_create_nep17_transfer
neoc_gas_token_transfer ==
    <<Check>> \o Make(neoc_gas_token_build_transfer_script, script, NoArgs) \o <<Free(script)>>
neoc_gas_token_refuel == <<Check>> \o Make(neoc_script_create_contract_call, script, NoArgs) \o <<Free(script)>>
neoc_gas_token_build_multi_transfer_script ==
    LET single == <<"single_script">>
        combined == <<"combined">> IN
    <<Check>> \o
    ForSome(LAMBDA i :
        On(<<Free(combined)>>,
           <<Check>> \o Make(neoc_script_create_nep17_transfer, single, NoArgs) \o
           Finally(<<Free(single)>>, <<Grow(combined)>>))) \o
    <<Copy(combined, self)>>
neoc_gas_token_get_name == <<Check, Must(self)>>
neoc_gas_token_get_symbol == <<Check, Must(self)>>
neoc_gas_token_get_supported_methods ==
    <<Check, Must(self)>> \o ForSome(LAMBDA i : On(<<Destroy(self, Pointers({})), Null(self)>>, <<Must(<<"self", i>>)>>))

(* The 20 bytes of the hash are written over the first pointers of the token, *)
(* which its destructor does not look at.                                     *)
neoc_neo_token_create ==
    <<Check, Must(self)>> \o
    Map(LAMBDA x : Garbage(<<"self", "base", "base", x>>), <<"contract_hash", "symbol", "name">>)
neoc_neo_token_free == {}
neoc_neo_token_get_name == <<Check, Must(self)>>
neoc_neo_token_get_symbol_copy == <<Check, Must(self)>>
neoc_neo_token_balance_of == own_balance
(* The script becomes the script of the caller's transaction builder.         *)
in_transaction(pushes) ==
    <<Check>> \o Make(neoc_script_builder_create, builder, NoArgs) \o
    Finally(<<DropBuilder(builder)>>, pushes \o emit \o with_script(Call(neoc_tx_builder_set_script, self, NoArgs)))
neoc_neo_token_transfer == in_transaction(emit)
neoc_neo_token_register_candidate == in_transaction(pushed_point)
neoc_neo_token_unregister_candidate == in_transaction(pushed_point)
neoc_neo_token_vote == in_transaction(Else(pushed_point, emit))
neoc_neo_token_unclaimed_gas == emitted(<<>>)
neoc_neo_token_get_account_state == <<Check>> \o neoc_neo_account_state_allocate
neoc_neo_candidate_free == LibcObject("public_key", neoc_ec_public_key_free)
neoc_neo_candidates_free == Pointers(neoc_neo_candidate_free)

(* The hash of a token is the caller's.                                       *)
neoc_nft_free == Fields({"symbol", "name"})
neoc_nft_create == <<Check, Must(self)>>
(* The symbol comes from an earlier call, or is kept for later ones.          *)
neoc_nft_symbol ==
    LET symbol == <<"symbol">>
        kept == Libc(Try(its("symbol"))) IN
    <<Check>> \o Else(<<Libc(Got(its("symbol"))), Libc(Try(symbol))>>, emitted(with_script(<<Libc(Try(symbol)), kept>>)))
neoc_nft_total_supply == emitted(with_script(<<>>))
neoc_nft_balance_of == emitted(with_script(<<>>))
neoc_nft_tokens_of == emitted(with_script(<<>>))
neoc_nft_owner_of == emitted(with_script(<<>>))
neoc_nft_transfer == emitted(with_script(<<>>))
neoc_nft_properties == emitted(with_script(<<>>))

(****************************************************************************)
(* smart_contract.c.  Both objects are released with free.  A copied text is *)
(* written before the pointer is looked at.                                  *)
(****************************************************************************)
neoc_smart_contract_free == ByLibc(Fields({"name", "nef", "manifest"}))
DropContract(p) == Libc(Destroy(p, neoc_smart_contract_free))
neoc_smart_contract_create == <<Check, Must(self)>> \o If(<<Try(its("name")), Use(its("name"))>>)
neoc_contract_invocation_free == ByLibc(Fields({"operation", "params"}))
neoc_contract_invocation_create ==
    <<Check, Must(self), Try(its("operation")), Use(its("operation"))>> \o
    If(On(<<Free(its("operation")), Free(self), Null(self)>>, <<Must(its("params"))>>))
neoc_contract_build_invocation_script ==
    LET push == Call(neoc_script_builder_emit_with_data, self, NoArgs) IN
    <<Check>> \o For(LAMBDA i : push) \o push
(* neoc_nep17_transfer_create of smart_contract.c, one of two functions of    *)
(* this name: the invocation keeps pointers to the parameters, and frees only *)
(* their array.                                                               *)
neoc_nep17_transfer_create_invocation ==
    LET param(i) == <<"param", i>>
        drop(i) == Libc(Destroy(param(i), neoc_contract_param_free)) IN
    <<Check>> \o Make(neoc_contract_param_create_hash160, param(1), NoArgs) \o
    On(<<drop(1)>>, Make(neoc_contract_param_create_hash160, param(2), NoArgs)) \o
    On(<<drop(1), drop(2)>>, Make(neoc_contract_param_create_integer, param(3), NoArgs)) \o
    Make(neoc_contract_invocation_create, self, NoArgs)
neoc_nep17_balance_of_create ==
    <<Check>> \o Make(neoc_contract_param_create_hash160, <<"param">>, NoArgs) \o
    Make(neoc_contract_invocation_create, self, NoArgs)
neoc_nep17_symbol_create == <<Check>> \o neoc_contract_invocation_create
neoc_nep17_decimals_create == <<Check>> \o neoc_contract_invocation_create
neoc_nep17_total_supply_create == <<Check>> \o neoc_contract_invocation_create

(****************************************************************************)
(* policy_contract.c, role_management.c, neoc_name_service.c                 *)
(****************************************************************************)
native_free == LibcObject("contract", neoc_smart_contract_free)
native_create ==
    <<Check, Must(self)>> \o On(<<Free(self), Null(self)>>, Make(neoc_smart_contract_create, its("contract"), NoArgs))
neoc_policy_contract_free == native_free
neoc_policy_contract_create == native_create
neoc_policy_get_fee_per_byte == emitted(<<>>)
neoc_policy_get_exec_fee_factor == emitted(<<>>)
neoc_policy_get_storage_price == emitted(<<>>)
neoc_policy_is_blocked == emitted(<<>>)
neoc_policy_set_fee_per_byte == emitted(<<>>)
neoc_role_management_free == native_free
neoc_role_management_create == native_create
neoc_role_management_get_designated_by_role == emitted(<<>>)
neoc_role_management_designate_as_role == emitted(For(LAMBDA i : pushed_point) \o emit)
neoc_nns_free == native_free
neoc_nns_create == native_create
(* The script is run by a function the caller installed.                      *)
neoc_nns_resolve == emitted(with_script(<<Check, Libc(Try(self))>>))
neoc_nns_is_available == emitted(with_script(<<Check>>))
neoc_nns_get_price == emitted(with_script(<<Check>>))
neoc_nns_register == emitted(with_script(<<>>))
neoc_nns_set_record == emitted(with_script(<<>>))

(****************************************************************************)
(* nns_name.c, neoc_uri.c, iterator.c                                        *)
(****************************************************************************)
neoc_nns_name_free == Fields({"name"})
neoc_nns_name_create == <<Check, Must(self)>> \o On(<<Free(self), Null(self)>>, <<Libc(Must(its("name")))>>)
neoc_nns_name_get_name == <<Check, Libc(Must(self))>>
neoc_nns_name_get_parent == <<Check, Null(self), Opt(self)>>
neoc_neo_uri_free == Fields({"address", "asset", "description"})
(* A key that occurs twice overwrites the copy of its first value.            *)
neoc_neo_uri_parse ==
    LET amount == <<"amount_str">> IN
    <<Check, Must(self)>> \o On(<<Destroy(self, neoc_neo_uri_free), Null(self)>>, <<Must(its("address"))>>) \o
    For(LAMBDA i : Else(<<Try(its("asset"))>>, Else(<<Try(its("description"))>>, <<Try(amount), Free(amount)>>)))
neoc_neo_uri_build == <<Check, Must(self)>>
neoc_neo_uri_get_address == <<Check, Null(self), Libc(Opt(self))>>
neoc_neo_uri_get_asset == neoc_neo_uri_get_address
neoc_neo_uri_get_description == neoc_neo_uri_get_address
array_free == Fields({"context"})
neoc_iterator_create_from_array == <<Check, Must(self)>> \o On(<<Free(self)>>, <<Must(its("context"))>>)
neoc_iterator_to_array == <<Check, Null(self), Opt(self)>>

(****************************************************************************)
(* contract_management.c                                                     *)
(****************************************************************************)
neoc_contract_management_create == <<Check, Must(self)>>
neoc_contract_management_deploy ==
    LET manifest == <<"manifest_json">>
        nef == <<"nef_bytes">>
        copied(x, clone) == Make(clone, <<x>>, NoArgs) \o <<Copy(<<x>>, its(x)), Free(<<x>>)>> IN
    <<Check>> \o Make(neoc_script_builder_create, builder, NoArgs) \o
    Finally(<<DropBuilder(builder)>>,
            <<Must(manifest)>> \o Finally(<<Free(manifest)>>, emit) \o
            <<Must(nef)>> \o Finally(<<Free(nef)>>, emit) \o emit \o Make(neoc_script_builder_to_array, script, NoArgs)) \o
    Finally(<<Free(script)>>,
            Make(neoc_contract_state_create, self, NoArgs) \o
            On(<<Destroy(self, neoc_contract_state_free), Null(self)>>,
               copied("nef", neoc_contract_nef_clone) \o copied("manifest", neoc_contract_manifest_clone)))
neoc_contract_management_update ==
    LET manifest == <<"manifest_json">>
        nef == <<"nef_bytes">> IN
    <<Check, Opt(manifest)>> \o
    Finally(<<Free(manifest)>>, <<Opt(nef)>> \o Finally(<<Free(nef)>>, emitted(<<>>)))
neoc_contract_management_destroy == emitted(<<>>)
neoc_contract_management_get_contract == emitted(<<>>) \o <<Must(self)>>
neoc_contract_management_has_contract ==
    LET contract == <<"contract">> IN
    <<Check>> \o Ignoring(Make(neoc_contract_management_get_contract, contract, NoArgs) \o
                          <<Destroy(contract, neoc_contract_state_free)>>)

(****************************************************************************)
(* contracts/deployment.c                                                    *)
(****************************************************************************)
neoc_contract_calculate_deploy_cost ==
    LET nef == <<"nef_bytes">>
        manifest == <<"manifest_json">> IN
    <<Check>> \o Make(neoc_nef_file_to_bytes, nef, NoArgs) \o <<Free(nef)>> \o
    Make(neoc_contract_manifest_to_json, manifest, NoArgs) \o <<Free(manifest)>>
pushed_manifest ==
    LET manifest == <<"manifest_json">> IN
    Make(neoc_contract_manifest_to_json, manifest, NoArgs) \o Finally(<<Free(manifest)>>, emit)
pushed_nef ==
    LET nef == <<"nef_data">> IN
    Make(neoc_nef_file_to_bytes, nef, NoArgs) \o Finally(<<Free(nef)>>, emit)
neoc_contract_build_deploy_script == emitted(pushed_manifest \o pushed_nef \o emit \o <<Check>> \o with_script(<<Check>>))
neoc_contract_build_update_script ==
    emitted(Else(pushed_manifest \o Else(pushed_nef, emit), emit \o pushed_nef) \o emit \o <<Check>> \o
            with_script(<<Check>>))

(* Signing asks for the transaction the builder built, and no caller here     *)
(* builds one.                                                                *)
neoc_tx_builder_sign == <<Stop>>
(* The part the three operations share: what neoc_tx_builder_set_script and   *)
(* neoc_tx_builder_add_signer return is not looked at, and the signer is not  *)
(* released.                                                                  *)
tx_builder == <<"tx_builder">>
DropTx == Destroy(tx_builder, neoc_tx_builder_free)
signed_by_account ==
    LET signer == <<"signer">> IN
    On(<<DropTx>>, <<Check>> \o Make(neoc_signer_create, signer, NoArgs)) \o
    Ignoring(Call(neoc_tx_builder_add_signer(1), tx_builder, NoArgs))
new_transaction ==
    Make(neoc_tx_builder_create, tx_builder, NoArgs) \o
    On(<<DropTx>>, Call(neoc_rpc_get_block_count, self, NoArgs)) \o
    Ignoring(Call(neoc_tx_builder_set_script, tx_builder, NoArgs))
neoc_contract_deploy ==
    <<Check>> \o Call(neoc_contract_build_deploy_script, self, NoArgs) \o
    Call(neoc_contract_calculate_deploy_cost, self, NoArgs) \o new_transaction \o signed_by_account \o
    neoc_tx_builder_sign
neoc_contract_update ==
    <<Check>> \o Call(neoc_contract_build_update_script, self, NoArgs) \o new_transaction \o signed_by_account \o
    neoc_tx_builder_sign
(* The script is not released when the transaction cannot be started.         *)
neoc_contract_destroy ==
    <<Check>> \o Make(neoc_script_builder_create, builder, NoArgs) \o
    Finally(<<DropBuilder(builder)>>,
            emit \o Make(neoc_script_builder_to_array, script, NoArgs) \o new_transaction \o <<Free(script)>>) \o
    signed_by_account \o On(<<DropTx>>, neoc_tx_builder_sign)
neoc_contract_verify_deployment ==
    LET state == <<"state">> IN
    <<Check>> \o Make(neoc_rpc_get_contract_state, state, NoArgs) \o
    Finally(<<Destroy(state, neoc_rpc_contract_state_free)>>, <<Check>>)

ContractProcs == [
    neoc_nef_file_create |-> Constructor(neoc_nef_file_create, neoc_nef_file_free),
    neoc_nef_file_add_method_token |-> Method(neoc_nef_file_add_method_token, neoc_nef_file_free, neoc_nef_file_free),
    neoc_nef_file_to_bytes |-> Constructor(neoc_nef_file_to_bytes, {}),
    neoc_nef_file_from_file |-> Constructor(neoc_nef_file_from_file, neoc_nef_file_free),
    neoc_nef_file_to_file |-> Task(neoc_nef_file_to_file),
    neoc_fungible_token_create |-> Constructor(neoc_fungible_token_create, neoc_fungible_token_free),
    neoc_fungible_token_transfer |-> Task(neoc_fungible_token_transfer),
    neoc_fungible_token_balance_of_rpc |-> Task(neoc_fungible_token_balance_of_rpc),
    neoc_gas_token_create |-> Constructor(neoc_gas_token_create, neoc_gas_token_free),
    neoc_gas_token_transfer |-> Task(neoc_gas_token_transfer),
    neoc_gas_token_refuel |-> Task(neoc_gas_token_refuel),
    neoc_gas_token_build_multi_transfer_script |-> Constructor(neoc_gas_token_build_multi_transfer_script, {}),
    neoc_gas_token_get_supported_methods |-> Constructor(neoc_gas_token_get_supported_methods, Pointers({})),
    neoc_neo_token_create |-> Constructor(neoc_neo_token_create, neoc_neo_token_free),
    neoc_neo_token_vote |-> Method(neoc_neo_token_vote, neoc_tx_builder_free, Fields({"script"})),
    neoc_nft_create |-> Constructor(neoc_nft_create, neoc_nft_free),
    neoc_nft_symbol |->
        Procedure(Whole(self, {}), neoc_nft_symbol, <<LibcFree(<<"symbol">>), Destroy(self, neoc_nft_free)>>,
                  <<Destroy(self, neoc_nft_free)>>),
    neoc_nft_properties |-> Task(neoc_nft_properties),
    neoc_smart_contract_create |-> LibcConstructor(neoc_smart_contract_create, neoc_smart_contract_free),
    neoc_contract_build_invocation_script |->
        Method(neoc_contract_build_invocation_script, neoc_script_builder_free, neoc_script_builder_free),
    neoc_nep17_transfer_create_invocation |-> LibcConstructor(neoc_nep17_transfer_create_invocation, neoc_contract_invocation_free),
    neoc_nep17_balance_of_create |-> LibcConstructor(neoc_nep17_balance_of_create, neoc_contract_invocation_free),
    neoc_nep17_symbol_create |-> LibcConstructor(neoc_nep17_symbol_create, neoc_contract_invocation_free),
    neoc_policy_contract_create |-> Constructor(neoc_policy_contract_create, neoc_policy_contract_free),
    neoc_policy_set_fee_per_byte |-> Task(neoc_policy_set_fee_per_byte),
    neoc_role_management_designate_as_role |-> Task(neoc_role_management_designate_as_role),
    neoc_nns_resolve |-> LibcConstructor(neoc_nns_resolve, {}),
    neoc_nns_get_price |-> Task(neoc_nns_get_price),
    neoc_nns_name_create |-> Constructor(neoc_nns_name_create, neoc_nns_name_free),
    neoc_nns_name_get_name |-> LibcConstructor(neoc_nns_name_get_name, {}),
    neoc_neo_uri_parse |-> Constructor(neoc_neo_uri_parse, neoc_neo_uri_free),
    neoc_neo_uri_get_asset |-> LibcConstructor(neoc_neo_uri_get_asset, {}),
    neoc_iterator_create_from_array |-> Constructor(neoc_iterator_create_from_array, array_free),
    neoc_contract_management_deploy |-> Constructor(neoc_contract_management_deploy, neoc_contract_state_free),
    neoc_contract_management_update |-> Task(neoc_contract_management_update),
    neoc_contract_management_get_contract |-> Constructor(neoc_contract_management_get_contract, neoc_contract_state_free),
    neoc_contract_management_has_contract |-> Task(neoc_contract_management_has_contract),
    neoc_contract_calculate_deploy_cost |-> Task(neoc_contract_calculate_deploy_cost),
    neoc_contract_build_deploy_script |-> Task(neoc_contract_build_deploy_script),
    neoc_contract_build_update_script |-> Task(neoc_contract_build_update_script),
    neoc_contract_deploy |-> Task(neoc_contract_deploy),
    neoc_contract_update |-> Task(neoc_contract_update),
    neoc_contract_destroy |-> Task(neoc_contract_destroy),
    neoc_contract_verify_deployment |-> Task(neoc_contract_verify_deployment)]
=============================================================================
