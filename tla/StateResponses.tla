--------------------------- MODULE StateResponses ---------------------------
(* The answers of src/protocol/core/response that carry a value or a small    *)
(* record: fees, heights, balances, addresses, names, records, accounts,      *)
(* oracle requests, and the generic ones of neo_response_aliases.c.           *)
EXTENDS Responses, Keys

(* A record of strings: those in strings must be copied, those in optional    *)
(* are copied when given.                                                     *)
Strings(strings, optional, free) ==
    <<Check, Must(self)>> \o On(<<Destroy(self, free)>>, Musts(Its(strings)) \o Opts(Its(optional)))

(* transaction_send_token.c                                                   *)
neoc_transaction_send_token_free == Fields({"token", "address"})
neoc_transaction_send_token_create == <<Check, Must(self)>>
neoc_transaction_send_token_create_with_values == Strings(<<"token">>, <<"address">>, neoc_transaction_send_token_free)
neoc_transaction_send_token_from_json ==
    FromText(<<Check>> \o Make(neoc_transaction_send_token_create_with_values, self, NoArgs))
neoc_transaction_send_token_to_json == ToText(<<>>)
neoc_transaction_send_token_copy == neoc_transaction_send_token_create_with_values

(* express_shutdown.c.  An answer has an error or a result, never both.       *)
neoc_express_shutdown_response_free == Envelope({})
neoc_express_shutdown_create == <<Check, Must(self)>>
neoc_express_shutdown_from_json == <<Check, Node(root)>> \o Finally(<<Delete(root)>>, <<Check, Must(self)>>)
shutdown_response(error) ==
    <<Check, Must(self)>> \o On(<<Destroy(self, neoc_express_shutdown_response_free)>>, <<Opt(its("jsonrpc"))>>) \o
    <<Copy(arg("result"), its("result"))>> \o On(<<Destroy(self, neoc_express_shutdown_response_free)>>, error)
neoc_express_shutdown_response_create == shutdown_response(<<Opt(its("error"))>>)
neoc_express_shutdown_response_from_json ==
    LET text == <<"result_str">>
        shutdown == <<"result_struct">>
        made == [result |-> shutdown] IN
    <<Check>> \o ParseObject \o
    Finally(<<Delete(root)>>,
        Else(Make(neoc_express_shutdown_response_create, self, made),
             <<Node(text)>> \o Finally(<<LibcFree(text)>>, Make(neoc_express_shutdown_from_json, shutdown, NoArgs)) \o
             On(<<Free(shutdown)>>, Make(shutdown_response(<<>>), self, made))))

(* neo_response_aliases.c                                                     *)
free_base_fields == Fields({"jsonrpc", "error", "result"})
neoc_neo_response_free == free_base_fields
init_base_response ==
    <<Must(its("jsonrpc"))>> \o On(<<Free(its("jsonrpc")), Null(its("jsonrpc"))>>, <<Opt(its("error"))>>)
neoc_neo_create_int_response ==
    <<Check, Must(self)>> \o On(<<Free(self)>>, init_base_response) \o
    On(<<Destroy(self, neoc_neo_response_free)>>, <<Opt(its("result"))>>)
neoc_neo_create_bool_response == neoc_neo_create_int_response
neoc_neo_create_string_response == neoc_neo_create_int_response

(* name_state.c                                                               *)
neoc_name_state_free == Fields({"name", "expiration", "admin"})
neoc_name_state_create == Strings(<<"name">>, <<"expiration", "admin">>, neoc_name_state_free)
neoc_name_state_from_json ==
    <<Check>> \o ParseObject \o Finally(<<Delete(root)>>, <<Check>> \o Make(neoc_name_state_create, self, NoArgs))
neoc_name_state_to_json == <<Check, Node(root)>> \o RenderRaw
neoc_name_state_copy == neoc_name_state_create

(* neo_network_fee.c                                                          *)
neoc_neo_calculate_network_fee_free == Envelope({})
neoc_neo_network_fee_create == <<Check, Must(self)>>
neoc_neo_calculate_network_fee_create == AdoptResult(neoc_neo_calculate_network_fee_free)
neoc_neo_calculate_network_fee_from_json ==
    Tolerant(On(<<Destroy(self, neoc_neo_calculate_network_fee_free), Delete(root)>>, <<Check>>) \o
             Ignoring(Make(neoc_neo_network_fee_create, its("result"), NoArgs)))
neoc_neo_calculate_network_fee_to_json == ToJsonText(<<Node(Json(<<"result">>))>>)

(* neo_send_raw_transaction.c                                                 *)
neoc_neo_send_raw_transaction_free == Envelope({})
neoc_raw_transaction_result_create == <<Check, Must(self)>>
neoc_neo_send_raw_transaction_create == AdoptResult(neoc_neo_send_raw_transaction_free)
neoc_neo_send_raw_transaction_from_json ==
    Tolerant(If(Ignoring(Make(neoc_raw_transaction_result_create, its("result"), NoArgs))))
neoc_neo_send_raw_transaction_to_json == ToJsonText(<<Node(Json(<<"result">>))>>)
neoc_neo_send_raw_transaction_get_hash_string == <<Check, Must(self)>>

(* record_state.c                                                             *)
neoc_record_state_free == Fields({"name", "data"})
neoc_record_state_response_free == Envelope(neoc_record_state_free)
neoc_record_state_create == Strings(<<"name", "data">>, <<>>, neoc_record_state_free)
neoc_record_state_response_create == AdoptResult(neoc_record_state_response_free)
neoc_record_state_from_json == FromText(<<Check>> \o Make(neoc_record_state_create, self, NoArgs))
neoc_record_state_response_from_json == Tolerant(ParsedResult(neoc_record_state_from_json))
neoc_record_state_to_json == ToText(<<>>)
neoc_record_state_copy == neoc_record_state_create

(* neo_account_state.c                                                        *)
neoc_neo_account_state_reset == LibcObject("public_key", neoc_ec_public_key_free) \cup Fields({"balance_height"})
neoc_neo_account_state_free == neoc_neo_account_state_reset
neoc_neo_account_state_allocate == <<Must(self)>>
neoc_neo_account_state_create ==
    neoc_neo_account_state_allocate \o
    On(<<Destroy(self, neoc_neo_account_state_free)>>,
       <<Opt(its("balance_height"))>> \o If(Make(neoc_ec_public_key_clone, its("public_key"), NoArgs)))
neoc_neo_account_state_parse_vote ==
    LET bytes == <<"key_bytes">> IN
    <<Null(self)>> \o
    If(<<Check>> \o Make(neoc_hex_decode_alloc, bytes, NoArgs) \o
       Finally(<<Free(bytes)>>, Make(neoc_ec_public_key_from_bytes, self, NoArgs)))
neoc_neo_account_state_from_json ==
    LET key == <<"public_key">> IN
    <<Check>> \o ParseObject \o
    Finally(<<Delete(root)>>,
        <<Check>> \o Make(neoc_neo_account_state_parse_vote, key, NoArgs) \o
        Finally(<<DropPublicKey(key)>>, Make(neoc_neo_account_state_create, self, NoArgs)))
neoc_neo_account_state_to_json ==
    LET text == <<"encoded">> IN
    <<Check, Node(root)>> \o
    On(<<Delete(root)>>, If(<<Check>> \o Make(neoc_hex_encode_alloc, text, NoArgs) \o <<Free(text)>>)) \o RenderRaw
neoc_neo_account_state_copy == <<Check>> \o neoc_neo_account_state_create

(* populated_blocks.c                                                         *)
neoc_populated_blocks_free == Fields({"cache_id", "blocks"})
neoc_populated_blocks_response_free == Envelope(neoc_populated_blocks_free)
neoc_populated_blocks_create == Strings(<<"cache_id">>, <<"blocks">>, neoc_populated_blocks_free)
neoc_populated_blocks_response_create == AdoptResult(neoc_populated_blocks_response_free)
neoc_populated_blocks_from_json ==
    LET blocks == <<"blocks">> IN
    FromText(<<Opt(blocks)>> \o Finally(<<Free(blocks)>>, Make(neoc_populated_blocks_create, self, NoArgs)))
neoc_populated_blocks_response_from_json == Tolerant(ParsedResult(neoc_populated_blocks_from_json))
neoc_populated_blocks_to_json ==
    LET array == <<"arr">> IN
    ToText(If(<<Node(array)>> \o ForSome(LAMBDA i : On(<<Delete(array)>>, <<Node(array \o <<i>>)>>))
              \o <<Attach(array, root, "blocks")>>))

(* neo_get_state_height.c                                                     *)
neoc_neo_get_state_height_free == Envelope({})
neoc_state_height_create == <<Check, Must(self)>>
neoc_neo_get_state_height_create == AdoptResult(neoc_neo_get_state_height_free)
neoc_neo_get_state_height_from_json ==
    Demanding(neoc_neo_get_state_height_free, Make(neoc_state_height_create, its("result"), NoArgs))
neoc_neo_get_state_height_to_json == ToJsonText(<<Node(Json(<<"result">>))>>)

(* neo_get_wallet_balance.c                                                   *)
neoc_wallet_balance_free == Fields({"balance"})
neoc_neo_get_wallet_balance_free == Envelope(neoc_wallet_balance_free)
neoc_wallet_balance_create == Strings(<<"balance">>, <<>>, neoc_wallet_balance_free)
neoc_neo_get_wallet_balance_create == AdoptResult(neoc_neo_get_wallet_balance_free)
neoc_neo_get_wallet_balance_from_json ==
    Demanding(neoc_neo_get_wallet_balance_free, Make(neoc_wallet_balance_create, its("result"), NoArgs))
neoc_neo_get_wallet_balance_to_json == ToJsonText(<<Node(Json(<<"result">>))>>)
neoc_neo_get_wallet_balance_copy_balance_string == <<Check, Must(self)>>

(* neo_address.c                                                              *)
neoc_neo_address_reset == Fields({"address", "label"})
neoc_neo_address_free == neoc_neo_address_reset
neoc_neo_address_allocate == <<Check, Must(self)>>
neoc_neo_address_create == Strings(<<"address">>, <<"label">>, neoc_neo_address_free)
neoc_neo_address_copy == neoc_neo_address_create
neoc_neo_address_set_label ==
    LET copy == <<"copy">> IN <<Check, Opt(copy), Free(its("label")), Copy(copy, its("label"))>>
neoc_neo_address_from_json ==
    <<Check>> \o ParseObject \o Finally(<<Delete(root)>>, <<Check>> \o Make(neoc_neo_address_create, self, NoArgs))
neoc_neo_address_to_json == <<Check, Node(root)>> \o RenderRaw
neoc_neo_address_copy_address_string == <<Check, Must(self)>>

(* neo_get_unclaimed_gas.c                                                    *)
neoc_get_unclaimed_gas_free == Fields({"unclaimed", "address"})
neoc_neo_get_unclaimed_gas_free == Envelope(neoc_get_unclaimed_gas_free)
neoc_get_unclaimed_gas_create == Strings(<<"unclaimed", "address">>, <<>>, neoc_get_unclaimed_gas_free)
neoc_neo_get_unclaimed_gas_create == AdoptResult(neoc_neo_get_unclaimed_gas_free)
neoc_neo_get_unclaimed_gas_from_json ==
    Demanding(neoc_neo_get_unclaimed_gas_free, Make(neoc_get_unclaimed_gas_create, its("result"), NoArgs))
neoc_neo_get_unclaimed_gas_to_json == ToJsonText(<<Node(Json(<<"result">>))>>)
neoc_neo_get_unclaimed_gas_copy_amount_string == <<Check, Must(self)>>
neoc_neo_get_unclaimed_gas_copy_address_string == <<Check, Must(self)>>

(* neo_validate_address.c                                                     *)
neoc_neo_validate_address_result_free == Fields({"address", "script_hash"})
neoc_neo_validate_address_response_free == Envelope(neoc_neo_validate_address_result_free)
neoc_neo_validate_address_result_create == Strings(<<"address">>, <<>>, neoc_neo_validate_address_result_free)
neoc_neo_validate_address_result_set_properties ==
    LET copy == <<"copy">> IN
    <<Check>> \o If(<<Must(copy), Free(its("script_hash")), Copy(copy, its("script_hash"))>>)
neoc_neo_validate_address_result_copy == Strings(<<>>, <<"address", "script_hash">>, neoc_neo_validate_address_result_free)
neoc_neo_validate_address_response_create == AdoptResult(neoc_neo_validate_address_response_free)
parse_result ==
    neoc_neo_validate_address_result_create \o
    On(<<Destroy(self, neoc_neo_validate_address_result_free)>>, neoc_neo_validate_address_result_set_properties)
neoc_neo_validate_address_response_from_json == Tolerant(Ignoring(Make(parse_result, its("result"), NoArgs)))
neoc_neo_validate_address_response_to_json == ToJsonText(<<Node(Json(<<"result">>))>>)

(* oracle_request.c                                                           *)
oracle_strings == <<"original_tx_hash", "callback_contract", "url", "callback_method">>
neoc_oracle_request_free == Fields(ToSet(oracle_strings) \cup {"filter", "user_data"})
neoc_oracle_request_response_free == Envelope(neoc_oracle_request_free)
neoc_oracle_request_create ==
    Strings(oracle_strings, <<>>, neoc_oracle_request_free) \o Tries(Its(<<"filter", "user_data">>))
neoc_oracle_request_response_create == AdoptResult(neoc_oracle_request_response_free)
neoc_oracle_request_from_json == FromText(<<Check>> \o Make(neoc_oracle_request_create, self, NoArgs))
neoc_oracle_request_response_from_json == Tolerant(ParsedResult(neoc_oracle_request_from_json))
neoc_oracle_request_to_json == ToText(<<>>)
neoc_oracle_request_copy == neoc_oracle_request_create

Adopts(steps, owns, owned) == Adopting(steps, owns, {"result"}, owned)
StateProcs == [
    neoc_transaction_send_token_from_json |->
        Constructor(neoc_transaction_send_token_from_json, neoc_transaction_send_token_free),
    neoc_transaction_send_token_to_json |-> Constructor(neoc_transaction_send_token_to_json, {}),
    neoc_express_shutdown_response_create |->
        Adopts(neoc_express_shutdown_response_create, neoc_express_shutdown_response_free, {}),
    neoc_express_shutdown_response_from_json |->
        Constructor(neoc_express_shutdown_response_from_json, neoc_express_shutdown_response_free),
    neoc_neo_create_int_response |-> Constructor(neoc_neo_create_int_response, neoc_neo_response_free),
    neoc_neo_create_bool_response |-> Constructor(neoc_neo_create_bool_response, neoc_neo_response_free),
    neoc_neo_create_string_response |-> Constructor(neoc_neo_create_string_response, neoc_neo_response_free),
    neoc_name_state_from_json |-> Constructor(neoc_name_state_from_json, neoc_name_state_free),
    neoc_name_state_to_json |-> LibcConstructor(neoc_name_state_to_json, {}),
    neoc_neo_calculate_network_fee_create |->
        Adopts(neoc_neo_calculate_network_fee_create, neoc_neo_calculate_network_fee_free, {}),
    neoc_neo_calculate_network_fee_from_json |->
        Constructor(neoc_neo_calculate_network_fee_from_json, neoc_neo_calculate_network_fee_free),
    neoc_neo_calculate_network_fee_to_json |-> Constructor(neoc_neo_calculate_network_fee_to_json, {}),
    neoc_neo_send_raw_transaction_create |->
        Adopts(neoc_neo_send_raw_transaction_create, neoc_neo_send_raw_transaction_free, {}),
    neoc_neo_send_raw_transaction_from_json |->
        Constructor(neoc_neo_send_raw_transaction_from_json, neoc_neo_send_raw_transaction_free),
    neoc_record_state_response_create |->
        Adopts(neoc_record_state_response_create, neoc_record_state_response_free, neoc_record_state_free),
    neoc_record_state_response_from_json |->
        Constructor(neoc_record_state_response_from_json, neoc_record_state_response_free),
    neoc_neo_account_state_from_json |-> Constructor(neoc_neo_account_state_from_json, neoc_neo_account_state_free),
    neoc_neo_account_state_to_json |-> LibcConstructor(neoc_neo_account_state_to_json, {}),
    neoc_neo_account_state_copy |-> Constructor(neoc_neo_account_state_copy, neoc_neo_account_state_free),
    neoc_populated_blocks_response_create |->
        Adopts(neoc_populated_blocks_response_create, neoc_populated_blocks_response_free, neoc_populated_blocks_free),
    neoc_populated_blocks_response_from_json |->
        Constructor(neoc_populated_blocks_response_from_json, neoc_populated_blocks_response_free),
    neoc_populated_blocks_to_json |-> Constructor(neoc_populated_blocks_to_json, {}),
    neoc_neo_get_state_height_create |-> Adopts(neoc_neo_get_state_height_create, neoc_neo_get_state_height_free, {}),
    neoc_neo_get_state_height_from_json |->
        Constructor(neoc_neo_get_state_height_from_json, neoc_neo_get_state_height_free),
    neoc_neo_get_wallet_balance_create |->
        Adopts(neoc_neo_get_wallet_balance_create, neoc_neo_get_wallet_balance_free, neoc_wallet_balance_free),
    neoc_neo_get_wallet_balance_from_json |->
        Constructor(neoc_neo_get_wallet_balance_from_json, neoc_neo_get_wallet_balance_free),
    neoc_neo_address_copy |-> Constructor(neoc_neo_address_copy, neoc_neo_address_free),
    neoc_neo_address_set_label |-> Method(neoc_neo_address_set_label, neoc_neo_address_free, neoc_neo_address_reset),
    neoc_neo_address_from_json |-> Constructor(neoc_neo_address_from_json, neoc_neo_address_free),
    neoc_neo_get_unclaimed_gas_create |->
        Adopts(neoc_neo_get_unclaimed_gas_create, neoc_neo_get_unclaimed_gas_free, neoc_get_unclaimed_gas_free),
    neoc_neo_get_unclaimed_gas_from_json |->
        Constructor(neoc_neo_get_unclaimed_gas_from_json, neoc_neo_get_unclaimed_gas_free),
    neoc_neo_validate_address_result_copy |->
        Constructor(neoc_neo_validate_address_result_copy, neoc_neo_validate_address_result_free),
    neoc_neo_validate_address_response_create |->
        Adopts(neoc_neo_validate_address_response_create, neoc_neo_validate_address_response_free,
               neoc_neo_validate_address_result_free),
    neoc_neo_validate_address_response_from_json |->
        Constructor(neoc_neo_validate_address_response_from_json, neoc_neo_validate_address_response_free),
    neoc_oracle_request_response_create |->
        Adopts(neoc_oracle_request_response_create, neoc_oracle_request_response_free, neoc_oracle_request_free),
    neoc_oracle_request_response_from_json |->
        Constructor(neoc_oracle_request_response_from_json, neoc_oracle_request_response_free),
    neoc_oracle_request_copy |-> Constructor(neoc_oracle_request_copy, neoc_oracle_request_free)]
=============================================================================
