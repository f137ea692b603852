----------------------------- MODULE MCOwnership -----------------------------
(* All procedures of the library in one table, and those that depart from the *)
(* discipline.  A departure names what the code does today; a call leaves its *)
(* set when the code is corrected.                                            *)
EXTENDS Ownership, TokenResponses, LedgerResponses, NodeResponses, Contracts, Services

MCProc ==
    EncodingProcs @@ KeyProcs @@ DerivationProcs @@ ScriptProcs @@ WitnessProcs @@ ManifestProcs @@
    TokenProcs @@ LedgerProcs @@ StateProcs @@ NodeProcs @@ AccountProcs @@ TransactionProcs @@
    RpcProcs @@ ContractProcs @@ CollectionProcs @@ ServiceProcs

(* Calls that make or hold a key pair and lose nothing but its EC_KEY.        *)
LeavesKey ==
    {"neoc_account_export_nep2", "neoc_account_get_key_pair_copy", "neoc_bip32_to_ec_key_pair_alloc",
     "neoc_bip32_to_ec_key_pair_raw", "neoc_ec_key_pair_create_random",
     "neoc_ec_key_pair_from_private_key", "neoc_ec_key_pair_import_from_wif",
     "neoc_nep2_decrypt_key_pair", "neoc_nep2_encrypt_key_pair", "neoc_nep2_verify_password",
     "neoc_nep6_account_decrypt_private_key", "neoc_nep6_wallet_add_account"}

(* Calls that lose a block on some path.                                      *)
Leaks ==
    {"neoc_account_create_from_nep2_with_label", "neoc_account_create_from_public_key",
     "neoc_account_create_from_verification_script", "neoc_account_create_from_wif_with_label",
     "neoc_account_create_with_label", "neoc_account_decrypt_private_key_with_params",
     "neoc_account_encrypt_private_key_with_params", "neoc_account_from_nep6",
     "neoc_account_set_encrypted_private_key", "neoc_account_set_label", "neoc_array_insert",
     "neoc_bip39_account_copy", "neoc_bip39_account_create", "neoc_claimables_create",
     "neoc_contract_deploy", "neoc_contract_destroy", "neoc_contract_update", "neoc_diagnostics_create",
     "neoc_diagnostics_from_json", "neoc_find_states_set_proofs",
     "neoc_invocation_result_add_notification", "neoc_invocation_result_from_json",
     "neoc_invoked_contract_copy", "neoc_invoked_contract_create", "neoc_neo_block_add_transaction",
     "neoc_neo_block_calculate_merkle_root", "neoc_neo_block_clone", "neoc_neo_block_from_json",
     "neoc_neo_c_build", "neoc_neo_c_express_build", "neoc_neo_c_express_shutdown_async",
     "neoc_neo_get_nep11_balances_to_json", "neoc_neo_get_state_root_from_json",
     "neoc_neo_get_unspents_response_from_json", "neoc_neo_list_plugins_from_json",
     "neoc_neo_uri_parse", "neoc_nep17_balance_of_create", "neoc_nep17_transfer_create_invocation",
     "neoc_nep6_wallet_struct_copy", "neoc_nep6_wallet_struct_from_json",
     "neoc_nep6_wallet_struct_to_json", "neoc_public_key_from_private_key",
     "neoc_recover_signing_script_hash", "neoc_response_set_error", "neoc_rpc_get_best_block_hash",
     "neoc_rpc_get_block_count", "neoc_rpc_get_block_hash", "neoc_rpc_get_connection_count",
     "neoc_rpc_get_transaction_height", "neoc_sign_hex_message", "neoc_signer_copy",
     "neoc_transaction_clone", "neoc_transaction_signer_add_allowed_contract",
     "neoc_transaction_signer_add_allowed_group", "neoc_unspents_from_json", "neoc_verify_message"}

(* Calls on some path of which a block is freed twice, most of them           *)
(* constructors that adopt an argument, fail behind that and free it with the *)
(* half-made object, while an earlier failure leaves it to the caller.        *)
FreesTwice ==
    {"neoc_array_insert", "neoc_contract_state_clone", "neoc_diagnostics_create",
     "neoc_diagnostics_from_json", "neoc_express_shutdown_response_create", "neoc_neo_block_clone",
     "neoc_neo_calculate_network_fee_create", "neoc_neo_get_claimable_create",
     "neoc_neo_get_mem_pool_create", "neoc_neo_get_nep11_balances_create",
     "neoc_neo_get_nep11_transfers_create", "neoc_neo_get_nep11_transfers_from_json",
     "neoc_neo_get_nep17_balances_response_create", "neoc_neo_get_nep17_transfers_create",
     "neoc_neo_get_nep17_transfers_from_json", "neoc_neo_get_next_block_validators_create",
     "neoc_neo_get_state_height_create", "neoc_neo_get_state_root_create",
     "neoc_neo_get_state_root_from_json", "neoc_neo_get_token_balances_response_create",
     "neoc_neo_get_unclaimed_gas_create", "neoc_neo_get_unspents_response_create",
     "neoc_neo_get_unspents_response_from_json", "neoc_neo_get_wallet_balance_create",
     "neoc_neo_list_plugins_create", "neoc_neo_send_raw_transaction_create",
     "neoc_neo_validate_address_response_create", "neoc_nep11_transfers_create",
     "neoc_nep17_transfers_create", "neoc_oracle_request_response_create",
     "neoc_populated_blocks_response_create", "neoc_record_state_response_create",
     "neoc_signer_add_allowed_group", "neoc_state_root_create",
     "neoc_transaction_signer_add_allowed_contract", "neoc_transaction_signer_add_allowed_group",
     "neoc_transaction_signer_to_json", "neoc_unspents_from_json"}

(* Calls that free with the wrong function: arrays of the binary writer and   *)
(* copies of keys come from malloc and go to neoc_free, the texts of requests *)
(* and results come from cJSON and go to neoc_free, objects of                *)
(* smart_contract.c come from neoc_calloc and go to free.                     *)
CrossesAllocators ==
    {"neoc_account_create_from_nep2_with_label", "neoc_account_create_from_public_key",
     "neoc_account_create_from_wif_with_label", "neoc_account_create_multisig_from_public_keys",
     "neoc_account_create_with_label", "neoc_account_encrypt_private_key_with_params",
     "neoc_account_get_verification_script", "neoc_account_get_verification_script_ptr",
     "neoc_account_sign", "neoc_account_sign_hash", "neoc_account_to_nep6",
     "neoc_bip32_to_ec_key_pair_raw", "neoc_bip39_account_copy", "neoc_bip39_account_create",
     "neoc_contract_build_deploy_script", "neoc_contract_build_update_script",
     "neoc_contract_calculate_deploy_cost", "neoc_contract_deploy", "neoc_contract_destroy",
     "neoc_contract_management_deploy", "neoc_contract_param_create_string",
     "neoc_contract_param_set_name", "neoc_contract_parameters_context_get_witnesses",
     "neoc_contract_state_from_json", "neoc_contract_update", "neoc_contract_verify_deployment",
     "neoc_ec_key_pair_import_from_wif", "neoc_ec_key_pair_sign",
     "neoc_gas_token_build_multi_transfer_script", "neoc_gas_token_refuel", "neoc_gas_token_transfer",
     "neoc_get_application_log_response_to_json", "neoc_invocation_script_deserialize",
     "neoc_multi_sig_contains_key", "neoc_multi_sig_create", "neoc_multi_sig_create_witness",
     "neoc_native_contract_state_from_json_swift", "neoc_nef_file_add_method_token",
     "neoc_nef_file_create", "neoc_nef_file_from_file", "neoc_nef_file_to_bytes",
     "neoc_nef_file_to_file", "neoc_neo_block_calculate_merkle_root", "neoc_neo_block_clone",
     "neoc_neo_block_deserialize", "neoc_neo_block_from_json", "neoc_neo_c_express_shutdown_async",
     "neoc_neo_c_send_request", "neoc_neo_get_token_balances_response_to_json", "neoc_neo_token_vote",
     "neoc_nep17_balance_of_create", "neoc_nep17_symbol_create",
     "neoc_nep17_transfer_create_invocation", "neoc_nep6_wallet_from_file",
     "neoc_nep6_wallet_struct_add_extra", "neoc_nep6_wallet_struct_copy",
     "neoc_nep6_wallet_struct_from_json", "neoc_nft_properties", "neoc_nft_symbol",
     "neoc_nns_get_price", "neoc_nns_name_create", "neoc_nns_resolve", "neoc_policy_contract_create",
     "neoc_rpc_get_contract_state", "neoc_script_reader_to_opcode_string_hex",
     "neoc_service_send_request", "neoc_sign_hex_message", "neoc_signer_copy",
     "neoc_smart_contract_create", "neoc_token_balances_to_json", "neoc_transaction_get_hash",
     "neoc_transaction_serialize", "neoc_transaction_sign_multi", "neoc_tx_builder_serialize",
     "neoc_verification_script_create_multi_sig", "neoc_verification_script_create_single_sig",
     "neoc_verification_script_deserialize", "neoc_witness_deserialize"}

(* Calls that read a pointer nobody has set, or through NULL.                 *)
ReadsWild ==
    {"neoc_contract_management_deploy", "neoc_contract_manifest_add_event",
     "neoc_contract_manifest_add_method", "neoc_contract_manifest_clone",
     "neoc_contract_manifest_from_json", "neoc_contract_parameters_context_create",
     "neoc_contract_state_from_json", "neoc_contract_verify_deployment",
     "neoc_express_contract_state_clone", "neoc_express_contract_state_from_json",
     "neoc_invocation_result_clone", "neoc_native_contract_state_copy_swift",
     "neoc_native_contract_state_create_swift", "neoc_native_contract_state_from_json_swift",
     "neoc_neo_block_clone", "neoc_nep17_balance_of_create", "neoc_nep17_symbol_create",
     "neoc_nep17_transfer_create_invocation", "neoc_nep6_wallet_from_file",
     "neoc_policy_contract_create", "neoc_rpc_get_contract_state", "neoc_smart_contract_create"}

MCKnown ==
    [NoLeak |-> Leaks, NoLeakButKey |-> LeavesKey, FreedOnce |-> FreesTwice,
     SameAllocator |-> CrossesAllocators, NothingWild |-> ReadsWild]
=============================================================================
