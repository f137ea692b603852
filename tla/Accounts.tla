------------------------------ MODULE Accounts ------------------------------
(* Accounts, multi-signature accounts, accounts from words, NEP-6 wallets and *)
(* account signers as objects (src/wallet, src/transaction/account_signer.c). *)
EXTENDS Witnesses, KeyDerivation

(****************************************************************************)
(* multi_sig.c.  The keys stay the caller's; the sort encodes both keys of a *)
(* pair to compare them.                                                     *)
(****************************************************************************)
neoc_multi_sig_free == Fields({"public_keys", "verification_script"})
compare_public_keys ==
    LET keys == locals(<<"bytes_a", "bytes_b">>) IN
    Ignoring(Make(neoc_ec_public_key_get_encoded, keys[1], NoArgs)) \o
    Ignoring(Make(neoc_ec_public_key_get_encoded, keys[2], NoArgs)) \o Map(Free, keys)
neoc_multi_sig_create ==
    LET builder == <<"builder">>
        bytes == <<"pubkey_bytes">>
        data == <<"script_data">>
        emit == Call(neoc_script_builder_emit_with_data, builder, NoArgs) IN
    <<Check, Must(self)>> \o
    On(<<Free(self), Null(self)>>,
       <<Must(its("public_keys"))>> \o If(Call(compare_public_keys, self, NoArgs)) \o
       On(<<Free(its("verification_script")), Free(its("public_keys"))>>,
          Make(neoc_script_builder_create, builder, NoArgs) \o
          Finally(<<DropBuilder(builder)>>,
                  emit \o ForSome(LAMBDA i : Make(neoc_ec_public_key_get_encoded, bytes, NoArgs) \o Finally(<<Free(bytes)>>, emit)) \o
                  emit \o <<Must(its("verification_script"))>> \o
                  Make(neoc_script_builder_to_array, data, NoArgs) \o <<Free(data), Check>>)))
neoc_multi_sig_create_witness ==
    LET builder == <<"builder">>
        data == <<"script_data">> IN
    <<Check>> \o Make(neoc_script_builder_create, builder, NoArgs) \o
    Finally(<<DropBuilder(builder)>>,
            For(LAMBDA i : <<Check>> \o Call(neoc_script_builder_emit_with_data, builder, NoArgs)) \o <<Check>> \o
            Make(neoc_script_builder_to_array, data, NoArgs) \o <<Free(data)>>)
neoc_multi_sig_contains_key ==
    LET bytes == <<"key_bytes">>
        other == <<"account_key_bytes">> IN
    <<Check>> \o Make(neoc_ec_public_key_get_encoded, bytes, NoArgs) \o
    For(LAMBDA i : When(Make(neoc_ec_public_key_get_encoded, other, NoArgs), <<Free(other)>>)) \o <<Free(bytes)>>

(****************************************************************************)
(* account.c.  The destructor does not release the verification script.      *)
(****************************************************************************)
neoc_account_free ==
    LibcObject("key_pair", neoc_ec_key_pair_free) \cup Fields({"address", "label", "encrypted_key"})
    \cup Object("extra", neoc_multi_sig_free)
neoc_account_clear_encrypted_key == <<Clear(self, Fields({"encrypted_key"}))>>
neoc_account_store_encrypted_key ==
    <<Check>> \o neoc_account_clear_encrypted_key \o
    <<Clear(self, Fields({"verification_script"})), Opt(its("encrypted_key"))>>
(* The account of the key pair that pair makes.                               *)
Keyed(pair) ==
    LET script == <<"verification_script">> IN
    <<Check, Must(self)>> \o
    On(<<Free(self)>>,
       Make(pair, its("key_pair"), NoArgs) \o
       On(<<DropKeyPair(its("key_pair"))>>,
          <<Check>> \o Make(neoc_script_create_single_sig_verification, script, NoArgs) \o On(<<Free(script)>>, <<Check>>) \o
          <<Copy(script, its("verification_script")), Must(its("address"))>> \o
          On(<<Free(its("address"))>>, <<Check, Must(its("label"))>>)))
neoc_account_create_with_label == Keyed(neoc_ec_key_pair_create_random)
neoc_account_create_from_key_pair_with_label == Keyed(neoc_ec_key_pair_create_from_private_key)
neoc_account_create_from_wif_with_label ==
    LET pair == <<"key_pair">> IN
    <<Check>> \o Make(neoc_ec_key_pair_import_from_wif, pair, NoArgs) \o
    Finally(<<DropKeyPair(pair)>>, Make(neoc_account_create_from_key_pair_with_label, self, NoArgs))
neoc_account_create_from_nep2_with_label ==
    LET pair == <<"key_pair">> IN
    <<Check>> \o Call(neoc_nep2_decrypt, self, NoArgs) \o Make(neoc_ec_key_pair_from_private_key, pair, NoArgs) \o
    Finally(<<DropKeyPair(pair)>>, Make(neoc_account_create_from_key_pair_with_label, self, NoArgs))
neoc_account_get_key_pair_copy ==
    <<Check, Null(self)>> \o If(<<Check>> \o Make(neoc_ec_key_pair_create_from_private_key, self, NoArgs))
neoc_account_export_wif == <<Check>> \o neoc_ec_key_pair_export_as_wif
neoc_account_export_nep2 ==
    LET encrypted == <<"encrypted">> IN
    <<Check, Must(encrypted)>> \o On(<<Free(encrypted)>>, Call(neoc_nep2_encrypt, self, NoArgs)) \o <<Copy(encrypted, self)>>
neoc_account_sign ==
    LET signature == <<"ecdsa_sig">> IN
    <<Check>> \o Make(neoc_ec_key_pair_sign, signature, NoArgs) \o
    Finally(<<Free(signature)>>, Make(neoc_ecdsa_signature_to_bytes, self, NoArgs))
neoc_account_set_label == <<Check, Free(its("label")), Null(its("label")), Opt(its("label"))>>
neoc_account_create_multisig_from_public_keys ==
    LET multisig == <<"multisig">> IN
    <<Check>> \o Make(neoc_multi_sig_create, multisig, NoArgs) \o
    On(<<Destroy(multisig, neoc_multi_sig_free)>>,
       <<Must(self)>> \o
       On(<<Free(self)>>, <<Must(its("address"))>> \o On(<<Free(its("address"))>>, <<Check, Must(its("label"))>>))) \o
    <<Copy(multisig, its("extra"))>>
neoc_account_create_from_address ==
    <<Check, Must(self)>> \o
    On(<<Free(self)>>, <<Must(its("address"))>> \o On(<<Free(its("address"))>>, <<Check, Must(its("label"))>>))
neoc_account_create_multisig_with_address ==
    LET info == <<"info">> IN
    <<Check, Must(self)>> \o
    On(<<Free(self)>>,
       <<Must(its("address"))>> \o
       On(<<Free(its("address"))>>, <<Check, Must(info)>> \o On(<<Free(info)>>, <<Must(its("label"))>>))) \o
    <<Copy(info, its("extra"))>>
(* A script that is not the one of several keys leaves extra empty.           *)
neoc_account_create_from_verification_script ==
    <<Check, Must(self)>> \o
    On(<<Free(self)>>,
       <<Check, Must(its("verification_script")), Must(its("address"))>> \o
       On(<<Free(its("address"))>>, <<Check>>) \o <<Try(its("extra"))>> \o
       On(Map(Free, Its(<<"extra", "verification_script", "address">>)), <<Must(its("label"))>>))
neoc_account_create_from_public_key ==
    LET bytes == <<"pubkey_bytes">>
        script == <<"verification_script">> IN
    <<Check, Must(self)>> \o
    On(<<Free(self)>>,
       Make(neoc_ec_public_key_get_encoded, bytes, NoArgs) \o
       Finally(<<Free(bytes)>>, Make(neoc_script_create_single_sig_verification, script, NoArgs)) \o
       On(<<Free(script)>>, <<Check>>) \o <<Copy(script, its("verification_script")), Must(its("address"))>> \o
       On(<<Free(its("address"))>>, <<Check>> \o On(<<Free(its("verification_script"))>>, <<Must(its("label"))>>)))
neoc_account_get_address_copy == <<Check, Must(self)>>
neoc_account_get_label_copy == <<Check, Opt(self)>>
(* A copy of the stored script, or a script built from the key.               *)
neoc_account_get_verification_script ==
    <<Check>> \o Else(<<Must(self)>>, <<Check>> \o neoc_script_create_single_sig_verification)
neoc_account_get_verification_script_object ==
    LET script == <<"script_bytes">> IN
    <<Check, Null(self)>> \o Make(neoc_account_get_verification_script, script, NoArgs) \o
    Finally(<<Free(script)>>, Make(neoc_verification_script_allocate, self, NoArgs))
neoc_account_get_verification_script_ptr == <<Check>> \o neoc_account_get_verification_script_object
neoc_account_sign_hash ==
    LET signature == <<"ecdsa_sig">>
        bytes == <<"signature_bytes">>
        invocation == <<"invocation_script">>
        script == <<"verification_script">> IN
    <<Check>> \o Make(neoc_ec_key_pair_sign, signature, NoArgs) \o
    Finally(<<Free(signature)>>, Make(neoc_ecdsa_signature_to_bytes, bytes, NoArgs)) \o
    Finally(<<Free(bytes)>>, Make(neoc_script_create_single_sig_invocation, invocation, NoArgs)) \o
    Finally(<<Free(invocation)>>,
            Make(neoc_account_get_verification_script, script, NoArgs) \o
            Finally(<<Free(script)>>, Make(neoc_witness_create, self, NoArgs)))
neoc_account_get_encrypted_private_key_copy == <<Check, Null(self), Opt(self)>>
neoc_account_get_encrypted_private_key == <<Check, Null(self), Opt(self)>>
neoc_account_set_encrypted_private_key ==
    LET buffer == <<"buffer">> IN
    <<Check>> \o Else(neoc_account_clear_encrypted_key,
                      <<Must(buffer)>> \o neoc_account_clear_encrypted_key \o <<Copy(buffer, its("encrypted_key"))>>)
neoc_account_encrypt_private_key_with_params ==
    <<Check>> \o Call(neoc_nep2_encrypt, self, NoArgs) \o Call(neoc_account_store_encrypted_key, self, NoArgs)
neoc_account_decrypt_private_key_with_params ==
    LET pair == <<"key_pair">> IN
    <<Check>> \o Call(neoc_nep2_decrypt, self, NoArgs) \o
    Make(neoc_ec_key_pair_create_from_private_key, pair, NoArgs) \o
    <<DropKeyPair(its("key_pair")), Copy(pair, its("key_pair"))>>

(****************************************************************************)
(* nep6_contract.c, nep6_account.c                                           *)
(****************************************************************************)
neoc_nep6_contract_dispose == Fields({"script"}) \cup Structs("parameters", Fields({"name"}))
neoc_nep6_contract_free == neoc_nep6_contract_dispose
neoc_nep6_contract_create ==
    <<Check, Must(self)>> \o
    On(<<Destroy(self, neoc_nep6_contract_free), Null(self)>>,
       <<Opt(its("script"))>> \o
       If(<<Must(its("parameters"))>> \o ForSome(LAMBDA i : <<Opt(<<"self", "parameters", i, "name">>)>>)))
neoc_nep6_contract_clone == neoc_nep6_contract_create
neoc_nep6_parameter_free == Fields({"name"})
neoc_nep6_parameter_create == <<Check, Must(self)>> \o On(<<Free(self), Null(self)>>, <<Opt(its("name"))>>)
append_parameter_json(i) ==
    LET object == <<"param_obj">> IN
    <<Node(object)>> \o On(<<Delete(object)>>, <<Check>>) \o <<Attach(object, arg("array"), i)>>
neoc_nep6_contract_to_json ==
    LET array == <<"params_array">> IN
    <<Check, Node(root)>> \o
    Finally(<<Delete(root)>>,
            <<Check, Node(array)>> \o
            For(LAMBDA i : On(<<Delete(array)>>, Call(append_parameter_json(i), self, [array |-> array]))) \o
            <<Attach(array, root, "parameters")>> \o Make(neoc_json_to_string, self, NoArgs))
parse_parameter_from_json ==
    <<Opt(its("name"))>> \o On(<<Clear(self, Fields({"name"}))>>, <<Check>>)
neoc_nep6_contract_from_json ==
    <<Check, Node(root)>> \o
    Finally(<<Delete(root)>>,
            <<Must(self)>> \o
            On(<<Destroy(self, neoc_nep6_contract_free)>>,
               <<Opt(its("script"))>> \o
               If(<<Must(its("parameters"))>> \o
                  ForSome(LAMBDA i : <<Check>> \o Call(parse_parameter_from_json, <<"self", "parameters", i>>, NoArgs)))))

neoc_nep6_account_free ==
    Fields({"address", "label", "key"}) \cup Object("contract", neoc_nep6_contract_free)
    \cup Structs("extra", Fields({"key", "value"}))
neoc_nep6_account_create ==
    <<Check, Must(self)>> \o
    On(<<Free(self), Null(self)>>,
       <<Must(its("address"))>> \o
       On(<<Free(its("address"))>>, <<Opt(its("label"))>> \o On(<<Free(its("label"))>>, <<Opt(its("key"))>>))) \o
    <<Copy(arg("contract"), its("contract"))>>
no_contract == [contract |-> <<"NULL">>]
Replaced_free_first(x) == LET copy == <<"copy">> IN <<Check, Free(its(x)), Opt(copy), Null(its(x)), Copy(copy, its(x))>>
(* A setter copies before it releases the old value.                          *)
Replaced(x) == LET copy == <<"copy">> IN <<Check, Opt(copy), Free(its(x)), Null(its(x)), Copy(copy, its(x))>>
neoc_nep6_account_set_address == Replaced("address")
neoc_nep6_account_set_label == Replaced("label")
neoc_nep6_account_set_key == Replaced("key")
neoc_nep6_account_set_contract ==
    <<Destroy(its("contract"), neoc_nep6_contract_free), Copy(arg("contract"), its("contract"))>>
neoc_nep6_account_to_json ==
    LET text == <<"contract_json">> IN
    <<Check, Node(root)>> \o
    Finally(<<Delete(root)>>,
            If(When(Make(neoc_nep6_contract_to_json, text, NoArgs),
                    Ignoring(<<Node(root \o <<"contract">>)>>) \o <<Free(text)>>)) \o
            If(<<Libc(Try(root \o <<"extra">>))>>) \o
            Make(neoc_json_to_string, self, NoArgs))
neoc_nep6_account_from_json ==
    LET contract == <<"contract">>
        text == <<"contract_str">> IN
    <<Check, Node(root)>> \o
    Finally(<<Delete(root)>>,
            <<Check>> \o
            If(When(Make(neoc_json_to_string, text, NoArgs),
                    Ignoring(Make(neoc_nep6_contract_from_json, contract, NoArgs)) \o <<Free(text)>>)) \o
            On(<<Destroy(contract, neoc_nep6_contract_free)>>,
               Make(neoc_nep6_account_create, self, [contract |-> contract])))
neoc_nep6_account_copy ==
    LET contract == <<"contract_copy">> IN
    <<Check>> \o If(Make(neoc_nep6_contract_clone, contract, NoArgs)) \o
    On(<<Destroy(contract, neoc_nep6_contract_free)>>, Make(neoc_nep6_account_create, self, [contract |-> contract])) \o
    If(On(<<Destroy(self, neoc_nep6_account_free), Null(self)>>,
          <<Must(its("extra"))>> \o
          ForSome(LAMBDA i : Musts(In(<<"self", "extra", i>>, <<"key", "value">>)))))
neoc_account_to_nep6 ==
    LET script == <<"verification_script">>
        text == <<"script_base64">>
        contract == <<"contract">> IN
    <<Check>> \o Make(neoc_nep6_account_create, self, no_contract) \o
    When(Make(neoc_account_get_verification_script, script, NoArgs),
         On(<<Destroy(self, neoc_nep6_account_free), Null(self)>>,
            Finally(<<Free(script)>>, Make(neoc_base64_encode_alloc, text, NoArgs)) \o
            Finally(<<Free(text)>>, Make(neoc_nep6_contract_create, contract, NoArgs)) \o
            Call(neoc_nep6_account_set_contract, self, [contract |-> contract])))
neoc_account_from_nep6 ==
    LET decoded == <<"decoded">> IN
    <<Check>> \o Make(neoc_account_create_from_address, self, NoArgs) \o
    If(Ignoring(Call(neoc_account_set_label, self, NoArgs))) \o
    On(<<Destroy(self, neoc_account_free), Null(self)>>, Call(neoc_account_store_encrypted_key, self, NoArgs)) \o
    If(When(Make(neoc_base64_decode_alloc, decoded, NoArgs),
            <<Free(its("verification_script")), Copy(decoded, its("verification_script"))>>))

(****************************************************************************)
(* nep6_wallet.c: strdup'ed strings, released with neoc_free.                *)
(****************************************************************************)
neoc_nep6_wallet_struct_free ==
    Fields({"name", "version"}) \cup Objects("accounts", neoc_nep6_account_free) \cup Structs("extra", Fields({"key", "value"}))
neoc_nep6_wallet_struct_create ==
    <<Check, Must(self)>> \o
    On(<<Free(self), Null(self)>>,
       <<Libc(Opt(its("name")))>> \o On(<<Free(its("name"))>>, <<Libc(Must(its("version")))>>))
neoc_nep6_wallet_struct_add_account(i) ==
    <<Check, Grow(its("accounts")), Copy(arg("account"), <<"self", "accounts", i>>)>>
(* Removes the first of n accounts.                                           *)
neoc_nep6_wallet_struct_remove_account(n) ==
    LET account(i) == <<"self", "accounts", i>> IN
    <<Check, Destroy(account(1), neoc_nep6_account_free), Null(account(1))>> \o
    IF n = 1 THEN <<Free(its("accounts")), Null(its("accounts"))>>
    ELSE <<Copy(account(2), account(1)), Null(account(2))>> \o Ignoring(<<Grow(its("accounts"))>>)
neoc_nep6_wallet_struct_add_extra(i) ==
    LET pair == In(<<"self", "extra", i>>, <<"key", "value">>) IN
    <<Check, Grow(its("extra"))>> \o On(Map(Free, pair) \o Map(Null, pair), Map(LAMBDA p : Libc(Must(p)), pair))
(* Without an array, the parsed accounts are attached to nothing.             *)
neoc_nep6_wallet_struct_to_json ==
    LET array == <<"accounts">>
        text == <<"account_json">>
        object == <<"account_obj">>
        listed(Put(_)) ==
            For(LAMBDA i : When(Make(neoc_nep6_account_to_json, text, NoArgs),
                                When(<<Node(object)>>, Put(i)) \o <<Free(text)>>)) IN
    <<Check, Node(root), Libc(Try(root \o <<"scrypt">>))>> \o
    Else(<<Libc(Got(array))>> \o listed(LAMBDA i : <<Attach(object, array, i)>>) \o <<Attach(array, root, "accounts")>>,
         listed(LAMBDA i : <<>>)) \o
    If(<<Libc(Try(root \o <<"extra">>))>>) \o
    Finally(<<Delete(root)>>, Make(neoc_json_to_string, self, NoArgs))
(* Each account becomes a text and then an account again; the ones that       *)
(* cannot be added are dropped.                                               *)
Rebuilt(to_text) ==
    LET text == <<"account_str">>
        account == <<"account">> IN
    For(LAMBDA i : When(Make(to_text, text, NoArgs),
                        When(Make(neoc_nep6_account_from_json, account, NoArgs),
                             Ignoring(Call(neoc_nep6_wallet_struct_add_account(i), self, [account |-> account]))) \o
                        <<Free(text)>>))
neoc_nep6_wallet_struct_from_json ==
    <<Check, Node(root)>> \o
    Finally(<<Delete(root)>>, Make(neoc_nep6_wallet_struct_create, self, NoArgs) \o Rebuilt(neoc_json_to_string))
neoc_nep6_wallet_struct_copy ==
    <<Check>> \o Make(neoc_nep6_wallet_struct_create, self, NoArgs) \o Rebuilt(neoc_nep6_account_to_json) \o
    For(LAMBDA i : Ignoring(Call(neoc_nep6_wallet_struct_add_extra(i), self, NoArgs)))

(****************************************************************************)
(* nep6.c: another NEP-6 wallet, with strings from neoc_strdup when created  *)
(* and from strdup when parsed.                                              *)
(****************************************************************************)
neoc_nep6_wallet_free == Fields({"name", "version", "extra"}) \cup Objects("accounts", neoc_nep6_account_free)
neoc_nep6_wallet_create ==
    <<Check, Must(self)>> \o Tries(Its(<<"name", "version">>)) \o
    On(<<Free(its("name")), Free(its("version")), Free(self), Null(self)>>, <<Must(its("accounts"))>>)
neoc_nep6_wallet_add_account_existing(i) ==
    <<Check, Grow(its("accounts")), Copy(arg("account"), <<"self", "accounts", i>>)>>
neoc_nep6_wallet_add_account ==
    LET pair == <<"key_pair">>
        address == <<"address_ptr">>
        account == <<"account">>
        contract == <<"contract">> IN
    <<Check>> \o Make(neoc_ec_key_pair_from_private_key, pair, NoArgs) \o
    Finally(<<DropKeyPair(pair)>>,
            Make(neoc_ec_key_pair_get_address, address, NoArgs) \o <<Free(address)>> \o
            Call(neoc_nep2_encrypt, self, NoArgs) \o
            Make(neoc_nep6_account_create, account, no_contract) \o
            On(<<Destroy(account, neoc_nep6_account_free)>>, Make(neoc_nep6_contract_create, contract, NoArgs)) \o
            Call(neoc_nep6_account_set_contract, account, [contract |-> contract])) \o
    On(<<Destroy(account, neoc_nep6_account_free)>>,
       Call(neoc_nep6_wallet_add_account_existing(1), self, [account |-> account]))
neoc_nep6_wallet_get_name_copy == <<Check, Opt(self)>>
neoc_nep6_wallet_get_version_copy == <<Check, Opt(self)>>
neoc_nep6_wallet_set_version == <<Check, Free(its("version")), Null(its("version")), Opt(its("version"))>>
neoc_nep6_wallet_get_scrypt_copy == <<Check, Must(self)>>
neoc_nep6_wallet_remove_account ==
    LET account(i) == <<"self", "accounts", i>> IN
    <<Check, Destroy(account(1), neoc_nep6_account_free), Copy(account(2), account(1)), Null(account(2))>>
neoc_nep6_wallet_to_json == <<Check, Must(self)>>
neoc_nep6_wallet_to_file ==
    LET json == <<"json">> IN <<Check>> \o Make(neoc_nep6_wallet_to_json, json, NoArgs) \o Finally(<<Free(json)>>, <<Check>>)
(* Neither the array nor an account is looked at before it is written to.     *)
neoc_nep6_wallet_from_json ==
    LET account == <<"acc">>
        texts == Map(LAMBDA p : Libc(Try(p)), In(account, <<"address", "label", "key">>)) IN
    <<Check, Node(root)>> \o On(<<Delete(root)>>, <<Must(self)>>) \o
    Map(LAMBDA p : Libc(Try(p)), Its(<<"name", "version">>)) \o
    If(<<Try(its("accounts"))>> \o
       ForSome(LAMBDA i : <<Try(account), Use(account)>> \o texts \o
                          <<Use(its("accounts")), Copy(account, <<"self", "accounts", i>>)>>)) \o
    <<Delete(root)>>
neoc_nep6_wallet_from_file ==
    LET content == <<"content">> IN
    <<Check, Must(content)>> \o Finally(<<Free(content)>>, <<Check>> \o Make(neoc_nep6_wallet_from_json, self, NoArgs))
neoc_nep6_account_decrypt_private_key == <<Check>> \o neoc_nep2_decrypt

(****************************************************************************)
(* bip39_account.c, wallet_error.c, account_signer.c                         *)
(****************************************************************************)
bip39_account_free_internal == Fields({"mnemonic", "password"}) \cup Object("base_account", neoc_account_free)
build_base_account_from_seed ==
    LET pair == <<"key_pair">>
        base == <<"base_account">> IN
    <<Check>> \o Call(neoc_bip39_pbkdf2, self, NoArgs) \o <<Check>> \o
    Make(neoc_ec_key_pair_create_from_private_key, pair, NoArgs) \o
    Finally(<<DropKeyPair(pair)>>, Make(neoc_account_create_from_key_pair_with_label, base, NoArgs)) \o
    On(<<Destroy(base, neoc_account_free)>>, <<Must(self)>>) \o <<Copy(base, its("base_account"))>> \o
    On(<<Destroy(self, bip39_account_free_internal)>>, <<Must(its("mnemonic")), Opt(its("password"))>>)
neoc_bip39_account_create ==
    LET mnemonic == <<"mnemonic">> IN
    <<Check, Null(self)>> \o Make(neoc_bip39_generate_mnemonic, mnemonic, NoArgs) \o
    Finally(<<Free(mnemonic)>>, Make(build_base_account_from_seed, self, NoArgs))
neoc_bip39_account_from_mnemonic == <<Check, Null(self)>> \o build_base_account_from_seed
neoc_bip39_account_copy == <<Check, Null(self)>> \o build_base_account_from_seed
neoc_bip39_account_generate_mnemonic == <<Check>> \o neoc_bip39_generate_mnemonic
neoc_bip39_account_mnemonic_to_seed ==
    LET buffer == <<"buffer">> IN
    <<Check, Must(buffer)>> \o On(<<Free(buffer)>>, Call(neoc_bip39_pbkdf2, self, NoArgs)) \o <<Copy(buffer, self)>>
neoc_bip39_account_get_public_key == <<Check, Null(self)>> \o neoc_ec_public_key_get_encoded
neoc_bip39_account_get_address == <<Check>> \o neoc_account_get_address_copy
neoc_bip39_account_equals ==
    LET addresses == locals(<<"addr1", "addr2">>) IN
    <<Check>> \o Ignoring(Make(neoc_bip39_account_get_address, addresses[1], NoArgs)) \o
    Ignoring(Make(neoc_bip39_account_get_address, addresses[2], NoArgs)) \o Map(Free, addresses)
neoc_wallet_error_create == <<Must(self)>>
neoc_wallet_error_to_json ==
    <<Check, Node(root)>> \o Finally(<<Delete(root)>>, Make(neoc_json_to_string, self, NoArgs))
neoc_wallet_error_from_json == <<Check, Node(root)>> \o Finally(<<Delete(root)>>, neoc_wallet_error_create)

neoc_account_signer_free ==
    Fields({"allowed_contracts", "allowed_groups_sizes", "rules"}) \cup Objects("allowed_groups", {})
    \cup Object("account", neoc_account_free)
create_account_signer ==
    <<Check, Must(self)>> \o On(<<Free(self), Null(self)>>, <<Check>>) \o <<Copy(arg("account"), its("account"))>>
neoc_account_signer_none_hash ==
    LET account == <<"account">> IN
    <<Check, Must(account)>> \o
    On(<<Free(account)>>,
       <<Must(account \o <<"address">>)>> \o
       On(<<Free(account \o <<"address">>)>>, <<Check>> \o Make(create_account_signer, self, [account |-> account])))
neoc_account_signer_called_by_entry_hash ==
    LET account == <<"account">> IN
    <<Check, Must(account)>> \o On(<<Free(account)>>, Make(create_account_signer, self, [account |-> account]))
neoc_account_signer_global_hash == neoc_account_signer_called_by_entry_hash

account_of_key ==
    LibcObject("key_pair", ByLibc(Fields({"private_key", "public_key"}))) \cup Fields({"address", "label", "encrypted_key"})
    \cup ByLibc(Fields({"verification_script"}))
AccountProcs == [
    neoc_multi_sig_create |-> Constructor(neoc_multi_sig_create, neoc_multi_sig_free),
    neoc_multi_sig_create_witness |-> Task(neoc_multi_sig_create_witness),
    neoc_multi_sig_contains_key |-> Task(neoc_multi_sig_contains_key),
    neoc_account_create_with_label |-> Constructor(neoc_account_create_with_label, neoc_account_free),
    neoc_account_create_from_wif_with_label |->
        Constructor(neoc_account_create_from_wif_with_label, neoc_account_free),
    neoc_account_create_from_nep2_with_label |->
        Constructor(neoc_account_create_from_nep2_with_label, neoc_account_free),
    neoc_account_create_multisig_from_public_keys |->
        Constructor(neoc_account_create_multisig_from_public_keys, neoc_account_free),
    neoc_account_create_multisig_with_address |->
        Constructor(neoc_account_create_multisig_with_address, neoc_account_free),
    neoc_account_create_from_verification_script |->
        Constructor(neoc_account_create_from_verification_script, neoc_account_free),
    neoc_account_create_from_public_key |-> Constructor(neoc_account_create_from_public_key, neoc_account_free),
    neoc_account_create_from_address |-> Constructor(neoc_account_create_from_address, neoc_account_free),
    neoc_account_from_nep6 |-> Constructor(neoc_account_from_nep6, neoc_account_free),
    neoc_account_get_key_pair_copy |-> LibcConstructor(neoc_account_get_key_pair_copy, neoc_ec_key_pair_free),
    neoc_account_export_wif |-> Constructor(neoc_account_export_wif, {}),
    neoc_account_export_nep2 |-> Constructor(neoc_account_export_nep2, {}),
    neoc_account_sign |-> Constructor(neoc_account_sign, {}),
    neoc_account_get_address_copy |-> Constructor(neoc_account_get_address_copy, {}),
    neoc_account_get_label_copy |-> Constructor(neoc_account_get_label_copy, {}),
    neoc_account_get_verification_script |-> Constructor(neoc_account_get_verification_script, {}),
    neoc_account_get_encrypted_private_key_copy |-> Constructor(neoc_account_get_encrypted_private_key_copy, {}),
    neoc_account_get_encrypted_private_key |-> Constructor(neoc_account_get_encrypted_private_key, {}),
    neoc_account_get_verification_script_ptr |->
        Constructor(neoc_account_get_verification_script_ptr, neoc_verification_script_free),
    neoc_account_sign_hash |-> Constructor(neoc_account_sign_hash, neoc_witness_free),
    neoc_account_to_nep6 |-> Constructor(neoc_account_to_nep6, neoc_nep6_account_free),
    neoc_account_set_label |-> Method(neoc_account_set_label, neoc_account_free, account_of_key),
    neoc_account_set_encrypted_private_key |->
        Method(neoc_account_set_encrypted_private_key, neoc_account_free, account_of_key),
    neoc_account_encrypt_private_key_with_params |->
        Method(neoc_account_encrypt_private_key_with_params, neoc_account_free, account_of_key),
    neoc_account_decrypt_private_key_with_params |->
        Method(neoc_account_decrypt_private_key_with_params, neoc_account_free, account_of_key),
    neoc_nep6_contract_create |-> Constructor(neoc_nep6_contract_create, neoc_nep6_contract_free),
    neoc_nep6_parameter_create |-> Constructor(neoc_nep6_parameter_create, neoc_nep6_parameter_free),
    neoc_nep6_contract_to_json |-> Constructor(neoc_nep6_contract_to_json, {}),
    neoc_nep6_contract_from_json |-> Constructor(neoc_nep6_contract_from_json, neoc_nep6_contract_free),
    neoc_nep6_account_set_address |->
        Method(neoc_nep6_account_set_address, neoc_nep6_account_free, Fields({"address"})),
    neoc_nep6_account_set_label |-> Method(neoc_nep6_account_set_label, neoc_nep6_account_free, Fields({"label"})),
    neoc_nep6_account_set_key |-> Method(neoc_nep6_account_set_key, neoc_nep6_account_free, Fields({"key"})),
    neoc_nep6_account_to_json |-> Constructor(neoc_nep6_account_to_json, {}),
    neoc_nep6_account_from_json |-> Constructor(neoc_nep6_account_from_json, neoc_nep6_account_free),
    neoc_nep6_account_copy |-> Constructor(neoc_nep6_account_copy, neoc_nep6_account_free),
    neoc_nep6_wallet_struct_remove_account |->
        Method(neoc_nep6_wallet_struct_remove_account(2) \o neoc_nep6_wallet_struct_remove_account(1), neoc_nep6_wallet_struct_free, Objects("accounts", Fields({"address"}))),
    neoc_nep6_wallet_struct_add_extra |->
        Method(neoc_nep6_wallet_struct_add_extra(1) \o neoc_nep6_wallet_struct_add_extra(2), neoc_nep6_wallet_struct_free, Fields({"name"})),
    neoc_nep6_wallet_struct_to_json |-> Constructor(neoc_nep6_wallet_struct_to_json, {}),
    neoc_nep6_wallet_struct_from_json |-> Constructor(neoc_nep6_wallet_struct_from_json, neoc_nep6_wallet_struct_free),
    neoc_nep6_wallet_struct_copy |-> Constructor(neoc_nep6_wallet_struct_copy, neoc_nep6_wallet_struct_free),
    neoc_nep6_wallet_create |-> Constructor(neoc_nep6_wallet_create, neoc_nep6_wallet_free),
    neoc_nep6_wallet_add_account |-> Method(neoc_nep6_wallet_add_account, neoc_nep6_wallet_free, Fields({"accounts"})),
    neoc_nep6_wallet_set_version |-> Method(neoc_nep6_wallet_set_version, neoc_nep6_wallet_free, Fields({"version"})),
    neoc_nep6_wallet_remove_account |->
        Method(neoc_nep6_wallet_remove_account, neoc_nep6_wallet_free, Objects("accounts", Fields({"address"}))),
    neoc_nep6_wallet_get_name_copy |-> Constructor(neoc_nep6_wallet_get_name_copy, {}),
    neoc_nep6_wallet_get_version_copy |-> Constructor(neoc_nep6_wallet_get_version_copy, {}),
    neoc_nep6_wallet_get_scrypt_copy |-> Constructor(neoc_nep6_wallet_get_scrypt_copy, {}),
    neoc_nep6_wallet_to_file |-> Task(neoc_nep6_wallet_to_file),
    neoc_nep6_wallet_from_file |-> Constructor(neoc_nep6_wallet_from_file, neoc_nep6_wallet_free),
    neoc_nep6_account_decrypt_private_key |-> Task(neoc_nep6_account_decrypt_private_key),
    neoc_bip39_account_create |-> Constructor(neoc_bip39_account_create, bip39_account_free_internal),
    neoc_bip39_account_copy |-> Constructor(neoc_bip39_account_copy, bip39_account_free_internal),
    neoc_bip39_account_mnemonic_to_seed |-> Constructor(neoc_bip39_account_mnemonic_to_seed, {}),
    neoc_bip39_account_get_public_key |-> LibcConstructor(neoc_bip39_account_get_public_key, {}),
    neoc_bip39_account_equals |-> Task(neoc_bip39_account_equals),
    neoc_wallet_error_to_json |-> Constructor(neoc_wallet_error_to_json, {}),
    neoc_wallet_error_from_json |-> Constructor(neoc_wallet_error_from_json, {}),
    neoc_account_signer_none_hash |-> Constructor(neoc_account_signer_none_hash, neoc_account_signer_free),
    neoc_account_signer_global_hash |-> Constructor(neoc_account_signer_global_hash, neoc_account_signer_free)]
=============================================================================
