---------------------------- MODULE KeyDerivation ----------------------------
(* Keys made from passwords, seeds and words (src/crypto/nep2.c, bip32.c,     *)
(* bip39.c and scrypt_params.c).                                              *)
EXTENDS Keys

(****************************************************************************)
(* nep2.c                                                                    *)
(****************************************************************************)
derive_key == UsingSsl(<<"pctx">>, <<Check>>)
(* Hashes the verification script of a key.                                   *)
neoc_nep2_address ==
    LET script == <<"verification_script">> IN
    <<Check, Must(script)>> \o Finally(<<Free(script)>>, <<Check>>) \o <<Check>>
neoc_nep2_encrypt ==
    LET pair == <<"key_pair">> IN
    <<Check>> \o Make(neoc_ec_key_pair_create_from_private_key, pair, NoArgs) \o
    Finally(<<DropKeyPair(pair)>>,
            neoc_nep2_address \o Call(derive_key, self, NoArgs) \o UsingSsl(<<"ctx">>, <<Check>>) \o <<Check>>)
neoc_nep2_decrypt ==
    LET pair == <<"key_pair">> IN
    <<Check>> \o Call(derive_key, self, NoArgs) \o UsingSsl(<<"ctx">>, <<Check>>) \o
    Make(neoc_ec_key_pair_create_from_private_key, pair, NoArgs) \o
    Finally(<<DropKeyPair(pair)>>, neoc_nep2_address \o <<Check>>)
neoc_nep2_decrypt_key_pair ==
    <<Check>> \o Call(neoc_nep2_decrypt, self, NoArgs) \o Make(neoc_ec_key_pair_create_from_private_key, self, NoArgs)
neoc_nep2_encrypt_key_pair ==
    <<Check, Must(self)>> \o On(<<Free(self)>>, Call(neoc_nep2_encrypt, self, NoArgs))
neoc_nep2_verify_password == Ignoring(Call(neoc_nep2_decrypt, self, NoArgs))

(****************************************************************************)
(* bip32.c                                                                   *)
(****************************************************************************)
neoc_bip32_from_seed_alloc == Converted
neoc_bip32_get_public_key == <<Check>> \o If(UsingSsl(<<"ec_key", "priv_bn", "pub_point">>, <<>>) \o <<Check>>)
neoc_bip32_get_fingerprint == <<Check>> \o If(Call(neoc_bip32_get_public_key, self, NoArgs)) \o <<Check>>
neoc_bip32_derive_child ==
    <<Check>> \o If(UsingSsl(<<"ec_key", "priv_bn", "pub_point">>, <<>>)) \o <<Check>> \o
    If(Ignoring(Call(neoc_bip32_get_fingerprint, self, NoArgs))) \o
    Else(UsingSslBlindly(<<"group", "order", "parent_key", "il", "child_key", "ctx">>, <<Check>>),
         UsingSsl(<<"group">>,
             UsingSslBlindly(<<"il", "parent_point", "child_point", "generator_point", "ctx">>, <<Check>>)))
neoc_bip32_derive_path_indices == <<Check>> \o For(LAMBDA i : Call(neoc_bip32_derive_child, self, NoArgs))
neoc_bip32_derive_path_raw == <<Check>> \o neoc_bip32_derive_path_indices
neoc_bip32_derive_path_indices_alloc ==
    <<Check, Must(self)>> \o On(<<Free(self), Null(self)>>, Call(neoc_bip32_derive_path_indices, self, NoArgs))
(* Takes the fields of a key pair and releases the pair itself.               *)
neoc_bip32_to_ec_key_pair_raw ==
    LET tmp == <<"tmp">> IN
    <<Check>> \o Make(neoc_ec_key_pair_from_private_key, tmp, NoArgs) \o
    <<Copy(<<"tmp", "private_key">>, its("private_key")), Copy(<<"tmp", "public_key">>, its("public_key")), Free(tmp)>>
neoc_bip32_to_ec_key_pair_alloc == <<Check, Null(self)>> \o neoc_ec_key_pair_from_private_key
neoc_bip32_serialize ==
    LET encoded == <<"encoded">> IN
    <<Check>> \o Make(neoc_base58_check_encode_alloc, encoded, NoArgs) \o Finally(<<Free(encoded)>>, <<Check>>)
neoc_bip32_deserialize ==
    LET decoded == <<"decoded">> IN
    <<Check>> \o Make(neoc_base58_check_decode_alloc, decoded, NoArgs) \o Finally(<<Free(decoded)>>, <<Check>>)

(****************************************************************************)
(* bip39.c, scrypt_params.c                                                  *)
(****************************************************************************)
neoc_bip39_mnemonic_from_entropy ==
    LET bitstream == <<"bitstream">> IN
    <<Check, Must(bitstream)>> \o
    Finally(<<Free(bitstream)>>, <<Check, Must(self)>> \o On(<<Free(self)>>, <<Check>>))
neoc_bip39_generate_mnemonic ==
    LET entropy == <<"entropy">> IN
    <<Check, Must(entropy)>> \o
    Finally(<<Free(entropy)>>, <<Check>> \o Make(neoc_bip39_mnemonic_from_entropy, self, NoArgs))
neoc_bip39_mnemonic_to_entropy ==
    LET copy == <<"mnemonic_copy">>
        bitstream == <<"bitstream">> IN
    <<Check, Must(copy)>> \o
    Finally(<<Free(bitstream), Free(copy)>>,
            <<Check, Must(bitstream), Check, Must(self)>> \o On(<<Free(self)>>, <<Check>>)) \o
    On(<<Free(self)>>, <<Check>>)
neoc_bip39_pbkdf2 == <<Check, Must(<<"salt">>)>> \o Finally(<<Free(<<"salt">>)>>, <<Check>>)
neoc_bip39_validate_mnemonic ==
    <<Check>> \o Make(neoc_bip39_mnemonic_to_entropy, <<"entropy">>, NoArgs) \o <<Free(<<"entropy">>)>>
neoc_scrypt_params_create == <<Check, Must(self)>>

DerivationProcs == [
    neoc_nep2_decrypt_key_pair |-> LibcConstructor(neoc_nep2_decrypt_key_pair, neoc_ec_key_pair_free),
    neoc_nep2_encrypt_key_pair |-> Constructor(neoc_nep2_encrypt_key_pair, {}),
    neoc_nep2_verify_password |-> Task(neoc_nep2_verify_password),
    neoc_bip32_from_seed_alloc |-> Constructor(neoc_bip32_from_seed_alloc, {}),
    neoc_bip32_get_fingerprint |-> Task(neoc_bip32_get_fingerprint),
    neoc_bip32_derive_path_indices_alloc |-> Constructor(neoc_bip32_derive_path_indices_alloc, {}),
    neoc_bip32_to_ec_key_pair_raw |-> Caller(neoc_bip32_to_ec_key_pair_raw, Clear(self, neoc_ec_key_pair_free)),
    neoc_bip32_to_ec_key_pair_alloc |-> LibcConstructor(neoc_bip32_to_ec_key_pair_alloc, neoc_ec_key_pair_free),
    neoc_bip32_serialize |-> Task(neoc_bip32_serialize),
    neoc_bip32_deserialize |-> Task(neoc_bip32_deserialize),
    neoc_bip39_generate_mnemonic |-> Constructor(neoc_bip39_generate_mnemonic, {}),
    neoc_bip39_mnemonic_to_entropy |-> Constructor(neoc_bip39_mnemonic_to_entropy, {}),
    neoc_bip39_pbkdf2 |-> Task(neoc_bip39_pbkdf2),
    neoc_bip39_validate_mnemonic |-> Task(neoc_bip39_validate_mnemonic),
    neoc_scrypt_params_create |-> Constructor(neoc_scrypt_params_create, {})]
=============================================================================
