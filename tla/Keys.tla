-------------------------------- MODULE Keys --------------------------------
(* Keys, points, signatures and the ways to derive them (src/crypto).  The    *)
(* objects of OpenSSL are blocks of their own kind.                           *)
EXTENDS Encodings

SslNew(p) == Ssl(Must(p))
SslFree(p) == Ssl(Free(p))
locals(xs) == Map(LAMBDA x : <<x>>, xs)
(* OpenSSL temporaries, checked as they are made.                             *)
UsingSsl(xs, steps) == Using(SslNew, SslFree, locals(xs), steps)
(* The same where the code does not look whether it got them.                 *)
UsingSslBlindly(xs, steps) == Using(LAMBDA p : Ssl(Try(p)), SslFree, locals(xs), steps)

(****************************************************************************)
(* ec_key_pair.c.  A key pair holds its EC_KEY once itself and once inside   *)
(* the EVP_PKEY, which took a reference of its own; the destructor drops the *)
(* EVP_PKEY only.                                                            *)
(****************************************************************************)
neoc_ec_public_key_free == Through("openssl", Fields({"point", "group"}))
neoc_ec_private_key_free == Through("openssl", Fields({"pkey", "ec_key"}))
neoc_ec_key_pair_free ==
    ByLibc(Fields({"private_key", "public_key"}))
    \cup Below(<<"private_key">>, Through("openssl", Fields({"pkey"})))
    \cup Below(<<"public_key">>, neoc_ec_public_key_free)
DropKeyPair(p) == Libc(Destroy(p, neoc_ec_key_pair_free))
DropPublicKey(p) == Libc(Destroy(p, neoc_ec_public_key_free))

neoc_ec_key_pair_create_from_private_key ==
    LET made(xs) == Map(SslFree, locals(xs)) IN
    <<Check, Libc(Must(self))>> \o On(<<LibcFree(self)>>, <<Libc(Must(its("private_key")))>>) \o
    On(<<DropKeyPair(self)>>,
       On(made(<<"pkey", "pub_point", "priv_bn", "group", "ec_key">>),
          Map(SslNew, locals(<<"ec_key", "group", "priv_bn", "pub_point", "pkey">>)) \o <<Check>>) \o
       <<Copy(<<"pkey">>, <<"self", "private_key", "pkey">>), Copy(<<"ec_key">>, <<"self", "private_key", "ec_key">>)>> \o
       On(made(<<"pub_point", "priv_bn", "group">>), <<Libc(Must(its("public_key")))>>) \o
       <<Copy(<<"pub_point">>, <<"self", "public_key", "point">>), Copy(<<"group">>, <<"self", "public_key", "group">>)>> \o
       On(made(<<"priv_bn">>), <<Check>>)) \o
    made(<<"priv_bn">>)
neoc_ec_key_pair_from_private_key == <<Check>> \o neoc_ec_key_pair_create_from_private_key
neoc_ec_key_pair_create_random == <<Check>> \o neoc_ec_key_pair_create_from_private_key

neoc_ec_public_key_from_bytes ==
    <<Check, Libc(Must(self))>> \o
    On(<<DropPublicKey(self)>>, Map(SslNew, Its(<<"group", "point">>)) \o <<Check>>)
neoc_ec_public_key_clone == <<Check>> \o neoc_ec_public_key_from_bytes
neoc_ec_key_pair_get_public_key_object == <<Check>> \o neoc_ec_public_key_from_bytes
(* The copy is a deep one, and still the pair's public key is set to NULL     *)
(* before the pair is freed.                                                  *)
neoc_ec_public_key_from_private ==
    LET pair == <<"key_pair">> IN
    <<Check>> \o Make(neoc_ec_key_pair_create_from_private_key, pair, NoArgs) \o
    On(<<DropKeyPair(pair)>>,
       <<Libc(Must(self))>> \o On(<<DropPublicKey(self)>>, Map(SslNew, Its(<<"group", "point">>)))) \o
    <<Null(<<"key_pair", "public_key">>), DropKeyPair(pair)>>
neoc_ec_public_key_get_encoded == <<Check, Libc(Must(self))>>

neoc_script_builder_build_verification_script == <<Check, Libc(Must(self))>>
neoc_ec_key_pair_get_script_hash ==
    LET script == <<"script">> IN
    <<Check>> \o Make(neoc_script_builder_build_verification_script, script, NoArgs) \o
    Finally(<<LibcFree(script)>>, <<Check>>)
neoc_ec_key_pair_get_address ==
    <<Check>> \o Call(neoc_ec_key_pair_get_script_hash, self, NoArgs) \o <<Check, Must(self)>>
neoc_ec_key_pair_sign ==
    <<Check, Libc(Must(self))>> \o On(<<LibcFree(self), Null(self)>>, UsingSsl(<<"sig">>, <<Check>>))

(****************************************************************************)
(* wif.c: the key the WIF text holds is released with free in one place and  *)
(* with neoc_free in the other.                                              *)
(****************************************************************************)
neoc_private_key_to_wif_len == Converted
neoc_ec_key_pair_export_as_wif == <<Check>> \o neoc_private_key_to_wif_len
neoc_wif_to_private_key == <<Check, Must(self)>>
neoc_wif_is_valid ==
    <<Check>> \o Make(neoc_wif_to_private_key, <<"key">>, NoArgs) \o <<Free(<<"key">>)>>
neoc_ec_key_pair_import_from_wif ==
    LET key == <<"private_key">> IN
    <<Check>> \o Make(neoc_wif_to_private_key, key, NoArgs) \o
    Finally(<<LibcFree(key)>>, Make(neoc_ec_key_pair_create_from_private_key, self, NoArgs))

(****************************************************************************)
(* ecpoint.c.  The curve is made once and kept.                              *)
(****************************************************************************)
neoc_ec_point_free == Fields({"encoded"})
neoc_ec_point_create ==
    <<Check, Must(self)>> \o
    On(<<Destroy(self, neoc_ec_point_free)>>, <<Must(its("encoded")), Check>> \o UsingSsl(<<"ec_point", "ctx">>, <<>>) \o <<Check>>)
neoc_ec_point_from_hex ==
    LET bytes == <<"bytes">> IN
    <<Check>> \o Make(neoc_hex_decode_alloc, bytes, NoArgs) \o
    Finally(<<Free(bytes)>>, Make(neoc_ec_point_create, self, NoArgs))
neoc_ec_point_create_infinity == <<Check, Must(self)>>
neoc_ec_point_get_encoded ==
    <<Check, Null(self)>> \o
    Else(<<Must(self)>>,
         <<Check>> \o UsingSsl(<<"ec_point", "ctx">>, <<Check, Must(self)>>) \o On(<<Free(self), Null(self)>>, <<Check>>))
neoc_ec_point_multiply ==
    LET encoded == <<"encoded_result">> IN
    <<Check, Null(self)>> \o
    Else(Make(neoc_ec_point_create_infinity, self, NoArgs),
         <<Check>> \o UsingSsl(<<"ec_point", "result_point", "scalar", "ctx">>, <<Check, Must(encoded)>>) \o
         Finally(<<Free(encoded)>>, <<Check>> \o Make(neoc_ec_point_create, self, NoArgs)))
neoc_ec_point_is_valid == <<Check>> \o If(<<Check>> \o UsingSsl(<<"ec_point", "ctx">>, <<>>))
neoc_ec_point_get_y ==
    LET uncompressed == <<"uncompressed">> IN
    <<Check>> \o If(Make(neoc_ec_point_get_encoded, uncompressed, NoArgs) \o <<Free(uncompressed)>>)
neoc_ec_point_equals ==
    <<Check>> \o If(Call(neoc_ec_point_get_y, self, NoArgs) \o Call(neoc_ec_point_get_y, self, NoArgs))
neoc_ec_point_to_hex ==
    LET encoded == <<"encoded">> IN
    <<Check, Null(self)>> \o Make(neoc_ec_point_get_encoded, encoded, NoArgs) \o
    Finally(<<Free(encoded)>>, Make(neoc_hex_encode_alloc, self, NoArgs))

(****************************************************************************)
(* ecdsasignature.c                                                          *)
(****************************************************************************)
neoc_ecdsa_signature_create == <<Check, Must(self)>>
neoc_ecdsa_signature_from_bytes == <<Check>> \o neoc_ecdsa_signature_create
neoc_ecdsa_signature_to_bytes == <<Check, Must(self)>>
neoc_ecdsa_signature_from_der ==
    <<Check>> \o UsingSsl(<<"sig">>, <<Must(self)>> \o On(<<Free(self)>>, <<Check>>))
neoc_ecdsa_signature_to_der ==
    LET sig == <<"sig">> IN
    <<Check, SslNew(sig)>> \o
    On(<<SslFree(<<"r_bn">>), SslFree(<<"s_bn">>), SslFree(sig)>>, Map(SslNew, locals(<<"r_bn", "s_bn">>))) \o
    <<Copy(<<"r_bn">>, <<"sig", "r">>), Copy(<<"s_bn">>, <<"sig", "s">>)>> \o
    LET drop == Ssl(Destroy(sig, Through("openssl", Fields({"r", "s"})))) IN
    On(<<drop>>, <<Check, Must(self)>>) \o <<drop>> \o On(<<Free(self)>>, <<Check>>)
neoc_signature_data_create == <<Check, Must(self)>>
neoc_signature_data_from_bytes_with_v == <<Check>> \o neoc_signature_data_create
neoc_signature_data_to_bytes == <<Check, Must(self)>>

(****************************************************************************)
(* sign.c                                                                    *)
(****************************************************************************)
neoc_signature_make_canonical == <<Check>> \o If(UsingSsl(<<"ctx", "order", "s_bn">>, <<Check>>))
(* EC_KEY_set_group copies the group, and only the failures release it.       *)
neoc_ec_key_from_public ==
    LET group == <<"group">>
        point == <<"point">> IN
    <<Check, SslNew(self)>> \o
    On(<<SslFree(self)>>,
       <<SslNew(group)>> \o On(<<SslFree(group)>>, <<Check, SslNew(point)>> \o On(<<SslFree(point)>>, <<Check>>))) \o
    <<SslFree(point)>>
(* Of r and s, the one that was allocated is lost when the other was not.     *)
neoc_recover_from_signature ==
    LET point ==
            UsingSsl(<<"point_R">>, UsingSsl(<<"check">>, <<Check>>) \o <<Check>> \o
                     UsingSsl(<<"r_inv">>, <<Check>> \o UsingSsl(<<"sr_point", "e_point", "public_point">>, <<Check>>))) IN
    <<Check, Null(self)>> \o
    UsingSsl(<<"ctx", "group">>,
        <<Check, SslNew(<<"r">>), SslNew(<<"s">>)>> \o
        Finally(<<SslFree(<<"r">>), SslFree(<<"s">>)>>,
                <<Check>> \o point \o <<Check>> \o Make(neoc_ec_public_key_from_bytes, self, NoArgs)))
neoc_find_recovery_id ==
    LET candidate == <<"candidate">> IN
    <<Check>> \o
    ForSome(LAMBDA i : Ignoring(Make(neoc_recover_from_signature, candidate, NoArgs)) \o <<DropPublicKey(candidate)>>) \o
    <<Check>>
neoc_sign_message ==
    LET signature == <<"ecdsa_sig">> IN
    <<Check, Null(self)>> \o Make(neoc_ec_key_pair_sign, signature, NoArgs) \o
    Finally(<<Free(signature)>>,
            <<Check>> \o Call(neoc_signature_make_canonical, self, NoArgs) \o
            Call(neoc_find_recovery_id, self, NoArgs) \o <<Check>> \o Make(neoc_signature_data_create, self, NoArgs))
(* An empty message needs no bytes.                                           *)
neoc_sign_hex_message ==
    LET decoded == <<"decoded">> IN
    <<Check>> \o Else(<<Null(decoded)>>, Make(neoc_hex_decode_alloc, decoded, NoArgs)) \o
    Finally(<<Free(decoded)>>, Make(neoc_sign_message, self, NoArgs))
neoc_signed_message_to_key ==
    LET signature == <<"ecdsa_sig">> IN
    <<Check, Null(self)>> \o Make(neoc_ecdsa_signature_create, signature, NoArgs) \o
    Finally(<<Free(signature)>>, <<Check>> \o Make(neoc_recover_from_signature, self, NoArgs))
neoc_recover_signing_script_hash ==
    LET key == <<"public_key">>
        encoded == <<"encoded">> IN
    <<Check>> \o Make(neoc_signed_message_to_key, key, NoArgs) \o
    Finally(<<DropPublicKey(key)>>,
            Make(neoc_ec_public_key_get_encoded, encoded, NoArgs) \o Finally(<<LibcFree(encoded)>>, <<Check>>))
neoc_verify_signature ==
    LET sig == <<"ecdsa_sig">>
        drop == Ssl(Destroy(sig, Through("openssl", Fields({"r", "s"})))) IN
    <<Check>> \o
    On(<<SslFree(<<"r_bn">>), SslFree(<<"s_bn">>), SslFree(sig)>>, Map(SslNew, <<<<"r_bn">>, <<"s_bn">>, sig>>) \o <<Check>>) \o
    <<Copy(<<"r_bn">>, <<"ecdsa_sig", "r">>), Copy(<<"s_bn">>, <<"ecdsa_sig", "s">>)>> \o
    On(<<drop>>, Make(neoc_ec_key_from_public, <<"ec_key">>, NoArgs)) \o <<drop, SslFree(<<"ec_key">>), Check>>
neoc_public_key_from_private_key == <<Check, Null(self)>> \o neoc_ec_public_key_from_private
neoc_verify_message == <<Check>> \o Ignoring(Call(neoc_verify_signature, self, NoArgs))

KeyProcs == [
    neoc_ec_key_pair_from_private_key |-> LibcConstructor(neoc_ec_key_pair_from_private_key, neoc_ec_key_pair_free),
    neoc_ec_key_pair_create_random |-> LibcConstructor(neoc_ec_key_pair_create_random, neoc_ec_key_pair_free),
    neoc_ec_public_key_clone |-> LibcConstructor(neoc_ec_public_key_clone, neoc_ec_public_key_free),
    neoc_ec_key_pair_get_public_key_object |->
        LibcConstructor(neoc_ec_key_pair_get_public_key_object, neoc_ec_public_key_free),
    neoc_ec_public_key_get_encoded |-> LibcConstructor(neoc_ec_public_key_get_encoded, {}),
    neoc_ec_key_pair_get_address |-> Constructor(neoc_ec_key_pair_get_address, {}),
    neoc_ec_key_pair_sign |-> Constructor(neoc_ec_key_pair_sign, {}),
    neoc_ec_key_pair_export_as_wif |-> Constructor(neoc_ec_key_pair_export_as_wif, {}),
    neoc_wif_is_valid |-> Task(neoc_wif_is_valid),
    neoc_ec_key_pair_import_from_wif |-> LibcConstructor(neoc_ec_key_pair_import_from_wif, neoc_ec_key_pair_free),
    neoc_ec_point_from_hex |-> Constructor(neoc_ec_point_from_hex, neoc_ec_point_free),
    neoc_ec_point_get_encoded |-> Constructor(neoc_ec_point_get_encoded, {}),
    neoc_ec_point_multiply |-> Constructor(neoc_ec_point_multiply, neoc_ec_point_free),
    neoc_ec_point_is_valid |-> Task(neoc_ec_point_is_valid),
    neoc_ec_point_equals |-> Task(neoc_ec_point_equals),
    neoc_ec_point_to_hex |-> Constructor(neoc_ec_point_to_hex, {}),
    neoc_ecdsa_signature_from_bytes |-> Constructor(neoc_ecdsa_signature_from_bytes, {}),
    neoc_ecdsa_signature_to_bytes |-> Constructor(neoc_ecdsa_signature_to_bytes, {}),
    neoc_ecdsa_signature_from_der |-> Constructor(neoc_ecdsa_signature_from_der, {}),
    neoc_ecdsa_signature_to_der |-> Constructor(neoc_ecdsa_signature_to_der, {}),
    neoc_signature_data_from_bytes_with_v |-> Constructor(neoc_signature_data_from_bytes_with_v, {}),
    neoc_signature_data_to_bytes |-> Constructor(neoc_signature_data_to_bytes, {}),
    neoc_sign_hex_message |-> Constructor(neoc_sign_hex_message, {}),
    neoc_recover_signing_script_hash |-> Task(neoc_recover_signing_script_hash),
    neoc_public_key_from_private_key |-> LibcConstructor(neoc_public_key_from_private_key, neoc_ec_public_key_free),
    neoc_verify_message |-> Task(neoc_verify_message)]
=============================================================================
