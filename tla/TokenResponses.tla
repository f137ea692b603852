--------------------------- MODULE TokenResponses ---------------------------
(* The answers about token balances and transfers: getnep17balances,          *)
(* getnep17transfers, getnep11balances, getnep11transfers and the two         *)
(* token-neutral forms (src/protocol/core/response/neo_get_*.c).              *)
EXTENDS Responses

(****************************************************************************)
(* neo_get_nep17_balances.c                                                  *)
(****************************************************************************)
neoc_nep17_balance_free == Fields({"name", "symbol", "decimals", "amount"})
neoc_nep17_balances_free == Objects("balances", neoc_nep17_balance_free) \cup Fields({"address"})
neoc_neo_get_nep17_balances_response_free == Envelope(neoc_nep17_balances_free)

neoc_nep17_balance_create ==
    <<Check, Must(self)>> \o
    On(<<Destroy(self, neoc_nep17_balance_free)>>,
       <<Check>> \o Opts(Its(<<"name", "symbol", "decimals">>)) \o <<Must(its("amount"))>>)
neoc_nep17_balance_copy == <<Check>> \o Make(neoc_nep17_balance_create, self, NoArgs)
neoc_nep17_balances_create ==
    <<Check, Must(self)>> \o On(<<Destroy(self, neoc_nep17_balances_free)>>, <<Opt(its("address"))>>)
neoc_nep17_balances_add_balance(i) ==
    <<Check, Grow(its("balances")), Copy(arg("balance"), <<"self", "balances", i>>)>>
neoc_neo_get_nep17_balances_response_create == AdoptResult(neoc_neo_get_nep17_balances_response_free)

neoc_nep17_parse_amount_string == <<Check, Must(self)>>
neoc_nep17_parse_balance ==
    <<Check, Check>> \o Make(neoc_nep17_parse_amount_string, <<"amount">>, NoArgs)
    \o Tries(<< <<"name">>, <<"symbol">>, <<"decimals">> >>)
    \o Finally(<<Free(<<"name">>), Free(<<"symbol">>), Free(<<"decimals">>), Free(<<"amount">>)>>,
               Make(neoc_nep17_balance_create, self, NoArgs))
neoc_neo_get_nep17_balances_response_from_json ==
    LET balances == Destroy(<<"balances">>, neoc_nep17_balances_free)
        entry(i) == Make(neoc_nep17_parse_balance, <<"balance">>, NoArgs)
                    \o On(<<Destroy(<<"balance">>, neoc_nep17_balance_free)>>,
                          Call(neoc_nep17_balances_add_balance(i), <<"balances">>, [balance |-> <<"balance">>])) IN
    FromJson(neoc_neo_get_nep17_balances_response_free,
        Make(neoc_nep17_balances_create, <<"balances">>, NoArgs)
        \o For(LAMBDA i : If(On(<<balances>>, entry(i))))
        \o <<Copy(<<"balances">>, its("result"))>>)
neoc_neo_get_nep17_balances_response_to_json ==
    ToJson(<<Node(Json(<<"result">>)), Node(Json(<<"result", "balance">>))>>
           \o For(LAMBDA i : If(<<Node(Json(<<"result", "balance", i>>))>>)))

(****************************************************************************)
(* neo_get_nep17_transfers.c                                                 *)
(****************************************************************************)
neoc_nep17_transfer_free == Fields({"transfer_address"})
neoc_nep17_transfer_array_free == Elements(neoc_nep17_transfer_free)
neoc_nep17_transfers_free ==
    Object("sent", neoc_nep17_transfer_array_free) \cup Object("received", neoc_nep17_transfer_array_free)
    \cup Fields({"transfer_address"})
neoc_neo_get_nep17_transfers_free == Envelope(neoc_nep17_transfers_free)

neoc_nep17_transfer_create ==
    <<Check, Must(self)>> \o
    On(<<Destroy(self, neoc_nep17_transfer_free)>>, <<Check, Check, Opt(its("transfer_address"))>>)
neoc_nep17_transfers_create ==
    <<Check, Must(self), Copy(arg("sent"), its("sent")), Copy(arg("received"), its("received"))>> \o
    On(<<Destroy(self, neoc_nep17_transfers_free)>>, <<Opt(its("transfer_address"))>>)
neoc_neo_get_nep17_transfers_create == AdoptResult(neoc_neo_get_nep17_transfers_free)

neoc_nep17_parse_transfer_array ==
    <<Check>> \o
    If(<<Must(self)>> \o
       ForSome(LAMBDA i : If(On(<<Destroy(self, neoc_nep17_transfer_array_free)>>,
                                <<Opt(<<"self", i, "transfer_address">>)>>))))
(* The arrays are parsed first and handed to transfers_create.                *)
TransfersFromJson(response_free, array_free, parse_array, transfers_create) ==
    LET sent == Destroy(<<"sent">>, array_free)
        received == Destroy(<<"received">>, array_free) IN
    FromJson(response_free,
        Make(parse_array, <<"sent">>, NoArgs)
        \o On(<<sent>>, Make(parse_array, <<"received">>, NoArgs))
        \o On(<<sent, received>>,
              Make(transfers_create, <<"transfers">>, [sent |-> <<"sent">>, received |-> <<"received">>]))
        \o <<Copy(<<"transfers">>, its("result"))>>)
neoc_neo_get_nep17_transfers_from_json ==
    TransfersFromJson(neoc_neo_get_nep17_transfers_free, neoc_nep17_transfer_array_free,
                      neoc_nep17_parse_transfer_array, neoc_nep17_transfers_create)
neoc_neo_get_nep17_transfers_to_json ==
    LET array(x) == <<Node(Json(<<"result", x>>))>> \o For(LAMBDA i : <<Node(Json(<<"result", x, i>>))>>) IN
    ToJson(<<Node(Json(<<"result">>))>> \o array("sent") \o array("received"))

(****************************************************************************)
(* neo_get_nep11_balances.c                                                  *)
(****************************************************************************)
neoc_nep11_token_free == Fields({"token_id", "amount"})
neoc_nep11_token_array_free == Elements(neoc_nep11_token_free)
neoc_nep11_balance_free ==
    Fields({"name", "symbol", "decimals"}) \cup Object("tokens", neoc_nep11_token_array_free)
neoc_nep11_balance_array_free == Elements(neoc_nep11_balance_free)
neoc_nep11_balances_free == Fields({"address"}) \cup Object("balances", neoc_nep11_balance_array_free)
neoc_neo_get_nep11_balances_free == Envelope(neoc_nep11_balances_free)

neoc_nep11_token_create ==
    <<Check, Must(self)>> \o On(<<Destroy(self, neoc_nep11_token_free)>>, Opts(Its(<<"token_id", "amount">>)))
neoc_nep11_balance_create ==
    <<Check, Must(self)>> \o
    On(<<Destroy(self, neoc_nep11_balance_free)>>, <<Check>> \o Opts(Its(<<"name", "symbol", "decimals">>)))
    \o <<Copy(arg("tokens"), its("tokens"))>>
neoc_nep11_balances_create ==
    <<Check, Must(self)>> \o On(<<Destroy(self, neoc_nep11_balances_free)>>, <<Opt(its("address"))>>)
    \o <<Copy(arg("balances"), its("balances"))>>
neoc_neo_get_nep11_balances_create == AdoptResult(neoc_neo_get_nep11_balances_free)

neoc_nep11_parse_tokens ==
    <<Check, Null(self)>> \o
    If(<<Must(self)>> \o
       ForSome(LAMBDA i : If(On(<<Destroy(self, neoc_nep11_token_array_free)>>,
                                Opts(In(<<"self", i>>, <<"token_id", "amount">>))))))
neoc_nep11_parse_balances ==
    LET entry(i) == Opts(In(<<"self", i>>, <<"name", "symbol", "decimals">>))
                    \o Make(neoc_nep11_parse_tokens, <<"tokens">>, NoArgs) IN
    <<Check>> \o
    If(<<Must(self)>> \o
       ForSome(LAMBDA i : If(On(<<Destroy(self, neoc_nep11_balance_array_free)>>, entry(i))
                             \o <<Copy(<<"tokens">>, <<"self", i, "tokens">>)>>)))
neoc_neo_get_nep11_balances_from_json ==
    FromJson(neoc_neo_get_nep11_balances_free,
        Make(neoc_nep11_parse_balances, <<"balances">>, NoArgs)
        \o On(<<Destroy(<<"balances">>, neoc_nep11_balance_array_free)>>,
              Make(neoc_nep11_balances_create, <<"container">>, [balances |-> <<"balances">>]))
        \o <<Copy(<<"container">>, its("result"))>>)
(* The entry of a contract is attached only once its tokens are in it.        *)
neoc_neo_get_nep11_balances_to_json ==
    LET entry(i) == <<Node(<<"entry">>), Node(<<"entry", "tokens">>)>>
                    \o For(LAMBDA j : <<Node(<<"entry", "tokens", j>>)>>)
                    \o <<Attach(<<"entry">>, Json(<<"result", "balance">>), i)>> IN
    ToJson(<<Node(Json(<<"result">>)), Node(Json(<<"result", "balance">>))>> \o For(entry))

(****************************************************************************)
(* neo_get_nep11_transfers.c                                                 *)
(****************************************************************************)
neoc_nep11_transfer_free == Fields({"token_id", "transfer_address"})
neoc_nep11_transfer_array_free == Elements(neoc_nep11_transfer_free)
neoc_nep11_transfers_free ==
    Object("sent", neoc_nep11_transfer_array_free) \cup Object("received", neoc_nep11_transfer_array_free)
    \cup Fields({"transfer_address"})
neoc_neo_get_nep11_transfers_free == Envelope(neoc_nep11_transfers_free)

neoc_nep11_transfer_create ==
    <<Check, Must(self)>> \o
    On(<<Destroy(self, neoc_nep11_transfer_free)>>,
       <<Check, Check>> \o Opts(Its(<<"token_id", "transfer_address">>)))
neoc_nep11_transfers_create ==
    <<Check, Must(self), Copy(arg("sent"), its("sent")), Copy(arg("received"), its("received"))>> \o
    On(<<Destroy(self, neoc_nep11_transfers_free)>>, <<Opt(its("transfer_address"))>>)
neoc_neo_get_nep11_transfers_create == AdoptResult(neoc_neo_get_nep11_transfers_free)

neoc_nep11_parse_transfer_array ==
    <<Check>> \o
    If(<<Must(self)>> \o
       ForSome(LAMBDA i : If(On(<<Destroy(self, neoc_nep11_transfer_array_free)>>,
                                Opts(In(<<"self", i>>, <<"token_id", "transfer_address">>))))))
neoc_neo_get_nep11_transfers_from_json ==
    TransfersFromJson(neoc_neo_get_nep11_transfers_free, neoc_nep11_transfer_array_free,
                      neoc_nep11_parse_transfer_array, neoc_nep11_transfers_create)
neoc_neo_get_nep11_transfers_to_json ==
    LET array(x) == <<Node(Json(<<"result", x>>))>> \o For(LAMBDA i : <<Node(Json(<<"result", x, i>>))>>) IN
    ToJson(<<Node(Json(<<"result">>))>> \o array("sent") \o array("received"))

(****************************************************************************)
(* neo_get_token_balances.c                                                  *)
(****************************************************************************)
neoc_token_balance_free == Fields({"asset_hash"})
neoc_token_balance_array_free == Elements(neoc_token_balance_free)
neoc_token_balances_free == Object("balances", neoc_token_balance_array_free) \cup Fields({"address"})
neoc_neo_get_token_balances_response_free == Envelope(neoc_token_balances_free)

neoc_token_balance_set_hash == <<Check, Must(its("asset_hash")), Check>>
neoc_token_balance_create ==
    <<Check, Must(self)>> \o
    On(<<Destroy(self, neoc_token_balance_free)>>, Call(neoc_token_balance_set_hash, self, NoArgs))
(* On failure the elements before the failed one are disposed, which also     *)
(* forgets their hashes.                                                      *)
neoc_token_balances_copy_array ==
    ForSome(LAMBDA i : If(On(<<>> \o [j \in 1..i - 1 |-> Clear(<<"self", j>>, neoc_token_balance_free)],
                             Call(neoc_token_balance_set_hash, <<"self", i>>, NoArgs))))
neoc_token_balances_create ==
    <<Check, Must(self)>> \o
    On(<<Destroy(self, neoc_token_balances_free)>>,
       <<Opt(its("address"))>> \o
       If(<<Must(its("balances"))>> \o Call(neoc_token_balances_copy_array, its("balances"), NoArgs)))
neoc_neo_get_token_balances_response_create ==
    LET free == Destroy(self, neoc_neo_get_token_balances_response_free) IN
    <<Check, Must(self)>> \o On(<<free>>, <<Opt(its("jsonrpc"))>>)
    \o <<Copy(arg("result"), its("result"))>> \o On(<<free>>, <<Opt(its("error"))>>)

neoc_token_balance_parse_array ==
    <<Check>> \o
    If(<<Must(self)>> \o
       ForSome(LAMBDA i : If(On(<<Destroy(self, neoc_token_balance_array_free)>>,
                                <<Check>> \o Call(neoc_token_balance_set_hash, <<"self", i>>, NoArgs)))))
neoc_token_balances_from_json_object ==
    <<Check, Must(self)>> \o
    On(<<Destroy(self, neoc_token_balances_free)>>,
       <<Opt(its("address"))>> \o Make(neoc_token_balance_parse_array, <<"balances">>, NoArgs))
    \o <<Copy(<<"balances">>, its("balances"))>>
neoc_token_balances_from_json ==
    <<Check>> \o ParseObject \o
    Finally(<<Delete(root)>>, Make(neoc_token_balances_from_json_object, self, NoArgs))
neoc_neo_get_token_balances_response_from_json ==
    FromJson(neoc_neo_get_token_balances_response_free,
             Make(neoc_token_balances_from_json_object, <<"balances">>, NoArgs)
             \o <<Copy(<<"balances">>, its("result"))>>)
neoc_token_balance_to_json_object == <<Check, Node(self)>> \o On(<<Delete(self)>>, <<Check>>)
neoc_token_balances_to_json_object_internal ==
    <<Check, Node(self)>> \o
    On(<<Delete(self)>>,
       <<Node(its("balance"))>> \o
       For(LAMBDA i : Make(neoc_token_balance_to_json_object, <<"self", "balance", i>>, NoArgs)))
neoc_token_balances_to_json ==
    <<Check, Check>> \o Make(neoc_token_balances_to_json_object_internal, root, NoArgs) \o RenderRaw
neoc_neo_get_token_balances_response_to_json ==
    Written(Make(neoc_token_balances_to_json_object_internal, Json(<<"result">>), NoArgs)) \o RenderRaw

(****************************************************************************)
(* neo_get_token_transfers.c                                                 *)
(****************************************************************************)
neoc_token_transfer_free == Fields({"asset_hash", "tx_hash", "transfer_address", "amount"})
free_transfer_array == Pointers(neoc_token_transfer_free)
neoc_token_transfers_free ==
    Object("sent", free_transfer_array) \cup Object("received", free_transfer_array)
    \cup Fields({"transfer_address"})
neoc_get_token_transfers_response_free ==
    Fields({"jsonrpc", "error_message"}) \cup Object("result", neoc_token_transfers_free)

neoc_token_transfer_create == <<Check, Must(self)>>
neoc_token_transfer_create_full ==
    Make(neoc_token_transfer_create, self, NoArgs) \o
    On(<<Destroy(self, neoc_token_transfer_free)>>,
       Opts(Its(<<"asset_hash", "tx_hash">>)) \o Tries(Its(<<"transfer_address", "amount">>)) \o <<Check>>)
neoc_token_transfers_create == <<Check, Must(self)>>
neoc_token_transfers_set_address ==
    <<Check, Must(<<"copy">>), Free(its("transfer_address")), Copy(<<"copy">>, its("transfer_address"))>>
append_transfer(i) == <<Check, Grow(self), Copy(arg("transfer"), <<"self", i>>)>>
neoc_token_transfers_add_sent(i) == Call(append_transfer(i), its("sent"), [transfer |-> arg("transfer")])
neoc_token_transfers_add_received(i) == Call(append_transfer(i), its("received"), [transfer |-> arg("transfer")])
neoc_get_token_transfers_response_create ==
    <<Check, Must(self)>> \o
    On(<<Destroy(self, neoc_get_token_transfers_response_free)>>, <<Must(its("jsonrpc"))>>)

parse_hash160 == <<Check, Must(self)>> \o On(<<Free(self)>>, <<Check>>)
parse_hash256 == <<Check, Must(self)>> \o On(<<Free(self)>>, <<Check>>)
parse_transfer ==
    <<Check, Null(<<"asset_hash">>), Null(<<"tx_hash">>)>> \o If(Make(parse_hash160, <<"asset_hash">>, NoArgs))
    \o If(On(<<Free(<<"asset_hash">>)>>, Make(parse_hash256, <<"tx_hash">>, NoArgs)))
    \o Finally(<<Free(<<"asset_hash">>), Free(<<"tx_hash">>)>>, Make(neoc_token_transfer_create_full, self, NoArgs))
parse_transfer_array ==
    <<Check>> \o
    If(<<Must(self)>> \o
       ForSome(LAMBDA i : On(<<Destroy(self, free_transfer_array)>>,
                             <<Check>> \o Make(parse_transfer, <<"self", i>>, NoArgs))))
neoc_get_token_transfers_response_from_json ==
    LET response == Destroy(self, neoc_get_token_transfers_response_free)
        transfers == Destroy(<<"transfers">>, neoc_token_transfers_free) IN
    <<Check, Node(root)>> \o
    On(<<Delete(root)>>, Make(neoc_get_token_transfers_response_create, self, NoArgs)) \o
    If(<<Free(its("jsonrpc")), Try(its("jsonrpc"))>>) \o If(<<Try(its("error_message"))>>) \o
    On(<<response, Delete(root)>>, Make(neoc_token_transfers_create, <<"transfers">>, NoArgs)) \o
    If(Ignoring(Call(neoc_token_transfers_set_address, <<"transfers">>, NoArgs))) \o
    On(<<transfers, response, Delete(root)>>,
       Make(parse_transfer_array, <<"transfers", "sent">>, NoArgs)
       \o Make(parse_transfer_array, <<"transfers", "received">>, NoArgs)) \o
    <<Copy(<<"transfers">>, its("result")), Delete(root)>>
transfers_array_to_json(key) ==
    LET arr == Delete(<<"arr">>) IN
    <<Check, Node(<<"arr">>)>> \o
    For(LAMBDA i : On(<<arr>>, <<Node(<<"entry">>)>> \o On(<<Delete(<<"entry">>)>>, <<Check>>))
                   \o <<Attach(<<"entry">>, <<"arr">>, i)>>)
    \o <<Attach(<<"arr">>, self, key)>>
neoc_get_token_transfers_response_to_json ==
    LET array(key) == Ignoring(Call(transfers_array_to_json(key), <<"result">>, NoArgs)) IN
    Written(<<Node(<<"result">>)>> \o array("sent") \o array("received")
            \o <<Attach(<<"result">>, root, "result")>>)
    \o Finally(<<Delete(root)>>, Make(neoc_json_to_string, self, NoArgs))

(****************************************************************************)
(* The procedures with their callers.                                        *)
(****************************************************************************)
TokenProcs == [
    neoc_nep17_balance_create |-> Constructor(neoc_nep17_balance_create, neoc_nep17_balance_free),
    neoc_nep17_balance_copy |-> Constructor(neoc_nep17_balance_copy, neoc_nep17_balance_free),
    neoc_nep17_balances_create |-> Constructor(neoc_nep17_balances_create, neoc_nep17_balances_free),
    neoc_nep17_balances_add_balance |->
        AdoptingMethod(neoc_nep17_balances_add_balance(1), neoc_nep17_balances_free, Fields({"address"}),
                       {"balance"}, neoc_nep17_balance_free),
    neoc_neo_get_nep17_balances_response_create |->
        Adopting(neoc_neo_get_nep17_balances_response_create, neoc_neo_get_nep17_balances_response_free,
                 {"result"}, neoc_nep17_balances_free),
    neoc_neo_get_nep17_balances_response_from_json |->
        Constructor(neoc_neo_get_nep17_balances_response_from_json, neoc_neo_get_nep17_balances_response_free),
    neoc_neo_get_nep17_balances_response_to_json |-> Constructor(neoc_neo_get_nep17_balances_response_to_json, {}),
    neoc_nep17_transfer_create |-> Constructor(neoc_nep17_transfer_create, neoc_nep17_transfer_free),
    neoc_nep17_transfers_create |->
        Adopting(neoc_nep17_transfers_create, neoc_nep17_transfers_free, {"sent", "received"},
                 neoc_nep17_transfer_array_free),
    neoc_neo_get_nep17_transfers_create |->
        Adopting(neoc_neo_get_nep17_transfers_create, neoc_neo_get_nep17_transfers_free, {"result"},
                 neoc_nep17_transfers_free),
    neoc_neo_get_nep17_transfers_from_json |->
        Constructor(neoc_neo_get_nep17_transfers_from_json, neoc_neo_get_nep17_transfers_free),
    neoc_neo_get_nep17_transfers_to_json |-> Constructor(neoc_neo_get_nep17_transfers_to_json, {}),
    neoc_nep11_token_create |-> Constructor(neoc_nep11_token_create, neoc_nep11_token_free),
    neoc_nep11_balance_create |->
        Adopting(neoc_nep11_balance_create, neoc_nep11_balance_free, {"tokens"}, neoc_nep11_token_array_free),
    neoc_nep11_balances_create |->
        Adopting(neoc_nep11_balances_create, neoc_nep11_balances_free, {"balances"}, neoc_nep11_balance_array_free),
    neoc_neo_get_nep11_balances_create |->
        Adopting(neoc_neo_get_nep11_balances_create, neoc_neo_get_nep11_balances_free, {"result"},
                 neoc_nep11_balances_free),
    neoc_neo_get_nep11_balances_from_json |->
        Constructor(neoc_neo_get_nep11_balances_from_json, neoc_neo_get_nep11_balances_free),
    neoc_neo_get_nep11_balances_to_json |-> Constructor(neoc_neo_get_nep11_balances_to_json, {}),
    neoc_nep11_transfer_create |-> Constructor(neoc_nep11_transfer_create, neoc_nep11_transfer_free),
    neoc_nep11_transfers_create |->
        Adopting(neoc_nep11_transfers_create, neoc_nep11_transfers_free, {"sent", "received"},
                 neoc_nep11_transfer_array_free),
    neoc_neo_get_nep11_transfers_create |->
        Adopting(neoc_neo_get_nep11_transfers_create, neoc_neo_get_nep11_transfers_free, {"result"},
                 neoc_nep11_transfers_free),
    neoc_neo_get_nep11_transfers_from_json |->
        Constructor(neoc_neo_get_nep11_transfers_from_json, neoc_neo_get_nep11_transfers_free),
    neoc_neo_get_nep11_transfers_to_json |-> Constructor(neoc_neo_get_nep11_transfers_to_json, {}),
    neoc_token_balance_create |-> Constructor(neoc_token_balance_create, neoc_token_balance_free),
    neoc_token_balances_create |-> Constructor(neoc_token_balances_create, neoc_token_balances_free),
    neoc_neo_get_token_balances_response_create |->
        Adopting(neoc_neo_get_token_balances_response_create, neoc_neo_get_token_balances_response_free,
                 {"result"}, neoc_token_balances_free),
    neoc_token_balances_from_json |-> Constructor(neoc_token_balances_from_json, neoc_token_balances_free),
    neoc_neo_get_token_balances_response_from_json |->
        Constructor(neoc_neo_get_token_balances_response_from_json, neoc_neo_get_token_balances_response_free),
    neoc_token_balances_to_json |-> Constructor(neoc_token_balances_to_json, {}),
    neoc_neo_get_token_balances_response_to_json |-> Constructor(neoc_neo_get_token_balances_response_to_json, {}),
    neoc_token_transfer_create_full |-> Constructor(neoc_token_transfer_create_full, neoc_token_transfer_free),
    neoc_token_transfers_set_address |->
        Method(neoc_token_transfers_set_address, neoc_token_transfers_free, Fields({"transfer_address"})),
    neoc_token_transfers_add_sent |->
        AdoptingMethod(neoc_token_transfers_add_sent(1), neoc_token_transfers_free, {}, {"transfer"},
                       neoc_token_transfer_free),
    neoc_token_transfers_add_received |->
        AdoptingMethod(neoc_token_transfers_add_received(1), neoc_token_transfers_free, {}, {"transfer"},
                       neoc_token_transfer_free),
    neoc_get_token_transfers_response_create |->
        Constructor(neoc_get_token_transfers_response_create, neoc_get_token_transfers_response_free),
    neoc_get_token_transfers_response_from_json |->
        Constructor(neoc_get_token_transfers_response_from_json, neoc_get_token_transfers_response_free),
    neoc_get_token_transfers_response_to_json |-> Constructor(neoc_get_token_transfers_response_to_json, {})]
=============================================================================
