------------------------------ MODULE RpcClient ------------------------------
(* The RPC client over one curl handle (src/protocol/rpc_client.c), built     *)
(* with curl and cJSON.                                                       *)
EXTENDS Manifests

Curl(step) == By("curl", step)      \* the same with the curl functions of the type

neoc_rpc_client_free == Through("curl", Fields({"curl"})) \cup Fields({"url"})
neoc_rpc_client_create ==
    <<Check, Must(self)>> \o On(<<Free(self), Null(self)>>, <<Must(its("url"))>>) \o
    On(<<Free(its("url")), Free(self), Null(self)>>, <<Curl(Must(its("curl")))>>)

(* One chunk of the answer; the transfer fails when the buffer cannot grow.   *)
write_callback == <<Grow(self)>>
(* The request is printed and sent, the answer parsed, and what the member    *)
(* "result" holds printed for the caller, who gets NULL and success when the  *)
(* last copy fails.                                                           *)
make_rpc_call ==
    LET request == <<"request">>
        text == <<"request_str">>
        data == <<"response_buf">>
        headers == <<"headers">>
        response == <<"response">>
        tmp == <<"tmp">>
        sent == <<Curl(Free(headers)), LibcFree(text)>> IN
    <<Check, Node(request)>> \o
    Else(On(<<Delete(request)>>, <<Node(request \o <<"params">>)>>), <<Libc(Try(request \o <<"params">>))>>) \o
    On(<<Delete(request)>>, <<Node(text)>>) \o <<Delete(request)>> \o
    On(<<LibcFree(text)>>, <<Must(data)>>) \o <<Curl(Try(headers))>> \o
    On(sent \o <<Free(data)>>, Call(write_callback, data, NoArgs) \o <<Check>>) \o sent \o
    On(<<Free(data)>>, <<Node(response)>>) \o
    On(<<Delete(response), Free(data)>>,
       <<Check>> \o Else(<<Node(tmp), Try(self), LibcFree(tmp)>>, <<Try(self)>>)) \o
    <<Delete(response), Free(data)>>

(* Answers handed to the caller as text.                                      *)
answer == <<Check>> \o make_rpc_call
neoc_rpc_call_raw == answer
neoc_rpc_get_version == answer
neoc_rpc_get_committee == answer
neoc_rpc_get_next_validators == answer
neoc_rpc_get_peers == answer
neoc_rpc_get_raw_mempool == answer
neoc_rpc_get_native_contracts == answer
neoc_rpc_invoke_function == <<Check>> \o answer
neoc_rpc_get_application_log == <<Check>> \o answer
(* Bytes go into the request as base64.                                       *)
in_base64(x) == <<Check, Must(<<x>>)>> \o Finally(<<Free(<<x>>)>>, <<Check>>)
neoc_rpc_invoke_script == in_base64("base64_script") \o make_rpc_call
neoc_rpc_get_storage == in_base64("base64_key") \o make_rpc_call

(* Answers parsed here.  Where a type is asked for together with the tree,    *)
(* a tree of another type is not deleted.                                     *)
answer_text == <<"result">>
json == <<"json">>
parsed_answer(reading) ==
    <<Check>> \o Make(make_rpc_call, answer_text, NoArgs) \o Finally(<<Free(answer_text)>>, <<Node(json)>> \o reading)
of_any_type(reading) == Finally(<<Delete(json)>>, reading)
of_one_type(reading) == <<Check>> \o of_any_type(reading)
neoc_rpc_get_best_block_hash == parsed_answer(of_one_type(<<Check>>))
neoc_rpc_get_block_hash == parsed_answer(of_one_type(<<Check>>))
neoc_rpc_get_block_count == parsed_answer(of_one_type(<<>>))
neoc_rpc_get_connection_count == parsed_answer(of_one_type(<<>>))
neoc_rpc_get_transaction_height == parsed_answer(of_one_type(<<>>))
neoc_rpc_get_state_height == parsed_answer(of_any_type(<<>>))
neoc_rpc_send_raw_transaction == in_base64("base64_tx") \o parsed_answer(of_any_type(<<Check>>))

neoc_rpc_nep17_balances_free == Elements(Fields({"amount"}))
neoc_rpc_get_nep17_balances ==
    parsed_answer(of_any_type(Else(<<Must(self)>> \o ForSome(LAMBDA i : <<Try(<<"self", i, "amount">>)>>),
                                   <<Null(self)>>)))

(* Requests whose parameters are printed from a tree nobody looks at.         *)
with_params(reading) ==
    LET params == <<"params">>
        text == <<"params_str">> IN
    <<Check, Libc(Try(params)), Libc(Try(text)), Delete(params)>> \o
    Finally(<<LibcFree(text)>>, Make(make_rpc_call, answer_text, NoArgs)) \o
    Finally(<<Free(answer_text)>>, <<Node(json)>> \o Finally(<<Delete(json)>>, <<Must(self)>> \o reading))
neoc_rpc_block_free == Fields({"tx_hashes"})
neoc_rpc_get_block == with_params(<<Try(its("tx_hashes"))>>)
neoc_rpc_transaction_free == Fields({"script"})
neoc_rpc_get_transaction == with_params(<<Try(its("script"))>>)
(* The texts come from strdup.  The array of standards is written to without  *)
(* a look whether there is one.                                               *)
neoc_rpc_contract_state_free == neoc_contract_state_free
neoc_rpc_get_contract_state ==
    LET nef(x) == <<"self", "nef", x>>
        manifest(x) == <<"self", "manifest", x>>
        standard(i) == manifest("supported_standards") \o <<i>>
        extra == <<"extra_str">> IN
    with_params(
        If(<<Libc(Try(nef("compiler"))), Libc(Try(nef("source")))>> \o
           If(Ignoring(Make(neoc_base64_decode_alloc, nef("script"), NoArgs)))) \o
        If(<<Libc(Try(manifest("name"))), Try(manifest("groups"))>> \o
           If(<<Try(manifest("supported_standards")), Use(manifest("supported_standards"))>> \o
              ForSome(LAMBDA i : <<Libc(Try(standard(i)))>>)) \o
           Tries(In(<<"self", "manifest">>, <<"methods", "events", "permissions", "trusts">>)) \o
           If(Ignoring(<<Node(extra), Try(manifest("extra")), LibcFree(extra)>>))))

RpcProcs == [
    neoc_rpc_client_create |-> Constructor(neoc_rpc_client_create, neoc_rpc_client_free),
    neoc_rpc_call_raw |-> Constructor(neoc_rpc_call_raw, {}),
    neoc_rpc_invoke_function |-> Constructor(neoc_rpc_invoke_function, {}),
    neoc_rpc_invoke_script |-> Constructor(neoc_rpc_invoke_script, {}),
    neoc_rpc_get_storage |-> Constructor(neoc_rpc_get_storage, {}),
    neoc_rpc_get_best_block_hash |-> Task(neoc_rpc_get_best_block_hash),
    neoc_rpc_get_block_hash |-> Task(neoc_rpc_get_block_hash),
    neoc_rpc_get_block_count |-> Task(neoc_rpc_get_block_count),
    neoc_rpc_get_connection_count |-> Task(neoc_rpc_get_connection_count),
    neoc_rpc_get_transaction_height |-> Task(neoc_rpc_get_transaction_height),
    neoc_rpc_get_state_height |-> Task(neoc_rpc_get_state_height),
    neoc_rpc_send_raw_transaction |-> Task(neoc_rpc_send_raw_transaction),
    neoc_rpc_get_nep17_balances |-> Constructor(neoc_rpc_get_nep17_balances, neoc_rpc_nep17_balances_free),
    neoc_rpc_get_block |-> Constructor(neoc_rpc_get_block, neoc_rpc_block_free),
    neoc_rpc_get_transaction |-> Constructor(neoc_rpc_get_transaction, neoc_rpc_transaction_free),
    neoc_rpc_get_contract_state |-> Constructor(neoc_rpc_get_contract_state, neoc_rpc_contract_state_free)]
=============================================================================
