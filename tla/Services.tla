------------------------------ MODULE Services ------------------------------
(* From a request to the answer of a node: the HTTP session                   *)
(* (src/utils/url_session.c), the service over it (src/protocol/service.c,    *)
(* http/http_service.c), requests and responses (core/request.c,              *)
(* core/response.c), and the clients that own a service (neo_c.c,             *)
(* neo_c_config.c, neo_c_express.c).                                          *)
EXTENDS RpcClient, Collections

(* if (steps succeed) then, else otherwise                                    *)
Tried(steps, then, otherwise) ==
    When(steps, then \o <<[op |-> "jump", skip |-> Len(otherwise)]>>) \o otherwise

(****************************************************************************)
(* HTTP.                                                                     *)
(****************************************************************************)
header == Fields({"name", "value"})
free_headers(x) == Structs(x, header)
duplicate_headers ==
    <<Must(self)>> \o
    On(<<Destroy(self, Elements(header))>>,
       ForSome(LAMBDA i : <<Opt(<<"self", i, "name">>), Opt(<<"self", i, "value">>)>>))
neoc_url_session_free == free_headers("default_headers") \cup Fields({"user_agent"})
neoc_url_session_create_with_config ==
    <<Check, Must(self)>> \o On(<<Free(self)>>, <<Opt(its("user_agent"))>>) \o
    If(On(<<Free(its("user_agent")), Free(self)>>, Make(duplicate_headers, its("default_headers"), NoArgs)))
neoc_url_session_create == <<Check>> \o neoc_url_session_create_with_config

neoc_http_request_free == free_headers("headers") \cup Object("body", Fields({"data"})) \cup Fields({"url"})
neoc_http_request_create ==
    <<Check, Must(self)>> \o On(<<Destroy(self, neoc_http_request_free)>>, <<Must(its("url"))>>)
(* The header behind the ones counted so far, and counted once it is whole.   *)
header_at(i) ==
    LET at == <<"self", "headers", i>> IN
    <<Grow(its("headers"))>> \o
    On(<<Free(at \o <<"name">>), Free(at \o <<"value">>), Null(at)>>, Musts(In(at, <<"name", "value">>)))
neoc_http_request_add_header(i) == <<Check>> \o header_at(i)
(* The body that is there is emptied, and one is made where there is none.    *)
set_request_body(is_new) ==
    LET data == <<"self", "body", "data">> IN
    <<Check>> \o (IF is_new THEN <<Must(its("body"))>> ELSE <<Free(data), Null(data)>>) \o If(<<Must(data)>>)
neoc_http_request_set_body == <<Check>> \o set_request_body(FALSE)
neoc_http_request_set_body_string == <<Check>> \o set_request_body(TRUE)

neoc_http_response_free == free_headers("headers") \cup Object("body", Fields({"data"})) \cup Fields({"error_message"})
(* Curl hands the body over in chunks and fails when one is not taken.        *)
write_body_callback == <<Grow(self)>>
(* The list of curl, which it keeps as one block here.                        *)
fill_curl_headers ==
    On(<<Curl(Free(self))>>, For(LAMBDA i : <<Curl(Grow(self))>>) \o For(LAMBDA i : <<Curl(Grow(self))>>))
neoc_url_session_perform_request ==
    LET curl == <<"curl">>
        list == <<"headers">>
        body == <<"response_body">>
        chunk == Call(write_body_callback, body, NoArgs)
        drop == <<Curl(Free(list)), Free(body), Curl(Free(curl))>>
        failed == drop \o <<Destroy(self, neoc_http_response_free), Null(self)>> IN
    <<Check, Null(self), Curl(Must(curl))>> \o On(<<Curl(Free(curl))>>, <<Must(self)>>) \o
    On(<<Destroy(self, neoc_http_response_free), Null(self), Curl(Free(curl))>>, Make(fill_curl_headers, list, NoArgs)) \o
    Tried(If(chunk \o If(chunk)) \o <<Check>>,
          On(failed, <<Must(its("body"))>>) \o <<Copy(body, <<"self", "body", "data">>), Null(body)>>,
          <<Try(its("error_message"))>> \o On(failed, <<Stop>>)) \o
    drop
performed(steps) ==
    LET request == <<"request">> IN
    Make(neoc_http_request_create, request, NoArgs) \o
    Finally(<<Destroy(request, neoc_http_request_free)>>,
            Call(steps, request, NoArgs) \o Make(neoc_url_session_perform_request, self, NoArgs))
neoc_url_session_get == performed(<<>>)
neoc_url_session_post_json == performed(neoc_http_request_add_header(1) \o neoc_http_request_set_body_string)

(****************************************************************************)
(* Requests and responses of the JSON-RPC protocol.                          *)
(****************************************************************************)
neoc_request_free == Fields({"jsonrpc", "method", "params"})
neoc_request_create ==
    <<Check, Must(self)>> \o On(<<Free(self)>>, <<Must(its("jsonrpc"))>> \o
    On(<<Free(its("jsonrpc"))>>, <<Must(its("method"))>> \o On(<<Free(its("method"))>>, <<Opt(its("params"))>>)))
neoc_request_to_json == <<Check>> \o ToText(<<Node(<<"params">>), Attach(<<"params">>, root, "params"), Null(<<"params">>)>>)
neoc_request_from_json ==
    LET params == <<"params_string">> IN
    FromText(<<Check>> \o If(Make(neoc_json_to_string, params, NoArgs)) \o
             Finally(<<Free(params)>>, Make(neoc_request_create, self, NoArgs)))

neoc_rpc_error_free == Fields({"message", "data"})
neoc_rpc_error_create ==
    <<Must(self)>> \o On(<<Free(self)>>, <<Opt(its("message"))>> \o On(<<Free(its("message"))>>, <<Opt(its("data"))>>))
neoc_rpc_error_to_string == <<Check, Must(self)>>
neoc_response_free == Fields({"jsonrpc", "raw_response", "result"}) \cup Object("error", neoc_rpc_error_free)
neoc_response_create == <<Must(self)>> \o On(<<Free(self)>>, <<Must(its("jsonrpc"))>>)
(* The result is forgotten, not freed.  Without message and data an error    *)
(* that could not be made goes unnoticed.                                    *)
neoc_response_set_error ==
    <<Check, Destroy(its("error"), neoc_rpc_error_free), Null(its("error"))>> \o
    Else(Make(neoc_rpc_error_create, its("error"), NoArgs), Ignoring(Make(<<Must(self)>>, its("error"), NoArgs))) \o
    <<Null(its("result"))>>
neoc_response_set_raw == <<Check, Free(its("raw_response")), Null(its("raw_response")), Opt(its("raw_response"))>>

(****************************************************************************)
(* The service.                                                              *)
(****************************************************************************)
neoc_service_config_copy == <<Check, Opt(its("endpoint_url"))>>
neoc_service_config_free == Fields({"endpoint_url"})
neoc_service_config_create_default == <<Check, Must(self)>> \o On(<<Free(self)>>, <<Opt(its("endpoint_url"))>>)
neoc_service_free == Object("impl_data", neoc_url_session_free) \cup Fields({"endpoint_url"})
neoc_service_init == <<Check>> \o neoc_service_config_copy
neoc_service_create ==
    <<Check, Must(self)>> \o On(<<Free(self)>>, neoc_service_config_copy \o
    On(<<Free(its("endpoint_url"))>>, Make(neoc_url_session_create_with_config, its("impl_data"), NoArgs)))
neoc_service_create_from_url == <<Check>> \o neoc_service_create
neoc_service_set_url == <<Check, Free(its("endpoint_url")), Null(its("endpoint_url")), Opt(its("endpoint_url"))>>
neoc_service_get_config == <<Check, Opt(its("endpoint_url"))>>
neoc_service_set_config == <<Check>> \o neoc_service_set_url
neoc_service_perform_io ==
    LET payload == <<"payload_str">>
        answer_of == <<"http_response">>
        drop == <<Destroy(answer_of, neoc_http_response_free)>> IN
    <<Check, Null(self), Must(payload)>> \o
    Finally(<<Free(payload)>>, Make(neoc_url_session_post_json, answer_of, NoArgs)) \o
    On(drop, <<Check, Must(self)>> \o If(On(<<Free(self)>>, <<Must(its("data"))>>))) \o drop

(* The bytes of the answer become a text, a tree and a response.  A failure   *)
(* to copy the text or the error is ignored.                                  *)
received == <<"result">>
read_answer ==
    LET text == <<"response_str">>
        tree == <<"response_json">>
        data == <<"data_str">> IN
    Finally(<<Destroy(received, neoc_byte_array_free)>>, <<Check, Must(text)>> \o
    Finally(<<Free(text)>>, <<Node(tree)>> \o
    Finally(<<Delete(tree)>>, <<Check>> \o Make(neoc_response_create, self, NoArgs) \o
        If(<<Free(its("jsonrpc")), Try(its("jsonrpc"))>>) \o If(Ignoring(Call(neoc_response_set_raw, self, NoArgs))) \o
        Else(If(<<Libc(Try(data))>>) \o Ignoring(Call(neoc_response_set_error, self, NoArgs)) \o <<LibcFree(data)>>,
             If(On(<<Destroy(self, neoc_response_free), Null(self)>>, <<Node(its("result"))>>))))))
(* The request is printed by cJSON and the text goes to neoc_free.            *)
neoc_service_send_request ==
    LET tree == <<"request_json">>
        payload == <<"payload_json">> IN
    <<Check, Null(self), Node(tree), Libc(Try(tree \o <<"params">>))>> \o
    On(<<Delete(tree)>>, <<Node(payload)>>) \o <<Delete(tree)>> \o
    Finally(<<Free(payload)>>, Make(neoc_service_perform_io, received, NoArgs)) \o read_answer

neoc_http_service_free == Object("base", neoc_service_free) \cup free_headers("headers")
neoc_http_service_create_with_config == <<Check, Must(self)>> \o On(<<Free(self)>>, Make(neoc_service_create, its("base"), NoArgs))
neoc_http_service_create == neoc_http_service_create_with_config
neoc_http_service_create_with_url == neoc_http_service_create_with_config
append_header(i) == header_at(i)
neoc_http_service_add_headers == <<Check>> \o If(append_header(1) \o If(append_header(2)))
(* The first of two headers.                                                  *)
neoc_http_service_remove_header ==
    LET of(i) == <<"self", "headers", i>> IN
    <<Check, Clear(of(1), header), Copy(of(2), of(1)), Null(of(2))>>
neoc_http_service_clear_headers == <<Check, Destroy(its("headers"), Elements(header)), Null(its("headers"))>>
(* A service around one the caller keeps.                                     *)
neoc_http_service_from_base == <<Check, Must(self)>>

(****************************************************************************)
(* Clients.                                                                  *)
(****************************************************************************)
neoc_counter_create == <<Must(self)>> \o On(<<Free(self)>>, <<Check>>)
(* The counter of the whole program, made once.                               *)
neoc_global_config_init == neoc_counter_create
neoc_neo_c_config_free == Fields({"network_magic", "nns_resolver"})
(* The name service is the default one or the one asked for.                  *)
neoc_neo_c_config_create ==
    <<Must(self)>> \o On(<<Free(self)>>, <<Must(its("nns_resolver"))>> \o On(<<Free(its("nns_resolver"))>>, <<Check>>))
neoc_neo_c_config_create_custom ==
    <<Must(self)>> \o On(<<Free(self)>>, <<Opt(its("network_magic"))>> \o
    On(<<Free(its("network_magic"))>>, <<Must(its("nns_resolver"))>> \o On(<<Free(its("nns_resolver"))>>, <<Check>>)))
neoc_neo_c_config_set_network_magic == <<Check>> \o If(<<Must(its("network_magic"))>>)

neoc_json_rpc2_0_rx_free == Objects("subscriptions", {})
neoc_json_rpc2_0_rx_create == <<Must(self)>>
neoc_neo_c_rx_free == Object("json_rpc_rx", neoc_json_rpc2_0_rx_free)
neoc_neo_c_free ==
    Object("neo_c_rx", neoc_neo_c_rx_free) \cup Object("config", neoc_neo_c_config_free) \cup
    Object("neo_c_service", neoc_service_free)
(* Takes over both arguments when it succeeds.                                *)
neoc_neo_c_create ==
    <<Must(self), Copy(arg("config"), its("config")), Copy(arg("service"), its("neo_c_service"))>>
(* The configuration it makes is lost when the client cannot be made.         *)
neoc_neo_c_build ==
    LET config == <<"config">> IN
    Make(neoc_neo_c_config_create, config, NoArgs) \o
    Make(neoc_neo_c_create, self, [config |-> config, service |-> arg("service")])
neoc_neo_c_build_with_config == neoc_neo_c_create
(* The reactive extension is made at its first use and goes without its       *)
(* JSON-RPC part when that cannot be made.                                    *)
neoc_neo_c_get_rx ==
    <<Check, Must(its("neo_c_rx"))>> \o
    Ignoring(Make(neoc_json_rpc2_0_rx_create, <<"self", "neo_c_rx", "json_rpc_rx">>, NoArgs))
neoc_neo_c_send_request == <<Check>> \o Make(neoc_service_perform_io, received, NoArgs) \o read_answer
neoc_neo_c_send_request_async == <<Check>> \o neoc_neo_c_send_request

(* The client of Neo Express owns a client, and its constructors consume the  *)
(* service and the configuration whether or not they succeed.                 *)
base == <<"base">>
neoc_neo_c_express_free == Object("base", neoc_neo_c_free)
neoc_neo_c_express_create == <<Must(self), Copy(arg("base"), its("base"))>>
over_base(steps) ==
    steps \o On(<<Destroy(base, neoc_neo_c_free)>>, Make(neoc_neo_c_express_create, self, [base |-> base]))
neoc_neo_c_express_build ==
    over_base(On(<<Destroy(arg("service"), neoc_service_free)>>,
                 Make(neoc_neo_c_build, base, [service |-> arg("service")])))
neoc_neo_c_express_build_with_config ==
    over_base(On(<<Destroy(arg("service"), neoc_service_free), Destroy(arg("config"), neoc_neo_c_config_free)>>,
                 Make(neoc_neo_c_build_with_config, base, [service |-> arg("service"), config |-> arg("config")])))
neoc_neo_express_is_available == <<Check>> \o Make(neoc_request_create, base, NoArgs) \o <<Destroy(base, neoc_request_free)>>
express_create_simple_request == <<Check>> \o neoc_request_create
neoc_neo_c_express_get_contract_storage == <<Check>> \o express_create_simple_request
neoc_neo_c_express_create_checkpoint == <<Check>> \o express_create_simple_request
neoc_neo_c_express_create_oracle_response_tx == <<Check>> \o express_create_simple_request
(* Sends the request it is given and never releases it, unless there is no    *)
(* service.  The response goes to the callback.                               *)
express_send_request ==
    On(<<Destroy(arg("request"), neoc_request_free)>>, <<Check>>) \o Make(neoc_service_send_request, self, NoArgs)
sent_async ==
    LET request == <<"request">> IN
    <<Check>> \o Make(express_create_simple_request, request, NoArgs) \o
    Call(express_send_request, self, [request |-> request])
neoc_neo_c_express_get_populated_blocks_async == sent_async
neoc_neo_c_express_get_nep17_contracts_async == sent_async
neoc_neo_c_express_get_contract_storage_async == sent_async
neoc_neo_c_express_list_contracts_async == sent_async
neoc_neo_c_express_create_checkpoint_async == sent_async
neoc_neo_c_express_list_oracle_requests_async == sent_async
neoc_neo_c_express_create_oracle_response_tx_async == sent_async
neoc_neo_c_express_shutdown_async == sent_async

(* A service and a configuration as their constructors leave them.            *)
a_service == Fields({"endpoint_url", "impl_data"})
a_config == Fields({"network_magic", "nns_resolver"})
two_headers == free_headers("headers")
ServiceProcs == [
    neoc_url_session_create |-> Constructor(neoc_url_session_create, neoc_url_session_free),
    neoc_http_request_create |-> Constructor(neoc_http_request_create, neoc_http_request_free),
    neoc_http_request_add_header |->
        Method(neoc_http_request_add_header(1) \o neoc_http_request_add_header(2), neoc_http_request_free, Fields({"url"})),
    neoc_http_request_set_body |->
        Method(neoc_http_request_set_body, neoc_http_request_free, Fields({"url"}) \cup Object("body", Fields({"data"}))),
    neoc_url_session_get |-> Constructor(neoc_url_session_get, neoc_http_response_free),
    neoc_request_create |-> Constructor(neoc_request_create, neoc_request_free),
    neoc_request_to_json |-> Constructor(neoc_request_to_json, {}),
    neoc_request_from_json |-> Constructor(neoc_request_from_json, neoc_request_free),
    neoc_rpc_error_create |-> Constructor(neoc_rpc_error_create, neoc_rpc_error_free),
    neoc_response_set_error |->
        Method(neoc_response_set_error, neoc_response_free, Fields({"jsonrpc", "result"}) \cup Object("error", neoc_rpc_error_free)),
    neoc_response_set_raw |-> Method(neoc_response_set_raw, neoc_response_free, Fields({"jsonrpc", "raw_response"})),
    neoc_service_config_create_default |-> Constructor(neoc_service_config_create_default, neoc_service_config_free),
    neoc_service_create_from_url |-> Constructor(neoc_service_create_from_url, neoc_service_free),
    neoc_service_init |-> Procedure({}, neoc_service_init, <<Clear(self, neoc_service_config_free)>>, <<>>),
    neoc_service_set_config |-> Method(neoc_service_set_config, neoc_service_free, a_service),
    neoc_service_get_config |-> Procedure({}, neoc_service_get_config, <<Clear(self, neoc_service_config_free)>>, <<>>),
    neoc_service_send_request |-> Constructor(neoc_service_send_request, neoc_response_free),
    neoc_http_service_create |-> Constructor(neoc_http_service_create, neoc_http_service_free),
    neoc_http_service_add_headers |-> Method(neoc_http_service_add_headers, neoc_http_service_free, Fields({"base"})),
    neoc_http_service_remove_header |-> Method(neoc_http_service_remove_header, neoc_http_service_free, two_headers),
    neoc_http_service_clear_headers |-> Method(neoc_http_service_clear_headers, neoc_http_service_free, two_headers),
    neoc_http_service_from_base |->
        Procedure(Whole(arg("service"), a_service), neoc_http_service_from_base,
                  <<Destroy(self, free_headers("headers")), Destroy(arg("service"), neoc_service_free)>>,
                  <<Destroy(arg("service"), neoc_service_free)>>),
    neoc_global_config_init |-> Constructor(neoc_global_config_init, {}),
    neoc_neo_c_config_create |-> Constructor(neoc_neo_c_config_create, neoc_neo_c_config_free),
    neoc_neo_c_config_create_custom |-> Constructor(neoc_neo_c_config_create_custom, neoc_neo_c_config_free),
    neoc_neo_c_config_set_network_magic |->
        Method(neoc_neo_c_config_set_network_magic, neoc_neo_c_config_free, Fields({"nns_resolver"})),
    neoc_neo_c_build |->
        Procedure(Whole(arg("service"), a_service), neoc_neo_c_build, <<Destroy(self, neoc_neo_c_free)>>,
                  <<Destroy(arg("service"), neoc_service_free)>>),
    neoc_neo_c_build_with_config |->
        Procedure(Whole(arg("service"), a_service) \cup Whole(arg("config"), a_config), neoc_neo_c_build_with_config,
                  <<Destroy(self, neoc_neo_c_free)>>,
                  <<Destroy(arg("service"), neoc_service_free), Destroy(arg("config"), neoc_neo_c_config_free)>>),
    neoc_neo_c_get_rx |-> Method(neoc_neo_c_get_rx, neoc_neo_c_free, Fields({"config", "neo_c_service"})),
    neoc_neo_c_send_request |-> Constructor(neoc_neo_c_send_request, neoc_response_free),
    neoc_neo_c_express_build |->
        Procedure(Whole(arg("service"), a_service), neoc_neo_c_express_build, <<Destroy(self, neoc_neo_c_express_free)>>, <<>>),
    neoc_neo_c_express_build_with_config |->
        Procedure(Whole(arg("service"), a_service) \cup Whole(arg("config"), a_config),
                  neoc_neo_c_express_build_with_config, <<Destroy(self, neoc_neo_c_express_free)>>, <<>>),
    neoc_neo_express_is_available |-> Task(neoc_neo_express_is_available),
    neoc_neo_c_express_create_checkpoint |-> Constructor(neoc_neo_c_express_create_checkpoint, neoc_request_free),
    neoc_neo_c_express_shutdown_async |-> Constructor(neoc_neo_c_express_shutdown_async, neoc_response_free)]
=============================================================================
