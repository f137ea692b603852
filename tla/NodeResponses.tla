---------------------------- MODULE NodeResponses ----------------------------
(* The answers of src/protocol/core/response about the state and the work of  *)
(* a node: found states, validators, plugins, state roots, diagnostics,       *)
(* notifications, application logs and invocation results.                    *)
EXTENDS Responses, Witnesses

(* neo_find_states.c                                                          *)
neoc_find_states_result_free == Fields({"key", "value"})
neoc_find_states_free == Fields({"first_proof", "last_proof"}) \cup Objects("results", neoc_find_states_result_free)
neoc_find_states_response_free == Fields({"jsonrpc", "error_message"}) \cup Object("result", neoc_find_states_free)
neoc_find_states_result_create == <<Check, Must(self)>>
neoc_find_states_create == <<Check, Must(self)>>
neoc_find_states_response_create == <<Check, Must(self)>>
neoc_find_states_add_result(i) ==
    <<Check, Grow(its("results")), Copy(arg("result"), <<"self", "results", i>>)>>
neoc_find_states_response_from_json ==
    LET states == <<"states">>
        entry == <<"entry">>
        found(i) ==
            Make(neoc_find_states_result_create, entry, NoArgs) \o
            On(<<Destroy(entry, neoc_find_states_result_free)>>,
               Musts(In(entry, <<"key", "value">>)) \o Call(neoc_find_states_add_result(i), states, [result |-> entry])) IN
    <<Check>> \o ParseObject \o On(<<Delete(root)>>, Make(neoc_find_states_response_create, self, NoArgs)) \o
    On(<<Destroy(self, neoc_find_states_response_free), Delete(root)>>,
       Opts(Its(<<"jsonrpc", "error_message">>)) \o
       If(Make(neoc_find_states_create, states, NoArgs) \o
          On(<<Destroy(states, neoc_find_states_free)>>, Opts(In(states, <<"first_proof", "last_proof">>)) \o For(found)) \o
          <<Copy(states, its("result"))>>)) \o
    <<Delete(root)>>
neoc_find_states_response_to_json == <<Check, Must(self)>>
(* The proofs set before are not released.                                    *)
neoc_find_states_set_proofs == <<Check>> \o Opts(Its(<<"first_proof", "last_proof">>))

(* neo_get_next_block_validators.c                                            *)
neoc_validator_free == Fields({"public_key", "votes"})
neoc_validator_array_free == Elements(neoc_validator_free)
neoc_neo_get_next_block_validators_free == Envelope(neoc_validator_array_free)
neoc_validator_create ==
    <<Check, Must(self)>> \o On(<<Destroy(self, neoc_validator_free)>>, Opts(Its(<<"public_key", "votes">>)))
neoc_neo_get_next_block_validators_create == AdoptResult(neoc_neo_get_next_block_validators_free)
neoc_validator_parse_array ==
    <<Check, Null(self)>> \o
    If(<<Must(self)>> \o
       ForSome(LAMBDA i : On(<<Destroy(self, neoc_validator_array_free)>>, Opts(In(<<"self", i>>, <<"public_key", "votes">>)))))
neoc_neo_get_next_block_validators_from_json ==
    FromJson(neoc_neo_get_next_block_validators_free, Make(neoc_validator_parse_array, its("result"), NoArgs))
neoc_neo_get_next_block_validators_to_json ==
    ToJson(<<Node(Json(<<"result">>))>> \o For(LAMBDA i : <<Node(Json(<<"result", i>>))>>))

(* neo_list_plugins.c                                                         *)
neoc_neo_plugin_free == Fields({"name", "version"}) \cup Object("interfaces", Pointers({}))
neoc_neo_list_plugins_free == Envelope(Elements(neoc_neo_plugin_free))
copy_interfaces ==
    <<Null(self)>> \o If(<<Must(self)>> \o ForSome(LAMBDA i : On(<<Destroy(self, Pointers({}))>>, <<Must(<<"self", i>>)>>)))
neoc_neo_plugin_create ==
    <<Check, Must(self)>> \o
    On(<<Destroy(self, neoc_neo_plugin_free), Null(self)>>,
       Musts(Its(<<"name", "version">>)) \o Make(copy_interfaces, its("interfaces"), NoArgs))
neoc_neo_list_plugins_create == AdoptResult(neoc_neo_list_plugins_free)
(* An interface without a name loses those before it.                         *)
parse_interfaces ==
    LET name(i) == On(<<Free(self)>>, <<Check>>) \o On(<<Destroy(self, Pointers({}))>>, <<Must(<<"self", i>>)>>) IN
    <<Null(self)>> \o If(<<Must(self)>> \o ForSome(name))
neoc_neo_list_plugins_from_json ==
    LET plugins == <<"plugins">>
        plugin(i) ==
            Ignoring(Make(parse_interfaces, plugins \o <<i, "interfaces">>, NoArgs)) \o
            On(<<Destroy(plugins, Elements(neoc_neo_plugin_free))>>, Musts(In(plugins \o <<i>>, <<"name", "version">>))) IN
    Demanding(neoc_neo_list_plugins_free, <<Must(plugins)>> \o ForSome(plugin) \o <<Copy(plugins, its("result"))>>)
interfaces_to_json ==
    LET array == <<"arr">> IN
    If(<<Node(array)>> \o ForSome(LAMBDA i : On(<<Delete(array)>>, <<Node(array \o <<i>>)>>)) \o
       <<Attach(array, self, "interfaces")>>)
neoc_neo_list_plugins_to_json ==
    LET array == <<"plugins">> IN
    ToJsonText(<<Node(array)>> \o
               ForSome(LAMBDA i : On(<<Delete(array)>>, <<Node(array \o <<i>>)>>) \o
                                  Ignoring(Call(interfaces_to_json, array \o <<i>>, NoArgs))) \o
               <<Attach(array, root, "result")>>)

(* The structs of an array released as if each were a block, and then the     *)
(* array: with the first of its n structs the array is released, and the      *)
(* second is not the start of a block.                                        *)
FreeEach(p, owns, n) ==
    (IF n > 0 THEN <<Destroy(p, Below(<<1>>, owns))>> ELSE <<>>) \o
    (IF n > 1 THEN <<Interior(p \o <<2>>, owns)>> ELSE <<>>) \o <<Free(p)>>
(* What a constructor made, moved into an element of an array.                *)
Moved(steps, p) == LET made == <<"made">> IN Make(steps, made, NoArgs) \o <<Copy(made, p), Free(made)>>

(* neo_get_state_root.c                                                       *)
neoc_state_root_free(p) == FreeEach(p \o <<"witnesses">>, neoc_witness_free, Items) \o <<Free(p)>>
neoc_neo_get_state_root_free ==
    <<Free(its("jsonrpc")), Free(its("error"))>> \o neoc_state_root_free(its("result")) \o <<Free(self)>>
decode_base64_field == <<Check, Null(self)>> \o If(neoc_base64_decode_alloc)
encode_base64_field ==
    LET buffer == <<"buffer">> IN If(<<Must(buffer)>> \o Finally(<<Free(buffer)>>, <<Check>>))
clone_witness_array ==
    <<Null(self)>> \o
    If(<<Must(self)>> \o
       ForSome(LAMBDA i : On(FreeEach(self, neoc_witness_free, i - 1), Moved(neoc_witness_clone, <<"self", i>>))))
neoc_state_root_create ==
    <<Check, Must(self)>> \o On(neoc_state_root_free(self), If(Make(clone_witness_array, its("witnesses"), NoArgs)))
neoc_neo_get_state_root_create == AdoptAnd(neoc_neo_get_state_root_free)
(* A witness that is wrong loses the scripts of those before it.              *)
parse_witnesses ==
    LET inv == <<"inv">>
        ver == <<"ver">>
        w == <<"w">>
        witness(i) ==
            On(<<Free(self)>>,
               <<Check, Null(ver)>> \o
               Finally(<<Free(inv), Free(ver)>>,
                       Make(decode_base64_field, inv, NoArgs) \o Make(decode_base64_field, ver, NoArgs) \o
                       Make(neoc_witness_create, w, NoArgs))) \o
            <<Copy(w, <<"self", i>>), Free(w)>> IN
    <<Null(self)>> \o If(<<Must(self)>> \o ForSome(witness))
(* The witnesses parsed are copied into the state root and then lost.         *)
neoc_neo_get_state_root_from_json ==
    LET witnesses == <<"witnesses">> IN
    Tolerant(On(neoc_neo_get_state_root_free \o <<Delete(root)>>,
        If(<<Check>>) \o Make(parse_witnesses, witnesses, NoArgs) \o
        Else(On(FreeEach(witnesses, neoc_witness_free, Items), Make(neoc_state_root_create, its("result"), NoArgs)),
             FreeEach(witnesses, neoc_witness_free, Items))))
neoc_neo_get_state_root_to_json ==
    LET result == <<"result">>
        array == <<"witnesses">>
        entry == <<"w_obj">>
        written == <<Node(entry)>> \o On(<<Delete(entry)>>, Call(encode_base64_field, entry, NoArgs) \o Call(encode_base64_field, entry, NoArgs)) IN
    ToJsonText(<<Node(result)>> \o
        On(<<Delete(result)>>,
           If(<<Node(array)>> \o ForSome(LAMBDA i : On(<<Delete(array)>>, written) \o <<Attach(entry, array, i)>>) \o
              <<Attach(array, result, "witnesses")>>)) \o
        <<Attach(result, root, "result")>>)
neoc_neo_get_state_root_get_root_hash_string == <<Check, Must(self)>>

(* diagnostics.c.  A contract holds the contracts it invoked; those of depth  *)
(* 0 invoked none.  neoc_invoked_contract_free releases what a contract       *)
(* holds and not the contract.                                                *)
Depth == 1
neoc_invoked_contract_free[d \in 0..Depth] ==
    Fields({"hash"}) \cup
    IF d = 0 THEN {} ELSE Structs("invoked_contracts", neoc_invoked_contract_free[d - 1])
contracts == its("invoked_contracts")
neoc_invoked_contract_copy[d \in 0..Depth] ==
    <<Check, Must(self)>> \o
    On(<<Clear(self, neoc_invoked_contract_free[d])>>,
       <<Opt(its("hash"))>> \o
       IF d = 0 THEN <<>>
       ELSE If(<<Must(contracts)>> \o ForSome(LAMBDA i : Moved(neoc_invoked_contract_copy[d - 1], contracts \o <<i>>))))
neoc_invoked_contract_create(d) ==
    <<Check, Must(self)>> \o
    On(<<Clear(self, neoc_invoked_contract_free[d])>>,
       <<Must(its("hash"))>> \o
       IF d = 0 THEN <<>>
       ELSE If(<<Must(contracts)>> \o ForSome(LAMBDA i : Moved(neoc_invoked_contract_copy[d - 1], contracts \o <<i>>))))
parse_invoked_contract_json[d \in 0..Depth] ==
    LET children == <<"children">>
        held == IF d = 0 THEN {} ELSE Elements(neoc_invoked_contract_free[d - 1]) IN
    <<Check, Null(children)>> \o
    (IF d = 0 THEN <<>>
     ELSE If(<<Must(children)>> \o
             ForSome(LAMBDA i : On(<<Destroy(children, held)>>,
                                   Moved(parse_invoked_contract_json[d - 1], children \o <<i>>))))) \o
    Finally(<<Destroy(children, held)>>, Make(neoc_invoked_contract_create(d), self, NoArgs))
neoc_storage_change_free == Fields({"state", "key", "value"})
neoc_storage_change_create ==
    <<Check, Must(self)>> \o On(<<Destroy(self, neoc_storage_change_free)>>, Musts(Its(<<"state", "key", "value">>)))
neoc_storage_change_copy == <<Check>> \o neoc_storage_change_create
DropInvoked(p) == <<Destroy(p, neoc_invoked_contract_free[Depth])>>
neoc_diagnostics_free(n) ==
    DropInvoked(contracts) \o FreeEach(its("storage_changes"), neoc_storage_change_free, n) \o <<Free(self)>>
neoc_diagnostics_create ==
    LET changes == its("storage_changes") IN
    <<Check, Must(self)>> \o
    On(neoc_diagnostics_free(0), If(Make(neoc_invoked_contract_copy[Depth], contracts, NoArgs))) \o
    If(On(neoc_diagnostics_free(0), <<Must(changes)>>) \o
       ForSome(LAMBDA i : On(neoc_diagnostics_free(i - 1), Moved(neoc_storage_change_copy, changes \o <<i>>))))
neoc_diagnostics_from_json ==
    LET invoked == <<"invoked">>
        changes == <<"changes">>
        drop(n) == FreeEach(changes, neoc_storage_change_free, n) IN
    <<Check, Node(root)>> \o
    Finally(<<Delete(root)>>,
        If(Make(parse_invoked_contract_json[Depth], invoked, NoArgs)) \o
        Finally(DropInvoked(invoked),
            If(<<Must(changes)>> \o
               ForSome(LAMBDA i : On(drop(i - 1), Moved(neoc_storage_change_create, changes \o <<i>>)))) \o
            Finally(drop(Items), Make(neoc_diagnostics_create, self, NoArgs))))
neoc_diagnostics_to_json ==
    LET array == <<"array">> IN
    <<Check, Node(root)>> \o
    On(<<Delete(root)>>,
       If(<<Node(Json(<<"invokedContracts">>))>>) \o
       If(<<Node(array)>> \o ForSome(LAMBDA i : On(<<Delete(array)>>, <<Node(array \o <<i>>)>>)) \o
          <<Attach(array, root, "storageChanges")>>)) \o
    Finally(<<Delete(root)>>, Make(neoc_json_to_string, self, NoArgs))

(* protocol/stack_item.h, which declares these two; a stack item is one       *)
(* block made with malloc.                                                    *)
stack_item_clone == <<Libc(Must(self))>>
stack_item_from_json == <<Libc(Must(self))>>
DropItem(p) == LibcFree(p)
OwnsItems(x) == Object(x, LibcPointers({}))

(* notification.c                                                             *)
neoc_notification_free == Fields({"event_name"}) \cup LibcObject("state", {})
neoc_notification_create ==
    <<Check, Must(self)>> \o On(<<Free(self)>>, <<Must(its("event_name"))>>) \o <<Copy(arg("state"), its("state"))>>
made_notification(state) == On(<<DropItem(state)>>, Make(neoc_notification_create, self, [state |-> state]))
neoc_notification_clone ==
    LET state == <<"cloned_state">> IN
    <<Check>> \o If(Make(stack_item_clone, state, NoArgs)) \o made_notification(state)
neoc_notification_from_json ==
    LET state == <<"state">>
        text == <<"state_str">> IN
    <<Check, Node(root)>> \o
    Finally(<<Delete(root)>>,
        <<Check>> \o
        If(Ignoring(Make(neoc_json_to_string, text, NoArgs) \o Ignoring(Make(stack_item_from_json, state, NoArgs)) \o <<Free(text)>>)) \o
        made_notification(state))
neoc_notification_to_json ==
    LET text == <<"state_json">> IN <<Check, Try(text)>> \o Finally(<<Free(text)>>, <<Must(self)>>)
neoc_notification_get_contract_string == <<Check, Must(self)>>

(* neo_application_log.c                                                      *)
neoc_application_execution_reset ==
    Fields({"trigger", "exception", "gas_consumed"}) \cup OwnsItems("stack") \cup Objects("notifications", neoc_notification_free)
neoc_application_execution_free == neoc_application_execution_reset
neoc_application_log_reset == Fields({"transaction_id"}) \cup Objects("executions", neoc_application_execution_free)
neoc_application_log_free == neoc_application_log_reset
neoc_get_application_log_response_reset ==
    Fields({"jsonrpc", "error_message"}) \cup Object("result", neoc_application_log_free)
neoc_get_application_log_response_free == neoc_get_application_log_response_reset
neoc_application_execution_allocate == <<Must(self)>>
neoc_application_log_allocate == <<Must(self)>>
neoc_get_application_log_response_allocate == <<Must(self)>>
neoc_application_log_add_execution(i) ==
    <<Check, Grow(its("executions")), Copy(arg("execution"), <<"self", "executions", i>>)>>
neoc_application_execution_add_stack_item(i) ==
    <<Check, Grow(its("stack")), Copy(arg("item"), <<"self", "stack", i>>)>>
neoc_application_execution_add_notification(i) ==
    <<Check, Grow(its("notifications")), Copy(arg("item"), <<"self", "notifications", i>>)>>
(* The elements of a JSON array are printed, parsed and added one by one.         *)
Reparsed(from_json, drop(_), add(_), i) ==
    LET text == <<"text">>
        item == <<"item">> IN
    <<Check, Node(text)>> \o Finally(<<LibcFree(text)>>, Make(from_json, item, NoArgs)) \o
    On(<<drop(item)>>, Call(add(i), self, [item |-> item]))
neoc_application_execution_from_json_object ==
    neoc_application_execution_allocate \o
    On(<<Destroy(self, neoc_application_execution_free)>>,
       <<Check, Must(its("trigger")), Check, Opt(its("exception")), Check, Must(its("gas_consumed"))>> \o
       For(LAMBDA i : Reparsed(stack_item_from_json, DropItem, neoc_application_execution_add_stack_item, i)) \o
       For(LAMBDA i : Reparsed(neoc_notification_from_json, LAMBDA p : Destroy(p, neoc_notification_free),
                               neoc_application_execution_add_notification, i)))
neoc_application_log_from_json_object(execution) ==
    LET hash == <<"hash">>
        one == <<"execution">> IN
    neoc_application_log_allocate \o
    On(<<Destroy(self, neoc_application_log_free)>>,
       <<Check, Must(hash)>> \o On(<<Free(hash)>>, <<Check>>) \o <<Copy(hash, its("transaction_id")), Check>> \o
       For(LAMBDA i : Make(execution, one, NoArgs) \o
                      On(<<Destroy(one, neoc_application_execution_free)>>,
                         Call(neoc_application_log_add_execution(i), self, [execution |-> one]))))
neoc_get_application_log_response_parse_error == <<Opt(its("error_message"))>>
neoc_get_application_log_response_from_json(execution) ==
    <<Check>> \o ParseObject \o
    Finally(<<Delete(root)>>,
        neoc_get_application_log_response_allocate \o
        On(<<Destroy(self, neoc_get_application_log_response_free)>>,
           <<Opt(its("jsonrpc"))>> \o neoc_get_application_log_response_parse_error \o
           If(Make(neoc_application_log_from_json_object(execution), its("result"), NoArgs))))
neoc_get_application_log_response_to_json ==
    LET result == Json(<<"result">>)
        execution(i) == result \o <<"executions", i>>
        text == <<"item_json">>
        array(p, to_json) == <<Node(p)>> \o For(LAMBDA j : <<to_json>> \o Finally(<<LibcFree(text)>>, <<Node(p \o <<j>>)>>)) IN
    Written(<<Node(result), Node(result \o <<"executions">>)>> \o
        For(LAMBDA i : <<Node(execution(i))>> \o array(execution(i) \o <<"stack">>, Node(text)) \o
                       array(execution(i) \o <<"notifications">>, Must(text)))) \o
    RenderRaw

(* invocation_result.c.  The diagnostics of response/diagnostics.h are one    *)
(* block here.                                                                *)
neoc_invocation_result_free ==
    Fields({"script", "exception", "diagnostics", "session_id"}) \cup OwnsItems("stack")
    \cup Objects("notifications", neoc_notification_free) \cup Objects("storage_changes", {})
neoc_invocation_result_create == <<Must(self)>>
(* The counts are set before the elements, which neoc_malloc left undefined.  *)
neoc_invocation_result_clone ==
    LET Filled(x, Element(_)) ==
            LET first == <<"self", x, 1>>
                second == <<"self", x, 2>> IN
            If(<<Must(its(x)), Garbage(first)>> \o
               Else(Element(first), <<Garbage(second)>> \o Element(first) \o Element(second))) IN
    <<Check>> \o neoc_invocation_result_create \o
    On(<<Destroy(self, neoc_invocation_result_free)>>,
       Opts(Its(<<"script", "exception">>)) \o
       Filled("stack", LAMBDA p : Make(stack_item_clone, p, NoArgs)) \o
       Filled("notifications", LAMBDA p : Make(neoc_notification_clone, p, NoArgs)) \o
       Opts(Its(<<"diagnostics", "session_id">>)) \o
       Filled("storage_changes", LAMBDA p : <<Must(p)>>))
neoc_invocation_result_set_script == <<Check, Free(its("script")), Null(its("script")), Try(its("script"))>>
neoc_invocation_result_set_exception == <<Check, Free(its("exception")), Null(its("exception")), Try(its("exception"))>>
neoc_invocation_result_add_stack_item(i) ==
    Ignoring(<<Grow(its("stack")), Copy(arg("item"), <<"self", "stack", i>>)>>)
neoc_invocation_result_add_notification ==
    Ignoring(<<Grow(its("notifications")), Copy(arg("item"), <<"self", "notifications", 2>>)>>)
neoc_invocation_result_from_json ==
    LET text == <<"item_str">>
        item == <<"stack_item">>
        parsed(i) ==
            Ignoring(<<Node(text)>> \o
                     Ignoring(Make(stack_item_from_json, item, NoArgs) \o
                              Call(neoc_invocation_result_add_stack_item(i), self, [item |-> item])) \o
                     <<LibcFree(text)>>) IN
    <<Check, Node(root)>> \o On(<<Delete(root)>>, neoc_invocation_result_create) \o
    Tries(Its(<<"script", "exception">>)) \o For(parsed) \o <<Delete(root)>>
neoc_invocation_result_to_json ==
    LET text == <<"item_json">> IN
    <<Check, Must(self)>> \o For(LAMBDA i : <<Try(text), Free(text)>>) \o For(LAMBDA i : <<Try(text), Free(text)>>)

root_result(p) == {Block(p), Block(p \o <<"witnesses">>)} \cup Below(p \o <<"witnesses", 1>>, neoc_witness_free)
NodeProcs == [
    neoc_find_states_response_from_json |->
        Constructor(neoc_find_states_response_from_json, neoc_find_states_response_free),
    neoc_find_states_set_proofs |->
        Method(neoc_find_states_set_proofs, neoc_find_states_free, Fields({"first_proof", "last_proof"})),
    neoc_validator_create |-> Constructor(neoc_validator_create, neoc_validator_free),
    neoc_neo_get_next_block_validators_create |->
        Adopting(neoc_neo_get_next_block_validators_create, neoc_neo_get_next_block_validators_free, {"result"},
                 neoc_validator_array_free),
    neoc_neo_get_next_block_validators_from_json |->
        Constructor(neoc_neo_get_next_block_validators_from_json, neoc_neo_get_next_block_validators_free),
    neoc_neo_get_next_block_validators_to_json |-> Constructor(neoc_neo_get_next_block_validators_to_json, {}),
    neoc_neo_plugin_create |-> Constructor(neoc_neo_plugin_create, neoc_neo_plugin_free),
    neoc_neo_list_plugins_create |->
        Adopting(neoc_neo_list_plugins_create, neoc_neo_list_plugins_free, {"result"}, Elements(neoc_neo_plugin_free)),
    neoc_neo_list_plugins_from_json |-> Constructor(neoc_neo_list_plugins_from_json, neoc_neo_list_plugins_free),
    neoc_neo_list_plugins_to_json |-> Constructor(neoc_neo_list_plugins_to_json, {}),
    neoc_state_root_create |-> Procedure({}, neoc_state_root_create, neoc_state_root_free(self), <<>>),
    neoc_neo_get_state_root_create |->
        Procedure(root_result(arg("result")), neoc_neo_get_state_root_create, neoc_neo_get_state_root_free,
                  neoc_state_root_free(arg("result"))),
    neoc_neo_get_state_root_from_json |->
        Procedure({}, neoc_neo_get_state_root_from_json, neoc_neo_get_state_root_free, <<>>),
    neoc_neo_get_state_root_to_json |-> Constructor(neoc_neo_get_state_root_to_json, {}),
    neoc_invoked_contract_copy |-> Procedure({}, neoc_invoked_contract_copy[Depth], DropInvoked(self), <<>>),
    neoc_invoked_contract_create |-> Procedure({}, neoc_invoked_contract_create(Depth), DropInvoked(self), <<>>),
    neoc_storage_change_copy |-> Constructor(neoc_storage_change_copy, neoc_storage_change_free),
    neoc_diagnostics_create |-> Procedure({}, neoc_diagnostics_create, neoc_diagnostics_free(Items), <<>>),
    neoc_diagnostics_from_json |-> Procedure({}, neoc_diagnostics_from_json, neoc_diagnostics_free(Items), <<>>),
    neoc_diagnostics_to_json |-> Constructor(neoc_diagnostics_to_json, {}),
    neoc_notification_clone |-> Constructor(neoc_notification_clone, neoc_notification_free),
    neoc_notification_from_json |-> Constructor(neoc_notification_from_json, neoc_notification_free),
    neoc_notification_to_json |-> Constructor(neoc_notification_to_json, {}),
    neoc_application_execution_from_json_object |->
        Constructor(neoc_application_execution_from_json_object, neoc_application_execution_free),
    neoc_get_application_log_response_from_json |->
        Constructor(neoc_get_application_log_response_from_json(neoc_application_execution_allocate),
                    neoc_get_application_log_response_free),
    neoc_get_application_log_response_to_json |-> LibcConstructor(neoc_get_application_log_response_to_json, {}),
    neoc_invocation_result_clone |-> Constructor(neoc_invocation_result_clone, neoc_invocation_result_free),
    neoc_invocation_result_set_script |->
        Method(neoc_invocation_result_set_script, neoc_invocation_result_free, Fields({"script"})),
    neoc_invocation_result_set_exception |->
        Method(neoc_invocation_result_set_exception, neoc_invocation_result_free, Fields({"exception"})),
    neoc_invocation_result_add_notification |->
        AdoptingMethod(neoc_invocation_result_add_notification, neoc_invocation_result_free,
                       Object("notifications", Below(<<1>>, neoc_notification_free)), {"item"}, Fields({"event_name"})),
    neoc_invocation_result_from_json |-> Constructor(neoc_invocation_result_from_json, neoc_invocation_result_free),
    neoc_invocation_result_to_json |-> Constructor(neoc_invocation_result_to_json, {})]
=============================================================================
