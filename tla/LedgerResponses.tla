--------------------------- MODULE LedgerResponses ---------------------------
(* The answers about unspent outputs, claimable gas and the memory pool       *)
(* (src/protocol/core/response/neo_get_unspents.c, neo_get_claimable.c and    *)
(* neo_get_mem_pool.c).                                                       *)
EXTENDS Responses

(****************************************************************************)
(* neo_get_unspents.c                                                        *)
(****************************************************************************)
clear_unspent_fields == Fields({"tx_id"})
neoc_unspent_transaction_free == clear_unspent_fields
clear_balance_fields ==
    Structs("unspent_transactions", clear_unspent_fields) \cup Fields({"asset_hash", "asset_name", "asset_symbol"})
neoc_unspents_balance_free == clear_balance_fields
neoc_unspents_free == Structs("balances", clear_balance_fields) \cup Fields({"address"})
neoc_neo_get_unspents_response_free == Envelope(neoc_unspents_free)

neoc_unspent_transaction_create ==
    <<Check, Must(self)>> \o On(<<Destroy(self, neoc_unspent_transaction_free)>>, <<Must(its("tx_id"))>>)
clone_unspent_array ==
    <<Check, Null(self)>> \o
    If(<<Must(self)>> \o
       ForSome(LAMBDA i : On(<<Destroy(self, Elements(clear_unspent_fields))>>, <<Opt(<<"self", i, "tx_id">>)>>)))
neoc_unspents_balance_create ==
    <<Check, Must(self)>> \o Tries(Its(<<"asset_hash", "asset_name", "asset_symbol">>)) \o
    If(On(<<Destroy(self, neoc_unspents_balance_free)>>,
          Make(clone_unspent_array, its("unspent_transactions"), NoArgs)))
clone_balance_array ==
    LET element(i) == Tries(In(<<"self", i>>, <<"asset_hash", "asset_name", "asset_symbol">>)) \o <<Check>>
                      \o If(Make(clone_unspent_array, <<"self", i, "unspent_transactions">>, NoArgs)) IN
    <<Check, Null(self)>> \o
    If(<<Must(self)>> \o
       ForSome(LAMBDA i : On(<<Destroy(self, Elements(clear_balance_fields))>>, element(i))))
neoc_unspents_create ==
    <<Check, Must(self)>> \o
    On(<<Destroy(self, neoc_unspents_free)>>,
       <<Must(its("address"))>> \o If(Make(clone_balance_array, its("balances"), NoArgs)))
neoc_neo_get_unspents_response_create ==
    <<Check, Must(self)>> \o On(<<Free(self)>>, <<Must(its("jsonrpc"))>>) \o
    <<Copy(arg("result"), its("result"))>> \o
    On(<<Destroy(self, neoc_neo_get_unspents_response_free)>>, <<Opt(its("error"))>>)

(* An entry without a transaction id releases the array and not what the      *)
(* entries before it hold.                                                    *)
parse_unspent_transactions ==
    <<Check, Null(self)>> \o
    If(<<Must(self)>> \o
       ForSome(LAMBDA i : On(<<Free(self)>>, <<Check>>)
                          \o On(<<Destroy(self, Elements(clear_unspent_fields))>>, <<Must(<<"self", i, "tx_id">>)>>)))
(* The balances before a failed list of outputs are released as if each were  *)
(* a block; the first one is, being where the array starts.                   *)
parse_balances ==
    LET first == Destroy(<<"self">>, Below(<<1>>, neoc_unspents_balance_free))
        entry(i) ==
            On(IF i = 1 THEN <<Free(self)>> ELSE <<first, Free(self)>>,
               Make(parse_unspent_transactions, <<"unspents">>, NoArgs))
            \o Tries(In(<<"self", i>>, <<"asset_hash", "asset_name", "asset_symbol">>))
            \o <<Copy(<<"unspents">>, <<"self", i, "unspent_transactions">>)>>
            \o On(<<Destroy(self, Elements(clear_balance_fields))>>, <<Check>>) IN
    <<Check, Null(self)>> \o If(<<Must(self)>> \o ForSome(entry))
neoc_unspents_from_json ==
    <<Check, Null(self), Node(root)>> \o On(<<Delete(root)>>, Make(parse_balances, <<"balances">>, NoArgs)) \o
    Finally(<<Destroy(<<"balances">>, Elements(clear_balance_fields)), Delete(root)>>,
            Make(neoc_unspents_create, self, NoArgs))
(* What is wrong with the result is not reported: it is then missing.         *)
neoc_neo_get_unspents_response_from_json ==
    <<Check, Node(root)>> \o On(<<Delete(root)>>, <<Must(self)>>) \o Tries(Its(<<"jsonrpc", "error">>)) \o
    Ignoring(Make(neoc_json_to_string, <<"text">>, NoArgs)
             \o Ignoring(Make(neoc_unspents_from_json, <<"unspents">>, NoArgs))
             \o <<Copy(<<"unspents">>, its("result")), Free(<<"text">>)>>) \o
    <<Delete(root)>>

(****************************************************************************)
(* neo_get_claimable.c                                                       *)
(****************************************************************************)
neoc_claimable_claim_dispose == Fields({"tx_id", "generated_gas", "system_fee", "unclaimed_gas"})
neoc_claimable_claim_free == neoc_claimable_claim_dispose
neoc_claimables_dispose ==
    Structs("claims", neoc_claimable_claim_dispose) \cup Fields({"address", "total_unclaimed"})
neoc_claimables_free == neoc_claimables_dispose
neoc_neo_get_claimable_dispose == Envelope(neoc_claimables_dispose)
neoc_neo_get_claimable_free == neoc_neo_get_claimable_dispose

claim_strings == <<"tx_id", "generated_gas", "system_fee", "unclaimed_gas">>
neoc_claimable_claim_create ==
    <<Check, Must(self)>> \o On(<<Destroy(self, neoc_claimable_claim_dispose)>>, Opts(Its(claim_strings)))
(* The number of claims is set after the last one is copied, so a failure     *)
(* among them releases the array without what the claims hold.                *)
neoc_claimables_create ==
    <<Check, Must(self)>> \o
    On(<<Destroy(self, Fields({"claims"}))>>,
       If(<<Must(its("claims"))>> \o ForSome(LAMBDA i : Opts(In(<<"self", "claims", i>>, claim_strings))))) \o
    On(<<Destroy(self, neoc_claimables_dispose)>>, Opts(Its(<<"address", "total_unclaimed">>)))
neoc_neo_get_claimable_create == AdoptResult(neoc_neo_get_claimable_dispose)

neoc_claimable_claim_to_json_object == <<Node(self)>>
neoc_claimables_to_json_object ==
    LET array == <<"claims_array">> IN
    <<Node(self)>> \o On(<<Delete(self)>>, <<Node(array)>>) \o
    For(LAMBDA i : On(<<Delete(array), Delete(self)>>,
                      Make(neoc_claimable_claim_to_json_object, array \o <<i>>, NoArgs))) \o
    <<Attach(array, self, "claimable")>>
neoc_claimable_claim_from_json ==
    <<Check>> \o On(<<Clear(self, neoc_claimable_claim_dispose)>>, Opts(Its(claim_strings)))
neoc_claimables_from_json ==
    <<Check, Must(self)>> \o
    On(<<Destroy(self, neoc_claimables_dispose)>>,
       Opts(Its(<<"address", "total_unclaimed">>)) \o
       If(<<Must(its("claims"))>> \o
          ForSome(LAMBDA i : Call(neoc_claimable_claim_from_json, <<"self", "claims", i>>, NoArgs))))
neoc_neo_get_claimable_to_json == ToJson(Make(neoc_claimables_to_json_object, Json(<<"result">>), NoArgs))
neoc_neo_get_claimable_from_json ==
    <<Check, Node(root)>> \o On(<<Delete(root)>>, <<Must(self)>>) \o
    On(<<Delete(root), Destroy(self, neoc_neo_get_claimable_dispose)>>,
       <<Must(its("jsonrpc"))>> \o
       Else(<<Opt(its("error"))>>,
            If(Make(neoc_claimables_from_json, <<"claimables">>, NoArgs)
               \o <<Copy(<<"claimables">>, its("result"))>>))) \o
    <<Delete(root)>>

(****************************************************************************)
(* neo_get_mem_pool.c                                                        *)
(****************************************************************************)
neoc_mem_pool_details_free == Fields({"verified", "unverified"})
neoc_neo_get_mem_pool_free == Envelope(neoc_mem_pool_details_free)

neoc_mem_pool_details_create ==
    <<Check, Must(self)>> \o
    On(<<Destroy(self, neoc_mem_pool_details_free)>>, Opts(Its(<<"verified", "unverified">>)))
neoc_mem_pool_response_allocate == <<Must(self)>>
neoc_neo_get_mem_pool_create == AdoptResult(neoc_neo_get_mem_pool_free)
neoc_mem_pool_parse_array ==
    <<Check, Null(self)>> \o If(<<Must(self)>> \o ForSome(LAMBDA i : On(<<Free(self)>>, <<Check>>)))
neoc_neo_get_mem_pool_from_json ==
    LET verified == <<"verified">>
        unverified == <<"unverified">> IN
    FromJson(neoc_neo_get_mem_pool_free,
        Make(neoc_mem_pool_parse_array, verified, NoArgs)
        \o On(<<Free(verified)>>, Make(neoc_mem_pool_parse_array, unverified, NoArgs))
        \o Finally(<<Free(verified), Free(unverified)>>, Make(neoc_mem_pool_details_create, its("result"), NoArgs)))
neoc_neo_get_mem_pool_to_json ==
    ToJson(<<Node(Json(<<"result">>)), Node(Json(<<"result", "verified">>)), Node(Json(<<"result", "unverified">>))>>)

(****************************************************************************)
(* The procedures with their callers.                                        *)
(****************************************************************************)
LedgerProcs == [
    neoc_unspent_transaction_create |-> Constructor(neoc_unspent_transaction_create, neoc_unspent_transaction_free),
    neoc_unspents_balance_create |-> Constructor(neoc_unspents_balance_create, neoc_unspents_balance_free),
    neoc_unspents_create |-> Constructor(neoc_unspents_create, neoc_unspents_free),
    neoc_neo_get_unspents_response_create |->
        Adopting(neoc_neo_get_unspents_response_create, neoc_neo_get_unspents_response_free, {"result"}, neoc_unspents_free),
    neoc_unspents_from_json |-> Constructor(neoc_unspents_from_json, neoc_unspents_free),
    neoc_neo_get_unspents_response_from_json |->
        Constructor(neoc_neo_get_unspents_response_from_json, neoc_neo_get_unspents_response_free),
    neoc_claimable_claim_create |-> Constructor(neoc_claimable_claim_create, neoc_claimable_claim_free),
    neoc_claimables_create |-> Constructor(neoc_claimables_create, neoc_claimables_free),
    neoc_neo_get_claimable_create |->
        Adopting(neoc_neo_get_claimable_create, neoc_neo_get_claimable_free, {"result"}, neoc_claimables_free),
    neoc_neo_get_claimable_from_json |-> Constructor(neoc_neo_get_claimable_from_json, neoc_neo_get_claimable_free),
    neoc_neo_get_claimable_to_json |-> Constructor(neoc_neo_get_claimable_to_json, {}),
    neoc_mem_pool_details_create |-> Constructor(neoc_mem_pool_details_create, neoc_mem_pool_details_free),
    neoc_neo_get_mem_pool_create |->
        Adopting(neoc_neo_get_mem_pool_create, neoc_neo_get_mem_pool_free, {"result"}, neoc_mem_pool_details_free),
    neoc_neo_get_mem_pool_from_json |-> Constructor(neoc_neo_get_mem_pool_from_json, neoc_neo_get_mem_pool_free),
    neoc_neo_get_mem_pool_to_json |-> Constructor(neoc_neo_get_mem_pool_to_json, {})]
=============================================================================
