------------------------------ MODULE Responses ------------------------------
(* What the JSON-RPC answers have in common: an envelope with jsonrpc, id,    *)
(* error and result.                                                          *)
EXTENDS Encodings

(* The pointers of an envelope around a result freed by owns.                 *)
Envelope(owns) == Fields({"jsonrpc", "error"}) \cup Object("result", owns)

(* An envelope around a result the caller made.                               *)
AdoptAnd(drop) ==
    <<Check, Must(self)>> \o On(drop, <<Must(its("jsonrpc"))>>) \o
    <<Copy(arg("result"), its("result"))>> \o On(drop, <<Opt(its("error"))>>)
AdoptResult(free) == AdoptAnd(<<Destroy(self, free)>>)

(* Reads an envelope; result reads what an answer without an error holds.     *)
FromJson(free, result) ==
    <<Check>> \o ParseObject \o
    On(<<Delete(root)>>, <<Must(self)>>) \o
    On(<<Destroy(self, free), Delete(root)>>,
       Opts(Its(<<"jsonrpc", "error">>)) \o If(result)) \o
    <<Delete(root)>>

(* Reads an envelope whose strings may stay missing.                          *)
Tolerant(result) ==
    <<Check, Node(root)>> \o On(<<Delete(root)>>, <<Must(self)>>) \o Tries(Its(<<"jsonrpc", "error">>))
    \o result \o <<Delete(root)>>
(* The same, with a result that is given up with the answer when wrong.       *)
Demanding(free, result) == Tolerant(On(<<Destroy(self, free), Delete(root)>>, If(result)))
(* Its result, parsed from the text of that part; what is wrong with it is    *)
(* not reported, the result is then missing.                                  *)
ParsedResult(from_json) ==
    LET text == <<"text">>
        parsed == <<"parsed">> IN
    Ignoring(Make(neoc_json_to_string, text, NoArgs) \o Ignoring(Make(from_json, parsed, NoArgs))
             \o <<Copy(parsed, its("result")), Free(text)>>)

(* Writes an envelope: its error, or else its result.                         *)
Json(path) == root \o path
Written(result) ==
    <<Check, Node(root)>> \o On(<<Delete(root)>>, Else(<<Node(Json(<<"error">>))>>, If(result)))
ToJson(result) == Written(result) \o Render
ToJsonText(result) == Written(result) \o Finally(<<Delete(root)>>, Make(neoc_json_to_string, self, NoArgs))
=============================================================================
