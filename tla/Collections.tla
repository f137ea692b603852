----------------------------- MODULE Collections -----------------------------
(* Arrays of elements and of bytes (src/utils/array.c, bytes.c) and the texts *)
(* made of texts (string.c, decode.c).                                        *)
EXTENDS Encodings

(****************************************************************************)
(* An array owns its elements.  The destructor visits the first n.           *)
(****************************************************************************)
element(i) == <<"self", "elements", i>>
neoc_array_free(n) == Object("elements", {[at |-> <<i>>, by |-> "neoc"] : i \in 1..n})
neoc_array_create == <<Check, Must(self)>> \o On(<<Free(self)>>, <<Must(its("elements"))>>)
neoc_array_resize == <<Grow(its("elements"))>>
(* The third element of an array of two.                                      *)
neoc_array_append == <<Check>> \o If(neoc_array_resize) \o <<Must(element(3))>>
(* Before the first of two elements: they are moved up before the new one is  *)
(* allocated, and the count stays two when that fails.                        *)
neoc_array_insert ==
    <<Check>> \o If(neoc_array_resize) \o
    <<Copy(element(2), element(3)), Copy(element(1), element(2))>> \o
    On(<<Null(element(3))>>, <<Must(element(1))>>)
neoc_array_remove == <<Check, Free(element(1)), Copy(element(2), element(1)), Null(element(2))>>
neoc_array_set == <<Check, Free(element(1)), Null(element(1)), Must(element(1))>>
(* The elements are gone and the count is 0.                                  *)
neoc_array_clear == <<Free(element(1)), Free(element(2)), Null(element(1)), Null(element(2))>>

(****************************************************************************)
(* Arrays of bytes.                                                          *)
(****************************************************************************)
neoc_byte_array_free == Fields({"data"})
neoc_byte_array_create == <<Check, Must(self)>> \o On(<<Free(self)>>, <<Must(its("data"))>>)
neoc_byte_array_from_data == <<Check>> \o neoc_byte_array_create
neoc_byte_array_resize == <<Grow(its("data"))>>
neoc_byte_array_append_bytes == <<Check>> \o If(neoc_byte_array_resize)
neoc_byte_array_append_byte == neoc_byte_array_append_bytes
(* A new array that is filled: it is dropped when one of the parts fails.     *)
filled_with(parts) ==
    <<Check>> \o neoc_byte_array_create \o On(<<Destroy(self, neoc_byte_array_free), Null(self)>>, parts)
neoc_byte_array_concat == filled_with(If(neoc_byte_array_append_bytes) \o If(neoc_byte_array_append_bytes))
neoc_byte_array_concat_byte == filled_with(If(neoc_byte_array_append_bytes) \o neoc_byte_array_append_byte)
neoc_byte_array_prepend_byte == filled_with(neoc_byte_array_append_byte \o If(neoc_byte_array_append_bytes))
neoc_byte_array_slice == filled_with(If(neoc_byte_array_append_bytes))
neoc_byte_array_from_hex_string == filled_with(For(LAMBDA i : <<Check>>))
neoc_byte_array_to_hex_string == <<Check, Must(self)>>
neoc_byte_array_reverse_copy == <<Check>> \o neoc_byte_array_from_data
neoc_byte_array_pad == <<Check>> \o Else(neoc_byte_array_from_data, neoc_byte_array_create)

(****************************************************************************)
(* Texts: each conversion goes through bytes it releases.                    *)
(****************************************************************************)
bytes == <<"bytes">>
neoc_string_clean_hex_prefix == <<Check, Must(self)>>
neoc_string_hex_to_bytes ==
    LET cleaned_hex == <<"cleaned_hex">> IN
    <<Check>> \o Make(neoc_string_clean_hex_prefix, cleaned_hex, NoArgs) \o
    Finally(<<Free(cleaned_hex)>>, Make(neoc_hex_decode_alloc, self, NoArgs))
neoc_string_base64_decode == <<Check>> \o neoc_base64_decode_alloc
neoc_string_base58_decode == <<Check>> \o neoc_base58_decode_alloc
neoc_string_base58_check_decode == <<Check>> \o neoc_base58_check_decode_alloc
neoc_string_to_bytes == <<Check, Must(self)>>
through_bytes(decode, encode) ==
    <<Check>> \o Make(decode, bytes, NoArgs) \o Finally(<<Free(bytes)>>, Make(encode, self, NoArgs))
neoc_string_hex_to_base64 == through_bytes(neoc_string_hex_to_bytes, neoc_base64_encode_alloc)
neoc_string_to_base58 == through_bytes(neoc_string_to_bytes, neoc_base58_encode_alloc)
neoc_string_reverse_hex == through_bytes(neoc_string_hex_to_bytes, neoc_hex_encode_alloc)
neoc_string_is_valid_address == <<Check>> \o Make(neoc_string_base58_decode, bytes, NoArgs) \o Finally(<<Free(bytes)>>, <<Check>>)
neoc_string_is_valid_hex == <<Check>> \o Make(neoc_string_clean_hex_prefix, bytes, NoArgs) \o Finally(<<Free(bytes)>>, <<Check>>)
neoc_string_address_to_script_hash ==
    Call(neoc_string_is_valid_address, self, NoArgs) \o through_bytes(neoc_string_base58_decode, <<Must(self)>>)
neoc_string_to_lowercase == <<Check, Must(self)>>
neoc_string_to_uppercase == <<Check, Must(self)>>
neoc_string_trim == <<Check, Must(self)>>
(* The parts between the delimiters and the one behind the last.              *)
neoc_string_split_free == Pointers({})
neoc_string_split ==
    <<Check, Must(self)>> \o
    On(<<Destroy(self, neoc_string_split_free), Null(self)>>, If(<<Must(<<"self", 1>>)>>) \o <<Must(<<"self", 2>>)>>)

allocate_string_from_format == <<Check, Must(self)>>
neoc_decode_int_to_string == allocate_string_from_format
ensure_json_object == <<Check, Node(root)>> \o On(<<Delete(root)>>, <<Check>>)
neoc_decode_json_string_field == <<Check>> \o ensure_json_object \o Finally(<<Delete(root)>>, <<Check, Must(self)>>)
(* A number, or a text that is one.                                           *)
neoc_decode_json_int_field == <<Check>> \o ensure_json_object \o Finally(<<Delete(root)>>, <<Check>>)
neoc_decode_json_bool_field == <<Check>> \o ensure_json_object \o Finally(<<Delete(root)>>, <<Check>>)

two_elements == neoc_array_free(2)
CollectionProcs == [
    neoc_array_create |-> Constructor(neoc_array_create, two_elements),
    neoc_array_append |->
        Procedure(Whole(self, two_elements), neoc_array_append, <<Destroy(self, neoc_array_free(3))>>, <<Destroy(self, two_elements)>>),
    neoc_array_insert |->
        Procedure(Whole(self, two_elements), neoc_array_insert, <<Destroy(self, neoc_array_free(3))>>, <<Destroy(self, two_elements)>>),
    neoc_array_remove |-> Method(neoc_array_remove, two_elements, two_elements),
    neoc_array_set |-> Method(neoc_array_set, two_elements, two_elements),
    neoc_array_clear |-> Method(neoc_array_clear, two_elements, two_elements),
    neoc_byte_array_from_data |-> Constructor(neoc_byte_array_from_data, neoc_byte_array_free),
    neoc_byte_array_append_bytes |-> Method(neoc_byte_array_append_bytes, neoc_byte_array_free, neoc_byte_array_free),
    neoc_byte_array_concat |-> Constructor(neoc_byte_array_concat, neoc_byte_array_free),
    neoc_byte_array_concat_byte |-> Constructor(neoc_byte_array_concat_byte, neoc_byte_array_free),
    neoc_byte_array_prepend_byte |-> Constructor(neoc_byte_array_prepend_byte, neoc_byte_array_free),
    neoc_byte_array_slice |-> Constructor(neoc_byte_array_slice, neoc_byte_array_free),
    neoc_byte_array_from_hex_string |-> Constructor(neoc_byte_array_from_hex_string, neoc_byte_array_free),
    neoc_byte_array_to_hex_string |-> Constructor(neoc_byte_array_to_hex_string, {}),
    neoc_byte_array_pad |-> Constructor(neoc_byte_array_pad, neoc_byte_array_free),
    neoc_string_hex_to_bytes |-> Constructor(neoc_string_hex_to_bytes, {}),
    neoc_string_hex_to_base64 |-> Constructor(neoc_string_hex_to_base64, {}),
    neoc_string_to_base58 |-> Constructor(neoc_string_to_base58, {}),
    neoc_string_reverse_hex |-> Constructor(neoc_string_reverse_hex, {}),
    neoc_string_is_valid_hex |-> Task(neoc_string_is_valid_hex),
    neoc_string_address_to_script_hash |-> Constructor(neoc_string_address_to_script_hash, {}),
    neoc_string_trim |-> Constructor(neoc_string_trim, {}),
    neoc_string_split |-> Constructor(neoc_string_split, neoc_string_split_free),
    neoc_decode_int_to_string |-> Constructor(neoc_decode_int_to_string, {}),
    neoc_decode_json_string_field |-> Constructor(neoc_decode_json_string_field, {}),
    neoc_decode_json_int_field |-> Task(neoc_decode_json_int_field)]
=============================================================================
