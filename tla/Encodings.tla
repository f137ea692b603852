------------------------------ MODULE Encodings ------------------------------
(* The texts the library makes of bytes and of JSON trees (src/utils/json.c,  *)
(* neoc_hex.c, neoc_base64.c, neoc_base58.c).                                 *)
EXTENDS Procedures

Converted_unchecked == <<Check, Try(self), Use(self)>> \o On(<<Free(self), Null(self)>>, <<Check>>)
(* A buffer of the size the conversion needs, which then converts.            *)
Converted == <<Check, Must(self)>> \o On(<<Free(self), Null(self)>>, <<Check>>)

neoc_hex_encode_alloc == Converted
neoc_hex_decode_alloc == Converted
neoc_base64_encode_alloc == Converted
neoc_base64_decode_alloc == Converted
(* Shrinking the buffer keeps the old one when realloc fails.                 *)
neoc_base58_encode_alloc == Converted \o Ignoring(<<Grow(self)>>)
neoc_base58_decode_alloc == Converted \o Ignoring(<<Grow(self)>>)
neoc_base58_check_encode_alloc == Converted \o Ignoring(<<Grow(self)>>)
neoc_base58_check_decode_alloc == Converted \o Ignoring(<<Grow(self)>>)

neoc_hex_encode_reverse ==
    LET reversed == <<"reversed_data">> IN
    <<Check, Must(self)>> \o On(<<Free(self), Null(self)>>, <<Must(reversed)>> \o Finally(<<Free(reversed)>>, <<Check>>))
neoc_hex_decode_reverse == Converted

text_kept == <<Check, Node(Printed), Must(self), LibcFree(Printed)>>
text_untracked == <<Check, Node(Printed)>> \o On(<<Free(Printed)>>, <<Must(self)>>) \o <<Free(Printed)>>
(* The text cJSON printed, copied.                                            *)
neoc_json_to_string ==
    <<Check, Node(Printed)>> \o On(<<LibcFree(Printed)>>, <<Must(self)>>) \o <<LibcFree(Printed)>>
neoc_json_to_string_formatted == neoc_json_to_string
(* A tree built only to be printed, and one parsed only to be read.           *)
ToText(nodes) ==
    <<Check, Node(root)>> \o Finally(<<Delete(root)>>, nodes \o Make(neoc_json_to_string, self, NoArgs))
FromText(steps) == <<Check, Null(self), Node(root)>> \o Finally(<<Delete(root)>>, steps)

EncodingProcs == [
    neoc_hex_encode_alloc |-> Constructor(neoc_hex_encode_alloc, {}),
    neoc_hex_decode_alloc |-> Constructor(neoc_hex_decode_alloc, {}),
    neoc_base64_encode_alloc |-> Constructor(neoc_base64_encode_alloc, {}),
    neoc_base64_decode_alloc |-> Constructor(neoc_base64_decode_alloc, {}),
    neoc_base58_encode_alloc |-> Constructor(neoc_base58_encode_alloc, {}),
    neoc_base58_decode_alloc |-> Constructor(neoc_base58_decode_alloc, {}),
    neoc_base58_check_encode_alloc |-> Constructor(neoc_base58_check_encode_alloc, {}),
    neoc_base58_check_decode_alloc |-> Constructor(neoc_base58_check_decode_alloc, {}),
    neoc_hex_encode_reverse |-> Constructor(neoc_hex_encode_reverse, {}),
    neoc_hex_decode_reverse |-> Constructor(neoc_hex_decode_reverse, {}),
    neoc_json_to_string |-> Constructor(neoc_json_to_string, {}),
    neoc_json_to_string_formatted |-> Constructor(neoc_json_to_string_formatted, {})]
=============================================================================
