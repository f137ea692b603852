--------------------------- MODULE Serialization ---------------------------
(* The binary writer and the binary reader (serialization/binary_writer.c,    *)
(* binary_reader.c).  Values are written in the forms the library has; what   *)
(* was written is given to a reader, whole or cut off.  A byte is a digit to  *)
(* base Base, 256 in the code; the prefixes 0xFD, 0xFE and 0xFF of lengths    *)
(* are the last three digits.                                                 *)
EXTENDS Integers, Sequences, FiniteSetsExt, SequencesExt

CONSTANTS Base, MinCapacity,
          Initial,          \* the capacities asked for
          MaxCapacity,      \* malloc gives no larger buffer
          Input,            \* what is written: records of a form and a value
          MaxWrites,        \* calls in one stream: those that succeed or leave something
          NULL

VARIABLES writer,           \* data up to its position, capacity and auto_grow
          written,          \* the values of the calls that succeeded, and where they are
          torn,             \* the calls that failed and left a part of their value
          reader            \* NULL while writing; then data, position and marker
vars == <<writer, written, torn, reader>>

(****************************************************************************)
(* Writing                                                                    *)
(****************************************************************************)
(* Little-endian; a negative number as the unsigned one it is cast to.        *)
Bytes(value, n) == [i \in 1..n |-> ((value % Base^n) \div Base^(i - 1)) % Base]
Width == [byte |-> 1, uint16 |-> 2, uint32 |-> 4, uint64 |-> 8, int16 |-> 2, int32 |-> 4, int64 |-> 8]
Prefix2 == Base - 3
Prefix4 == Base - 2
Prefix8 == Base - 1

(* A value is written in parts; the writer makes room for each on its own.    *)
OneByteTooFew(value) ==         \* mutant: the largest two bytes hold is off by one
    IF value < Prefix2 THEN <<<<value>>>>
    ELSE IF value <= Base^2 THEN <<<<Prefix2>>, Bytes(value, 2)>>
    ELSE IF value <= Base^4 - 1 THEN <<<<Prefix4>>, Bytes(value, 4)>>
    ELSE <<<<Prefix8>>, Bytes(value, 8)>>
write_var_int(value) ==
    IF value < Prefix2 THEN <<<<value>>>>
    ELSE IF value <= Base^2 - 1 THEN <<<<Prefix2>>, Bytes(value, 2)>>
    ELSE IF value <= Base^4 - 1 THEN <<<<Prefix4>>, Bytes(value, 4)>>
    ELSE <<<<Prefix8>>, Bytes(value, 8)>>
write_var_bytes(data) == write_var_int(Len(data)) \o (IF data = <<>> THEN <<>> ELSE <<data>>)
write_var_string(str) == IF str = NULL THEN write_var_int(0) ELSE write_var_bytes(str)
Parts(in) ==
    CASE in.form \in DOMAIN Width -> <<Bytes(in.value, Width[in.form])>>
      [] in.form = "bool" -> <<<<IF in.value THEN 1 ELSE 0>>>>
      [] in.form = "var_int" -> write_var_int(in.value)
      [] in.form = "var_bytes" -> write_var_bytes(in.value)
      [] in.form = "var_string" -> write_var_string(in.value)

(* ensure_capacity: the capacity when there is room for n more bytes, 0 when  *)
(* the buffer may not grow; it is doubled until they fit.                     *)
Doubled(capacity, needed) ==
    LET from[c \in 1..(2 * needed)] == IF c >= needed THEN c ELSE from[2 * c] IN from[2 * capacity]
OneByteShort(w, n) ==           \* mutant: one byte more than there is room for
    IF Len(w.data) + n <= w.capacity + 1 THEN w.capacity
    ELSE IF w.auto_grow THEN Doubled(w.capacity, Len(w.data) + n) ELSE 0
ensure_capacity(w, n) ==
    IF Len(w.data) + n <= w.capacity THEN w.capacity
    ELSE IF w.auto_grow THEN Doubled(w.capacity, Len(w.data) + n) ELSE 0
(* The writer after a part, and whether the part is there: not when realloc   *)
(* gives nothing.                                                             *)
Put(w, part, memory) ==
    LET c == ensure_capacity(w, Len(part)) IN
    IF c = 0 \/ c > MaxCapacity \/ (c > w.capacity /\ ~memory) THEN [ok |-> FALSE, w |-> w]
    ELSE [ok |-> TRUE, w |-> [w EXCEPT !.data = @ \o part, !.capacity = c]]
(* The call returns at the first part that fails.                             *)
PutAll(w, parts, memory) ==
    FoldLeft(LAMBDA done, part : IF done.ok THEN Put(done.w, part, memory) ELSE done, [ok |-> TRUE, w |-> w], parts)

Create(capacity, auto_grow) ==
    [data |-> <<>>, capacity |-> IF capacity > MinCapacity THEN capacity ELSE MinCapacity, auto_grow |-> auto_grow]
Write(in, memory) ==
    /\ reader = NULL /\ Len(written) + torn < MaxWrites
    /\ LET put == PutAll(writer, Parts(in), memory) IN
       /\ writer' = put.w
       /\ written' = IF put.ok THEN Append(written, [form |-> in.form, value |-> in.value, at |-> Len(writer.data)]) ELSE written
       /\ torn' = IF put.ok \/ put.w.data = writer.data THEN torn ELSE torn + 1
    /\ UNCHANGED reader
neoc_binary_writer_reset ==
    /\ reader = NULL /\ writer.data # <<>>
    /\ writer' = [writer EXCEPT !.data = <<>>]
    /\ written' = <<>> /\ torn' = 0
    /\ UNCHANGED reader

(****************************************************************************)
(* Reading                                                                    *)
(****************************************************************************)
Number(bytes) ==
    LET upto[i \in 0..Len(bytes)] == IF i = 0 THEN 0 ELSE upto[i - 1] + bytes[i] * Base^(i - 1) IN
    upto[Len(bytes)]
Signed(value, n) == IF value >= Base^n \div 2 THEN value - Base^n ELSE value
Failed(position) == [ok |-> FALSE, value |-> NULL, position |-> position]
Result(value, position) == [ok |-> TRUE, value |-> value, position |-> position]
Map(Op(_), r) == IF r.ok THEN [r EXCEPT !.value = Op(r.value)] ELSE r

(* The n bytes at a position, or a failure that does not move it.             *)
read_bytes(data, position, n) ==
    IF position + n > Len(data) THEN Failed(position)
    ELSE Result(SubSeq(data, position + 1, position + n), position + n)
read_number(data, position, n) == Map(Number, read_bytes(data, position, n))
(* A failure behind the prefix leaves the position there.                     *)
read_var_int(data, position) ==
    LET prefix == read_number(data, position, 1) IN
    IF ~prefix.ok \/ prefix.value < Prefix2 THEN prefix
    ELSE read_number(data, prefix.position,
                     CASE prefix.value = Prefix2 -> 2 [] prefix.value = Prefix4 -> 4 [] OTHER -> 8)
(* Without memory for the bytes the position stays behind their length.       *)
read_var_bytes(data, position, memory) ==
    LET len == read_var_int(data, position) IN
    IF ~len.ok \/ (len.value > 0 /\ ~memory) THEN Failed(len.position)
    ELSE read_bytes(data, len.position, len.value)
(* The string ends at the first byte that is 0.                               *)
CString(bytes) ==
    LET zeros == {i \in DOMAIN bytes : bytes[i] = 0} IN
    SubSeq(bytes, 1, IF zeros = {} THEN Len(bytes) ELSE Min(zeros) - 1)
read_var_string(data, position, memory) ==
    LET bytes == read_var_bytes(data, position, memory) IN
    IF memory THEN Map(CString, bytes) ELSE Failed(bytes.position)
Read(data, position, form, memory) ==
    CASE form \in {"byte", "uint16", "uint32", "uint64"} -> read_number(data, position, Width[form])
      [] form \in {"int16", "int32", "int64"} ->
            Map(LAMBDA v : Signed(v, Width[form]), read_number(data, position, Width[form]))
      [] form = "bool" -> Map(LAMBDA v : v # 0, read_number(data, position, 1))
      [] form = "var_int" -> read_var_int(data, position)
      [] form = "var_bytes" -> read_var_bytes(data, position, memory)
      [] form = "var_string" -> read_var_string(data, position, memory)

(* A reader has its own copy of the bytes, of which the end may be missing.   *)
neoc_binary_reader_create(size) ==
    /\ reader = NULL /\ size \in 0..Len(writer.data)
    /\ reader' = [data |-> SubSeq(writer.data, 1, size), position |-> 0, marker |-> NULL]
    /\ UNCHANGED <<writer, written, torn>>
Reading(position) ==
    reader' = [reader EXCEPT !.position = position] /\ UNCHANGED <<writer, written, torn>>
ReadAs(form, memory) == reader # NULL /\ Reading(Read(reader.data, reader.position, form, memory).position)
neoc_binary_reader_seek(position) ==
    reader # NULL /\ position <= Len(reader.data) /\ Reading(position)
neoc_binary_reader_skip(count) ==
    reader # NULL /\ reader.position + count <= Len(reader.data) /\ Reading(reader.position + count)
neoc_binary_reader_mark ==
    /\ reader # NULL
    /\ reader' = [reader EXCEPT !.marker = reader.position]
    /\ UNCHANGED <<writer, written, torn>>
neoc_binary_reader_reset == reader # NULL /\ reader.marker # NULL /\ Reading(reader.marker)

Forms == DOMAIN Width \cup {"bool", "var_int", "var_bytes", "var_string"}
Init ==
    /\ writer \in {Create(capacity, auto_grow) : capacity \in Initial, auto_grow \in BOOLEAN}
    /\ written = <<>> /\ torn = 0 /\ reader = NULL
Next ==
    \/ \E in \in Input, memory \in BOOLEAN : Write(in, memory)
    \/ neoc_binary_writer_reset
    \/ \E cut \in 0..1 : neoc_binary_reader_create(Len(writer.data) - cut)
    \/ \E form \in Forms, memory \in BOOLEAN : ReadAs(form, memory)
    \/ \E position \in 0..1 : neoc_binary_reader_seek(position)
    \/ \E count \in 1..2 : neoc_binary_reader_skip(count)
    \/ neoc_binary_reader_mark \/ neoc_binary_reader_reset
Spec == Init /\ [][Next]_vars

(****************************************************************************)
(* Properties                                                                 *)
(****************************************************************************)
(* The writer stays within its buffer, the reader and its mark within what    *)
(* there is to read, whatever calls failed.                                   *)
TypeOK ==
    /\ Len(writer.data) <= writer.capacity /\ writer.capacity <= MaxCapacity
    /\ ToSet(writer.data) \subseteq 0..(Base - 1) /\ torn \in 0..MaxWrites
    /\ reader # NULL => {reader.position, reader.marker} \subseteq (0..Len(reader.data)) \cup {NULL}

(* binary_writer.c and binary_reader.c: where a value was written, reading    *)
(* the same form gives that value (an absent string as an empty one) and ends *)
(* where the next value begins; it fails only when the end of the value has   *)
(* been cut off.  A call that failed half-way puts the values before and      *)
(* behind it out of step, but no value is read wrongly at its own place.      *)
Meaning(value) == IF value = NULL THEN <<>> ELSE value
RoundTrip ==
    reader # NULL => \A k \in DOMAIN written :
        LET v == written[k]
            r == Read(reader.data, v.at, v.form, TRUE)
            after == IF k = Len(written) THEN Len(writer.data) ELSE written[k + 1].at IN
        IF r.ok THEN r.value = Meaning(v.value) /\ (IF torn > 0 THEN r.position <= after ELSE r.position = after)
        ELSE reader.data # writer.data /\ k = Len(written)
=============================================================================
