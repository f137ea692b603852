---------------------------- MODULE MCStructures ----------------------------
(* Three data structures that know nothing of each other, one at a time:      *)
(* stack items, the binary writer and reader, and the NEP-6 wallet.           *)
EXTENDS Nep6Wallet, Integers, TLC

CONSTANTS Item, Value, MaxRefs, MaxCount,           \* of StackItems
          Base, MinCapacity, Initial, MaxCapacity, MaxWrites,   \* of Serialization
          a1, a2                                    \* of Nep6Wallet

VARIABLES which, cycles, heap, held, dangling,
          writer, written, torn, reader
itemVars == <<cycles, heap, held, dangling>>
streamVars == <<writer, written, torn, reader>>

(* Numbers at the ends of the ranges they are written in, and the lengths that *)
(* need a prefix and those that do not.                                       *)
As(form, values) == {[form |-> form, value |-> v] : v \in values}
Input ==
    UNION {As("byte", {5}), As("uint16", {Base^2 - 1}), As("uint32", {Base^4 - 1}), As("uint64", {Base^4}),
           As("int16", {-1}), As("int32", {-(Base^4 \div 2)}), As("int64", {-5}),
           As("bool", {TRUE}),
           As("var_int", {Base - 4, Base - 3, Base^2 - 1, Base^2, Base^4 - 1, Base^4}),
           As("var_bytes", {<<>>, <<0, 1, 2, 3, 4>>}), As("var_string", {NULL, <<1, 2>>})}

(* Files without accounts, with one marked, with an address twice and several *)
(* marked, with one missing, and with as many accounts as FirstCapacity.      *)
Account(address, is_default) == [address |-> address, is_default |-> is_default]
MCDocument ==
    {<<>>, <<Account(a1, FALSE), Account(a2, TRUE)>>, <<Account(a1, FALSE), Account(a1, TRUE)>>,
     <<Account(a2, TRUE), Account(a1, TRUE), Account(a2, FALSE)>>, <<Account(a1, FALSE), Account(NULL, TRUE)>>}

Symmetry == Permutations(Item)
Items == INSTANCE StackItems WITH InitialCapacity <- 1, undefined <- dangling
Streams == INSTANCE Serialization

OneInit ==
    /\ which \in {"items", "streams", "wallet"}
    /\ Items!Init /\ Streams!Init /\ Init
    /\ which # "items" => ~cycles
    /\ which # "streams" => writer = Streams!Create(0, FALSE)
OneNext ==
    \/ which = "items" /\ Items!Next /\ UNCHANGED <<which, streamVars, vars>>
    \/ which = "streams" /\ Streams!Next /\ UNCHANGED <<which, itemVars, vars>>
    \/ which = "wallet" /\ Next /\ UNCHANGED <<which, itemVars, streamVars>>
OneSpec == OneInit /\ [][OneNext]_<<which, itemVars, streamVars, vars>>

(* Each structure is as its module says and within the memory it has:         *)
(* stack_item_array_add and stack_item_map_set make room for what they store, *)
(* and the binary writer and reader keep to their buffers.                    *)
WithinRoom == Items!TypeOK /\ Streams!TypeOK /\ TypeOK

(* stack_item.c: a count is the number of the references there are, none to   *)
(* an item that has been freed.                                               *)
CountsAgree == Items!CountsAgree

(* stack_item_unref: what the application can no longer reach has been freed, *)
(* as long as nothing was put below itself.                                   *)
NothingLost == Items!NothingLost

(* stack_item_map_set and stack_item_unref: no call frees an item that the    *)
(* application still owns a reference to.                                     *)
OwnedIsSafe == Items!OwnedIsSafe

(* binary_writer.c and binary_reader.c: a value is read back as it was        *)
(* written, or not at all, whatever calls failed before it.                   *)
RoundTrip == Streams!RoundTrip
=============================================================================
