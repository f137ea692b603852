----------------------------- MODULE StackItems -----------------------------
(* Stack items with reference counts (protocol/stack_item.c): leaves, arrays  *)
(* and maps that refer to each other.  An application owns references to some *)
(* items and reaches others through them, with stack_item_array_get and       *)
(* stack_item_map_get, which lend a reference and count nothing.              *)
EXTENDS Naturals, Sequences, FiniteSets, FiniteSetsExt, SequencesExt

CONSTANTS Item,             \* addresses
          Value,            \* what leaves contain
          NULL,
          InitialCapacity,  \* of arrays and maps
          MaxRefs,          \* references of the application to one item
          MaxCount          \* elements of an array or entries of a map

VARIABLES cycles,           \* whether the application puts items below themselves
          heap,             \* heap[i]: the item at i, NULL when there is none
          held,             \* held[i]: the references the application owns
          undefined         \* freed memory has been written to
vars == <<cycles, heap, held, undefined>>

Leaf(v) == [type |-> "leaf", ref_count |-> 1, value |-> v, items |-> <<>>, capacity |-> 0]
Container(type) == [type |-> type, ref_count |-> 1, value |-> NULL, items |-> <<>>, capacity |-> InitialCapacity]
Live == {i \in Item : heap[i] # NULL}
(* A map is the sequence of its keys and values in turn.                      *)
Children(h, i) == h[i].items
Below(h, i) ==
    LET next(S) == S \cup UNION {ToSet(Children(h, j)) : j \in {k \in S : h[k] # NULL}}
        up[n \in 0..Cardinality(Item)] == IF n = 0 THEN {i} ELSE next(up[n - 1]) IN
    up[Cardinality(Item)]
Reached == UNION {Below(heap, i) : i \in {j \in Item : held[j] > 0}}

(****************************************************************************)
(* References                                                                 *)
(****************************************************************************)
RefNothing(h, i) == h      \* mutant: a reference is not counted
Ref(h, i) == [h EXCEPT ![i].ref_count = @ + 1]
RECURSIVE stack_item_unref(_, _)
ForgetElements(h, i) ==     \* mutant: the elements of a container are not released
    IF h[i].ref_count > 1 THEN [h EXCEPT ![i].ref_count = @ - 1] ELSE [h EXCEPT ![i] = NULL]
(* At 0 the elements are released one after the other, then the item is freed. *)
stack_item_unref(h, i) ==
    IF h[i].ref_count > 1 THEN [h EXCEPT ![i].ref_count = @ - 1]
    ELSE [FoldLeft(stack_item_unref, [h EXCEPT ![i].ref_count = 0], Children(h, i)) EXCEPT ![i] = NULL]

Keys(m) == {k \in DOMAIN heap[m].items : k % 2 = 1}
(* stack_item_equals: the same item or the same contents; of a map, the same  *)
(* values for the keys of the first.                                          *)
RECURSIVE stack_item_equals(_, _)
Entry(m, key) == {k \in Keys(m) : stack_item_equals(heap[m].items[k], key)}
stack_item_equals(i, j) ==
    \/ i = j
    \/ /\ heap[i].type = heap[j].type
       /\ heap[i].value = heap[j].value
       /\ Len(heap[i].items) = Len(heap[j].items)
       /\ IF heap[i].type = "map"
          THEN \A k \in Keys(i) :
                  LET found == Entry(j, heap[i].items[k]) IN
                  found # {} /\ stack_item_equals(heap[i].items[k + 1], heap[j].items[Min(found) + 1])
          ELSE \A k \in DOMAIN heap[i].items : stack_item_equals(heap[i].items[k], heap[j].items[k])

(****************************************************************************)
(* Calls                                                                      *)
(****************************************************************************)
(* stack_item_create_*, at an address malloc chooses.                         *)
Create(i, item) ==
    /\ heap[i] = NULL
    /\ heap' = [heap EXCEPT ![i] = item]
    /\ held' = [held EXCEPT ![i] = 1]
    /\ UNCHANGED <<cycles, undefined>>
TakeReference(i) ==
    /\ i \in Reached /\ held[i] < MaxRefs
    /\ heap' = Ref(heap, i)
    /\ held' = [held EXCEPT ![i] = @ + 1]
    /\ UNCHANGED <<cycles, undefined>>
(* stack_item_unref and stack_item_free by the application.                   *)
Release(i) ==
    /\ held[i] > 0
    /\ heap' = stack_item_unref(heap, i)
    /\ held' = [held EXCEPT ![i] = @ - 1]
    /\ UNCHANGED <<cycles, undefined>>

(* The array or map has room, or is given twice the room.                     *)
Count(i) == IF heap[i].type = "map" THEN Len(heap[i].items) \div 2 ELSE Len(heap[i].items)
Capacity(i) == IF Count(i) >= heap[i].capacity THEN 2 * heap[i].capacity ELSE heap[i].capacity
PutBelow(i, j) == cycles \/ i \notin Below(heap, j)
stack_item_array_add(a, i) ==
    /\ {a, i} \subseteq Reached /\ heap[a].type = "array" /\ PutBelow(a, i)
    /\ Count(a) < MaxCount
    /\ heap' = [Ref(heap, i) EXCEPT ![a].items = Append(@, i), ![a].capacity = Capacity(a)]
    /\ UNCHANGED <<cycles, held, undefined>>

ReplaceKeeping(m, key, value) ==    \* mutant: the value that was there keeps its reference
    LET k == Min(Entry(m, key)) IN
    heap' = [Ref(heap, value) EXCEPT ![m].items[k + 1] = value] /\ UNCHANGED undefined
(* A key that is there: its value is released, then the new one referred to.  *)
(* When the release frees the new value, its count is written after that.     *)
Replace(m, key, value) ==
    LET k == Min(Entry(m, key))
        released == stack_item_unref(heap, heap[m].items[k + 1]) IN
    IF released[value] = NULL
    THEN heap' = [released EXCEPT ![m].items[k + 1] = value] /\ undefined' = TRUE
    ELSE heap' = [Ref(released, value) EXCEPT ![m].items[k + 1] = value] /\ UNCHANGED undefined
AddEntry(m, key, value) ==
    /\ Count(m) < MaxCount
    /\ heap' = [Ref(Ref(heap, key), value) EXCEPT ![m].items = @ \o <<key, value>>, ![m].capacity = Capacity(m)]
    /\ UNCHANGED undefined
stack_item_map_set(m, key, value) ==
    /\ {m, key, value} \subseteq Reached /\ heap[m].type = "map"
    /\ PutBelow(m, key) /\ PutBelow(m, value) /\ (cycles => heap[key].type = "leaf")
    /\ IF Entry(m, key) # {} THEN Replace(m, key, value) ELSE AddEntry(m, key, value)
    /\ UNCHANGED <<cycles, held>>

Init == cycles \in BOOLEAN /\ heap = [i \in Item |-> NULL] /\ held = [i \in Item |-> 0] /\ undefined = FALSE
(* Behind undefined behaviour nothing is said.                                *)
Next ==
    \/ /\ ~undefined
       /\ \/ \E i \in Item :
              \/ \E v \in Value : Create(i, Leaf(v))
              \/ \E type \in {"array", "map"} : Create(i, Container(type))
              \/ TakeReference(i) \/ Release(i)
          \/ \E i, j \in Item : stack_item_array_add(i, j)
          \/ \E m, key, value \in Item : stack_item_map_set(m, key, value)
    \/ undefined /\ UNCHANGED vars
    \/ Live = Item /\ UNCHANGED vars        \* stack_item_create_* returns NULL
Spec == Init /\ [][Next]_vars

(****************************************************************************)
(* Properties                                                                 *)
(****************************************************************************)
(* Items are leaves, arrays or maps with room for what they contain.          *)
TypeOK ==
    /\ held \in [Item -> 0..MaxRefs] /\ undefined \in BOOLEAN
    /\ \A i \in Live :
        /\ heap[i].type \in {"leaf", "array", "map"} /\ heap[i].items \in Seq(Item)
        /\ Count(i) <= heap[i].capacity

(* stack_item.c: a count is the number of the references there are: those of  *)
(* the application and those of live arrays and maps, keys included; to an    *)
(* item that has been freed there are none.                                   *)
References(i) ==
    held[i] + MapThenSumSet(LAMBDA j : Cardinality({k \in DOMAIN heap[j].items : heap[j].items[k] = i}), Live)
CountsAgree ==
    ~undefined => \A i \in Item : References(i) = IF heap[i] = NULL THEN 0 ELSE heap[i].ref_count

(* stack_item_unref: an item that the application can no longer reach has     *)
(* been freed, as long as none was put below itself.                          *)
NothingLost == ~undefined /\ ~cycles => Live \subseteq Reached

(* stack_item_unref, stack_item_map_set: no call frees an item of which the   *)
(* application still owns a reference; stack_item_map_set writes to freed     *)
(* memory only when it was given a value that the application does not own.   *)
OwnedIsSafe == [][\A i \in Item : held'[i] > 0 => heap'[i] # NULL]_vars
=============================================================================
