---------------------------- MODULE MCNeocMemory ----------------------------
(* Instances of NeocMemory for TLC.                                          *)
EXTENDS NeocMemory, TLC

CONSTANTS t1, t2, p1, p2, p3

Symmetric == Permutations({t1, t2}) \cup Permutations({p1, p2, p3})

\* A product within size_t, and one that wraps to a small size.
MCCallocArg == {<<1, 2>>, <<3, 11>>}
\* An allocator with all its functions, and one that only replaces malloc.
MCAllocator ==
    {[malloc_func |-> TRUE, realloc_func |-> TRUE, free_func |-> TRUE],
     [malloc_func |-> TRUE, realloc_func |-> FALSE, free_func |-> FALSE]}

w(uses, n) == [uses |-> uses, max_calls |-> n]

(* Three calls each on the system allocator, two each where memory for an    *)
(* entry may be lacking or allocators are exchanged, and one each, so that   *)
(* one thread frees what the other got, while counters are reset.            *)
Workloads == {w({"calloc"}, 3), w({"lossy"}, 2), w({"allocator"}, 2), w({"disable"}, 1)}
Live == {w({"lossy"}, 2), w({"stats"}, 2)}
Wrapping == {w({"allocator", "calloc"}, 2)}
=============================================================================
