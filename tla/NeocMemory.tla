----------------------------- MODULE NeocMemory -----------------------------
(***************************************************************************)
(* The allocation layer of NeoC, src/src/neoc_memory.c: every other part   *)
(* of the library allocates through it, from any thread.  It keeps a       *)
(* linked list of live blocks (alloc_head) under a spin lock (alloc_lock)  *)
(* and six atomic counters that no lock protects.  A thread's call is a   *)
(* sequence of steps, one per shared access, named by its pc.              *)
(***************************************************************************)
EXTENDS Integers, Sequences, FiniteSets, SequencesExt

CONSTANTS
    Thread,         \* threads that call the library
    Ptr,            \* addresses the system heap can hand out
    Size,           \* block sizes callers ask for
    CallocArg,      \* <<count, size>> arguments of neoc_calloc
    Allocator,      \* allocators that neoc_set_allocator may install
    SizeMod,        \* SIZE_MAX + 1
    NoPtr,          \* the NULL pointer
    Workload        \* what a program uses, and the bound on the calls a thread makes

ASSUME SizeAssumption ==
    /\ SizeMod \in Nat \ {0}
    /\ Size \subseteq 1 .. (SizeMod - 1)
    /\ CallocArg \subseteq Nat \X Nat
ASSUME PtrAssumption == NoPtr \notin Ptr
ASSUME AllocatorAssumption ==
    Allocator \subseteq [malloc_func : BOOLEAN, realloc_func : BOOLEAN, free_func : BOOLEAN]

(* neoc_calloc; allocators of its own; a heap that may have no room for an   *)
(* entry; two functions of the NEOC_DEBUG_MEMORY build.                      *)
Uses == {"calloc", "allocator", "lossy", "disable", "stats"}

ASSUME WorkloadAssumption == Workload \subseteq [uses : SUBSET Uses, max_calls : Nat]

VARIABLES
    heap,               \* external: the live blocks of the C heap and their sizes
    user,               \* pointers callers hold and the bytes they asked for
    stats,              \* memory_stats_t
    custom_allocator,   \* which of its function pointers are set
    alloc_head,         \* the list of tracked blocks, head first
    alloc_lock,         \* the spin lock
    pc, loc,            \* per thread: next step, locals of the call
    calls,              \* per thread: calls begun so far
    work                \* the workload, chosen once

vars == <<heap, user, stats, custom_allocator, alloc_head, alloc_lock, pc, loc, calls, work>>
shared == <<heap, user, stats, custom_allocator, alloc_head, alloc_lock>>

system == [malloc_func |-> FALSE, realloc_func |-> FALSE, free_func |-> FALSE]

memory_stats_t ==
    [total_allocated : Nat, total_freed : Nat, current_usage : Nat,
     peak_usage : Nat, allocation_count : Nat, free_count : Nat]

zero_stats ==
    [total_allocated |-> 0, total_freed |-> 0, current_usage |-> 0,
     peak_usage |-> 0, allocation_count |-> 0, free_count |-> 0]

alloc_entry_t == [ptr : Ptr, size : Nat]

(* The locals of a call.  op: the function entered; ptr, size, want: the     *)
(* block and the bytes asked for; custom: using_custom_allocator() when it   *)
(* was read; old, had: what untrack_allocation found; next: the list as read *)
(* inside the critical section; seen: a counter loaded earlier.              *)
Locals ==
    [op : {"none", "alloc", "realloc", "retrack", "free", "count", "stats"},
     ptr : Ptr \cup {NoPtr}, size : Nat, want : Nat, custom : BOOLEAN,
     old : Nat, had : BOOLEAN, next : Seq(alloc_entry_t), seen : Nat]

no_locals ==
    [op |-> "none", ptr |-> NoPtr, size |-> 0, want |-> 0, custom |-> FALSE,
     old |-> 0, had |-> FALSE, next |-> <<>>, seen |-> 0]

Labels ==
    {"idle", "alloc", "ret", "count", "t_entry", "t_lock", "t_read", "t_write", "t_rel",
     "total", "usage", "ld_cur", "ld_peak", "st_peak", "u_lock", "u_find", "u_write", "u_rel",
     "realloc", "f_func", "f_free", "frees", "freed", "unuse", "done", "g_frees", "g_blocks"}

using_custom_allocator ==
    custom_allocator.malloc_func \/ custom_allocator.realloc_func \/ custom_allocator.free_func

(* Functions whose domain grows and shrinks: the heap, the callers' blocks.  *)
With(f, p, v) == [q \in DOMAIN f \cup {p} |-> IF q = p THEN v ELSE f[q]]
Without(f, p) == [q \in DOMAIN f \ {p} |-> f[q]]

add(n, m) == (n + m) % SizeMod
sub(n, m) == (n - m) % SizeMod

Goto(t, l) == pc' = [pc EXCEPT ![t] = l]
Return(t) == Goto(t, "idle") /\ loc' = [loc EXCEPT ![t] = no_locals]

(* A call begins: its parameters become locals.                              *)
Enter(t, l, r) ==
    /\ pc[t] = "idle" /\ calls[t] < work.max_calls
    /\ calls' = [calls EXCEPT ![t] = @ + 1]
    /\ loc' = [loc EXCEPT ![t] = r]
    /\ Goto(t, l)
    /\ UNCHANGED <<heap, stats, custom_allocator, alloc_head, alloc_lock, work>>

(* One atomic operation on one counter, then on to label l.                  *)
Counter(t, from, s, l) ==
    /\ pc[t] = from
    /\ stats' = s
    /\ Goto(t, l)
    /\ UNCHANGED <<heap, user, custom_allocator, alloc_head, alloc_lock, loc, calls, work>>

-----------------------------------------------------------------------------
(* neoc_malloc and neoc_calloc.                                              *)

neoc_malloc(t, n) ==
    /\ n > 0
    /\ Enter(t, "alloc", [no_locals EXCEPT !.op = "alloc", !.size = n, !.want = n,
                                           !.custom = using_custom_allocator])
    /\ UNCHANGED user

neoc_calloc(t, count, n) ==
    /\ count > 0 /\ n > 0
    /\ Enter(t, "alloc", [no_locals EXCEPT !.op = "alloc", !.size = (count * n) % SizeMod,
                                           !.want = count * n,
                                           !.custom = using_custom_allocator])
    /\ UNCHANGED user

(* The duplicating helpers allocate the length of what they copy.            *)
neoc_strdup(t, len) == neoc_malloc(t, len + 1)
neoc_strndup(t, len, n) == neoc_malloc(t, (IF len > n THEN n ELSE len) + 1)
neoc_memdup(t, n) == neoc_malloc(t, n)

(* Mutant: malloc(total) in place of calloc(count, size).                    *)
fits_unchecked(t) == TRUE

fits(t) == custom_allocator.malloc_func \/ loc[t].want < SizeMod

(* malloc_func(total), or the system's malloc/calloc; calloc refuses a       *)
(* product that does not fit size_t, malloc_func is given the wrapped one.   *)
system_alloc(t) ==
    /\ pc[t] = "alloc"
    /\ \/ /\ fits(t)
          /\ \E p \in Ptr \ DOMAIN heap :
                /\ heap' = With(heap, p, loc[t].size)
                /\ loc' = [loc EXCEPT ![t].ptr = p]
          /\ Goto(t, IF loc[t].custom THEN "ret" ELSE "count")
       \/ Return(t) /\ UNCHANGED heap
    /\ UNCHANGED <<user, stats, custom_allocator, alloc_head, alloc_lock, calls, work>>

count_allocation(t) ==
    Counter(t, "count", [stats EXCEPT !.allocation_count = add(@, 1)], "t_entry")

(* Mutant: the block is handed out before its bytes are counted.             *)
after_track_early(t) == "ret"

(* After track_allocation: a failed realloc that re-tracked its old block    *)
(* returns; an allocation goes on to its statistics.                         *)
after_track(t) == IF loc[t].op = "retrack" THEN "ret" ELSE "total"

(* track_allocation: an entry that cannot be allocated leaves the block      *)
(* untracked, silently.                                                      *)
track_entry(t) ==
    /\ pc[t] = "t_entry"
    /\ \/ Goto(t, "t_lock")
       \/ "lossy" \in work.uses /\ Goto(t, after_track(t))
    /\ UNCHANGED <<shared, loc, calls, work>>

acquire_if(t, free) ==
    /\ pc[t] \in {"t_lock", "u_lock"}
    /\ free
    /\ alloc_lock' = TRUE
    /\ Goto(t, IF pc[t] = "t_lock" THEN "t_read" ELSE "u_find")
    /\ UNCHANGED <<heap, user, stats, custom_allocator, alloc_head, loc, calls, work>>

(* Mutant: the critical sections are not exclusive.                          *)
acquire_unguarded(t) == acquire_if(t, TRUE)

(* while (atomic_flag_test_and_set(&alloc_lock)).                            *)
alloc_lock_acquire(t) == acquire_if(t, ~alloc_lock)

alloc_lock_release(t, l) ==
    /\ alloc_lock' = FALSE
    /\ loc' = [loc EXCEPT ![t].next = <<>>]
    /\ Goto(t, l)
    /\ UNCHANGED <<heap, user, stats, custom_allocator, alloc_head, calls, work>>

(* entry->next = alloc_head; alloc_head = entry; release.                    *)
track_read(t) ==
    /\ pc[t] = "t_read"
    /\ loc' = [loc EXCEPT ![t].next = alloc_head]
    /\ Goto(t, "t_write")
    /\ UNCHANGED <<shared, calls, work>>

(* Mutant: entry->ptr is left unset.                                         *)
entry_unset(t) == [ptr |-> NoPtr, size |-> loc[t].size]

entry(t) ==
    [ptr |-> loc[t].ptr, size |-> IF loc[t].op = "retrack" THEN loc[t].old ELSE loc[t].size]

track_write(t) ==
    /\ pc[t] = "t_write"
    /\ alloc_head' = <<entry(t)>> \o loc[t].next
    /\ Goto(t, "t_rel")
    /\ UNCHANGED <<heap, user, stats, custom_allocator, alloc_lock, loc, calls, work>>

(* Mutant: track_allocation returns with the lock held.                      *)
track_keeps_lock(t) == pc[t] = "t_rel" /\ Goto(t, after_track(t)) /\ UNCHANGED <<shared, loc, calls, work>>

track_release(t) == pc[t] = "t_rel" /\ alloc_lock_release(t, after_track(t))

add_total(t) ==
    Counter(t, "total", [stats EXCEPT !.total_allocated = add(@, loc[t].size)], "usage")

(* Only neoc_malloc and neoc_calloc go on to the peak; neoc_realloc goes on  *)
(* to account for the block it replaced, if that one was tracked.            *)
add_usage(t) ==
    Counter(t, "usage", [stats EXCEPT !.current_usage = add(@, loc[t].size)],
            CASE loc[t].op = "alloc" -> "ld_cur"
              [] loc[t].op # "alloc" /\ loc[t].had /\ loc[t].old > 0 -> "frees"
              [] OTHER -> "ret")

load_current(t) ==
    /\ pc[t] = "ld_cur"
    /\ loc' = [loc EXCEPT ![t].seen = stats.current_usage]
    /\ Goto(t, "ld_peak")
    /\ UNCHANGED <<shared, calls, work>>

load_peak(t) ==
    Counter(t, "ld_peak", stats, IF loc[t].seen > stats.peak_usage THEN "st_peak" ELSE "ret")

store_peak(t) ==
    Counter(t, "st_peak", [stats EXCEPT !.peak_usage = loc[t].seen], "ret")

(* The caller receives the pointer and the bytes it asked for; after a       *)
(* failed realloc it still holds the old block.                              *)
return_ptr(t) ==
    /\ pc[t] = "ret"
    /\ user' = With(user, loc[t].ptr, loc[t].want)
    /\ Return(t)
    /\ UNCHANGED <<heap, stats, custom_allocator, alloc_head, alloc_lock, calls, work>>

-----------------------------------------------------------------------------
(* untrack_allocation, neoc_realloc and neoc_free.                           *)

positions(list, p) == {i \in 1 .. Len(list) : list[i].ptr = p}

(* The traversal stops at the first entry of the block, if it has one.       *)
untrack_find(t) ==
    /\ pc[t] = "u_find"
    /\ \/ /\ positions(alloc_head, loc[t].ptr) = {}
          /\ Goto(t, "u_rel")
          /\ UNCHANGED loc
       \/ \E i \in positions(alloc_head, loc[t].ptr) :
             /\ \A j \in positions(alloc_head, loc[t].ptr) : i <= j
             /\ loc' = [loc EXCEPT ![t] = [@ EXCEPT !.had = TRUE, !.old = alloc_head[i].size,
                                                    !.next = RemoveAt(alloc_head, i)]]
             /\ Goto(t, "u_write")
    /\ UNCHANGED <<shared, calls, work>>

untrack_write(t) ==
    /\ pc[t] = "u_write"
    /\ alloc_head' = loc[t].next
    /\ Goto(t, "u_rel")
    /\ UNCHANGED <<heap, user, stats, custom_allocator, alloc_lock, loc, calls, work>>

untrack_release(t) ==
    /\ pc[t] = "u_rel"
    /\ alloc_lock_release(t, IF loc[t].op = "free" THEN "f_free" ELSE "realloc")

(* neoc_realloc(NULL, n) is neoc_malloc and neoc_realloc(p, 0) is neoc_free. *)
neoc_realloc(t, p, n) ==
    /\ p \in DOMAIN user
    /\ n > 0
    /\ Enter(t, IF using_custom_allocator THEN "realloc" ELSE "u_lock",
             [no_locals EXCEPT !.op = "realloc", !.ptr = p, !.size = n, !.want = user[p],
                               !.custom = using_custom_allocator])
    /\ user' = Without(user, p)

realloc_failed(t) == [loc EXCEPT ![t].op = "retrack"]

(* realloc_func or the system's realloc: grows in place, moves, or fails and *)
(* leaves the old block as it was.                                           *)
system_realloc(t) ==
    /\ pc[t] = "realloc"
    /\ \/ \E q \in (Ptr \ DOMAIN heap) \cup {loc[t].ptr} :
             /\ heap' = With(Without(heap, loc[t].ptr), q, loc[t].size)
             /\ loc' = [loc EXCEPT ![t] = [@ EXCEPT !.ptr = q, !.want = loc[t].size]]
             /\ Goto(t, IF loc[t].custom THEN "ret" ELSE "count")
       \/ /\ UNCHANGED heap
          /\ loc' = realloc_failed(t)
          /\ Goto(t, IF loc[t].had THEN "t_entry" ELSE "ret")
    /\ UNCHANGED <<user, stats, custom_allocator, alloc_head, alloc_lock, calls, work>>

neoc_free(t, p) ==
    /\ p \in DOMAIN user
    /\ Enter(t, "f_func", [no_locals EXCEPT !.op = "free", !.ptr = p,
                                            !.custom = using_custom_allocator])
    /\ user' = Without(user, p)

(* Clears the block, then frees it.                                          *)
neoc_secure_free(t, p) == neoc_free(t, p)

(* free(ptr) or free_func(ptr); the statistics follow only when no custom    *)
(* allocator was set as the call began.                                      *)
release_block(t) ==
    /\ heap' = Without(heap, loc[t].ptr)
    /\ IF loc[t].custom THEN Return(t) ELSE Goto(t, "frees") /\ UNCHANGED loc
    /\ UNCHANGED <<user, stats, custom_allocator, alloc_head, alloc_lock, calls, work>>

(* Mutant: the block goes back to the heap while its entry is still listed.  *)
free_before_untrack(t) ==
    /\ pc[t] = "f_func"
    /\ heap' = Without(heap, loc[t].ptr)
    /\ Goto(t, "u_lock")
    /\ UNCHANGED <<user, stats, custom_allocator, alloc_head, alloc_lock, loc, calls, work>>

(* free_func gets the block at once: the list is not consulted.              *)
custom_free(t) ==
    /\ pc[t] = "f_func"
    /\ \/ custom_allocator.free_func /\ release_block(t)
       \/ ~custom_allocator.free_func /\ Goto(t, "u_lock") /\ UNCHANGED <<shared, loc, calls, work>>

system_free(t) == pc[t] = "f_free" /\ release_block(t)

(* Shared tail of neoc_free and of a neoc_realloc that replaced a block.     *)
count_free(t) ==
    Counter(t, "frees", [stats EXCEPT !.free_count = add(@, 1)],
            IF loc[t].had THEN "freed" ELSE "done")

(* Mutant: the bytes are counted as freed but stay in use.                   *)
free_usage_skipped(t) ==
    Counter(t, "freed", [stats EXCEPT !.total_freed = add(@, loc[t].old)], "done")

(* Mutant: total_freed is not kept.                                          *)
total_freed_skipped(t) == Counter(t, "freed", stats, "unuse")

add_total_freed(t) ==
    Counter(t, "freed", [stats EXCEPT !.total_freed = add(@, loc[t].old)], "unuse")

sub_usage(t) ==
    Counter(t, "unuse", [stats EXCEPT !.current_usage = sub(@, loc[t].old)],
            IF loc[t].op = "free" THEN "done" ELSE "ret")

return_void(t) == pc[t] = "done" /\ Return(t) /\ UNCHANGED <<shared, calls, work>>

-----------------------------------------------------------------------------
(* Configuration and statistics calls.                                       *)

(* custom_allocator is a plain global: nothing stops a thread from setting   *)
(* it while others are inside a call.                                        *)
neoc_set_allocator(a) ==
    /\ custom_allocator' = a
    /\ UNCHANGED <<heap, user, stats, alloc_head, alloc_lock, pc, loc, calls, work>>

neoc_reset_allocator == neoc_set_allocator(system)

(* neoc_memory_debug_disable, only when NEOC_DEBUG_MEMORY is defined, stores  *)
(* to one counter after the other.  Any number of callers may be inside it,  *)
(* each before any of its stores, so that any counter may be the next.       *)
neoc_memory_debug_disable(c) ==
    /\ "disable" \in work.uses
    /\ stats' = [stats EXCEPT ![c] = 0]
    /\ UNCHANGED <<heap, user, custom_allocator, alloc_head, alloc_lock, pc, loc, calls, work>>

(* Mutant: the saturation dropped.                                           *)
difference_wraps(a, f) == sub(a, f)

difference(a, f) == IF a > f THEN a - f ELSE 0

(* neoc_get_allocation_count loads allocation_count, then free_count.  The   *)
(* local old keeps, for the property only, the difference at the first load. *)
neoc_get_allocation_count(t) ==
    /\ Enter(t, "g_frees",
             [no_locals EXCEPT !.op = "count", !.seen = stats.allocation_count,
                               !.old = difference(stats.allocation_count, stats.free_count)])
    /\ UNCHANGED user

reported(t) == difference(loc[t].seen, stats.free_count)

(* neoc_memory_debug_get_stats subtracts two loads without the test; C does  *)
(* not say which operand is loaded first, the model takes the left one.      *)
neoc_memory_debug_get_stats(t) ==
    /\ "stats" \in work.uses
    /\ Enter(t, "g_blocks",
             [no_locals EXCEPT !.op = "stats", !.seen = stats.allocation_count])
    /\ UNCHANGED user

load_free_count(t) ==
    pc[t] \in {"g_frees", "g_blocks"} /\ Return(t) /\ UNCHANGED <<shared, calls, work>>

-----------------------------------------------------------------------------
Init ==
    /\ heap = <<>> /\ user = <<>>
    /\ stats = zero_stats
    /\ custom_allocator = system
    /\ alloc_head = <<>> /\ alloc_lock = FALSE
    /\ pc = [t \in Thread |-> "idle"]
    /\ loc = [t \in Thread |-> no_locals]
    /\ calls = [t \in Thread |-> 0]
    /\ work \in Workload

Call(t) ==
    \/ \E n \in Size : neoc_malloc(t, n)
    \/ "calloc" \in work.uses /\ \E a \in CallocArg : neoc_calloc(t, a[1], a[2])
    \/ \E n \in Size : neoc_strdup(t, n - 1) \/ neoc_memdup(t, n)
    \/ \E n, m \in Size : neoc_strndup(t, n - 1, m - 1)
    \/ \E p \in DOMAIN user : neoc_free(t, p) \/ neoc_secure_free(t, p)
    \/ \E p \in DOMAIN user, n \in Size : neoc_realloc(t, p, n)
    \/ neoc_get_allocation_count(t) \/ neoc_memory_debug_get_stats(t)

Track(t) ==
    \/ track_entry(t) \/ alloc_lock_acquire(t)
    \/ track_read(t) \/ track_write(t) \/ track_release(t)
    \/ untrack_find(t) \/ untrack_write(t) \/ untrack_release(t)

Heap(t) ==
    \/ system_alloc(t) \/ system_realloc(t) \/ custom_free(t) \/ system_free(t)

Count(t) ==
    \/ count_allocation(t) \/ add_total(t) \/ add_usage(t)
    \/ load_current(t) \/ load_peak(t) \/ store_peak(t)
    \/ count_free(t) \/ add_total_freed(t) \/ sub_usage(t)

(* What a thread inside a call does next.                                    *)
Step(t) ==
    \/ Track(t) \/ Heap(t) \/ Count(t)
    \/ return_ptr(t) \/ return_void(t) \/ load_free_count(t)

Configure ==
    \/ "allocator" \in work.uses /\ \E a \in Allocator : neoc_set_allocator(a)
    \/ "allocator" \in work.uses /\ neoc_reset_allocator
    \/ \E c \in DOMAIN stats : neoc_memory_debug_disable(c)

(* The bound on calls is used up and every call has returned.                *)
Finished == (\A t \in Thread : pc[t] = "idle" /\ calls[t] = work.max_calls) /\ UNCHANGED vars

Next == (\E t \in Thread : Call(t) \/ Step(t)) \/ Configure \/ Finished

Spec == Init /\ [][Next]_vars

(* The scheduler runs every thread that can take a step of its call; nothing *)
(* obliges a thread to make another call.                                    *)
FairSpec == Spec /\ \A t \in Thread : WF_vars(Step(t))

-----------------------------------------------------------------------------
TypeOK ==
    /\ DOMAIN heap \subseteq Ptr /\ \A p \in DOMAIN heap : heap[p] \in Nat
    /\ DOMAIN user \subseteq Ptr /\ \A p \in DOMAIN user : user[p] \in Nat
    /\ stats \in memory_stats_t
    /\ custom_allocator \in Allocator \cup {system}
    /\ alloc_head \in Seq(alloc_entry_t)
    /\ alloc_lock \in BOOLEAN
    /\ pc \in [Thread -> Labels]
    /\ loc \in [Thread -> Locals]
    /\ work \in Workload /\ calls \in [Thread -> 0 .. work.max_calls]

NotUsed(S) == work.uses \cap S = {}

(* No call is under way.                                                     *)
Quiet == \A t \in Thread : pc[t] = "idle"

Bytes(f) == FoldFunction(+, 0, f)
TrackedBytes == FoldSeq(LAMBDA e, n : e.size + n, 0, alloc_head)

Critical == {"t_read", "t_write", "t_rel", "u_find", "u_write", "u_rel"}

(* A thread inside track_allocation's or untrack_allocation's critical       *)
(* section holds alloc_lock, and no other thread is inside one.              *)
MutualExclusion ==
    /\ \A t \in Thread : pc[t] \in Critical => alloc_lock
    /\ \A t, u \in Thread : pc[t] \in Critical /\ pc[u] \in Critical => t = u

(* The list never lies: as long as the allocator is not exchanged, each      *)
(* entry is at every instant a live block of that size, and no block has     *)
(* two.  This is why neoc_free and neoc_realloc unlink a block before the    *)
(* heap may hand its address to another thread.                              *)
ListFaithful ==
    NotUsed({"allocator"}) =>
        /\ \A i \in DOMAIN alloc_head :
              /\ alloc_head[i].ptr \in DOMAIN heap
              /\ heap[alloc_head[i].ptr] = alloc_head[i].size
        /\ \A i, j \in DOMAIN alloc_head : alloc_head[i].ptr = alloc_head[j].ptr => i = j

(* Between calls the statistics are those of the live blocks: bytes in use,  *)
(* outstanding allocations, and an entry for every block; unless an entry    *)
(* could not be made, the allocator was exchanged or the counters reset.     *)
QuietExact ==
    Quiet /\ NotUsed({"allocator", "lossy", "disable"}) =>
      /\ stats.current_usage = Bytes(heap)
      /\ difference(stats.allocation_count, stats.free_count) = Cardinality(DOMAIN heap)
      /\ {alloc_head[i].ptr : i \in DOMAIN alloc_head} = DOMAIN heap

(* Whatever happened to entries or allocators, the bytes in use between      *)
(* calls are the bytes allocated minus the bytes freed, and cover the        *)
(* tracked blocks.                                                           *)
QuietBalanced ==
    Quiet /\ NotUsed({"disable"}) =>
      /\ stats.current_usage = sub(stats.total_allocated, stats.total_freed)
      /\ TrackedBytes <= stats.current_usage

(* current_usage never wraps below zero, not even while calls overlap: what  *)
(* neoc_free and neoc_realloc subtract was added before.                     *)
NoUnderflow == NotUsed({"disable"}) => stats.current_usage <= stats.total_allocated

(* A pointer the caller holds is a live block with room for what the caller  *)
(* asked for, count * size included.                                         *)
RequestHonoured ==
    \A p \in DOMAIN user : p \in DOMAIN heap /\ heap[p] >= user[p]

(* neoc_get_allocation_count reads two counters that move under it; it never *)
(* reports more blocks than were outstanding when it began.                  *)
NoPhantomLeak ==
    NotUsed({"disable"}) => \A t \in Thread : pc[t] = "g_frees" => reported(t) <= loc[t].old

(* Every call returns: no path out of track_allocation or untrack_allocation *)
(* keeps the spin lock.                                                      *)
CallsReturn == \A t \in Thread : pc[t] # "idle" ~> pc[t] = "idle"
=============================================================================
