-------------------------- MODULE NeocMemoryProofs --------------------------
(***************************************************************************)
(* Proofs about NeocMemory for any threads, addresses, sizes and bounds.   *)
(***************************************************************************)
EXTENDS NeocMemory, TLAPS

-----------------------------------------------------------------------------
(* The labels at which a call may begin.                                     *)
Entry == {"alloc", "f_func", "realloc", "u_lock", "g_frees", "g_blocks"}

(* Every call of the interface begins outside the critical sections.         *)
LEMMA CallEnters ==
  ASSUME NEW t \in Thread, Call(t)
  PROVE  \E l \in Entry : \E r : Enter(t, l, r)
<1> USE DEF Entry
<1>1. ASSUME NEW n, neoc_malloc(t, n) PROVE \E l \in Entry : \E r : Enter(t, l, r)
  BY <1>1 DEF neoc_malloc
<1>2. ASSUME NEW c, NEW n, neoc_calloc(t, c, n) PROVE \E l \in Entry : \E r : Enter(t, l, r)
  BY <1>2 DEF neoc_calloc
<1>3. ASSUME NEW p, neoc_free(t, p) PROVE \E l \in Entry : \E r : Enter(t, l, r)
  BY <1>3 DEF neoc_free
<1>4. ASSUME NEW p, NEW n, neoc_realloc(t, p, n) PROVE \E l \in Entry : \E r : Enter(t, l, r)
  BY <1>4 DEF neoc_realloc
<1>5. ASSUME neoc_get_allocation_count(t) \/ neoc_memory_debug_get_stats(t)
      PROVE  \E l \in Entry : \E r : Enter(t, l, r)
  BY <1>5 DEF neoc_get_allocation_count, neoc_memory_debug_get_stats
<1> QED
  BY <1>1, <1>2, <1>3, <1>4, <1>5
     DEF Call, neoc_strdup, neoc_strndup, neoc_memdup, neoc_secure_free

-----------------------------------------------------------------------------
(* The spin lock.                                                            *)

LockInv == pc \in [Thread -> Labels] /\ MutualExclusion

(* Every step of the allocation layer keeps the critical sections exclusive. *)
LEMMA LockStep == LockInv /\ [Next]_vars => LockInv'
<1> SUFFICES ASSUME LockInv, [Next]_vars PROVE LockInv'
  OBVIOUS
<1> USE DEF LockInv, MutualExclusion, Critical, Labels, Goto, Return
<1>1. ASSUME NEW t \in Thread, Call(t) PROVE LockInv'
  <2>1. PICK l \in Entry : \E r : Enter(t, l, r)
    BY <1>1, CallEnters
  <2> QED
    BY <2>1, SMTT(60) DEF Enter, Entry
<1>2. ASSUME NEW t \in Thread, Track(t) PROVE LockInv'
  <2>1. CASE track_entry(t)
    BY <2>1 DEF track_entry, after_track, shared
  <2>2. CASE alloc_lock_acquire(t)
    BY <2>2 DEF alloc_lock_acquire, acquire_if
  <2>3. CASE track_read(t)
    BY <2>3 DEF track_read, shared
  <2>4. CASE track_write(t)
    BY <2>4 DEF track_write
  <2>5. CASE track_release(t)
    BY <2>5 DEF track_release, alloc_lock_release, after_track
  <2>6. CASE untrack_find(t)
    BY <2>6 DEF untrack_find, shared
  <2>7. CASE untrack_write(t)
    BY <2>7 DEF untrack_write
  <2>8. CASE untrack_release(t)
    BY <2>8 DEF untrack_release, alloc_lock_release
  <2> QED
    BY <1>2, <2>1, <2>2, <2>3, <2>4, <2>5, <2>6, <2>7, <2>8 DEF Track
<1>3. ASSUME NEW t \in Thread, Heap(t) PROVE LockInv'
  <2>1. CASE system_alloc(t)
    BY <2>1 DEF system_alloc
  <2>2. CASE system_realloc(t)
    <3>1. \E l \in {"ret", "count", "t_entry"} : pc' = [pc EXCEPT ![t] = l]
      BY <2>2, Zenon DEF system_realloc
    <3> QED
      BY <2>2, <3>1 DEF system_realloc
  <2>3. CASE custom_free(t)
    BY <2>3 DEF custom_free, release_block, shared
  <2>4. CASE system_free(t)
    BY <2>4 DEF system_free, release_block
  <2> QED
    BY <1>3, <2>1, <2>2, <2>3, <2>4 DEF Heap
<1>4. ASSUME NEW t \in Thread, Count(t) PROVE LockInv'
  BY <1>4 DEF Count, Counter, count_allocation, add_total, add_usage, load_current, load_peak,
     store_peak, count_free, add_total_freed, sub_usage, shared
<1>5. ASSUME NEW t \in Thread, return_ptr(t) \/ return_void(t) \/ load_free_count(t)
      PROVE  LockInv'
  BY <1>5 DEF return_ptr, return_void, load_free_count, shared
<1>6. CASE Configure
  BY <1>6 DEF Configure, neoc_set_allocator, neoc_reset_allocator, neoc_memory_debug_disable
<1>7. CASE Finished \/ UNCHANGED vars
  BY <1>7 DEF Finished, vars
<1> QED
  BY <1>1, <1>2, <1>3, <1>4, <1>5, <1>6, <1>7 DEF Next, Step

(* alloc_lock makes the list's critical sections exclusive, for any number   *)
(* of threads.                                                               *)
THEOREM Exclusion == Spec => []MutualExclusion
<1>1. Init => LockInv
  BY DEF Init, LockInv, MutualExclusion, Critical, Labels
<1>2. LockInv => MutualExclusion
  BY DEF LockInv
<1> QED
  BY <1>1, <1>2, LockStep, PTL DEF Spec

-----------------------------------------------------------------------------
(* Types.  Entries and callers get loc[t].ptr, so type correctness needs     *)
(* that a call past its allocation has a pointer that is not NULL.           *)

Holding == Labels \ {"idle", "alloc", "g_frees", "g_blocks"}
HasPtr == \A t \in Thread : pc[t] \in Holding => loc[t].ptr \in Ptr
TypeInv == TypeOK /\ HasPtr

(* Arithmetic of size_t stays within the natural numbers.                    *)
LEMMA ModNat == \A n \in Int : n % SizeMod \in Nat
  BY SizeAssumption

(* add and sub, through which every counter moves, give natural numbers.     *)
LEMMA AddSub == \A n, m \in Nat : add(n, m) \in Nat /\ sub(n, m) \in Nat
  BY ModNat DEF add, sub

(* Unlinking an entry leaves a list of entries.                              *)
LEMMA RemoveAtType ==
  ASSUME NEW S, NEW s \in Seq(S), NEW i \in 1 .. Len(s)
  PROVE  RemoveAt(s, i) \in Seq(S)
<1>1. SubSeq(s, 1, i - 1) \in Seq(S)
  OBVIOUS
<1>2. SubSeq(s, i + 1, Len(s)) \in Seq(S)
  OBVIOUS
<1> QED
  BY <1>1, <1>2 DEF RemoveAt

(* The locals before a call, and the test for a custom allocator.            *)
LEMMA NoLocals == no_locals \in Locals /\ using_custom_allocator \in BOOLEAN
<1>1. <<>> \in Seq(alloc_entry_t)
  OBVIOUS
<1>2. no_locals \in Locals
  BY <1>1 DEF no_locals, Locals
<1>3. using_custom_allocator \in BOOLEAN
  BY DEF using_custom_allocator
<1> QED
  BY <1>2, <1>3

(* A call begins with well-typed locals, with a pointer where it needs one,  *)
(* and takes at most one block away from the callers.                        *)
Begins(t, l, r) ==
    /\ Enter(t, l, r)
    /\ l \in Entry /\ r \in Locals
    /\ l \in Holding => r.ptr \in Ptr
    /\ DOMAIN user' \subseteq DOMAIN user
    /\ \A p \in DOMAIN user' : user'[p] = user[p]

(* neoc_malloc of any size begins so.                                        *)
LEMMA MallocBegins ==
  ASSUME TypeInv, NEW t \in Thread, NEW n \in Nat, neoc_malloc(t, n)
  PROVE  \E l, r : Begins(t, l, r)
<1> DEFINE r == [no_locals EXCEPT !.op = "alloc", !.size = n, !.want = n, !.custom = using_custom_allocator]
<1>1. Enter(t, "alloc", r) /\ user' = user
  BY DEF neoc_malloc
<1>2. r \in Locals
  BY NoLocals DEF Locals
<1> HIDE DEF r
<1>3. Begins(t, "alloc", r)
  BY <1>1, <1>2 DEF Begins, Entry, Holding
<1> QED
  BY <1>3

(* neoc_calloc passes on the wrapped product.                                *)
LEMMA CallocBegins ==
  ASSUME TypeInv, NEW t \in Thread, NEW c \in Nat, NEW n \in Nat, neoc_calloc(t, c, n)
  PROVE  \E l, r : Begins(t, l, r)
<1> DEFINE r == [no_locals EXCEPT !.op = "alloc", !.size = (c * n) % SizeMod, !.want = c * n,
                                  !.custom = using_custom_allocator]
<1>1. Enter(t, "alloc", r) /\ user' = user
  BY DEF neoc_calloc
<1>2. c * n \in Nat
  OBVIOUS
<1>3. (c * n) % SizeMod \in Nat
  BY <1>2, ModNat
<1>4. r \in Locals
  BY <1>2, <1>3, NoLocals DEF Locals
<1> HIDE DEF r
<1>5. Begins(t, "alloc", r)
  BY <1>1, <1>4 DEF Begins, Entry, Holding
<1> QED
  BY <1>5

(* neoc_free takes a pointer the caller holds.                               *)
LEMMA FreeBegins ==
  ASSUME TypeInv, NEW t \in Thread, NEW p, neoc_free(t, p)
  PROVE  \E l, r : Begins(t, l, r)
<1> DEFINE r == [no_locals EXCEPT !.op = "free", !.ptr = p, !.custom = using_custom_allocator]
<1>1. Enter(t, "f_func", r) /\ user' = Without(user, p) /\ p \in Ptr
  BY DEF neoc_free, TypeInv, TypeOK
<1>2. r \in Locals /\ r.ptr = p
  BY <1>1, NoLocals DEF Locals
<1> HIDE DEF r
<1>3. Begins(t, "f_func", r)
  BY <1>1, <1>2 DEF Begins, Entry, Without
<1> QED
  BY <1>3

(* neoc_realloc takes a pointer the caller holds.                            *)
LEMMA ReallocBegins ==
  ASSUME TypeInv, NEW t \in Thread, NEW p, NEW n \in Nat, neoc_realloc(t, p, n)
  PROVE  \E l, r : Begins(t, l, r)
<1> DEFINE r == [no_locals EXCEPT !.op = "realloc", !.ptr = p, !.size = n, !.want = user[p],
                                  !.custom = using_custom_allocator]
           l == IF using_custom_allocator THEN "realloc" ELSE "u_lock"
<1>1. Enter(t, l, r) /\ user' = Without(user, p) /\ p \in Ptr /\ user[p] \in Nat
  BY DEF neoc_realloc, TypeInv, TypeOK
<1>2. r \in Locals /\ r.ptr = p
  BY <1>1, NoLocals DEF Locals
<1>3. l \in Entry
  BY DEF Entry
<1> HIDE DEF r, l
<1>4. Begins(t, l, r)
  BY <1>1, <1>2, <1>3 DEF Begins, Without
<1> QED
  BY <1>4

(* The calls that read the counters begin with what they loaded.             *)
LEMMA LoadBegins ==
  ASSUME TypeInv, NEW t \in Thread, neoc_get_allocation_count(t) \/ neoc_memory_debug_get_stats(t)
  PROVE  \E l, r : Begins(t, l, r)
<1> DEFINE c == [no_locals EXCEPT !.op = "count", !.seen = stats.allocation_count,
                                  !.old = difference(stats.allocation_count, stats.free_count)]
           g == [no_locals EXCEPT !.op = "stats", !.seen = stats.allocation_count]
<1>1. (Enter(t, "g_frees", c) \/ Enter(t, "g_blocks", g)) /\ user' = user
  BY DEF neoc_get_allocation_count, neoc_memory_debug_get_stats
<1>2. stats.allocation_count \in Nat /\ stats.free_count \in Nat
  BY DEF TypeInv, TypeOK, memory_stats_t
<1>3. difference(stats.allocation_count, stats.free_count) \in Nat
  BY <1>2 DEF difference
<1>4. c \in Locals /\ g \in Locals
  BY <1>2, <1>3, NoLocals DEF Locals
<1> HIDE DEF c, g
<1>5. Begins(t, "g_frees", c) \/ Begins(t, "g_blocks", g)
  BY <1>1, <1>4 DEF Begins, Entry, Holding
<1> QED
  BY <1>5

(* Every call of the interface begins so.                                    *)
LEMMA CallBegins ==
  ASSUME TypeInv, NEW t \in Thread, Call(t)
  PROVE  \E l, r : Begins(t, l, r)
<1>1. \A n \in Size : n \in Nat /\ n - 1 \in Nat /\ (n - 1) + 1 = n
  BY SizeAssumption
<1>2. ASSUME NEW n \in Size, neoc_malloc(t, n) \/ neoc_strdup(t, n - 1) \/ neoc_memdup(t, n)
      PROVE  \E l, r : Begins(t, l, r)
  BY <1>1, <1>2, MallocBegins DEF neoc_strdup, neoc_memdup
<1>3. ASSUME NEW n \in Size, NEW m \in Size, neoc_strndup(t, n - 1, m - 1)
      PROVE  \E l, r : Begins(t, l, r)
  <2>1. (IF n - 1 > m - 1 THEN m - 1 ELSE n - 1) + 1 \in Nat
    BY <1>1
  <2> QED
    BY <1>3, <2>1, MallocBegins DEF neoc_strndup
<1>4. ASSUME NEW a \in CallocArg, neoc_calloc(t, a[1], a[2]) PROVE \E l, r : Begins(t, l, r)
  BY <1>4, SizeAssumption, CallocBegins
<1>5. ASSUME NEW p \in DOMAIN user, neoc_free(t, p) \/ neoc_secure_free(t, p)
      PROVE  \E l, r : Begins(t, l, r)
  BY <1>5, FreeBegins DEF neoc_secure_free
<1>6. ASSUME NEW p \in DOMAIN user, NEW n \in Size, neoc_realloc(t, p, n)
      PROVE  \E l, r : Begins(t, l, r)
  BY <1>1, <1>6, ReallocBegins
<1> QED
  BY <1>2, <1>3, <1>4, <1>5, <1>6, LoadBegins DEF Call

Blocks(f) == DOMAIN f \subseteq Ptr /\ \A p \in DOMAIN f : f[p] \in Nat

SharedOK ==
    /\ Blocks(heap) /\ Blocks(user) /\ stats \in memory_stats_t
    /\ custom_allocator \in Allocator \cup {system}
    /\ alloc_head \in Seq(alloc_entry_t) /\ alloc_lock \in BOOLEAN

(* A step of one thread keeps the types if it leaves the shared state well   *)
(* typed, goes to a label and has a pointer where the label needs one.       *)
LEMMA StepTypes ==
  ASSUME TypeInv, SharedOK', NEW t \in Thread, NEW l \in Labels, NEW r \in Locals,
         pc' = [pc EXCEPT ![t] = l], loc' = [loc EXCEPT ![t] = r],
         l \in Holding => r.ptr \in Ptr,
         work' = work, calls' \in [Thread -> 0 .. work.max_calls]
  PROVE  TypeInv'
<1>1. pc' \in [Thread -> Labels] /\ loc' \in [Thread -> Locals]
  BY DEF TypeInv, TypeOK
<1>2. TypeOK'
  BY <1>1 DEF TypeInv, TypeOK, SharedOK, Blocks
<1>3. HasPtr'
  BY DEF TypeInv, TypeOK, HasPtr
<1> QED
  BY <1>2, <1>3 DEF TypeInv

(* The same for a step that keeps the locals.                                *)
LEMMA StepKeepsLocals ==
  ASSUME TypeInv, SharedOK', NEW t \in Thread, NEW l \in Labels,
         pc' = [pc EXCEPT ![t] = l], loc' = loc,
         l \in Holding => loc[t].ptr \in Ptr,
         work' = work, calls' = calls
  PROVE  TypeInv'
<1>1. loc[t] \in Locals /\ loc' = [loc EXCEPT ![t] = loc[t]] /\ calls' \in [Thread -> 0 .. work.max_calls]
  BY DEF TypeInv, TypeOK
<1> QED
  BY <1>1, StepTypes

(* A call that returns clears its locals.                                    *)
LEMMA StepReturns ==
  ASSUME TypeInv, SharedOK', NEW t \in Thread, Return(t), work' = work, calls' = calls
  PROVE  TypeInv'
<1>1. calls' \in [Thread -> 0 .. work.max_calls]
  BY DEF TypeInv, TypeOK
<1>2. "idle" \in Labels /\ "idle" \notin Holding
  BY DEF Labels, Holding
<1> QED
  BY <1>1, <1>2, NoLocals, StepTypes DEF Return, Goto

(* What the invariant says of the shared state.                              *)
LEMMA SharedTyped == TypeInv => SharedOK
  BY DEF TypeInv, TypeOK, SharedOK, Blocks

(* Adding and removing a block.                                              *)
LEMMA BlocksChange ==
  ASSUME NEW f, Blocks(f), NEW p
  PROVE  /\ Blocks(Without(f, p))
         /\ p \in Ptr => \A v \in Nat : Blocks(With(f, p, v))
  BY DEF Blocks, With, Without

(* The beginning of a call keeps the types.                                  *)
LEMMA CallTypes ==
  ASSUME TypeInv, NEW t \in Thread, Call(t)
  PROVE  TypeInv'
<1>1. PICK l, r : Begins(t, l, r)
  BY CallBegins
<1>2. SharedOK'
  BY <1>1, SharedTyped DEF Begins, Enter, SharedOK, Blocks
<1>3. calls' \in [Thread -> 0 .. work.max_calls] /\ work' = work
  BY <1>1, WorkloadAssumption DEF Begins, Enter, TypeInv, TypeOK
<1>4. l \in Labels
  BY <1>1 DEF Begins, Entry, Labels
<1> QED
  BY <1>1, <1>2, <1>3, <1>4, StepTypes DEF Begins, Enter, Goto

(* A step on a counter keeps the types.                                      *)
LEMMA CounterTypes ==
  ASSUME TypeInv, NEW t \in Thread, NEW from \in Holding, NEW s \in memory_stats_t, NEW l \in Labels,
         Counter(t, from, s, l)
  PROVE  TypeInv'
<1>1. SharedOK'
  BY SharedTyped DEF Counter, SharedOK
<1>2. loc[t].ptr \in Ptr
  BY DEF Counter, TypeInv, HasPtr
<1> QED
  BY <1>1, <1>2, StepKeepsLocals DEF Counter, Goto

(* All counters, and the load that precedes the peak.                        *)
LEMMA CountTypes ==
  ASSUME TypeInv, NEW t \in Thread, Count(t)
  PROVE  TypeInv'
<1>1. /\ stats \in memory_stats_t /\ loc[t] \in Locals
      /\ loc[t].size \in Nat /\ loc[t].old \in Nat /\ loc[t].seen \in Nat
  BY DEF TypeInv, TypeOK, Locals
<1>2. \A n \in Nat :
        /\ [stats EXCEPT !.allocation_count = add(@, 1)] \in memory_stats_t
        /\ [stats EXCEPT !.total_allocated = add(@, n)] \in memory_stats_t
        /\ [stats EXCEPT !.current_usage = add(@, n)] \in memory_stats_t
        /\ [stats EXCEPT !.peak_usage = n] \in memory_stats_t
        /\ [stats EXCEPT !.free_count = add(@, 1)] \in memory_stats_t
        /\ [stats EXCEPT !.total_freed = add(@, n)] \in memory_stats_t
        /\ [stats EXCEPT !.current_usage = sub(@, n)] \in memory_stats_t
  BY <1>1, AddSub DEF memory_stats_t
<1>3. {"count", "total", "usage", "ld_peak", "st_peak", "frees", "freed", "unuse"} \subseteq Holding
  BY DEF Holding, Labels
<1>4. {"t_entry", "usage", "ld_cur", "frees", "ret", "st_peak", "freed", "done", "unuse"} \subseteq Labels
  BY DEF Labels
<1>5. CASE count_allocation(t)
  BY <1>2, <1>3, <1>4, <1>5, CounterTypes DEF count_allocation
<1>6. CASE add_total(t)
  BY <1>1, <1>2, <1>3, <1>4, <1>6, CounterTypes DEF add_total
<1>7. CASE add_usage(t)
  <2> DEFINE l == CASE loc[t].op = "alloc" -> "ld_cur"
                    [] loc[t].op # "alloc" /\ loc[t].had /\ loc[t].old > 0 -> "frees"
                    [] OTHER -> "ret"
  <2>1. Counter(t, "usage", [stats EXCEPT !.current_usage = add(@, loc[t].size)], l)
    BY <1>7 DEF add_usage
  <2>2. l \in Labels
    BY <1>4
  <2> HIDE DEF l
  <2> QED
    BY <1>1, <1>2, <1>3, <2>1, <2>2, CounterTypes
<1>8. CASE load_current(t)
  <2> DEFINE r == [loc[t] EXCEPT !.seen = stats.current_usage]
  <2>1. stats.current_usage \in Nat
    BY <1>1 DEF memory_stats_t
  <2>2. r \in Locals /\ r.ptr = loc[t].ptr
    BY <1>1, <2>1 DEF Locals
  <2>3. loc' = [loc EXCEPT ![t] = r] /\ pc' = [pc EXCEPT ![t] = "ld_peak"]
    BY <1>8 DEF load_current, Goto
  <2>4. loc[t].ptr \in Ptr /\ "ld_peak" \in Labels
    BY <1>8 DEF load_current, TypeInv, HasPtr, Holding, Labels
  <2>5. SharedOK' /\ work' = work /\ calls' \in [Thread -> 0 .. work.max_calls]
    BY <1>8, SharedTyped DEF load_current, shared, SharedOK, TypeInv, TypeOK
  <2> HIDE DEF r
  <2> QED
    BY <2>2, <2>3, <2>4, <2>5, StepTypes
<1>9. CASE load_peak(t)
  BY <1>1, <1>3, <1>4, <1>9, CounterTypes DEF load_peak
<1>10. CASE store_peak(t)
  BY <1>1, <1>2, <1>3, <1>4, <1>10, CounterTypes DEF store_peak
<1>11. CASE count_free(t)
  BY <1>2, <1>3, <1>4, <1>11, CounterTypes DEF count_free
<1>12. CASE add_total_freed(t)
  BY <1>1, <1>2, <1>3, <1>4, <1>12, CounterTypes DEF add_total_freed
<1>13. CASE sub_usage(t)
  BY <1>1, <1>2, <1>3, <1>4, <1>13, CounterTypes DEF sub_usage
<1> QED
  BY <1>5, <1>6, <1>7, <1>8, <1>9, <1>10, <1>11, <1>12, <1>13 DEF Count

(* Steps that use the heap keep the types.                                   *)
LEMMA HeapTypes ==
  ASSUME TypeInv, NEW t \in Thread, Heap(t)
  PROVE  TypeInv'
<1>1. /\ loc[t] \in Locals /\ loc[t].size \in Nat
      /\ pc[t] \in Holding => loc[t].ptr \in Ptr
      /\ calls \in [Thread -> 0 .. work.max_calls]
  BY DEF TypeInv, TypeOK, HasPtr, Locals
<1>2. {"ret", "count", "t_entry", "frees", "u_lock"} \subseteq Labels
  BY DEF Labels
<1>3. {"realloc", "f_func", "f_free"} \subseteq Holding
  BY DEF Holding, Labels
<1>4. CASE system_alloc(t)
  <2>1. UNCHANGED <<user, stats, custom_allocator, alloc_head, alloc_lock, calls, work>>
    BY <1>4 DEF system_alloc
  <2>2. CASE Return(t) /\ UNCHANGED heap
    <3>1. SharedOK'
      BY <2>1, <2>2, SharedTyped DEF SharedOK
    <3> QED
      BY <2>1, <2>2, <3>1, StepReturns
  <2>3. ASSUME NEW p \in Ptr \ DOMAIN heap, heap' = With(heap, p, loc[t].size),
               loc' = [loc EXCEPT ![t].ptr = p], Goto(t, IF loc[t].custom THEN "ret" ELSE "count")
        PROVE  TypeInv'
    <3> DEFINE r == [loc[t] EXCEPT !.ptr = p]
               l == IF loc[t].custom THEN "ret" ELSE "count"
    <3>1. r \in Locals /\ r.ptr = p /\ loc' = [loc EXCEPT ![t] = r]
      BY <1>1, <2>3 DEF Locals
    <3>2. l \in Labels /\ pc' = [pc EXCEPT ![t] = l]
      BY <1>2, <2>3 DEF Goto
    <3>3. SharedOK'
      BY <1>1, <2>1, <2>3, SharedTyped, BlocksChange DEF SharedOK
    <3> HIDE DEF r, l
    <3> QED
      BY <1>1, <2>1, <3>1, <3>2, <3>3, StepTypes
  <2> QED
    BY <1>4, <2>2, <2>3 DEF system_alloc
<1>5. CASE system_realloc(t)
  <2>1. /\ UNCHANGED <<user, stats, custom_allocator, alloc_head, alloc_lock, calls, work>>
        /\ loc[t].ptr \in Ptr
    BY <1>1, <1>3, <1>5 DEF system_realloc
  <2>2. ASSUME NEW q \in (Ptr \ DOMAIN heap) \cup {loc[t].ptr},
               heap' = With(Without(heap, loc[t].ptr), q, loc[t].size),
               loc' = [loc EXCEPT ![t] = [@ EXCEPT !.ptr = q, !.want = loc[t].size]],
               Goto(t, IF loc[t].custom THEN "ret" ELSE "count")
        PROVE  TypeInv'
    <3> DEFINE r == [loc[t] EXCEPT !.ptr = q, !.want = loc[t].size]
               l == IF loc[t].custom THEN "ret" ELSE "count"
    <3>1. r \in Locals /\ r.ptr = q /\ q \in Ptr /\ loc' = [loc EXCEPT ![t] = r]
      BY <1>1, <2>1, <2>2 DEF Locals
    <3>2. l \in Labels /\ pc' = [pc EXCEPT ![t] = l]
      BY <1>2, <2>2 DEF Goto
    <3>3. SharedOK'
      BY <1>1, <2>1, <2>2, <3>1, SharedTyped, BlocksChange DEF SharedOK
    <3> HIDE DEF r, l
    <3> QED
      BY <1>1, <2>1, <3>1, <3>2, <3>3, StepTypes
  <2>3. ASSUME UNCHANGED heap, loc' = realloc_failed(t), Goto(t, IF loc[t].had THEN "t_entry" ELSE "ret")
        PROVE  TypeInv'
    <3> DEFINE r == [loc[t] EXCEPT !.op = "retrack"]
               l == IF loc[t].had THEN "t_entry" ELSE "ret"
    <3>1. r \in Locals /\ r.ptr = loc[t].ptr /\ loc' = [loc EXCEPT ![t] = r]
      BY <1>1, <2>3 DEF Locals, realloc_failed
    <3>2. l \in Labels /\ pc' = [pc EXCEPT ![t] = l]
      BY <1>2, <2>3 DEF Goto
    <3>3. SharedOK'
      BY <2>1, <2>3, SharedTyped DEF SharedOK
    <3> HIDE DEF r, l
    <3> QED
      BY <1>1, <2>1, <3>1, <3>2, <3>3, StepTypes
  <2> QED
    BY <1>5, <2>2, <2>3 DEF system_realloc
<1>6. ASSUME release_block(t), loc[t].ptr \in Ptr PROVE TypeInv'
  <2>1. SharedOK' /\ UNCHANGED <<calls, work>>
    BY <1>6, SharedTyped, BlocksChange DEF release_block, SharedOK
  <2>2. CASE Return(t)
    BY <2>1, <2>2, StepReturns
  <2>3. CASE Goto(t, "frees") /\ UNCHANGED loc
    BY <1>2, <1>6, <2>1, <2>3, StepKeepsLocals DEF Goto
  <2> QED
    BY <1>6, <2>2, <2>3 DEF release_block
<1>7. CASE custom_free(t)
  <2>1. CASE release_block(t)
    BY <1>1, <1>3, <1>6, <1>7, <2>1 DEF custom_free
  <2>2. CASE Goto(t, "u_lock") /\ UNCHANGED <<shared, loc, calls, work>>
    <3>1. SharedOK'
      BY <2>2, SharedTyped DEF shared, SharedOK
    <3> QED
      BY <1>1, <1>2, <1>3, <1>7, <2>2, <3>1, StepKeepsLocals DEF custom_free, Goto
  <2> QED
    BY <1>7, <2>1, <2>2 DEF custom_free
<1>8. CASE system_free(t)
  BY <1>1, <1>3, <1>6, <1>8 DEF system_free
<1> QED
  BY <1>4, <1>5, <1>7, <1>8 DEF Heap

(* Steps of track_allocation and untrack_allocation keep the types.          *)
LEMMA TrackTypes ==
  ASSUME TypeInv, NEW t \in Thread, Track(t)
  PROVE  TypeInv'
<1>1. /\ loc[t] \in Locals /\ loc[t].size \in Nat /\ loc[t].old \in Nat
      /\ loc[t].next \in Seq(alloc_entry_t) /\ alloc_head \in Seq(alloc_entry_t)
      /\ calls \in [Thread -> 0 .. work.max_calls]
  BY DEF TypeInv, TypeOK, Locals
<1>2. {"t_lock", "ret", "total", "t_read", "u_find", "t_write", "t_rel",
       "u_rel", "u_write", "f_free", "realloc"} \subseteq Labels
  BY DEF Labels
<1>3. loc[t].ptr \in Ptr
  <2>1. pc[t] \in {"t_entry", "t_lock", "u_lock", "t_read", "t_write", "t_rel", "u_find", "u_write", "u_rel"}
    BY DEF Track, track_entry, alloc_lock_acquire, acquire_if, track_read, track_write, track_release,
       untrack_find, untrack_write, untrack_release
  <2> QED
    BY <2>1 DEF TypeInv, HasPtr, Holding, Labels
<1>4. after_track(t) \in Labels
  BY <1>2 DEF after_track
<1>5. CASE track_entry(t)
  <2>1. SharedOK' /\ UNCHANGED <<loc, calls, work>>
    BY <1>5, SharedTyped DEF track_entry, shared, SharedOK
  <2>2. \E l \in Labels : pc' = [pc EXCEPT ![t] = l]
    BY <1>2, <1>4, <1>5 DEF track_entry, Goto
  <2> QED
    BY <1>3, <2>1, <2>2, StepKeepsLocals
<1>6. CASE alloc_lock_acquire(t)
  <2>1. SharedOK' /\ UNCHANGED <<loc, calls, work>>
    BY <1>6, SharedTyped DEF alloc_lock_acquire, acquire_if, SharedOK
  <2>2. \E l \in Labels : pc' = [pc EXCEPT ![t] = l]
    BY <1>2, <1>6 DEF alloc_lock_acquire, acquire_if, Goto
  <2> QED
    BY <1>3, <2>1, <2>2, StepKeepsLocals
<1>7. ASSUME NEW s \in Seq(alloc_entry_t), NEW l \in Labels, SharedOK', UNCHANGED <<calls, work>>,
             loc' = [loc EXCEPT ![t].next = s], Goto(t, l)
      PROVE  TypeInv'
  <2> DEFINE r == [loc[t] EXCEPT !.next = s]
  <2>1. r \in Locals /\ r.ptr = loc[t].ptr /\ loc' = [loc EXCEPT ![t] = r]
    BY <1>1, <1>7 DEF Locals
  <2> HIDE DEF r
  <2> QED
    BY <1>1, <1>3, <1>7, <2>1, StepTypes DEF Goto
<1>8. CASE track_read(t)
  <2>1. SharedOK'
    BY <1>8, SharedTyped DEF track_read, shared, SharedOK
  <2> QED
    BY <1>1, <1>2, <1>7, <1>8, <2>1 DEF track_read
<1>9. CASE track_write(t)
  <2>1. entry(t) \in alloc_entry_t
    BY <1>1, <1>3 DEF entry, alloc_entry_t
  <2>2. <<entry(t)>> \o loc[t].next \in Seq(alloc_entry_t)
    BY <1>1, <2>1
  <2>3. SharedOK'
    BY <1>9, <2>2, SharedTyped DEF track_write, SharedOK
  <2> QED
    BY <1>2, <1>3, <1>9, <2>3, StepKeepsLocals DEF track_write, Goto
<1>10. ASSUME NEW l \in Labels, alloc_lock_release(t, l) PROVE TypeInv'
  <2>1. SharedOK'
    BY <1>10, SharedTyped DEF alloc_lock_release, SharedOK
  <2>2. <<>> \in Seq(alloc_entry_t)
    OBVIOUS
  <2> QED
    BY <1>7, <1>10, <2>1, <2>2 DEF alloc_lock_release
<1>11. CASE track_release(t)
  BY <1>4, <1>10, <1>11 DEF track_release
<1>12. CASE untrack_find(t)
  <2>1. SharedOK' /\ UNCHANGED <<calls, work>>
    BY <1>12, SharedTyped DEF untrack_find, shared, SharedOK
  <2>2. CASE Goto(t, "u_rel") /\ UNCHANGED loc
    BY <1>2, <1>3, <2>1, <2>2, StepKeepsLocals DEF Goto
  <2>3. ASSUME NEW i \in positions(alloc_head, loc[t].ptr), Goto(t, "u_write"),
               loc' = [loc EXCEPT ![t] = [@ EXCEPT !.had = TRUE, !.old = alloc_head[i].size,
                                                   !.next = RemoveAt(alloc_head, i)]]
        PROVE  TypeInv'
    <3> DEFINE r == [loc[t] EXCEPT !.had = TRUE, !.old = alloc_head[i].size, !.next = RemoveAt(alloc_head, i)]
    <3>1. i \in 1 .. Len(alloc_head)
      BY DEF positions
    <3>2. alloc_head[i].size \in Nat
      <4>1. alloc_head[i] \in alloc_entry_t
        BY <1>1, <3>1
      <4> QED
        BY <4>1 DEF alloc_entry_t
    <3>3. RemoveAt(alloc_head, i) \in Seq(alloc_entry_t)
      BY <1>1, <3>1, RemoveAtType
    <3>4. r \in Locals /\ r.ptr = loc[t].ptr
      BY <1>1, <3>2, <3>3 DEF Locals
    <3>5. loc' = [loc EXCEPT ![t] = r]
      BY <2>3
    <3> HIDE DEF r
    <3> QED
      BY <1>1, <1>2, <1>3, <2>1, <2>3, <3>4, <3>5, StepTypes DEF Goto
  <2> QED
    BY <1>12, <2>2, <2>3 DEF untrack_find
<1>13. CASE untrack_write(t)
  <2>1. SharedOK'
    BY <1>1, <1>13, SharedTyped DEF untrack_write, SharedOK
  <2> QED
    BY <1>2, <1>3, <1>13, <2>1, StepKeepsLocals DEF untrack_write, Goto
<1>14. CASE untrack_release(t)
  BY <1>2, <1>10, <1>14 DEF untrack_release
<1> QED
  BY <1>5, <1>6, <1>8, <1>9, <1>11, <1>12, <1>13, <1>14 DEF Track

(* Every step of the allocation layer keeps the types.                       *)
LEMMA TypeStep == TypeInv /\ [Next]_vars => TypeInv'
<1> SUFFICES ASSUME TypeInv, [Next]_vars PROVE TypeInv'
  OBVIOUS
<1>1. ASSUME NEW t \in Thread, return_ptr(t) PROVE TypeInv'
  <2>1. loc[t].ptr \in Ptr /\ loc[t].want \in Nat
    BY <1>1 DEF return_ptr, TypeInv, TypeOK, HasPtr, Holding, Labels, Locals
  <2>2. SharedOK'
    BY <1>1, <2>1, SharedTyped, BlocksChange DEF return_ptr, SharedOK
  <2> QED
    BY <1>1, <2>2, StepReturns DEF return_ptr
<1>2. ASSUME NEW t \in Thread, return_void(t) \/ load_free_count(t) PROVE TypeInv'
  <2>1. SharedOK'
    BY <1>2, SharedTyped DEF return_void, load_free_count, shared, SharedOK
  <2> QED
    BY <1>2, <2>1, StepReturns DEF return_void, load_free_count
<1>3. CASE Configure
  <2>1. \A c \in DOMAIN stats : [stats EXCEPT ![c] = 0] \in memory_stats_t
    BY DEF TypeInv, TypeOK, memory_stats_t
  <2>2. UNCHANGED <<heap, user, alloc_head, alloc_lock, pc, loc, calls, work>>
    BY <1>3 DEF Configure, neoc_set_allocator, neoc_reset_allocator, neoc_memory_debug_disable
  <2>3. stats' \in memory_stats_t /\ custom_allocator' \in Allocator \cup {system}
    BY <1>3, <2>1 DEF Configure, neoc_set_allocator, neoc_reset_allocator, neoc_memory_debug_disable,
       TypeInv, TypeOK
  <2> QED
    BY <2>2, <2>3 DEF TypeInv, TypeOK, HasPtr
<1>4. CASE Finished \/ UNCHANGED vars
  BY <1>4 DEF Finished, vars, TypeInv, TypeOK, HasPtr
<1> QED
  BY <1>1, <1>2, <1>3, <1>4, CallTypes, TrackTypes, HeapTypes, CountTypes DEF Next, Step

(* Initially the state is well typed.                                        *)
LEMMA TypeInit == Init => TypeInv
<1> SUFFICES ASSUME Init PROVE TypeInv
  OBVIOUS
<1>1. DOMAIN heap = {} /\ DOMAIN user = {}
  BY DEF Init
<1>2. stats \in memory_stats_t
  BY DEF Init, zero_stats, memory_stats_t
<1>3. pc \in [Thread -> Labels] /\ loc \in [Thread -> Locals]
  BY NoLocals DEF Init, Labels
<1>4. work \in Workload /\ calls \in [Thread -> 0 .. work.max_calls]
  BY WorkloadAssumption DEF Init
<1>5. HasPtr
  BY DEF Init, HasPtr, Holding
<1>6. alloc_head \in Seq(alloc_entry_t)
  BY DEF Init
<1>7. alloc_lock \in BOOLEAN /\ custom_allocator \in Allocator \cup {system}
  BY Zenon DEF Init
<1> QED
  BY <1>1, <1>2, <1>3, <1>4, <1>5, <1>6, <1>7 DEF TypeInv, TypeOK

(* Type correctness of the allocation layer for any number of threads: a     *)
(* tracking entry never names NULL and no caller is handed NULL as a block.  *)
THEOREM TypeCorrect == Spec => []TypeOK
<1>1. TypeInv => TypeOK
  BY DEF TypeInv
<1> QED
  BY <1>1, TypeInit, TypeStep, PTL DEF Spec
=============================================================================
