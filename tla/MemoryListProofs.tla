-------------------------- MODULE MemoryListProofs --------------------------
(***************************************************************************)
(* What the blocks and the list of NeocMemory are at every instant, for    *)
(* any threads, addresses, sizes and bounds: a pointer a caller holds is a *)
(* live block with room for the request, an entry of the list is a live    *)
(* block of its size, and the count of outstanding blocks is never         *)
(* overstated.                                                             *)
(***************************************************************************)
EXTENDS NeocMemoryProofs, SequenceTheorems

-----------------------------------------------------------------------------
(* Blocks.  A live block belongs to one caller or to one call: a call that   *)
(* has got its block from the heap, or from the caller, owns the block until *)
(* it returns it or gives it back to the heap.                               *)

Freeing == {"f_func", "f_free"}
Released == {"frees", "freed", "unuse"}
Owns(l, r) == l \in Holding \ {"done"} /\ ~(r.op = "free" /\ l \in Released)
Owner(t) == Owns(pc[t], loc[t])

Live ==
    /\ DOMAIN user \subseteq DOMAIN heap
    /\ \A t \in Thread : Owner(t) => loc[t].ptr \in DOMAIN heap /\ loc[t].ptr \notin DOMAIN user
    /\ \A t, u \in Thread : Owner(t) /\ Owner(u) /\ loc[t].ptr = loc[u].ptr => t = u
    /\ \A t \in Thread : pc[t] \in Freeing => loc[t].op = "free"

(* The programs in which no product of neoc_calloc is passed on wrapped: the *)
(* system's calloc refuses one, only a custom malloc_func is handed it.      *)
NoWrap ==
    \/ NotUsed({"allocator"}) \/ NotUsed({"calloc"})
    \/ \A a \in CallocArg : a[1] * a[2] < SizeMod

(* What a call asks of the heap has room for what its caller asked for.      *)
Room ==
    /\ NotUsed({"allocator"}) => custom_allocator = system
    /\ \A p \in DOMAIN user : heap[p] >= user[p]
    /\ \A t \in Thread : Owner(t) => heap[loc[t].ptr] >= loc[t].want
    /\ \A t \in Thread : pc[t] = "alloc" =>
          /\ loc[t].want < SizeMod => loc[t].size = loc[t].want
          /\ NotUsed({"allocator"}) \/ loc[t].want < SizeMod

BlockInv == TypeInv /\ Live /\ (NoWrap => Room)

(* A step of one call that leaves the callers' blocks alone keeps the        *)
(* invariant if it touches no block but its own, and if the block it owns    *)
(* afterwards is its own or fresh and has room.                              *)
LEMMA OwnStep ==
  ASSUME BlockInv, TypeInv', NEW t \in Thread, NEW l, NEW r,
         pc' = [pc EXCEPT ![t] = l], loc' = [loc EXCEPT ![t] = r],
         UNCHANGED <<user, custom_allocator, work>>,
         l \in Freeing => r.op = "free",
         l = "alloc" /\ NoWrap =>
            /\ r.want < SizeMod => r.size = r.want
            /\ NotUsed({"allocator"}) \/ r.want < SizeMod,
         \A p \in DOMAIN heap :
            (Owns(pc[t], loc[t]) /\ p = loc[t].ptr) \/ (p \in DOMAIN heap' /\ heap'[p] = heap[p]),
         Owns(l, r) =>
            /\ r.ptr \in DOMAIN heap'
            /\ r.ptr \notin DOMAIN heap \/ (Owns(pc[t], loc[t]) /\ r.ptr = loc[t].ptr)
            /\ NoWrap => heap'[r.ptr] >= r.want
  PROVE  BlockInv'
<1> USE DEF Owner
<1>1. /\ pc'[t] = l /\ loc'[t] = r
      /\ \A u \in Thread \ {t} : pc'[u] = pc[u] /\ loc'[u] = loc[u]
  BY DEF BlockInv, TypeInv, TypeOK
<1>2. Live'
  <2>1. DOMAIN user' \subseteq DOMAIN heap'
    BY DEF BlockInv, Live
  <2>2. ASSUME NEW u \in Thread, Owns(pc'[u], loc'[u])
        PROVE  loc'[u].ptr \in DOMAIN heap' /\ loc'[u].ptr \notin DOMAIN user'
    <3>1. CASE u = t
      BY <1>1, <2>2, <3>1 DEF BlockInv, Live
    <3>2. CASE u # t
      BY <1>1, <2>2, <3>2 DEF BlockInv, Live
    <3> QED
      BY <3>1, <3>2
  <2>3. ASSUME NEW u \in Thread, NEW v \in Thread, Owns(pc'[u], loc'[u]), Owns(pc'[v], loc'[v]),
               loc'[u].ptr = loc'[v].ptr
        PROVE  u = v
    <3>1. CASE u # t /\ v # t
      BY <1>1, <2>3, <3>1 DEF BlockInv, Live
    <3>2. CASE u = t /\ v # t
      BY <1>1, <2>3, <3>2 DEF BlockInv, Live
    <3>3. CASE u # t /\ v = t
      BY <1>1, <2>3, <3>3 DEF BlockInv, Live
    <3> QED
      BY <3>1, <3>2, <3>3
  <2>4. \A u \in Thread : pc'[u] \in Freeing => loc'[u].op = "free"
    BY <1>1 DEF BlockInv, Live
  <2> QED
    BY <2>1, <2>2, <2>3, <2>4 DEF Live
<1>3. ASSUME NoWrap PROVE Room'
  <2>1. Room
    BY <1>3 DEF BlockInv
  <2>2. (NotUsed({"allocator"}) => custom_allocator = system)'
    BY <2>1 DEF Room, NotUsed
  <2>3. \A p \in DOMAIN user' : heap'[p] >= user'[p]
    BY <2>1 DEF Room, BlockInv, Live
  <2>4. ASSUME NEW u \in Thread, Owns(pc'[u], loc'[u]) PROVE heap'[loc'[u].ptr] >= loc'[u].want
    <3>1. CASE u = t
      BY <1>1, <1>3, <2>4, <3>1
    <3>2. CASE u # t
      BY <1>1, <2>1, <2>4, <3>2 DEF BlockInv, Live, Room
    <3> QED
      BY <3>1, <3>2
  <2>5. ASSUME NEW u \in Thread, pc'[u] = "alloc"
        PROVE  /\ loc'[u].want < SizeMod => loc'[u].size = loc'[u].want
               /\ NotUsed({"allocator"})' \/ loc'[u].want < SizeMod
    BY <1>1, <1>3, <2>1, <2>5 DEF Room, NotUsed
  <2> QED
    BY <2>2, <2>3, <2>4, <2>5 DEF Room
<1>4. NoWrap' => NoWrap
  BY DEF NoWrap, NotUsed
<1> QED
  BY <1>2, <1>3, <1>4 DEF BlockInv

(* A step that leaves the heap alone and keeps the block and the request.    *)
LEMMA MoveStep ==
  ASSUME BlockInv, TypeInv', NEW t \in Thread, NEW l, NEW r,
         pc' = [pc EXCEPT ![t] = l], loc' = [loc EXCEPT ![t] = r],
         UNCHANGED <<heap, user, custom_allocator, work>>,
         l # "alloc", l \in Freeing => r.op = "free",
         Owns(l, r) => Owns(pc[t], loc[t]) /\ r.ptr = loc[t].ptr /\ r.want = loc[t].want
  PROVE  BlockInv'
<1>1. Owns(l, r) => r.ptr \in DOMAIN heap' /\ (NoWrap => heap'[r.ptr] >= r.want)
  BY DEF BlockInv, Live, Room, Owner
<1> QED
  BY <1>1, OwnStep, Zenon

(* A caller hands its block to a call, which asks for no more than there is. *)
LEMMA GiveStep ==
  ASSUME BlockInv, TypeInv', NEW t \in Thread, NEW l, NEW r, NEW p \in DOMAIN user,
         pc' = [pc EXCEPT ![t] = l], loc' = [loc EXCEPT ![t] = r],
         UNCHANGED <<heap, custom_allocator, work>>, user' = Without(user, p),
         pc[t] = "idle", l # "alloc", l \in Freeing => r.op = "free", r.ptr = p, r.want \in Nat, r.want <= user[p]
  PROVE  BlockInv'
<1> USE DEF Owner
<1>1. /\ pc'[t] = l /\ loc'[t] = r
      /\ \A u \in Thread \ {t} : pc'[u] = pc[u] /\ loc'[u] = loc[u]
      /\ ~Owns(pc[t], loc[t])
  BY DEF BlockInv, TypeInv, TypeOK, Owns, Holding
<1>2. DOMAIN user' = DOMAIN user \ {p} /\ \A q \in DOMAIN user' : user'[q] = user[q]
  BY DEF Without
<1>3. Live'
  <2>1. DOMAIN user' \subseteq DOMAIN heap'
    BY <1>2 DEF BlockInv, Live
  <2>2. ASSUME NEW u \in Thread, Owns(pc'[u], loc'[u])
        PROVE  loc'[u].ptr \in DOMAIN heap' /\ loc'[u].ptr \notin DOMAIN user'
    BY <1>1, <1>2, <2>2 DEF BlockInv, Live
  <2>3. ASSUME NEW u \in Thread, NEW v \in Thread, Owns(pc'[u], loc'[u]), Owns(pc'[v], loc'[v]),
               loc'[u].ptr = loc'[v].ptr
        PROVE  u = v
    BY <1>1, <2>3 DEF BlockInv, Live
  <2>4. \A u \in Thread : pc'[u] \in Freeing => loc'[u].op = "free"
    BY <1>1 DEF BlockInv, Live
  <2> QED
    BY <2>1, <2>2, <2>3, <2>4 DEF Live
<1>4. ASSUME NoWrap PROVE Room'
  <2>1. Room
    BY <1>4 DEF BlockInv
  <2>2. (NotUsed({"allocator"}) => custom_allocator = system)'
    BY <2>1 DEF Room, NotUsed
  <2>3. \A q \in DOMAIN user' : heap'[q] >= user'[q]
    BY <1>2, <2>1 DEF Room
  <2>4. heap[p] >= r.want
    BY <2>1 DEF Room, BlockInv, TypeInv, TypeOK, Live
  <2>5. ASSUME NEW u \in Thread, Owns(pc'[u], loc'[u]) PROVE heap'[loc'[u].ptr] >= loc'[u].want
    BY <1>1, <2>1, <2>4, <2>5 DEF Room
  <2>6. ASSUME NEW u \in Thread, pc'[u] = "alloc"
        PROVE  /\ loc'[u].want < SizeMod => loc'[u].size = loc'[u].want
               /\ NotUsed({"allocator"})' \/ loc'[u].want < SizeMod
    BY <1>1, <2>1, <2>6 DEF Room, NotUsed
  <2> QED
    BY <2>2, <2>3, <2>5, <2>6 DEF Room
<1>5. NoWrap' => NoWrap
  BY DEF NoWrap, NotUsed
<1> QED
  BY <1>3, <1>4, <1>5 DEF BlockInv

(* return_ptr: a call hands its block to the caller.                         *)
LEMMA ReturnStep ==
  ASSUME BlockInv, TypeInv', NEW t \in Thread, return_ptr(t)
  PROVE  BlockInv'
<1> USE DEF Owner
<1>1. /\ Owns(pc[t], loc[t])
      /\ pc'[t] = "idle" /\ loc'[t] = no_locals
      /\ \A u \in Thread \ {t} : pc'[u] = pc[u] /\ loc'[u] = loc[u]
      /\ UNCHANGED <<heap, custom_allocator, work>>
  BY DEF return_ptr, Return, Goto, BlockInv, TypeInv, TypeOK, Owns, Holding, Labels, Released
<1>2. /\ DOMAIN user' = DOMAIN user \cup {loc[t].ptr}
      /\ user'[loc[t].ptr] = loc[t].want
      /\ \A q \in DOMAIN user \ {loc[t].ptr} : user'[q] = user[q]
  BY DEF return_ptr, With
<1>3. ~Owns(pc'[t], loc'[t])
  BY <1>1 DEF Owns, Holding
<1>4. Live'
  <2>1. DOMAIN user' \subseteq DOMAIN heap'
    BY <1>1, <1>2 DEF BlockInv, Live
  <2>2. ASSUME NEW u \in Thread, Owns(pc'[u], loc'[u])
        PROVE  loc'[u].ptr \in DOMAIN heap' /\ loc'[u].ptr \notin DOMAIN user'
    BY <1>1, <1>2, <1>3, <2>2 DEF BlockInv, Live
  <2>3. ASSUME NEW u \in Thread, NEW v \in Thread, Owns(pc'[u], loc'[u]), Owns(pc'[v], loc'[v]),
               loc'[u].ptr = loc'[v].ptr
        PROVE  u = v
    BY <1>1, <1>3, <2>3 DEF BlockInv, Live
  <2>4. \A u \in Thread : pc'[u] \in Freeing => loc'[u].op = "free"
    BY <1>1 DEF BlockInv, Live, Freeing
  <2> QED
    BY <2>1, <2>2, <2>3, <2>4 DEF Live
<1>5. ASSUME NoWrap PROVE Room'
  <2>1. Room
    BY <1>5 DEF BlockInv
  <2>2. (NotUsed({"allocator"}) => custom_allocator = system)'
    BY <1>1, <2>1 DEF Room, NotUsed
  <2>3. \A q \in DOMAIN user' : heap'[q] >= user'[q]
    BY <1>1, <1>2, <2>1 DEF Room
  <2>4. ASSUME NEW u \in Thread, Owns(pc'[u], loc'[u]) PROVE heap'[loc'[u].ptr] >= loc'[u].want
    BY <1>1, <1>3, <2>1, <2>4 DEF Room
  <2>5. ASSUME NEW u \in Thread, pc'[u] = "alloc"
        PROVE  /\ loc'[u].want < SizeMod => loc'[u].size = loc'[u].want
               /\ NotUsed({"allocator"})' \/ loc'[u].want < SizeMod
    BY <1>1, <2>1, <2>5 DEF Room, NotUsed
  <2> QED
    BY <2>2, <2>3, <2>4, <2>5 DEF Room
<1>6. NoWrap' => NoWrap
  BY <1>1 DEF NoWrap, NotUsed
<1> QED
  BY <1>4, <1>5, <1>6 DEF BlockInv

(* A request that fits size_t is passed on as it is.                         *)
LEMMA Fitting == \A n \in Nat : n < SizeMod => n % SizeMod = n
  BY SizeAssumption

(* A call of the interface begins with a block of its caller, or asks for    *)
(* one of the size its caller wants.                                         *)
LEMMA CallBlocks ==
  ASSUME BlockInv, TypeInv', NEW t \in Thread, Call(t)
  PROVE  BlockInv'
<1>0. \A n \in Size : n \in 1 .. (SizeMod - 1) /\ n \in Nat /\ (n - 1) + 1 = n
  BY SizeAssumption
<1>1. ASSUME NEW n \in 1 .. (SizeMod - 1), neoc_malloc(t, n) PROVE BlockInv'
  <2> DEFINE r == [no_locals EXCEPT !.op = "alloc", !.size = n, !.want = n, !.custom = using_custom_allocator]
  <2>1. /\ pc' = [pc EXCEPT ![t] = "alloc"] /\ loc' = [loc EXCEPT ![t] = r]
        /\ UNCHANGED <<heap, user, custom_allocator, work>>
    BY <1>1 DEF neoc_malloc, Enter, Goto
  <2>2. r.want < SizeMod /\ r.size = r.want
    BY SizeAssumption DEF no_locals
  <2>3. ~Owns("alloc", r) /\ "alloc" \notin Freeing
    BY DEF Owns, Holding, Freeing
  <2> HIDE DEF r
  <2> QED
    BY <2>1, <2>2, <2>3, OwnStep, Zenon
<1>2. ASSUME NEW a \in CallocArg, "calloc" \in work.uses, neoc_calloc(t, a[1], a[2]) PROVE BlockInv'
  <2> DEFINE r == [no_locals EXCEPT !.op = "alloc", !.size = (a[1] * a[2]) % SizeMod, !.want = a[1] * a[2],
                                    !.custom = using_custom_allocator]
  <2>1. /\ pc' = [pc EXCEPT ![t] = "alloc"] /\ loc' = [loc EXCEPT ![t] = r]
        /\ UNCHANGED <<heap, user, custom_allocator, work>>
    BY <1>2 DEF neoc_calloc, Enter, Goto
  <2>2. r.want = a[1] * a[2] /\ r.size = (a[1] * a[2]) % SizeMod
    BY DEF no_locals
  <2>3. ~Owns("alloc", r) /\ "alloc" \notin Freeing
    BY DEF Owns, Holding, Freeing
  <2> HIDE DEF r
  <2>4. a[1] \in Nat /\ a[2] \in Nat
    BY SizeAssumption
  <2>5. a[1] * a[2] \in Nat
    BY <2>4
  <2>6. r.want < SizeMod => r.size = r.want
    BY <2>2, <2>5, Fitting
  <2>7. NoWrap => NotUsed({"allocator"}) \/ r.want < SizeMod
    BY <1>2, <2>2 DEF NoWrap, NotUsed
  <2> QED
    BY <2>1, <2>3, <2>6, <2>7, OwnStep, Zenon
<1>3. ASSUME NEW p, neoc_free(t, p) PROVE BlockInv'
  <2> DEFINE r == [no_locals EXCEPT !.op = "free", !.ptr = p, !.custom = using_custom_allocator]
  <2>1. /\ pc' = [pc EXCEPT ![t] = "f_func"] /\ loc' = [loc EXCEPT ![t] = r]
        /\ UNCHANGED <<heap, custom_allocator, work>> /\ pc[t] = "idle"
        /\ p \in DOMAIN user /\ user' = Without(user, p)
    BY <1>3 DEF neoc_free, Enter, Goto
  <2>2. r.ptr = p /\ r.want = 0 /\ r.op = "free"
    BY DEF no_locals
  <2>3. user[p] \in Nat
    BY <2>1 DEF BlockInv, TypeInv, TypeOK
  <2> HIDE DEF r
  <2>4. r.want \in Nat /\ r.want <= user[p]
    BY <2>2, <2>3
  <2> QED
    BY <2>1, <2>2, <2>4, GiveStep, Zenon
<1>4. ASSUME NEW p, NEW n \in Size, neoc_realloc(t, p, n) PROVE BlockInv'
  <2> DEFINE r == [no_locals EXCEPT !.op = "realloc", !.ptr = p, !.size = n, !.want = user[p],
                                    !.custom = using_custom_allocator]
             l == IF using_custom_allocator THEN "realloc" ELSE "u_lock"
  <2>1. /\ pc' = [pc EXCEPT ![t] = l] /\ loc' = [loc EXCEPT ![t] = r]
        /\ UNCHANGED <<heap, custom_allocator, work>> /\ pc[t] = "idle"
        /\ p \in DOMAIN user /\ user' = Without(user, p)
    BY <1>4 DEF neoc_realloc, Enter, Goto
  <2>2. r.ptr = p /\ r.want = user[p] /\ l # "alloc" /\ l \notin Freeing
    BY DEF no_locals, Freeing
  <2>3. user[p] \in Nat
    BY <2>1 DEF BlockInv, TypeInv, TypeOK
  <2> HIDE DEF r, l
  <2>4. r.want \in Nat /\ r.want <= user[p]
    BY <2>2, <2>3
  <2> QED
    BY <2>1, <2>2, <2>4, GiveStep, Zenon
<1>5. ASSUME neoc_get_allocation_count(t) \/ neoc_memory_debug_get_stats(t) PROVE BlockInv'
  <2>1. \E l \in {"g_frees", "g_blocks"} : \E r : Enter(t, l, r) /\ UNCHANGED user
    BY <1>5 DEF neoc_get_allocation_count, neoc_memory_debug_get_stats
  <2>2. PICK l \in {"g_frees", "g_blocks"} : \E r : Enter(t, l, r) /\ UNCHANGED user
    BY <2>1
  <2>3. PICK r : Enter(t, l, r) /\ UNCHANGED user
    BY <2>2
  <2>4. ~Owns(l, r) /\ l # "alloc" /\ l \notin Freeing
    BY DEF Owns, Holding, Freeing
  <2> QED
    BY <2>3, <2>4, MoveStep, Zenon DEF Enter, Goto
<1>6. ASSUME NEW n \in Size, neoc_strdup(t, n - 1) \/ neoc_memdup(t, n) \/ neoc_malloc(t, n) PROVE BlockInv'
  BY <1>0, <1>1, <1>6 DEF neoc_strdup, neoc_memdup
<1>7. ASSUME NEW n \in Size, NEW m \in Size, neoc_strndup(t, n - 1, m - 1) PROVE BlockInv'
  <2>1. (IF n - 1 > m - 1 THEN m - 1 ELSE n - 1) + 1 \in 1 .. (SizeMod - 1)
    BY <1>0
  <2> QED
    BY <1>1, <1>7, <2>1 DEF neoc_strndup
<1> QED
  BY <1>2, <1>3, <1>4, <1>5, <1>6, <1>7 DEF Call, neoc_secure_free

(* Steps that use the heap.                                                  *)
LEMMA HeapBlocks ==
  ASSUME BlockInv, TypeInv', NEW t \in Thread, Heap(t)
  PROVE  BlockInv'
<1>0. /\ loc[t] \in Locals /\ loc[t].size \in Nat /\ loc[t].want \in Nat
      /\ DOMAIN heap \subseteq Ptr
  BY DEF BlockInv, TypeInv, TypeOK, Locals
<1>1. ASSUME Return(t), UNCHANGED <<heap, user, custom_allocator, work>> PROVE BlockInv'
  <2>1. ~Owns("idle", no_locals) /\ "idle" \notin Freeing
    BY DEF Owns, Holding, Freeing
  <2> QED
    BY <1>1, <2>1, MoveStep, Zenon DEF Return, Goto
<1>2. CASE system_alloc(t)
  <2>1. UNCHANGED <<user, custom_allocator, work>> /\ pc[t] = "alloc"
    BY <1>2 DEF system_alloc
  <2>2. ASSUME NEW p \in Ptr \ DOMAIN heap, fits(t), heap' = With(heap, p, loc[t].size),
               loc' = [loc EXCEPT ![t].ptr = p], Goto(t, IF loc[t].custom THEN "ret" ELSE "count")
        PROVE  BlockInv'
    <3> DEFINE r == [loc[t] EXCEPT !.ptr = p]
               l == IF loc[t].custom THEN "ret" ELSE "count"
    <3>1. r.ptr = p /\ r.want = loc[t].want /\ loc' = [loc EXCEPT ![t] = r]
      BY <1>0, <2>2 DEF Locals
    <3>2. l # "alloc" /\ l \notin Freeing /\ pc' = [pc EXCEPT ![t] = l]
      BY <2>2 DEF Goto, Freeing
    <3>3. p \in DOMAIN heap' /\ heap'[p] = loc[t].size
          /\ \A q \in DOMAIN heap : q \in DOMAIN heap' /\ heap'[q] = heap[q]
      BY <2>2 DEF With
    <3>4. NoWrap => loc[t].size >= loc[t].want
      <4>1. ASSUME NoWrap PROVE loc[t].size = loc[t].want
        <5>1. Room
          BY <4>1 DEF BlockInv
        <5>2. NotUsed({"allocator"}) => ~custom_allocator.malloc_func
          BY <5>1 DEF Room, system
        <5>3. loc[t].want < SizeMod
          BY <2>1, <2>2, <5>1, <5>2 DEF Room, fits
        <5> QED
          BY <2>1, <5>1, <5>3 DEF Room
      <4> QED
        BY <1>0, <4>1
    <3> HIDE DEF r, l
    <3>5. NoWrap => heap'[r.ptr] >= r.want
      BY <3>1, <3>3, <3>4
    <3>6. r.ptr \in DOMAIN heap' /\ r.ptr \notin DOMAIN heap
      BY <3>1, <3>3
    <3> QED
      BY <2>1, <3>1, <3>2, <3>3, <3>5, <3>6, OwnStep, Zenon
  <2> QED
    BY <1>1, <1>2, <2>1, <2>2 DEF system_alloc
<1>3. CASE system_realloc(t)
  <2>1. UNCHANGED <<user, custom_allocator, work>> /\ pc[t] = "realloc"
    BY <1>3, Zenon DEF system_realloc
  <2>2. Owns(pc[t], loc[t])
    BY <2>1 DEF Owns, Holding, Labels, Released
  <2>3. ASSUME NEW q \in (Ptr \ DOMAIN heap) \cup {loc[t].ptr},
               heap' = With(Without(heap, loc[t].ptr), q, loc[t].size),
               loc' = [loc EXCEPT ![t] = [@ EXCEPT !.ptr = q, !.want = loc[t].size]],
               Goto(t, IF loc[t].custom THEN "ret" ELSE "count")
        PROVE  BlockInv'
    <3> DEFINE r == [loc[t] EXCEPT !.ptr = q, !.want = loc[t].size]
               l == IF loc[t].custom THEN "ret" ELSE "count"
    <3>1. r.ptr = q /\ r.want = loc[t].size /\ loc' = [loc EXCEPT ![t] = r]
      BY <1>0, <2>3 DEF Locals
    <3>2. l # "alloc" /\ l \notin Freeing /\ pc' = [pc EXCEPT ![t] = l]
      BY <2>3 DEF Goto, Freeing
    <3>3. /\ q \in DOMAIN heap' /\ heap'[q] = loc[t].size
          /\ \A p \in DOMAIN heap \ {loc[t].ptr} : p \in DOMAIN heap' /\ heap'[p] = heap[p]
      BY <2>3 DEF With, Without
    <3> HIDE DEF r, l
    <3>4. heap'[r.ptr] >= r.want
      BY <1>0, <3>1, <3>3
    <3>5. r.ptr \in DOMAIN heap' /\ (r.ptr \notin DOMAIN heap \/ r.ptr = loc[t].ptr)
      BY <2>3, <3>1, <3>3
    <3>6. \A p \in DOMAIN heap : p = loc[t].ptr \/ (p \in DOMAIN heap' /\ heap'[p] = heap[p])
      BY <3>3
    <3> QED
      BY <2>1, <2>2, <3>1, <3>2, <3>4, <3>5, <3>6, OwnStep, Zenon
  <2>4. ASSUME UNCHANGED heap, loc' = realloc_failed(t), Goto(t, IF loc[t].had THEN "t_entry" ELSE "ret")
        PROVE  BlockInv'
    <3> DEFINE r == [loc[t] EXCEPT !.op = "retrack"]
               l == IF loc[t].had THEN "t_entry" ELSE "ret"
    <3>1. r.ptr = loc[t].ptr /\ r.want = loc[t].want /\ loc' = [loc EXCEPT ![t] = r]
      BY <1>0, <2>4 DEF Locals, realloc_failed
    <3>2. l # "alloc" /\ l \notin Freeing /\ pc' = [pc EXCEPT ![t] = l]
      BY <2>4 DEF Goto, Freeing
    <3> HIDE DEF r, l
    <3> QED
      BY <2>1, <2>2, <2>4, <3>1, <3>2, MoveStep, Zenon
  <2> QED
    BY <1>3, <2>3, <2>4, Zenon DEF system_realloc
<1>4. ASSUME release_block(t), pc[t] \in {"f_func", "f_free"} PROVE BlockInv'
  <2>1. Owns(pc[t], loc[t])
    BY <1>4 DEF Owns, Holding, Labels, Released
  <2>2. \A p \in DOMAIN heap \ {loc[t].ptr} : p \in DOMAIN heap' /\ heap'[p] = heap[p]
    BY <1>4 DEF release_block, Without
  <2>3. UNCHANGED <<user, custom_allocator, work>>
    BY <1>4 DEF release_block
  <2>4. CASE Return(t)
    <3>1. ~Owns("idle", no_locals) /\ "idle" \notin Freeing
      BY DEF Owns, Holding, Freeing
    <3> QED
      BY <2>1, <2>2, <2>3, <2>4, <3>1, OwnStep, Zenon DEF Return, Goto
  <2>5. CASE Goto(t, "frees") /\ UNCHANGED loc
    <3>1. ~Owns("frees", loc[t]) /\ "frees" \notin Freeing
      BY <1>4 DEF BlockInv, Live, Freeing, Owns, Released
    <3>2. pc' = [pc EXCEPT ![t] = "frees"] /\ loc' = [loc EXCEPT ![t] = loc[t]]
      BY <2>5 DEF Goto, BlockInv, TypeInv, TypeOK
    <3> QED
      BY <2>1, <2>2, <2>3, <3>1, <3>2, OwnStep, Zenon
  <2> QED
    BY <1>4, <2>4, <2>5 DEF release_block
<1>5. CASE custom_free(t)
  <2>1. CASE release_block(t)
    BY <1>4, <1>5, <2>1 DEF custom_free
  <2>2. CASE Goto(t, "u_lock") /\ UNCHANGED <<shared, loc, calls, work>>
    <3>1. Owns(pc[t], loc[t]) /\ "u_lock" \notin Freeing
      BY <1>5 DEF custom_free, Owns, Holding, Labels, Released, Freeing
    <3>2. pc' = [pc EXCEPT ![t] = "u_lock"] /\ loc' = [loc EXCEPT ![t] = loc[t]]
      BY <2>2 DEF Goto, BlockInv, TypeInv, TypeOK
    <3> QED
      BY <2>2, <3>1, <3>2, MoveStep, Zenon DEF shared
  <2> QED
    BY <1>5, <2>1, <2>2 DEF custom_free
<1>6. CASE system_free(t)
  BY <1>4, <1>6 DEF system_free
<1> QED
  BY <1>2, <1>3, <1>5, <1>6 DEF Heap

(* Steps of track_allocation and untrack_allocation keep the block.          *)
LEMMA TrackBlocks ==
  ASSUME BlockInv, TypeInv', NEW t \in Thread, Track(t)
  PROVE  BlockInv'
<1>1. loc[t] \in Locals /\ loc = [loc EXCEPT ![t] = loc[t]]
  BY DEF BlockInv, TypeInv, TypeOK
<1>2. pc[t] \in {"t_entry", "t_lock", "u_lock", "t_read", "t_write", "t_rel", "u_find", "u_write", "u_rel"}
  BY Zenon DEF Track, track_entry, alloc_lock_acquire, acquire_if, track_read, track_write, track_release,
     untrack_find, untrack_write, untrack_release
<1>3. Owns(pc[t], loc[t])
  BY <1>2 DEF Owns, Holding, Labels, Released
<1>4. UNCHANGED <<heap, user, custom_allocator, work>>
  BY Zenon DEF Track, track_entry, alloc_lock_acquire, acquire_if, track_read, track_write, track_release,
     untrack_find, untrack_write, untrack_release, alloc_lock_release, shared
<1>5. ASSUME NEW l, NEW r, l # "alloc", l \in Freeing => r.op = "free",
             pc' = [pc EXCEPT ![t] = l], loc' = [loc EXCEPT ![t] = r],
             r.ptr = loc[t].ptr, r.want = loc[t].want
      PROVE  BlockInv'
  BY <1>3, <1>4, <1>5, MoveStep, Zenon
<1>6. ASSUME NEW l, l # "alloc", l \notin Freeing, Goto(t, l), UNCHANGED loc PROVE BlockInv'
  BY <1>1, <1>5, <1>6, Zenon DEF Goto
<1>7. ASSUME NEW s, NEW l, l # "alloc", l \in Freeing => loc[t].op = "free",
             loc' = [loc EXCEPT ![t].next = s], Goto(t, l)
      PROVE  BlockInv'
  <2> DEFINE r == [loc[t] EXCEPT !.next = s]
  <2>1. r.ptr = loc[t].ptr /\ r.want = loc[t].want /\ r.op = loc[t].op /\ loc' = [loc EXCEPT ![t] = r]
    BY <1>1, <1>7 DEF Locals
  <2> HIDE DEF r
  <2> QED
    BY <1>5, <1>7, <2>1, Zenon DEF Goto
<1>8. after_track(t) # "alloc" /\ after_track(t) \notin Freeing
  BY DEF after_track, Freeing
<1>9. CASE track_entry(t)
  <2>1. "t_lock" \notin Freeing
    BY DEF Freeing
  <2> QED
    BY <1>6, <1>8, <1>9, <2>1 DEF track_entry
<1>10. CASE alloc_lock_acquire(t)
  <2>1. (IF pc[t] = "t_lock" THEN "t_read" ELSE "u_find") \notin Freeing \cup {"alloc"}
    BY DEF Freeing
  <2> QED
    BY <1>6, <1>10, <2>1 DEF alloc_lock_acquire, acquire_if
<1>11. CASE track_read(t)
  BY <1>7, <1>11, Zenon DEF track_read, Freeing
<1>12. CASE track_write(t)
  BY <1>6, <1>12 DEF track_write, Freeing
<1>13. CASE track_release(t)
  BY <1>7, <1>8, <1>13, Zenon DEF track_release, alloc_lock_release
<1>14. CASE untrack_find(t)
  <2>1. CASE Goto(t, "u_rel") /\ UNCHANGED loc
    BY <1>6, <2>1 DEF Freeing
  <2>2. ASSUME NEW i \in positions(alloc_head, loc[t].ptr), Goto(t, "u_write"),
               loc' = [loc EXCEPT ![t] = [@ EXCEPT !.had = TRUE, !.old = alloc_head[i].size,
                                                   !.next = RemoveAt(alloc_head, i)]]
        PROVE  BlockInv'
    <3> DEFINE r == [loc[t] EXCEPT !.had = TRUE, !.old = alloc_head[i].size, !.next = RemoveAt(alloc_head, i)]
    <3>1. r.ptr = loc[t].ptr /\ r.want = loc[t].want /\ loc' = [loc EXCEPT ![t] = r]
      BY <1>1, <2>2 DEF Locals
    <3> HIDE DEF r
    <3>2. "u_write" \notin Freeing
      BY DEF Freeing
    <3> QED
      BY <1>5, <2>2, <3>1, <3>2, Zenon DEF Goto
  <2> QED
    BY <1>14, <2>1, <2>2, Zenon DEF untrack_find
<1>15. CASE untrack_write(t)
  BY <1>6, <1>15 DEF untrack_write, Freeing
<1>16. CASE untrack_release(t)
  <2> DEFINE l == IF loc[t].op = "free" THEN "f_free" ELSE "realloc"
  <2>1. l # "alloc" /\ (l \in Freeing => loc[t].op = "free")
    BY DEF Freeing
  <2>2. alloc_lock_release(t, l)
    BY <1>16 DEF untrack_release
  <2> HIDE DEF l
  <2> QED
    BY <1>7, <2>1, <2>2, Zenon DEF alloc_lock_release
<1> QED
  BY <1>9, <1>10, <1>11, <1>12, <1>13, <1>14, <1>15, <1>16 DEF Track

(* Steps on the counters keep the block.                                     *)
LEMMA CountBlocks ==
  ASSUME BlockInv, TypeInv', NEW t \in Thread, Count(t)
  PROVE  BlockInv'
<1>1. loc[t] \in Locals /\ loc = [loc EXCEPT ![t] = loc[t]]
  BY DEF BlockInv, TypeInv, TypeOK
<1>2. ASSUME NEW from, NEW s, NEW l, Counter(t, from, s, l), l \notin Freeing \cup {"alloc"},
             Owns(l, loc[t]) => Owns(from, loc[t])
      PROVE  BlockInv'
  BY <1>1, <1>2, MoveStep, Zenon DEF Counter, Goto
<1> USE DEF Owns, Holding, Labels, Released, Freeing
<1>3. CASE count_allocation(t)
  BY <1>2, <1>3 DEF count_allocation
<1>4. CASE add_total(t)
  BY <1>2, <1>4 DEF add_total
<1>5. CASE add_usage(t)
  <2> DEFINE l == CASE loc[t].op = "alloc" -> "ld_cur"
                    [] loc[t].op # "alloc" /\ loc[t].had /\ loc[t].old > 0 -> "frees"
                    [] OTHER -> "ret"
  <2>1. Counter(t, "usage", [stats EXCEPT !.current_usage = add(@, loc[t].size)], l)
    BY <1>5 DEF add_usage
  <2>2. l \in {"ld_cur", "frees", "ret"}
    OBVIOUS
  <2> HIDE DEF l
  <2> QED
    BY <1>2, <2>1, <2>2
<1>6. CASE load_current(t)
  <2> DEFINE r == [loc[t] EXCEPT !.seen = stats.current_usage]
  <2>1. r.ptr = loc[t].ptr /\ r.want = loc[t].want /\ r.op = loc[t].op /\ loc' = [loc EXCEPT ![t] = r]
    BY <1>1, <1>6 DEF load_current, Locals
  <2> HIDE DEF r
  <2> QED
    BY <1>6, <2>1, MoveStep, Zenon DEF load_current, Goto, shared
<1>7. CASE load_peak(t)
  BY <1>2, <1>7 DEF load_peak
<1>8. CASE store_peak(t)
  BY <1>2, <1>8 DEF store_peak
<1>9. CASE count_free(t)
  BY <1>2, <1>9 DEF count_free
<1>10. CASE add_total_freed(t)
  BY <1>2, <1>10 DEF add_total_freed
<1>11. CASE sub_usage(t)
  BY <1>2, <1>11 DEF sub_usage
<1> QED
  BY <1>3, <1>4, <1>5, <1>6, <1>7, <1>8, <1>9, <1>10, <1>11 DEF Count

(* Every step of the allocation layer keeps the invariant.                   *)
LEMMA BlockStep == BlockInv /\ [Next]_vars => BlockInv'
<1> SUFFICES ASSUME BlockInv, [Next]_vars PROVE BlockInv'
  OBVIOUS
<1>1. TypeInv'
  BY TypeStep DEF BlockInv
<1>2. ASSUME NEW t \in Thread, return_void(t) \/ load_free_count(t) PROVE BlockInv'
  <2>1. ~Owns("idle", no_locals) /\ "idle" \notin Freeing
    BY DEF Owns, Holding, Freeing
  <2> QED
    BY <1>1, <1>2, <2>1, MoveStep DEF return_void, load_free_count, Return, Goto, shared
<1>3. CASE Configure
  <2>1. UNCHANGED <<heap, user, pc, loc, work>>
    BY <1>3 DEF Configure, neoc_set_allocator, neoc_reset_allocator, neoc_memory_debug_disable
  <2>2. Live' /\ NoWrap' = NoWrap
    BY <2>1 DEF BlockInv, Live, Owner, NoWrap, NotUsed
  <2>3. "allocator" \notin work.uses => custom_allocator' = custom_allocator
    BY <1>3 DEF Configure, neoc_memory_debug_disable
  <2>4. Room => Room'
    BY <2>1, <2>3 DEF Room, Owner, NotUsed
  <2> QED
    BY <1>1, <2>2, <2>4 DEF BlockInv
<1>4. CASE Finished \/ UNCHANGED vars
  BY <1>1, <1>4 DEF Finished, vars, BlockInv, Live, Room, NoWrap, Owner, NotUsed
<1> QED
  BY <1>1, <1>2, <1>3, <1>4, CallBlocks, TrackBlocks, HeapBlocks, CountBlocks, ReturnStep DEF Next, Step

(* Initially there are no blocks.                                            *)
LEMMA BlockInit == Init => BlockInv
<1> SUFFICES ASSUME Init PROVE BlockInv
  OBVIOUS
<1>1. TypeInv
  BY TypeInit
<1>2. DOMAIN user = {} /\ \A t \in Thread : pc[t] = "idle"
  BY DEF Init
<1>3. Live
  BY <1>2 DEF Live, Owner, Owns, Holding, Freeing
<1>4. Room
  BY <1>2 DEF Init, Room, Owner, Owns, Holding
<1> QED
  BY <1>1, <1>3, <1>4 DEF BlockInv

(* As long as no wrapped product reaches a custom malloc_func, a pointer a   *)
(* caller of neoc_malloc, neoc_calloc or neoc_realloc holds is a live block, *)
(* held by no other caller or call, with room for what was asked for; for    *)
(* any number of threads and whatever allocators they exchange meanwhile.    *)
THEOREM RequestsHonoured == Spec => [](NoWrap => RequestHonoured)
<1>1. BlockInv => (NoWrap => RequestHonoured)
  BY DEF BlockInv, Live, Room, RequestHonoured
<1> QED
  BY <1>1, BlockInit, BlockStep, PTL DEF Spec

-----------------------------------------------------------------------------
(* The list.  A block is listed only while its size is the heap's, and a     *)
(* call lists or unlinks its own block only.                                 *)

Listed(list, p) == \E i \in DOMAIN list : list[i].ptr = p

(* Labels at which the block of the call is not listed; at which it is on    *)
(* its way into the list; before the call has looked for its entry.          *)
Tracking == {"count", "t_entry", "t_lock", "t_read", "t_write"}
Unlisted == Tracking \cup {"u_rel", "realloc", "f_free"}
Searching == {"f_func", "u_lock", "u_find"}

Unique(s) == \A i, j \in DOMAIN s : s[i].ptr = s[j].ptr => i = j

(* s is the list without an entry of p.                                      *)
Unlinked(list, s, p) ==
    /\ Unique(s)
    /\ \A i \in DOMAIN s : s[i].ptr # p /\ \E j \in DOMAIN list : s[i] = list[j]

(* What holds, with this heap and list, of a call at label l with locals r.  *)
CallInv(blocks, list, l, r) ==
    /\ ~r.custom
    /\ l \in Unlisted => ~Listed(list, r.ptr)
    /\ l \in Tracking => blocks[r.ptr] = (IF r.op = "retrack" THEN r.old ELSE r.size)
    /\ l \in {"u_write", "u_rel", "realloc"} /\ r.had => blocks[r.ptr] = r.old
    /\ l \in Searching => ~r.had
    /\ l \in Searching \cup {"alloc", "count", "u_write", "u_rel", "realloc"} => r.op # "retrack"
    /\ l = "t_write" => r.next = list
    /\ l = "u_write" => Unlinked(list, r.next, r.ptr)

Entries(blocks, list) ==
    /\ \A i \in DOMAIN list : list[i].ptr \in DOMAIN blocks /\ blocks[list[i].ptr] = list[i].size
    /\ Unique(list)

ListInv ==
    NotUsed({"allocator"}) =>
        /\ custom_allocator = system
        /\ Entries(heap, alloc_head)
        /\ \A t \in Thread : CallInv(heap, alloc_head, pc[t], loc[t])

(* Unlinking an entry moves those behind it up by one.                       *)
LEMMA RemoveAtElements ==
  ASSUME NEW S, NEW s \in Seq(S), NEW i \in 1 .. Len(s)
  PROVE  /\ RemoveAt(s, i) \in Seq(S)
         /\ Len(RemoveAt(s, i)) = Len(s) - 1
         /\ \A k \in 1 .. (Len(s) - 1) : RemoveAt(s, i)[k] = s[IF k < i THEN k ELSE k + 1]
<1> DEFINE a == SubSeq(s, 1, i - 1)
           b == SubSeq(s, i + 1, Len(s))
<1>1. Len(s) \in Nat /\ i \in Nat /\ 1 <= i /\ i <= Len(s) /\ \A j \in 1 .. Len(s) : s[j] \in S
  OBVIOUS
<1>2. a \in Seq(S) /\ Len(a) = i - 1 /\ \A k \in 1 .. (i - 1) : a[k] = s[k]
  <2>1. \A k \in 1 .. (i - 1) : s[k] \in S
    BY <1>1
  <2>2. /\ a \in Seq(S) /\ Len(a) = (IF 1 <= i - 1 THEN (i - 1) - 1 + 1 ELSE 0)
        /\ \A k \in 1 .. ((i - 1) - 1 + 1) : a[k] = s[1 + k - 1]
    BY <1>1, <2>1, SubSeqProperties
  <2> HIDE DEF a
  <2> QED
    BY <1>1, <2>2
<1>3. b \in Seq(S) /\ Len(b) = Len(s) - i /\ \A k \in 1 .. (Len(s) - i) : b[k] = s[i + k]
  <2>1. \A k \in (i + 1) .. Len(s) : s[k] \in S
    BY <1>1
  <2>2. /\ b \in Seq(S) /\ Len(b) = (IF i + 1 <= Len(s) THEN Len(s) - (i + 1) + 1 ELSE 0)
        /\ \A k \in 1 .. (Len(s) - (i + 1) + 1) : b[k] = s[(i + 1) + k - 1]
    BY <1>1, <2>1, SubSeqProperties
  <2> HIDE DEF b
  <2> QED
    BY <1>1, <2>2
<1>4. RemoveAt(s, i) = a \o b
  BY DEF RemoveAt
<1> HIDE DEF a, b
<1>5. /\ a \o b \in Seq(S) /\ Len(a \o b) = Len(s) - 1
      /\ \A k \in 1 .. (Len(s) - 1) : (a \o b)[k] = IF k <= i - 1 THEN a[k] ELSE b[k - (i - 1)]
  <2>1. Len(a) + Len(b) = Len(s) - 1
    BY <1>1, <1>2, <1>3
  <2>2. /\ a \o b \in Seq(S) /\ Len(a \o b) = Len(a) + Len(b)
        /\ \A k \in 1 .. (Len(a) + Len(b)) : (a \o b)[k] = IF k <= Len(a) THEN a[k] ELSE b[k - Len(a)]
    BY <1>2, <1>3, ConcatProperties, Zenon
  <2> QED
    BY <1>2, <2>1, <2>2
<1>6. ASSUME NEW k \in 1 .. (Len(s) - 1) PROVE (a \o b)[k] = s[IF k < i THEN k ELSE k + 1]
  <2>1. CASE k < i
    BY <1>1, <1>2, <1>5, <2>1
  <2>2. CASE ~(k < i)
    <3>1. k - (i - 1) \in 1 .. (Len(s) - i) /\ i + (k - (i - 1)) = k + 1 /\ ~(k <= i - 1)
      BY <1>1, <2>2
    <3> QED
      BY <1>3, <1>5, <2>2, <3>1, Zenon
  <2> QED
    BY <2>1, <2>2, Zenon
<1> QED
  BY <1>4, <1>5, <1>6

(* Unlinking one entry of a list without duplicates leaves the others.       *)
LEMMA RemoveAtKeeps ==
  ASSUME NEW S, NEW s \in Seq(S), NEW i \in 1 .. Len(s), Unique(s)
  PROVE  /\ Unique(RemoveAt(s, i))
         /\ \A k \in DOMAIN RemoveAt(s, i) :
               \E j \in DOMAIN s : RemoveAt(s, i)[k] = s[j] /\ s[j].ptr # s[i].ptr
<1> DEFINE q == RemoveAt(s, i)
           from(k) == IF k < i THEN k ELSE k + 1
<1>1. Len(s) \in Nat /\ i \in Nat /\ i >= 1 /\ i <= Len(s) /\ DOMAIN s = 1 .. Len(s)
  OBVIOUS
<1>2. q \in Seq(S) /\ Len(q) = Len(s) - 1 /\ \A k \in 1 .. (Len(s) - 1) : q[k] = s[from(k)]
  BY RemoveAtElements, Zenon
<1> HIDE DEF q
<1>3. DOMAIN q = 1 .. (Len(s) - 1)
  BY <1>2
<1>4. \A k \in DOMAIN q : from(k) \in DOMAIN s /\ from(k) # i
  BY <1>1, <1>3
<1>5. \A k, m \in DOMAIN q : from(k) = from(m) => k = m
  BY <1>1, <1>3
<1> HIDE DEF from
<1>6. Unique(q)
  BY <1>2, <1>3, <1>4, <1>5 DEF Unique
<1>7. \A k \in DOMAIN q : \E j \in DOMAIN s : q[k] = s[j] /\ s[j].ptr # s[i].ptr
  BY <1>1, <1>2, <1>3, <1>4 DEF Unique
<1> QED
  BY <1>6, <1>7 DEF q

(* A step of one call keeps the invariant if it leaves the list faithful and *)
(* its own call in order, touches no block but its own, lists no block but   *)
(* its own, and changes the list only inside the critical section.           *)
LEMMA ListStep ==
  ASSUME BlockInv, LockInv, ListInv, NotUsed({"allocator"}),
         NEW t \in Thread, NEW l, NEW r,
         pc' = [pc EXCEPT ![t] = l], loc' = [loc EXCEPT ![t] = r],
         UNCHANGED <<custom_allocator, work>>,
         Entries(heap', alloc_head'), CallInv(heap', alloc_head', l, r),
         \A p \in DOMAIN heap : (Owns(pc[t], loc[t]) /\ p = loc[t].ptr) \/ heap'[p] = heap[p],
         \A i \in DOMAIN alloc_head' :
            (Owns(pc[t], loc[t]) /\ alloc_head'[i].ptr = loc[t].ptr) \/ Listed(alloc_head, alloc_head'[i].ptr),
         alloc_head' = alloc_head \/ pc[t] \in Critical
  PROVE  ListInv'
<1>1. /\ pc'[t] = l /\ loc'[t] = r
      /\ \A u \in Thread \ {t} : pc'[u] = pc[u] /\ loc'[u] = loc[u]
  BY DEF BlockInv, TypeInv, TypeOK
<1>2. ASSUME NEW u \in Thread, u # t PROVE CallInv(heap', alloc_head', pc'[u], loc'[u])
  <2>1. CallInv(heap, alloc_head, pc[u], loc[u])
    BY DEF ListInv
  <2>2. pc[u] \in Unlisted \cup {"u_write"} => Owns(pc[u], loc[u])
    BY DEF Owns, Holding, Labels, Released, Unlisted, Tracking
  <2>3. Owns(pc[u], loc[u]) =>
          loc[u].ptr \in DOMAIN heap /\ ~(Owns(pc[t], loc[t]) /\ loc[u].ptr = loc[t].ptr)
    BY <1>2 DEF BlockInv, Live, Owner
  <2>4. pc[u] \in Unlisted \cup {"u_write"} => heap'[loc[u].ptr] = heap[loc[u].ptr]
    BY <2>2, <2>3
  <2>5. pc[u] \in Unlisted => \A i \in DOMAIN alloc_head' : alloc_head'[i].ptr # loc[u].ptr
    BY <2>1, <2>2, <2>3 DEF CallInv
  <2>6. pc[u] \in {"t_write", "u_write"} => alloc_head' = alloc_head
    BY <1>2 DEF LockInv, MutualExclusion, Critical
  <2>7. pc[u] \in Tracking \cup {"u_write", "u_rel", "realloc"} => pc[u] \in Unlisted \cup {"u_write"}
    BY DEF Unlisted
  <2>8. pc'[u] = pc[u] /\ loc'[u] = loc[u]
    BY <1>1, <1>2
  <2>9. pc[u] \in Unlisted => ~Listed(alloc_head', loc[u].ptr)
    BY <2>5 DEF Listed
  <2>10. /\ pc[u] \in Tracking => heap'[loc[u].ptr] = heap[loc[u].ptr]
         /\ pc[u] \in {"u_write", "u_rel", "realloc"} => heap'[loc[u].ptr] = heap[loc[u].ptr]
    BY <2>4, <2>7
  <2>11. /\ pc[u] \in Tracking => heap'[loc[u].ptr] = (IF loc[u].op = "retrack" THEN loc[u].old ELSE loc[u].size)
         /\ pc[u] \in {"u_write", "u_rel", "realloc"} /\ loc[u].had => heap'[loc[u].ptr] = loc[u].old
    BY <2>1, <2>10 DEF CallInv
  <2>12. /\ pc[u] = "t_write" => loc[u].next = alloc_head'
         /\ pc[u] = "u_write" => Unlinked(alloc_head', loc[u].next, loc[u].ptr)
    BY <2>1, <2>6 DEF CallInv
  <2>13. CallInv(heap', alloc_head', pc[u], loc[u])
    BY <2>1, <2>9, <2>11, <2>12, Zenon DEF CallInv
  <2> QED
    BY <2>8, <2>13
<1>3. CallInv(heap', alloc_head', pc'[t], loc'[t])
  BY <1>1 DEF CallInv, Listed, Unlinked
<1>4. custom_allocator' = system
  BY DEF ListInv
<1> QED
  BY <1>2, <1>3, <1>4 DEF ListInv

(* A step that leaves the heap and the list alone.                           *)
LEMMA ListMove ==
  ASSUME BlockInv, LockInv, ListInv, NotUsed({"allocator"}),
         NEW t \in Thread, NEW l, NEW r,
         pc' = [pc EXCEPT ![t] = l], loc' = [loc EXCEPT ![t] = r],
         UNCHANGED <<heap, alloc_head, custom_allocator, work>>,
         CallInv(heap, alloc_head, l, r)
  PROVE  ListInv'
<1>1. Entries(heap', alloc_head')
  BY DEF ListInv, Entries
<1>2. CallInv(heap', alloc_head', l, r)
  BY DEF CallInv, Listed, Unlinked
<1>3. \A i \in DOMAIN alloc_head' : Listed(alloc_head, alloc_head'[i].ptr)
  BY DEF Listed
<1> QED
  BY <1>1, <1>2, <1>3, ListStep, Zenon

(* A call that returns, or has nothing to do with the list.                  *)
LEMMA ListAside ==
  ASSUME BlockInv, LockInv, ListInv, NotUsed({"allocator"}),
         NEW t \in Thread, NEW r, ~r.custom,
         NEW l \in {"idle", "g_frees", "g_blocks", "total", "usage", "ld_cur", "ld_peak", "st_peak", "ret",
                    "t_rel", "frees", "freed", "unuse", "done"},
         pc' = [pc EXCEPT ![t] = l], loc' = [loc EXCEPT ![t] = r],
         UNCHANGED <<heap, alloc_head, custom_allocator, work>>
  PROVE  ListInv'
<1>1. CallInv(heap, alloc_head, l, r)
  BY DEF CallInv, Unlisted, Tracking, Searching
<1> QED
  BY <1>1, ListMove, Zenon

(* A call of the interface begins with its block's entry still to be found.  *)
LEMMA CallLists ==
  ASSUME BlockInv, LockInv, ListInv, NotUsed({"allocator"}), NEW t \in Thread, Call(t)
  PROVE  ListInv'
<1>0. using_custom_allocator = FALSE
  BY DEF ListInv, using_custom_allocator, system
<1>1. ASSUME NEW l \in {"alloc", "f_func", "u_lock", "g_frees", "g_blocks"}, NEW r,
             ~r.custom, ~r.had, r.op # "retrack", Enter(t, l, r)
      PROVE  ListInv'
  <2>1. CallInv(heap, alloc_head, l, r)
    BY <1>1 DEF CallInv, Unlisted, Tracking, Searching
  <2> QED
    BY <1>1, <2>1, ListMove, Zenon DEF Enter, Goto
<1>2. ASSUME NEW n, neoc_malloc(t, n) PROVE ListInv'
  <2> DEFINE r == [no_locals EXCEPT !.op = "alloc", !.size = n, !.want = n, !.custom = using_custom_allocator]
  <2>1. ~r.custom /\ ~r.had /\ r.op # "retrack"
    BY <1>0 DEF no_locals
  <2>2. Enter(t, "alloc", r)
    BY <1>2 DEF neoc_malloc
  <2> HIDE DEF r
  <2> QED
    BY <1>1, <2>1, <2>2
<1>3. ASSUME NEW c, NEW n, neoc_calloc(t, c, n) PROVE ListInv'
  <2> DEFINE r == [no_locals EXCEPT !.op = "alloc", !.size = (c * n) % SizeMod, !.want = c * n,
                                    !.custom = using_custom_allocator]
  <2>1. ~r.custom /\ ~r.had /\ r.op # "retrack"
    BY <1>0 DEF no_locals
  <2>2. Enter(t, "alloc", r)
    BY <1>3 DEF neoc_calloc
  <2> HIDE DEF r
  <2> QED
    BY <1>1, <2>1, <2>2
<1>4. ASSUME NEW p, neoc_free(t, p) PROVE ListInv'
  <2> DEFINE r == [no_locals EXCEPT !.op = "free", !.ptr = p, !.custom = using_custom_allocator]
  <2>1. ~r.custom /\ ~r.had /\ r.op # "retrack"
    BY <1>0 DEF no_locals
  <2>2. Enter(t, "f_func", r)
    BY <1>4 DEF neoc_free
  <2> HIDE DEF r
  <2> QED
    BY <1>1, <2>1, <2>2
<1>5. ASSUME NEW p, NEW n, neoc_realloc(t, p, n) PROVE ListInv'
  <2> DEFINE r == [no_locals EXCEPT !.op = "realloc", !.ptr = p, !.size = n, !.want = user[p],
                                    !.custom = using_custom_allocator]
  <2>1. ~r.custom /\ ~r.had /\ r.op # "retrack"
    BY <1>0 DEF no_locals
  <2>2. Enter(t, "u_lock", r)
    BY <1>0, <1>5 DEF neoc_realloc
  <2> HIDE DEF r
  <2> QED
    BY <1>1, <2>1, <2>2
<1>6. ASSUME neoc_get_allocation_count(t) \/ neoc_memory_debug_get_stats(t) PROVE ListInv'
  <2> DEFINE c == [no_locals EXCEPT !.op = "count", !.seen = stats.allocation_count,
                                    !.old = difference(stats.allocation_count, stats.free_count)]
             g == [no_locals EXCEPT !.op = "stats", !.seen = stats.allocation_count]
  <2>1. ~c.custom /\ ~c.had /\ c.op # "retrack" /\ ~g.custom /\ ~g.had /\ g.op # "retrack"
    BY DEF no_locals
  <2>2. Enter(t, "g_frees", c) \/ Enter(t, "g_blocks", g)
    BY <1>6 DEF neoc_get_allocation_count, neoc_memory_debug_get_stats
  <2> HIDE DEF c, g
  <2> QED
    BY <1>1, <2>1, <2>2
<1> QED
  BY <1>2, <1>3, <1>4, <1>5, <1>6 DEF Call, neoc_strdup, neoc_strndup, neoc_memdup, neoc_secure_free

(* Steps that use the heap: a block enters it unlisted and leaves it so.     *)
LEMMA HeapLists ==
  ASSUME BlockInv, LockInv, ListInv, NotUsed({"allocator"}), NEW t \in Thread, Heap(t)
  PROVE  ListInv'
<1>0. /\ loc[t] \in Locals /\ CallInv(heap, alloc_head, pc[t], loc[t]) /\ Entries(heap, alloc_head) /\ custom_allocator = system
      /\ loc[t].custom = FALSE
  BY Zenon DEF BlockInv, TypeInv, TypeOK, ListInv, CallInv, Locals
<1>1. no_locals.custom = FALSE
  BY DEF no_locals
<1>2. \A i \in DOMAIN alloc_head : Listed(alloc_head, alloc_head[i].ptr)
  BY DEF Listed
<1>3. CASE system_alloc(t)
  <2>1. UNCHANGED <<custom_allocator, alloc_head, work>> /\ pc[t] = "alloc"
    BY <1>3 DEF system_alloc
  <2>2. CASE Return(t) /\ UNCHANGED heap
    BY <1>1, <2>1, <2>2, ListAside, Zenon DEF Return, Goto
  <2>3. ASSUME NEW p \in Ptr \ DOMAIN heap, heap' = With(heap, p, loc[t].size),
               loc' = [loc EXCEPT ![t].ptr = p], Goto(t, IF loc[t].custom THEN "ret" ELSE "count")
        PROVE  ListInv'
    <3> DEFINE r == [loc[t] EXCEPT !.ptr = p]
    <3>1. /\ r.ptr = p /\ r.size = loc[t].size /\ r.op = loc[t].op /\ ~r.custom
          /\ loc' = [loc EXCEPT ![t] = r]
      BY <1>0, <2>3 DEF Locals
    <3>2. pc' = [pc EXCEPT ![t] = "count"]
      BY <1>0, <2>3, Zenon DEF Goto
    <3>3. heap'[p] = loc[t].size /\ \A q \in DOMAIN heap : q \in DOMAIN heap' /\ heap'[q] = heap[q]
      BY <2>3 DEF With
    <3> HIDE DEF r
    <3>4. Entries(heap', alloc_head')
      BY <1>0, <2>1, <3>3 DEF Entries
    <3>5. \A i \in DOMAIN alloc_head' : alloc_head'[i].ptr # p
      BY <1>0, <2>1, <2>3 DEF Entries
    <3>6. loc[t].op # "retrack"
      BY <1>0, <2>1 DEF CallInv
    <3>7. CallInv(heap', alloc_head', "count", r)
      BY <3>1, <3>3, <3>5, <3>6 DEF CallInv, Listed, Searching
    <3> QED
      BY <1>2, <2>1, <3>1, <3>2, <3>3, <3>4, <3>7, ListStep, Zenon
  <2> QED
    BY <1>3, <2>2, <2>3 DEF system_alloc
<1>4. CASE system_realloc(t)
  <2>1. UNCHANGED <<custom_allocator, alloc_head, work>> /\ pc[t] = "realloc"
    BY <1>4, Zenon DEF system_realloc
  <2>2. Owns(pc[t], loc[t])
    BY <2>1 DEF Owns, Holding, Labels, Released
  <2>3. ~Listed(alloc_head, loc[t].ptr) /\ loc[t].op # "retrack" /\ (loc[t].had => heap[loc[t].ptr] = loc[t].old)
    BY <1>0, <2>1 DEF CallInv, Unlisted
  <2>4. ASSUME NEW q \in (Ptr \ DOMAIN heap) \cup {loc[t].ptr},
               heap' = With(Without(heap, loc[t].ptr), q, loc[t].size),
               loc' = [loc EXCEPT ![t] = [@ EXCEPT !.ptr = q, !.want = loc[t].size]],
               Goto(t, IF loc[t].custom THEN "ret" ELSE "count")
        PROVE  ListInv'
    <3> DEFINE r == [loc[t] EXCEPT !.ptr = q, !.want = loc[t].size]
    <3>1. /\ r.ptr = q /\ r.size = loc[t].size /\ r.op = loc[t].op /\ ~r.custom
          /\ loc' = [loc EXCEPT ![t] = r]
      BY <1>0, <2>4 DEF Locals
    <3>2. pc' = [pc EXCEPT ![t] = "count"]
      BY <1>0, <2>4, Zenon DEF Goto
    <3>3. /\ heap'[q] = loc[t].size
          /\ \A p \in DOMAIN heap \ {loc[t].ptr} : p \in DOMAIN heap' /\ heap'[p] = heap[p]
      BY <2>4 DEF With, Without
    <3> HIDE DEF r
    <3>4. Entries(heap', alloc_head')
      BY <1>0, <2>1, <2>3, <3>3 DEF Entries, Listed
    <3>5. \A i \in DOMAIN alloc_head' : alloc_head'[i].ptr # q
      BY <1>0, <2>1, <2>3, <2>4 DEF Entries, Listed
    <3>6. CallInv(heap', alloc_head', "count", r)
      BY <2>3, <3>1, <3>3, <3>5 DEF CallInv, Listed, Searching
    <3> QED
      BY <1>2, <2>1, <2>2, <3>1, <3>2, <3>3, <3>4, <3>6, ListStep, Zenon
  <2>5. ASSUME UNCHANGED heap, loc' = realloc_failed(t), Goto(t, IF loc[t].had THEN "t_entry" ELSE "ret")
        PROVE  ListInv'
    <3> DEFINE r == [loc[t] EXCEPT !.op = "retrack"]
    <3>1. /\ r.ptr = loc[t].ptr /\ r.old = loc[t].old /\ r.op = "retrack" /\ ~r.custom
          /\ loc' = [loc EXCEPT ![t] = r]
      BY <1>0, <2>5 DEF Locals, realloc_failed
    <3> HIDE DEF r
    <3>2. CASE loc[t].had
      <4>1. CallInv(heap, alloc_head, "t_entry", r)
        BY <2>3, <3>1, <3>2 DEF CallInv, Searching
      <4> QED
        BY <2>1, <2>5, <3>1, <3>2, <4>1, ListMove, Zenon DEF Goto
    <3>3. CASE ~loc[t].had
      BY <2>1, <2>5, <3>1, <3>3, ListAside, Zenon DEF Goto
    <3> QED
      BY <3>2, <3>3
  <2> QED
    BY <1>4, <2>4, <2>5, Zenon DEF system_realloc
<1>5. CASE custom_free(t)
  <2>1. Goto(t, "u_lock") /\ UNCHANGED <<shared, loc, calls, work>> /\ pc[t] = "f_func"
    BY <1>0, <1>5 DEF custom_free, system
  <2>2. CallInv(heap, alloc_head, "u_lock", loc[t])
    BY <1>0, <2>1 DEF CallInv, Unlisted, Tracking, Searching
  <2>3. loc' = [loc EXCEPT ![t] = loc[t]]
    BY <2>1 DEF BlockInv, TypeInv, TypeOK
  <2> QED
    BY <2>1, <2>2, <2>3, ListMove, Zenon DEF Goto, shared
<1>6. CASE system_free(t)
  <2>1. /\ pc[t] = "f_free" /\ heap' = Without(heap, loc[t].ptr)
        /\ pc' = [pc EXCEPT ![t] = "frees"] /\ loc' = loc
        /\ UNCHANGED <<custom_allocator, alloc_head, work>>
    BY <1>0, <1>6 DEF system_free, release_block, Goto
  <2>2. Owns(pc[t], loc[t]) /\ ~Listed(alloc_head, loc[t].ptr)
    BY <1>0, <2>1, Zenon DEF Owns, Holding, Labels, Released, CallInv, Unlisted
  <2>3. \A p \in DOMAIN heap \ {loc[t].ptr} : p \in DOMAIN heap' /\ heap'[p] = heap[p]
    BY <2>1 DEF Without
  <2>4. Entries(heap', alloc_head')
    BY <1>0, <2>1, <2>2, <2>3 DEF Entries, Listed
  <2>5. CallInv(heap', alloc_head', "frees", loc[t])
    BY <1>0, <2>1 DEF CallInv, Unlisted, Tracking, Searching
  <2>6. loc' = [loc EXCEPT ![t] = loc[t]]
    BY <2>1 DEF BlockInv, TypeInv, TypeOK
  <2> QED
    BY <1>2, <2>1, <2>2, <2>3, <2>4, <2>5, <2>6, ListStep, Zenon
<1> QED
  BY <1>3, <1>4, <1>5, <1>6 DEF Heap

(* Steps of track_allocation: the entry is put before the list that was read *)
(* under the lock.                                                           *)
LEMMA TrackLists ==
  ASSUME BlockInv, LockInv, ListInv, NotUsed({"allocator"}), NEW t \in Thread,
         \/ track_entry(t) \/ alloc_lock_acquire(t)
         \/ track_read(t) \/ track_write(t) \/ track_release(t)
  PROVE  ListInv'
<1>0. /\ loc[t] \in Locals /\ loc = [loc EXCEPT ![t] = loc[t]]
      /\ CallInv(heap, alloc_head, pc[t], loc[t]) /\ Entries(heap, alloc_head)
      /\ alloc_head \in Seq(alloc_entry_t)
  BY DEF BlockInv, TypeInv, TypeOK, ListInv
<1>1. ~loc[t].custom /\ after_track(t) \in {"total", "ret"}
  BY <1>0 DEF CallInv, after_track
<1>2. CASE track_entry(t)
  <2>1. UNCHANGED <<heap, alloc_head, custom_allocator, loc, work>> /\ pc[t] = "t_entry"
    BY <1>2 DEF track_entry, shared
  <2>2. CallInv(heap, alloc_head, "t_lock", loc[t])
    BY <1>0, <2>1 DEF CallInv, Unlisted, Tracking, Searching
  <2>3. CASE Goto(t, "t_lock")
    BY <1>0, <2>1, <2>2, <2>3, ListMove, Zenon DEF Goto
  <2>4. CASE Goto(t, after_track(t))
    BY <1>0, <1>1, <2>1, <2>4, ListAside, Zenon DEF Goto
  <2> QED
    BY <1>2, <2>3, <2>4 DEF track_entry
<1>3. CASE alloc_lock_acquire(t)
  <2>1. UNCHANGED <<heap, alloc_head, custom_allocator, loc, work>>
    BY <1>3 DEF alloc_lock_acquire, acquire_if
  <2>2. PICK l \in {"t_read", "u_find"} :
          /\ pc' = [pc EXCEPT ![t] = l]
          /\ l = "t_read" => pc[t] = "t_lock"
          /\ l = "u_find" => pc[t] = "u_lock"
    BY <1>3, Zenon DEF alloc_lock_acquire, acquire_if, Goto
  <2>3. CallInv(heap, alloc_head, l, loc[t])
    BY <1>0, <2>2 DEF CallInv, Unlisted, Tracking, Searching
  <2> QED
    BY <1>0, <2>1, <2>2, <2>3, ListMove, Zenon
<1>4. CASE track_read(t)
  <2> DEFINE r == [loc[t] EXCEPT !.next = alloc_head]
  <2>1. /\ r.ptr = loc[t].ptr /\ r.op = loc[t].op /\ r.old = loc[t].old /\ r.size = loc[t].size
        /\ ~r.custom /\ r.next = alloc_head /\ loc' = [loc EXCEPT ![t] = r]
    BY <1>0, <1>1, <1>4 DEF track_read, Locals
  <2>2. /\ UNCHANGED <<heap, alloc_head, custom_allocator, work>> /\ pc[t] = "t_read"
        /\ pc' = [pc EXCEPT ![t] = "t_write"]
    BY <1>4 DEF track_read, shared, Goto
  <2> HIDE DEF r
  <2>3. CallInv(heap, alloc_head, "t_write", r)
    BY <1>0, <2>1, <2>2 DEF CallInv, Unlisted, Tracking, Searching
  <2> QED
    BY <2>1, <2>2, <2>3, ListMove, Zenon
<1>5. CASE track_write(t)
  <2>1. /\ UNCHANGED <<heap, custom_allocator, work>> /\ pc[t] = "t_write"
        /\ pc' = [pc EXCEPT ![t] = "t_rel"] /\ loc' = [loc EXCEPT ![t] = loc[t]]
        /\ alloc_head' = <<entry(t)>> \o loc[t].next
    BY <1>0, <1>5 DEF track_write, Goto
  <2>2. /\ loc[t].next = alloc_head /\ ~Listed(alloc_head, loc[t].ptr)
        /\ entry(t).ptr = loc[t].ptr /\ heap[loc[t].ptr] = entry(t).size
    BY <1>0, <2>1 DEF CallInv, Unlisted, Tracking, entry
  <2>3. Owns(pc[t], loc[t]) /\ pc[t] \in Critical
    BY <2>1 DEF Owns, Holding, Labels, Released, Critical
  <2>4. loc[t].ptr \in DOMAIN heap
    BY <2>3 DEF BlockInv, Live, Owner
  <2>5. /\ DOMAIN alloc_head' = 1 .. (Len(alloc_head) + 1) /\ DOMAIN alloc_head = 1 .. Len(alloc_head)
        /\ Len(alloc_head) \in Nat
        /\ alloc_head'[1] = entry(t)
        /\ \A i \in 2 .. (Len(alloc_head) + 1) : alloc_head'[i] = alloc_head[i - 1]
    <3>1. alloc_head' = <<entry(t)>> \o alloc_head
      BY <2>1, <2>2
    <3>2. <<entry(t)>> \in Seq({entry(t)}) /\ Len(<<entry(t)>>) = 1 /\ <<entry(t)>>[1] = entry(t)
      OBVIOUS
    <3> HIDE DEF entry
    <3> QED
      BY <1>0, <3>1, <3>2
  <2>6. \A i \in 2 .. (Len(alloc_head) + 1) : i - 1 \in DOMAIN alloc_head
    BY <2>5
  <2>7. \A i \in DOMAIN alloc_head' : i = 1 \/ i \in 2 .. (Len(alloc_head) + 1)
    BY <2>5
  <2>8. \A i \in DOMAIN alloc_head' :
          /\ alloc_head'[i].ptr \in DOMAIN heap'
          /\ heap'[alloc_head'[i].ptr] = alloc_head'[i].size
    BY <1>0, <2>1, <2>2, <2>4, <2>5, <2>6, <2>7 DEF Entries
  <2>9. ASSUME NEW i \in DOMAIN alloc_head', NEW j \in DOMAIN alloc_head', alloc_head'[i].ptr = alloc_head'[j].ptr
        PROVE  i = j
    <3>1. CASE i = 1 /\ j # 1
      BY <2>2, <2>5, <2>6, <2>7, <2>9, <3>1 DEF Listed
    <3>2. CASE i # 1 /\ j = 1
      BY <2>2, <2>5, <2>6, <2>7, <2>9, <3>2 DEF Listed
    <3>3. CASE i # 1 /\ j # 1
      <4>1. i - 1 = j - 1
        BY <1>0, <2>5, <2>6, <2>7, <2>9, <3>3 DEF Entries, Unique
      <4> QED
        BY <2>5, <4>1
    <3> QED
      BY <3>1, <3>2, <3>3
  <2>10. Entries(heap', alloc_head')
    BY <2>8, <2>9 DEF Entries, Unique
  <2>11. CallInv(heap', alloc_head', "t_rel", loc[t])
    BY <1>1 DEF CallInv, Unlisted, Tracking, Searching
  <2>12. \A i \in DOMAIN alloc_head' : alloc_head'[i].ptr = loc[t].ptr \/ Listed(alloc_head, alloc_head'[i].ptr)
    BY <2>2, <2>5, <2>6, <2>7, Zenon DEF Listed
  <2> QED
    BY <2>1, <2>3, <2>10, <2>11, <2>12, ListStep, Zenon
<1>6. CASE track_release(t)
  <2> DEFINE r == [loc[t] EXCEPT !.next = <<>>]
  <2>1. ~r.custom /\ loc' = [loc EXCEPT ![t] = r]
    BY <1>0, <1>1, <1>6 DEF track_release, alloc_lock_release, Locals
  <2>2. UNCHANGED <<heap, alloc_head, custom_allocator, work>> /\ pc' = [pc EXCEPT ![t] = after_track(t)]
    BY <1>6 DEF track_release, alloc_lock_release, Goto
  <2> HIDE DEF r
  <2> QED
    BY <1>1, <2>1, <2>2, ListAside, Zenon
<1> QED
  BY <1>2, <1>3, <1>4, <1>5, <1>6

(* Steps of untrack_allocation: the entry found is the only one of its       *)
(* block, so the block is not listed once it is unlinked.                    *)
LEMMA UntrackLists ==
  ASSUME BlockInv, LockInv, ListInv, NotUsed({"allocator"}), NEW t \in Thread,
         untrack_find(t) \/ untrack_write(t) \/ untrack_release(t)
  PROVE  ListInv'
<1>0. /\ loc[t] \in Locals /\ loc = [loc EXCEPT ![t] = loc[t]]
      /\ CallInv(heap, alloc_head, pc[t], loc[t]) /\ Entries(heap, alloc_head)
      /\ alloc_head \in Seq(alloc_entry_t)
  BY Zenon DEF BlockInv, TypeInv, TypeOK, ListInv
<1>1. ~loc[t].custom
  BY <1>0 DEF CallInv
<1>2. CASE untrack_find(t)
  <2>1. UNCHANGED <<heap, alloc_head, custom_allocator, work>> /\ pc[t] = "u_find"
    BY <1>2, Zenon DEF untrack_find, shared
  <2>2. ~loc[t].had /\ loc[t].op # "retrack"
    BY <1>0, <2>1 DEF CallInv, Searching
  <2>3. CASE positions(alloc_head, loc[t].ptr) = {} /\ Goto(t, "u_rel") /\ UNCHANGED loc
    <3>1. ~Listed(alloc_head, loc[t].ptr)
      BY <1>0, <2>3 DEF positions, Listed
    <3>2. CallInv(heap, alloc_head, "u_rel", loc[t])
      BY <1>1, <2>2, <3>1 DEF CallInv, Tracking, Searching
    <3> QED
      BY <1>0, <2>1, <2>3, <3>2, ListMove, Zenon DEF Goto
  <2>4. ASSUME NEW i \in positions(alloc_head, loc[t].ptr), Goto(t, "u_write"),
               loc' = [loc EXCEPT ![t] = [@ EXCEPT !.had = TRUE, !.old = alloc_head[i].size,
                                                   !.next = RemoveAt(alloc_head, i)]]
        PROVE  ListInv'
    <3> DEFINE r == [loc[t] EXCEPT !.had = TRUE, !.old = alloc_head[i].size, !.next = RemoveAt(alloc_head, i)]
    <3>1. /\ r.ptr = loc[t].ptr /\ r.op = loc[t].op /\ r.old = alloc_head[i].size
          /\ ~r.custom /\ r.next = RemoveAt(alloc_head, i) /\ loc' = [loc EXCEPT ![t] = r]
      BY <1>0, <1>1, <2>4 DEF Locals
    <3> HIDE DEF r
    <3>2. i \in 1 .. Len(alloc_head) /\ i \in DOMAIN alloc_head /\ alloc_head[i].ptr = loc[t].ptr
      BY <1>0, <2>4 DEF positions
    <3>3. heap[loc[t].ptr] = alloc_head[i].size
      BY <1>0, <3>2 DEF Entries
    <3>4. Unlinked(alloc_head, RemoveAt(alloc_head, i), loc[t].ptr)
      BY <1>0, <3>2, RemoveAtKeeps DEF Entries, Unlinked
    <3>5. CallInv(heap, alloc_head, "u_write", r)
      BY <2>2, <3>1, <3>3, <3>4 DEF CallInv, Unlisted, Tracking, Searching
    <3> QED
      BY <2>1, <2>4, <3>1, <3>5, ListMove, Zenon DEF Goto
  <2> QED
    BY <1>2, <2>3, <2>4, Zenon DEF untrack_find
<1>3. CASE untrack_write(t)
  <2>1. /\ UNCHANGED <<heap, custom_allocator, work>> /\ pc[t] = "u_write"
        /\ pc' = [pc EXCEPT ![t] = "u_rel"] /\ loc' = [loc EXCEPT ![t] = loc[t]]
        /\ alloc_head' = loc[t].next
    BY <1>0, <1>3 DEF untrack_write, Goto
  <2>2. /\ Unlinked(alloc_head, alloc_head', loc[t].ptr) /\ loc[t].op # "retrack"
        /\ loc[t].had => heap[loc[t].ptr] = loc[t].old
    BY <1>0, <2>1 DEF CallInv
  <2>3. Entries(heap', alloc_head')
    BY <1>0, <2>1, <2>2 DEF Entries, Unlinked
  <2>4. ~Listed(alloc_head', loc[t].ptr)
    BY <2>2 DEF Listed, Unlinked
  <2>5. CallInv(heap', alloc_head', "u_rel", loc[t])
    BY <1>1, <2>1, <2>2, <2>4 DEF CallInv, Tracking, Searching
  <2>6. \A i \in DOMAIN alloc_head' : Listed(alloc_head, alloc_head'[i].ptr)
    BY <2>2 DEF Listed, Unlinked
  <2>7. pc[t] \in Critical
    BY <2>1 DEF Critical
  <2> QED
    BY <2>1, <2>3, <2>5, <2>6, <2>7, ListStep, Zenon
<1>4. CASE untrack_release(t)
  <2> DEFINE r == [loc[t] EXCEPT !.next = <<>>]
  <2>1. /\ r.ptr = loc[t].ptr /\ r.op = loc[t].op /\ r.old = loc[t].old /\ r.had = loc[t].had
        /\ ~r.custom /\ loc' = [loc EXCEPT ![t] = r]
    BY <1>0, <1>1, <1>4 DEF untrack_release, alloc_lock_release, Locals
  <2>2. UNCHANGED <<heap, alloc_head, custom_allocator, work>> /\ pc[t] = "u_rel"
    BY <1>4 DEF untrack_release, alloc_lock_release
  <2>3. PICK l \in {"f_free", "realloc"} : pc' = [pc EXCEPT ![t] = l]
    BY <1>4, Zenon DEF untrack_release, alloc_lock_release, Goto
  <2> HIDE DEF r
  <2>4. CallInv(heap, alloc_head, l, r)
    BY <1>0, <2>1, <2>2 DEF CallInv, Unlisted, Tracking, Searching
  <2> QED
    BY <2>1, <2>2, <2>3, <2>4, ListMove, Zenon
<1> QED
  BY <1>2, <1>3, <1>4

(* Steps on the counters have nothing to do with the list, but for the first *)
(* of an allocation, which tracks its block next.                            *)
LEMMA CountLists ==
  ASSUME BlockInv, LockInv, ListInv, NotUsed({"allocator"}), NEW t \in Thread, Count(t)
  PROVE  ListInv'
<1>0. /\ loc[t] \in Locals /\ loc = [loc EXCEPT ![t] = loc[t]]
      /\ CallInv(heap, alloc_head, pc[t], loc[t]) /\ ~loc[t].custom
  BY Zenon DEF BlockInv, TypeInv, TypeOK, ListInv, CallInv
<1>2. CASE count_allocation(t)
  <2>1. /\ UNCHANGED <<heap, alloc_head, custom_allocator, loc, work>> /\ pc[t] = "count"
        /\ pc' = [pc EXCEPT ![t] = "t_entry"]
    BY <1>2 DEF count_allocation, Counter, Goto
  <2>2. CallInv(heap, alloc_head, "t_entry", loc[t])
    BY <1>0, <2>1 DEF CallInv, Unlisted, Tracking, Searching
  <2> QED
    BY <1>0, <2>1, <2>2, ListMove, Zenon
<1>3. CASE load_current(t)
  <2> DEFINE r == [loc[t] EXCEPT !.seen = stats.current_usage]
  <2>1. ~r.custom /\ loc' = [loc EXCEPT ![t] = r]
    BY <1>0, <1>3 DEF load_current, Locals
  <2> HIDE DEF r
  <2> QED
    BY <1>3, <2>1, ListAside, Zenon DEF load_current, Goto, shared
<1>4. ASSUME NEW from, NEW s, NEW l, Counter(t, from, s, l),
             l \in {"usage", "ld_cur", "ret", "st_peak", "frees", "freed", "unuse", "done"}
      PROVE  ListInv'
  BY <1>0, <1>4, ListAside, Zenon DEF Counter, Goto
<1>5. CASE add_usage(t)
  <2> DEFINE l == CASE loc[t].op = "alloc" -> "ld_cur"
                    [] loc[t].op # "alloc" /\ loc[t].had /\ loc[t].old > 0 -> "frees"
                    [] OTHER -> "ret"
  <2>1. Counter(t, "usage", [stats EXCEPT !.current_usage = add(@, loc[t].size)], l)
    BY <1>5 DEF add_usage
  <2>2. l \in {"ld_cur", "frees", "ret"}
    OBVIOUS
  <2> HIDE DEF l
  <2> QED
    BY <1>4, <2>1, <2>2
<1>6. CASE add_total(t) \/ load_peak(t) \/ store_peak(t)
  BY <1>4, <1>6 DEF add_total, load_peak, store_peak
<1>7. CASE count_free(t) \/ add_total_freed(t) \/ sub_usage(t)
  BY <1>4, <1>7 DEF count_free, add_total_freed, sub_usage
<1> QED
  BY <1>2, <1>3, <1>5, <1>6, <1>7 DEF Count

(* What a program uses is chosen once.                                       *)
LEMMA WorkFixed == [Next]_vars => work' = work
<1> SUFFICES ASSUME [Next]_vars PROVE work' = work
  OBVIOUS
<1>1. ASSUME NEW t \in Thread, Call(t) PROVE work' = work
  BY <1>1, CallEnters DEF Enter
<1>2. ASSUME NEW t \in Thread, Track(t) PROVE work' = work
  BY <1>2, Zenon DEF Track, track_entry, alloc_lock_acquire, acquire_if, alloc_lock_release, track_read,
     track_write, track_release, untrack_find, untrack_write, untrack_release
<1>3. ASSUME NEW t \in Thread, Heap(t) PROVE work' = work
  BY <1>3, Zenon DEF Heap, system_alloc, system_realloc, custom_free, system_free, release_block
<1>4. ASSUME NEW t \in Thread, Count(t) PROVE work' = work
  BY <1>4, Zenon DEF Count, Counter, count_allocation, add_total, add_usage, load_current, load_peak,
     store_peak, count_free, add_total_freed, sub_usage
<1>5. ASSUME NEW t \in Thread, return_ptr(t) \/ return_void(t) \/ load_free_count(t) PROVE work' = work
  BY <1>5, Zenon DEF return_ptr, return_void, load_free_count
<1>6. CASE Configure \/ Finished \/ UNCHANGED vars
  BY <1>6, Zenon DEF Configure, neoc_set_allocator, neoc_reset_allocator, neoc_memory_debug_disable,
     Finished, vars
<1> QED
  BY <1>1, <1>2, <1>3, <1>4, <1>5, <1>6, Zenon DEF Next, Step

(* Every step of the allocation layer keeps the invariant.                   *)
LEMMA ListKept == BlockInv /\ LockInv /\ ListInv /\ [Next]_vars => ListInv'
<1> SUFFICES ASSUME BlockInv, LockInv, ListInv, [Next]_vars PROVE ListInv'
  OBVIOUS
<1>0. work' = work
  BY WorkFixed
<1>1. CASE ~NotUsed({"allocator"})
  BY <1>0, <1>1 DEF ListInv, NotUsed
<1>2. CASE NotUsed({"allocator"})
  <2>1. ASSUME NEW t \in Thread, return_ptr(t) \/ return_void(t) \/ load_free_count(t) PROVE ListInv'
    <3>1. no_locals.custom = FALSE
      BY DEF no_locals
    <3> QED
      BY <1>2, <2>1, <3>1, ListAside DEF return_ptr, return_void, load_free_count, Return, Goto, shared
  <2>2. CASE Configure
    <3>1. UNCHANGED <<heap, alloc_head, custom_allocator, pc, loc>>
      BY <1>2, <2>2, Zenon DEF Configure, neoc_memory_debug_disable, NotUsed
    <3> QED
      BY <1>2, <3>1, Zenon DEF ListInv
  <2>3. CASE Finished \/ UNCHANGED vars
    BY <1>2, <2>3, Zenon DEF Finished, vars, ListInv
  <2> QED
    BY <1>2, <2>1, <2>2, <2>3, CallLists, TrackLists, UntrackLists, HeapLists, CountLists
       DEF Next, Step, Track
<1> QED
  BY <1>1, <1>2

(* In any program that leaves the allocator alone, whatever its threads and  *)
(* however their calls interleave, an entry of the list is a live block of   *)
(* that size and no block has two: what neoc_free and neoc_realloc subtract  *)
(* from the statistics is what the block really had.                         *)
THEOREM ListIsFaithful == Spec => []ListFaithful
<1>1. Init => ListInv
  <2> SUFFICES ASSUME Init PROVE ListInv
    OBVIOUS
  <2>1. DOMAIN alloc_head = {} /\ custom_allocator = system
    BY DEF Init
  <2>2. \A t \in Thread : pc[t] = "idle" /\ ~loc[t].custom
    BY DEF Init, no_locals
  <2> QED
    BY <2>1, <2>2 DEF ListInv, Entries, Unique, CallInv, Unlisted, Tracking, Searching
<1>2. Init => LockInv
  BY DEF Init, LockInv, MutualExclusion, Critical, Labels
<1>3. ListInv => ListFaithful
  BY DEF ListInv, ListFaithful, Entries, Unique
<1> QED
  BY <1>1, <1>2, <1>3, BlockInit, BlockStep, LockStep, ListKept, PTL DEF Spec

-----------------------------------------------------------------------------
(* Counting.                                                                 *)

(* No free has wrapped free_count so far.                                    *)
FreesFit == stats.free_count < SizeMod - 1

(* free_count only grows, unless the counters are reset.                     *)
LEMMA FreesGrow ==
  ASSUME TypeInv, FreesFit, NotUsed({"disable"}), [Next]_vars
  PROVE  stats'.free_count >= stats.free_count
<1>1. stats \in memory_stats_t /\ stats.free_count \in Nat
  BY DEF TypeInv, TypeOK, memory_stats_t
<1>2. (stats.free_count + 1) % SizeMod = stats.free_count + 1
  <2>1. stats.free_count + 1 \in Nat /\ stats.free_count + 1 < SizeMod
    BY <1>1, SizeAssumption DEF FreesFit
  <2> QED
    BY <2>1, Fitting
<1>3. ASSUME NEW t \in Thread, Count(t) PROVE stats'.free_count >= stats.free_count
  <2>1. CASE count_free(t)
    BY <1>1, <1>2, <2>1 DEF count_free, Counter, add, memory_stats_t
  <2>2. CASE ~count_free(t)
    <3>1. stats'.free_count = stats.free_count
      BY <1>1, <1>3, <2>2 DEF Count, Counter, count_allocation, add_total, add_usage, load_current, load_peak,
         store_peak, add_total_freed, sub_usage, shared, memory_stats_t
    <3> QED
      BY <1>1, <3>1
  <2> QED
    BY <2>1, <2>2
<1>4. ASSUME NEW t \in Thread, Call(t) PROVE stats' = stats
  BY <1>4, CallEnters DEF Enter
<1>5. ASSUME NEW t \in Thread, Track(t) \/ Heap(t) \/ return_ptr(t) \/ return_void(t) \/ load_free_count(t)
      PROVE  stats' = stats
  BY <1>5, Zenon DEF Track, Heap, return_ptr, return_void, load_free_count, track_entry, alloc_lock_acquire,
     acquire_if, alloc_lock_release, track_read, track_write, track_release, untrack_find, untrack_write,
     untrack_release, system_alloc, system_realloc, custom_free, system_free, release_block, shared
<1>6. CASE Configure
  BY <1>1, <1>6 DEF Configure, neoc_set_allocator, neoc_reset_allocator, neoc_memory_debug_disable, NotUsed
<1>7. CASE Finished \/ UNCHANGED vars
  BY <1>1, <1>7 DEF Finished, vars
<1> QED
  BY <1>1, <1>3, <1>4, <1>5, <1>6, <1>7 DEF Next, Step

(* A call of neoc_get_allocation_count begins with the difference at its     *)
(* first load; until it returns, no step changes what it has loaded.         *)
LEMMA LoadedOnce ==
  ASSUME TypeInv, [Next]_vars, NEW u \in Thread, pc'[u] = "g_frees"
  PROVE  \/ pc[u] = "g_frees" /\ loc'[u] = loc[u]
         \/ stats' = stats /\ loc'[u].old = difference(loc'[u].seen, stats.free_count)
<1> DEFINE Goal == \/ pc[u] = "g_frees" /\ loc'[u] = loc[u]
                   \/ stats' = stats /\ loc'[u].old = difference(loc'[u].seen, stats.free_count)
<1>0. pc \in [Thread -> Labels] /\ loc \in [Thread -> Locals]
  BY DEF TypeInv, TypeOK
<1>1. ASSUME NEW t \in Thread, NEW l, l # "g_frees", NEW r,
             pc' = [pc EXCEPT ![t] = l], loc' = [loc EXCEPT ![t] = r]
      PROVE  Goal
  BY <1>0, <1>1
<1>2. ASSUME NEW t \in Thread, NEW l, l # "g_frees", Goto(t, l), UNCHANGED loc
      PROVE  Goal
  BY <1>0, <1>2 DEF Goto
<1>3. ASSUME NEW t \in Thread, Return(t) PROVE Goal
  BY <1>1, <1>3, Zenon DEF Return, Goto
<1>4. ASSUME NEW t \in Thread, NEW l, l # "g_frees", NEW r, Enter(t, l, r) PROVE Goal
  BY <1>1, <1>4 DEF Enter, Goto
<1>5. ASSUME NEW t \in Thread, Call(t) PROVE Goal
  <2>1. CASE neoc_get_allocation_count(t)
    <3> DEFINE r == [no_locals EXCEPT !.op = "count", !.seen = stats.allocation_count,
                                      !.old = difference(stats.allocation_count, stats.free_count)]
    <3>1. Enter(t, "g_frees", r)
      BY <2>1 DEF neoc_get_allocation_count
    <3>2. r.old = difference(r.seen, stats.free_count)
      BY DEF no_locals
    <3> HIDE DEF r
    <3>3. CASE u = t
      BY <1>0, <3>1, <3>2, <3>3 DEF Enter
    <3>4. CASE u # t
      BY <1>0, <3>1, <3>4 DEF Enter, Goto
    <3> QED
      BY <3>3, <3>4
  <2>2. CASE ~neoc_get_allocation_count(t)
    <3> HIDE DEF Goal
    <3>1. ASSUME NEW n, neoc_malloc(t, n) PROVE Goal
      BY <1>4, <3>1 DEF neoc_malloc
    <3>2. ASSUME NEW c, NEW n, neoc_calloc(t, c, n) PROVE Goal
      BY <1>4, <3>2 DEF neoc_calloc
    <3>3. ASSUME NEW p, neoc_free(t, p) PROVE Goal
      BY <1>4, <3>3 DEF neoc_free
    <3>4. ASSUME NEW p, NEW n, neoc_realloc(t, p, n) PROVE Goal
      BY <1>4, <3>4 DEF neoc_realloc
    <3>5. ASSUME neoc_memory_debug_get_stats(t) PROVE Goal
      BY <1>4, <3>5 DEF neoc_memory_debug_get_stats
    <3> QED
      BY <1>5, <2>2, <3>1, <3>2, <3>3, <3>4, <3>5
         DEF Call, neoc_strdup, neoc_strndup, neoc_memdup, neoc_secure_free
  <2> QED
    BY <2>1, <2>2
<1> HIDE DEF Goal
<1>6. ASSUME NEW t \in Thread, Track(t) PROVE Goal
  <2>1. after_track(t) # "g_frees"
    BY DEF after_track
  <2>2. ASSUME NEW s, NEW l, l # "g_frees", loc' = [loc EXCEPT ![t].next = s], Goto(t, l) PROVE Goal
    BY <1>1, <2>2, Zenon DEF Goto
  <2>3. CASE track_entry(t) \/ alloc_lock_acquire(t) \/ track_write(t) \/ untrack_write(t)
    <3>1. \E l : l # "g_frees" /\ Goto(t, l) /\ UNCHANGED loc
      BY <2>1, <2>3, Zenon DEF track_entry, alloc_lock_acquire, acquire_if, track_write, untrack_write
    <3> QED
      BY <1>2, <3>1
  <2>4. CASE track_read(t) \/ track_release(t) \/ untrack_release(t)
    BY <2>1, <2>2, <2>4, Zenon DEF track_read, track_release, untrack_release, alloc_lock_release
  <2>5. CASE untrack_find(t)
    <3>1. CASE Goto(t, "u_rel") /\ UNCHANGED loc
      BY <1>2, <3>1
    <3>2. CASE Goto(t, "u_write") /\ \E r : loc' = [loc EXCEPT ![t] = r]
      BY <1>1, <3>2, Zenon DEF Goto
    <3> QED
      BY <2>5, <3>1, <3>2, Zenon DEF untrack_find
  <2> QED
    BY <1>6, <2>3, <2>4, <2>5 DEF Track
<1>7. ASSUME NEW t \in Thread, Heap(t) PROVE Goal
  <2>1. CASE system_alloc(t)
    <3>1. ASSUME NEW p, loc' = [loc EXCEPT ![t].ptr = p], Goto(t, IF loc[t].custom THEN "ret" ELSE "count")
          PROVE  Goal
      <4> DEFINE l == IF loc[t].custom THEN "ret" ELSE "count"
                 r == [loc[t] EXCEPT !.ptr = p]
      <4>1. l # "g_frees" /\ pc' = [pc EXCEPT ![t] = l] /\ loc' = [loc EXCEPT ![t] = r]
        BY <1>0, <3>1 DEF Goto
      <4> HIDE DEF l, r
      <4> QED
        BY <1>1, <4>1, Zenon
    <3> QED
      BY <1>3, <2>1, <3>1 DEF system_alloc
  <2>2. CASE system_realloc(t)
    <3>1. \E r : loc' = [loc EXCEPT ![t] = r]
      BY <2>2, Zenon DEF system_realloc, realloc_failed
    <3>2. \E l \in {"ret", "count", "t_entry"} : pc' = [pc EXCEPT ![t] = l]
      BY <2>2, Zenon DEF system_realloc, Goto
    <3> QED
      BY <1>1, <3>1, <3>2, Zenon
  <2>3. CASE custom_free(t) \/ system_free(t)
    BY <1>2, <1>3, <2>3 DEF custom_free, system_free, release_block
  <2> QED
    BY <1>7, <2>1, <2>2, <2>3 DEF Heap
<1>8. ASSUME NEW t \in Thread, Count(t) PROVE Goal
  <2>1. ASSUME NEW from, NEW s, NEW l, l # "g_frees", Counter(t, from, s, l) PROVE Goal
    BY <1>2, <2>1 DEF Counter
  <2>2. CASE load_current(t)
    BY <1>1, <2>2, Zenon DEF load_current, Goto
  <2>3. CASE add_usage(t)
    <3> DEFINE l == CASE loc[t].op = "alloc" -> "ld_cur"
                      [] loc[t].op # "alloc" /\ loc[t].had /\ loc[t].old > 0 -> "frees"
                      [] OTHER -> "ret"
    <3>1. Counter(t, "usage", [stats EXCEPT !.current_usage = add(@, loc[t].size)], l)
      BY <2>3 DEF add_usage
    <3>2. l # "g_frees"
      OBVIOUS
    <3> HIDE DEF l
    <3> QED
      BY <2>1, <3>1, <3>2
  <2>4. CASE count_allocation(t) \/ add_total(t) \/ load_peak(t) \/ store_peak(t)
    BY <2>1, <2>4 DEF count_allocation, add_total, load_peak, store_peak
  <2>5. CASE count_free(t) \/ add_total_freed(t) \/ sub_usage(t)
    BY <2>1, <2>5 DEF count_free, add_total_freed, sub_usage
  <2> QED
    BY <1>8, <2>2, <2>3, <2>4, <2>5 DEF Count
<1>9. ASSUME NEW t \in Thread, return_ptr(t) \/ return_void(t) \/ load_free_count(t) PROVE Goal
  BY <1>3, <1>9 DEF return_ptr, return_void, load_free_count
<1>10. CASE Configure \/ Finished \/ UNCHANGED vars
  <2>1. UNCHANGED <<pc, loc>>
    BY <1>10, Zenon DEF Configure, neoc_set_allocator, neoc_reset_allocator, neoc_memory_debug_disable, Finished, vars
  <2> QED
    BY <2>1 DEF Goal
<1> QED
  BY <1>5, <1>6, <1>7, <1>8, <1>9, <1>10 DEF Next, Step, Goal

(* The clamped difference neoc_get_allocation_count returns does not grow    *)
(* with the number of frees it subtracts.                                    *)
LEMMA DifferenceFalls ==
  ASSUME NEW a \in Nat, NEW b \in Nat, NEW c \in Nat, NEW d \in Nat,
         c >= b, difference(a, b) <= d
  PROVE  difference(a, c) <= d
BY DEF difference

(* As long as fewer than SIZE_MAX blocks have been freed, so that free_count *)
(* has not wrapped, neoc_get_allocation_count never reports more blocks than *)
(* were outstanding when it began, for any number of threads that allocate   *)
(* and free between its two loads.                                           *)
THEOREM NeverOverstated == Spec /\ []FreesFit => []NoPhantomLeak
<1>1. Init => NoPhantomLeak
  BY DEF Init, NoPhantomLeak
<1>2. TypeInv /\ FreesFit /\ NoPhantomLeak /\ [Next]_vars => NoPhantomLeak'
  <2> SUFFICES ASSUME TypeInv, TypeInv', FreesFit, NoPhantomLeak, [Next]_vars, NotUsed({"disable"})',
                      NEW u \in Thread, pc'[u] = "g_frees"
               PROVE  difference(loc'[u].seen, stats'.free_count) <= loc'[u].old
    BY TypeStep, Zenon DEF NoPhantomLeak, reported
  <2>1. NotUsed({"disable"})
    BY WorkFixed DEF NotUsed
  <2>2. stats'.free_count >= stats.free_count
    BY <2>1, FreesGrow
  <2>3. /\ stats.free_count \in Nat /\ stats'.free_count \in Nat
        /\ loc[u].seen \in Nat /\ loc[u].old \in Nat /\ loc'[u].seen \in Nat /\ loc'[u].old \in Nat
    BY Zenon DEF TypeInv, TypeOK, memory_stats_t, Locals
  <2>4. CASE pc[u] = "g_frees" /\ loc'[u] = loc[u]
    <3>1. difference(loc[u].seen, stats.free_count) <= loc[u].old
      BY <2>1, <2>4, Zenon DEF NoPhantomLeak, reported
    <3>2. difference(loc[u].seen, stats'.free_count) <= loc[u].old
      BY <2>2, <2>3, <3>1, DifferenceFalls
    <3> QED
      BY <2>4, <3>2
  <2>5. CASE stats' = stats /\ loc'[u].old = difference(loc'[u].seen, stats.free_count)
    BY <2>3, <2>5
  <2> QED
    BY <2>4, <2>5, LoadedOnce
<1> QED
  BY <1>1, <1>2, TypeInit, TypeStep, PTL DEF Spec
=============================================================================
