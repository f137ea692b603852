------------------------------ MODULE Ownership ------------------------------
(* Runs the procedures of the library one at a time, every allocation able to *)
(* fail and every optional part of the input able to be absent, and then lets *)
(* the caller release what it owns.                                           *)
EXTENDS Procedures, FiniteSets, TLC

CONSTANTS
    Proc,       \* the procedures, by name
    Known       \* for each property, the procedures known not to have it

VARIABLES
    code,       \* the procedure that runs
    pc,         \* its next step
    heap,       \* the live blocks, with who allocated each
    ptr,        \* the pointers that are set, by place
    result,     \* "running", "ok" or "error" while the caller has not released, then "released"
    absent,     \* how many parts of the input were absent so far
    misuse      \* what was done wrong with the heap

vars == <<code, pc, heap, ptr, result, absent, misuse>>

proc == code.name
view == <<proc, pc, heap, ptr, result, absent, misuse>>     \* the name determines the procedure

Absences == 2   \* at most so many optional parts of an input are absent

steps == code.steps
now == steps[pc]
running == result = "running" /\ pc <= Len(steps)

under(p) == {q \in DOMAIN ptr : IsPrefix(p, q)}
without(fn, S) == [q \in DOMAIN fn \ S |-> fn[q]]

(* The effect of releasing and assigning on the heap and the pointers.        *)
Wild == <<0, <<>>>>     \* what an uninitialized pointer points to
Freed(m, visits) ==
    LET set == {v \in visits : v.at \in DOMAIN m.ptr}
        hit == {v \in set : m.ptr[v.at] # Wild}
        ids == {m.ptr[v.at] : v \in hit}
        wrong == [x \in {"uninitialized", "freed twice", "wrong allocator"} |->
                     CASE x = "uninitialized" -> hit # set
                       [] x = "freed twice" -> Cardinality(ids) < Cardinality(hit) \/ ~(ids \subseteq DOMAIN m.heap)
                       [] x = "wrong allocator" ->
                            \E v \in hit : m.ptr[v.at] \in DOMAIN m.heap /\ m.heap[m.ptr[v.at]] # v.by] IN
    [m EXCEPT !.heap = without(@, ids),
              !.misuse = @ \cup {x \in DOMAIN wrong : wrong[x]}]
Applied(m, o) ==
    LET below == {q \in DOMAIN m.ptr : IsPrefix(o.at, q)} IN
    CASE o.op = "free" ->
           IF o.at \in DOMAIN m.ptr THEN Freed(m, {[at |-> o.at, by |-> o.by]} \cup Below(o.at, o.owns)) ELSE m
      [] o.op = "clear" ->
           LET gone == {o.at \o v.at : v \in o.owns} IN
           [Freed(m, Below(o.at, o.owns)) EXCEPT !.ptr = without(@, gone)]
      [] o.op = "interior" ->
           IF below = {} THEN m ELSE [Freed(m, Below(o.at, o.owns)) EXCEPT !.misuse = @ \cup {"not a block"}]
      [] o.op = "tree" -> Freed(m, {[at |-> q, by |-> IF m.ptr[q] \in DOMAIN m.heap THEN m.heap[m.ptr[q]] ELSE "libc"] : q \in below})
      [] o.op = "use" ->
           [m EXCEPT !.misuse = @ \cup (IF o.at \notin DOMAIN m.ptr THEN {"NULL used"}
                                         ELSE IF m.ptr[o.at] = Wild THEN {"uninitialized"}
                                         ELSE IF m.ptr[o.at] \in DOMAIN m.heap THEN {} ELSE {"used after free"})]
      [] o.op = "garbage" -> [m EXCEPT !.ptr = (o.at :> Wild) @@ without(@, below)]
      [] o.op = "null" -> [m EXCEPT !.ptr = without(@, below)]
      [] o.op = "copy" ->
           LET tail(q) == SubSeq(q, Len(o.from) + 1, Len(q))
               moved == {q \in DOMAIN m.ptr : IsPrefix(o.from, q)}
               new == {o.at \o tail(q) : q \in moved} IN
           [m EXCEPT !.ptr = [q \in (DOMAIN @ \ below) \cup new |->
                                 IF q \in new THEN @[o.from \o SubSeq(q, Len(o.at) + 1, Len(q))] ELSE @[q]]]
Do(ops) ==
    \E m \in {FoldLeft(Applied, [heap |-> heap, ptr |-> ptr, misuse |-> misuse], ops)} :
        heap' = m.heap /\ ptr' = m.ptr /\ misuse' = m.misuse

Init ==
    /\ \E table \in {Proc} : \E p \in DOMAIN table : code = [name |-> p] @@ table[p]   \* Proc is evaluated once
    /\ pc = 1 /\ result = "running" /\ absent = 0 /\ misuse = {}
    /\ LET given == code.given IN
       /\ heap = [b \in {<<0, g.at>> : g \in given} |->
                     (CHOOSE g \in given : g.at = b[2]).by]
       /\ ptr = [p \in {g.at : g \in given} |-> <<0, p>>]

(* An allocation succeeds.  What was below the overwritten pointer is lost.   *)
Allocate ==
    /\ running /\ now.op = "alloc"
    /\ LET b == <<pc, now.at>> IN
       /\ heap' = (b :> now.by) @@ heap
       /\ ptr' = (now.at :> b) @@ without(ptr, under(now.at))
    /\ pc' = pc + 1
    /\ UNCHANGED <<code, result, absent, misuse>>

(* The input of the step is absent, or its allocation failed and the code     *)
(* goes on with NULL.                                                         *)
LeaveNull ==
    /\ running /\ now.op = "alloc" /\ now.absent
    /\ absent < Absences /\ absent' = absent + 1
    /\ ptr' = without(ptr, under(now.at))
    /\ pc' = pc + 1
    /\ UNCHANGED <<code, heap, result, misuse>>

(* realloc, which leaves what the array holds.                                *)
Extend ==
    /\ running /\ now.op = "grow"
    /\ IF now.at \in DOMAIN ptr
       THEN UNCHANGED <<heap, ptr>>
       ELSE LET b == <<pc, now.at>> IN
            heap' = (b :> now.by) @@ heap /\ ptr' = (now.at :> b) @@ ptr
    /\ pc' = pc + 1
    /\ UNCHANGED <<code, result, absent, misuse>>

Pass ==
    /\ running /\ now.op = "check"
    /\ pc' = pc + 1
    /\ UNCHANGED <<code, heap, ptr, result, absent, misuse>>

(* A checked step fails: its clean-up runs and the procedure returns.         *)
Fail ==
    /\ running /\ Leaves(now)
    /\ now.op = "alloc" => now.checked
    /\ Do(now.fail)
    /\ result' = "error"
    /\ UNCHANGED <<code, pc, absent>>

(* A step of a call whose error the procedure ignores fails.                  *)
FailIgnored ==
    /\ running /\ MayFail(now) /\ ~Leaves(now)
    /\ now.op = "alloc" => now.checked
    /\ absent < Absences /\ absent' = absent + 1
    /\ Do(now.fail)
    /\ pc' = pc + now.skip
    /\ UNCHANGED <<code, result>>

Act ==
    /\ running /\ now.op \in {"free", "clear", "interior", "tree", "null", "garbage", "copy", "use"}
    /\ Do(<<now>>)
    /\ pc' = pc + 1
    /\ UNCHANGED <<code, result, absent>>

Branch ==
    /\ running /\ now.op \in {"if", "either"}
    /\ \/ pc' = pc + 1 /\ UNCHANGED absent
       \/ now.op = "either" /\ pc' = pc + 1 + now.skip /\ UNCHANGED absent
       \/ now.op = "if" /\ pc' = pc + 1 + now.skip /\ absent < Absences /\ absent' = absent + 1
    /\ UNCHANGED <<code, heap, ptr, result, misuse>>

Jump ==
    /\ running /\ now.op = "jump"
    /\ pc' = pc + 1 + now.skip
    /\ UNCHANGED <<code, heap, ptr, result, absent, misuse>>

Return ==
    /\ result = "running" /\ pc > Len(steps)
    /\ result' = "ok"
    /\ UNCHANGED <<code, pc, heap, ptr, absent, misuse>>

(* The caller destroys the object it got, or keeps what it passed in.         *)
CallerReleases ==
    /\ result \in {"ok", "error"}
    /\ Do(IF result = "ok" THEN code.after ELSE code.failed)
    /\ result' = "released"
    /\ UNCHANGED <<code, pc, absent>>

Released == result = "released" /\ UNCHANGED vars

Next ==
    Allocate \/ LeaveNull \/ Extend \/ Pass \/ Fail \/ FailIgnored \/ Act \/ Branch \/ Jump \/ Return \/ CallerReleases \/ Released

Spec == Init /\ [][Next]_vars

-----------------------------------------------------------------------------
(* Whether a call succeeds or fails at any of its steps, once the caller has  *)
(* released what it owns nothing the call allocated is left: every early      *)
(* return frees what was built before it, and every destructor visits         *)
(* everything its constructor made.  A key pair leaves its EC_KEY, which      *)
(* neoc_ec_key_pair_free leaves to an EVP_PKEY that holds a reference of its  *)
(* own.  Not held to it: the calls of Known.NoLeak, which do lose a block     *)
(* (Leaks in MCOwnership), and those of Known.NoLeakButKey for the EC_KEY     *)
(* (LeavesKey).                                                               *)
NoLeak ==
    result = "released" =>
        \/ DOMAIN heap = {}
        \/ proc \in Known.NoLeak
        \/ proc \in Known.NoLeakButKey /\ Range(heap) = {"openssl"}

(* No block is freed twice on any path of a call and its caller, and nothing  *)
(* but a block is freed: an object handed over by a constructor that then     *)
(* fails is released by one of the two sides.  Not held to it: the calls of   *)
(* Known.FreedOnce, which do free twice (FreesTwice in MCOwnership).          *)
FreedOnce == misuse \cap {"freed twice", "not a block"} # {} => proc \in Known.FreedOnce

(* Each block goes back to the allocator it came from: malloc, the tracking   *)
(* allocator behind neoc_malloc, or OpenSSL.  Not held to it: the calls of    *)
(* Known.SameAllocator, which do mix them (CrossesAllocators in MCOwnership), *)
(* among them the callers of neoc_binary_writer_to_array that use neoc_free.  *)
SameAllocator == "wrong allocator" \in misuse => proc \in Known.SameAllocator

(* No clean-up reads a field nobody has set, and no step reads through a      *)
(* pointer that is NULL or freed.  Not held to it: the calls of               *)
(* Known.NothingWild, which do (ReadsWild in MCOwnership).                    *)
NothingWild ==
    misuse \cap {"uninitialized", "NULL used", "used after free"} # {} => proc \in Known.NothingWild
=============================================================================
