----------------------------- MODULE Procedures -----------------------------
(* The library's constructors, parsers, copies and destructors follow one     *)
(* discipline: build an object field by field and, when a step fails, release *)
(* what was built and report an error.  A function is written here as a       *)
(* procedure: the sequence of its steps that allocate, check, hand over or    *)
(* release, each with the clean-up the code does when that step fails.  What  *)
(* the fields contain is left out: a string is a block.                       *)
(*                                                                            *)
(* A place is a path of pointers.  <<"self", "name">> is the field name of    *)
(* the object made or changed, <<"arg", "result">> an argument; any other     *)
(* first component is a local variable.  <<"self", "stack", 2>> is the second *)
(* element of an array.                                                       *)
EXTENDS Naturals, Sequences, SequencesExt

Map(Op(_), s) == <<>> \o [i \in DOMAIN s |-> Op(s[i])]
Items == 2                              \* elements an array of an input has at most
self == <<"self">>
arg(x) == <<"arg", x>>
its(x) == <<"self", x>>
Its(names) == Map(its, names)
In(p, names) == Map(LAMBDA x : p \o <<x>>, names)

(****************************************************************************)
(* Steps that may fail.  A failed step runs fail and leaves the procedure,   *)
(* or goes on after skip more steps when skip is not 0.                      *)
(****************************************************************************)
Alloc(p, absent, checked) ==
    [op |-> "alloc", at |-> p, by |-> "neoc", absent |-> absent, checked |-> checked, fail |-> <<>>, skip |-> 0]
Must(p) == Alloc(p, FALSE, TRUE)        \* p = malloc(); if (!p) fail
Opt(p) == Alloc(p, TRUE, TRUE)          \* if (input) { p = malloc(); if (!p) fail }
Try(p) == Alloc(p, TRUE, FALSE)         \* p = malloc(), and NULL is taken as it comes
Got(p) == Alloc(p, FALSE, FALSE)        \* the case that p = malloc() is not NULL
Grow(p) == [op |-> "grow", at |-> p, by |-> "neoc", fail |-> <<>>, skip |-> 0]  \* q = realloc(p); if (!q) fail; p = q
Check == [op |-> "check", fail |-> <<>>, skip |-> 0]                             \* if (wrong) fail
Stop == [op |-> "stop", fail |-> <<>>, skip |-> 0]                               \* fails whatever the input is
By(owner, step) == [step EXCEPT !.by = owner]
Libc(step) == By("libc", step)          \* the same with malloc, calloc, strdup, free or through cJSON
Ssl(step) == By("openssl", step)        \* the same with the OpenSSL functions of the type

Musts(places) == Map(Must, places)
Opts(places) == Map(Opt, places)
Tries(places) == Map(Try, places)

(****************************************************************************)
(* What a destructor visits: pointers below the object, each freed with      *)
(* neoc_free or with free.                                                   *)
(****************************************************************************)
Fields(names) == {[at |-> <<x>>, by |-> "neoc"] : x \in names}
Below(prefix, owns) == {[o EXCEPT !.at = prefix \o @] : o \in owns}
Object(x, owns) == Fields({x}) \cup Below(<<x>>, owns)
Elements(owns) == UNION {Below(<<i>>, owns) : i \in 1..Items}
Structs(x, owns) == Object(x, Elements(owns))
Pointers(owns) == Elements({[at |-> <<>>, by |-> "neoc"]} \cup owns)
Objects(x, owns) == Object(x, Pointers(owns))
Through(owner, owns) == {[o EXCEPT !.by = owner] : o \in owns}
ByLibc(owns) == Through("libc", owns)
LibcObject(x, owns) == ByLibc(Fields({x})) \cup Below(<<x>>, owns)
LibcPointers(owns) == Elements(ByLibc({[at |-> <<>>, by |-> "neoc"]}) \cup owns)

(****************************************************************************)
(* Steps that release or assign pointers.                                    *)
(****************************************************************************)
Destroy(p, owns) == [op |-> "free", at |-> p, by |-> "neoc", owns |-> owns]
Free(p) == Destroy(p, {})
Clear(p, owns) == [op |-> "clear", at |-> p, owns |-> owns]     \* the fields of a struct that is not a block
Interior(p, owns) == [op |-> "interior", at |-> p, owns |-> owns]  \* frees a struct inside an array as if it were a block
Delete(p) == [op |-> "tree", at |-> p]                           \* cJSON_Delete, neoc_json_free
Null(p) == [op |-> "null", at |-> p]
Garbage(p) == [op |-> "garbage", at |-> p]                       \* p is left as realloc gave it
Copy(q, p) == [op |-> "copy", from |-> q, at |-> p]              \* p = q
LibcFree(p) == Libc(Free(p))
Use(p) == [op |-> "use", at |-> p]                               \* reads through p without looking whether it is NULL

(****************************************************************************)
(* Composition.  On appends a clean-up to those of the steps inside it; When  *)
(* goes on behind its second part when a step of the first one fails.        *)
(****************************************************************************)
MayFail(step) == step.op \in {"alloc", "grow", "check", "stop"}
Leaves(step) == MayFail(step) /\ step.skip = 0
On(cleanup, steps) ==
    Map(LAMBDA step : IF Leaves(step) THEN [step EXCEPT !.fail = @ \o cleanup] ELSE step, steps)
When(steps, then) ==    \* if (steps succeed) then
    (<<>> \o [i \in DOMAIN steps |->
                  IF Leaves(steps[i]) THEN [steps[i] EXCEPT !.skip = Len(steps) + Len(then) + 1 - i] ELSE steps[i]])
    \o then
Ignoring(steps) == When(steps, <<>>)
Finally(cleanup, steps) == On(cleanup, steps) \o cleanup   \* err = steps; cleanup; if (err) return err
(* Temporaries: all made before steps, all released behind them or when one   *)
(* of them or of the steps fails.                                             *)
Using(New(_), Drop(_), places, steps) ==
    Map(Null, places) \o Finally(Map(Drop, places), Map(New, places) \o steps)
If(steps) == <<[op |-> "if", skip |-> Len(steps)]>> \o steps
Else(steps, others) ==  \* either of the two
    <<[op |-> "either", skip |-> Len(steps) + 1]>> \o steps \o <<[op |-> "jump", skip |-> Len(others)]>> \o others
ForSome(Body(_)) ==     \* a loop over an array that is not empty
    LET from[i \in 1..Items] == Body(i) \o (IF i = Items THEN <<>> ELSE If(from[i + 1])) IN from[1]
For(Body(_)) == If(ForSome(Body))
All(Op(_)) == <<>> \o [i \in 1..Items |-> Op(i)]        \* a clean-up that goes over an array

(* A call: the places of the callee seen from the caller.                     *)
Seen(q, p, args) ==
    CASE q[1] = "self" -> p \o Tail(q)
      [] q[1] = "arg" -> args[q[2]] \o SubSeq(q, 3, Len(q))
      [] OTHER -> <<"callee">> \o q
SeenOp(o, p, args) ==
    CASE o.op \in {"if", "either", "jump", "check", "stop"} -> o
      [] o.op = "copy" -> [o EXCEPT !.at = Seen(@, p, args), !.from = Seen(@, p, args)]
      [] OTHER -> [o EXCEPT !.at = Seen(@, p, args)]
(* The locals of the callee end with it.                                      *)
ended == Null(<<"callee">>)
SeenStep(o, p, args, cleanup) ==
    LET seen == SeenOp(o, p, args)
        fail == IF MayFail(o) THEN <<>> \o [i \in DOMAIN o.fail |-> SeenOp(o.fail[i], p, args)] ELSE <<>> IN
    IF Leaves(o) THEN [seen EXCEPT !.fail = fail \o cleanup]
    ELSE IF MayFail(o) THEN [seen EXCEPT !.fail = fail] ELSE seen
Called(steps, p, args, cleanup) ==
    (<<>> \o [i \in DOMAIN steps |-> SeenStep(steps[i], p, args, cleanup)]) \o <<ended>>
Call(steps, p, args) == Called(steps, p, args, <<ended>>)
NoArgs == <<>>
(* A constructor that fails stores no pointer.                                *)
Make(steps, p, args) == Called(steps, p, args, <<ended, Null(p)>>)

(****************************************************************************)
(* JSON through cJSON: a tree is one block and the subtrees not attached to  *)
(* it yet.  Attaching is taken never to fail.                                *)
(****************************************************************************)
root == <<"root">>
Node(p) == Libc(Must(p))                                    \* cJSON_CreateObject, CreateArray
Attach(q, p, x) == Copy(q, p \o <<x>>)                      \* cJSON_AddItemToObject, AddItemToArray
ParseObject == <<Node(root)>> \o On(<<Delete(root)>>, <<Check>>)
Printed == <<"printed">>
(* Prints the tree, deletes it and copies the text for the caller.            *)
Render == On(<<Delete(root)>>, <<Node(Printed)>>) \o <<Delete(root)>>
          \o On(<<LibcFree(Printed)>>, <<Must(self)>>) \o <<LibcFree(Printed)>>
(* Prints the tree and gives the caller the text cJSON allocated.             *)
RenderRaw == On(<<Delete(root)>>, <<Node(self)>>) \o <<Delete(root)>>

(****************************************************************************)
(* A procedure with its caller: the pointers it is given, its steps, and     *)
(* what the caller releases after success and after failure.                 *)
(****************************************************************************)
Procedure(given, steps, after, failed) ==
    [given |-> given, steps |-> steps, after |-> after, failed |-> failed]
Block(p) == [at |-> p, by |-> "neoc"]
Whole(p, owns) == {Block(p)} \cup Below(p, owns)
Task(steps) == Procedure({}, steps, <<>>, <<>>)             \* nothing is left for the caller
Caller(steps, release) == Procedure({}, steps, <<release>>, <<>>)
Constructor(steps, owns) == Caller(steps, Destroy(self, owns))
LibcConstructor(steps, owns) == Caller(steps, Libc(Destroy(self, owns)))
(* A constructor that takes over the arguments xs, objects freed by owned.    *)
Adopting(steps, owns, xs, owned) ==
    Procedure(UNION {Whole(arg(x), owned) : x \in xs}, steps, <<Destroy(self, owns)>>,
              SetToSeq({Destroy(arg(x), owned) : x \in xs}))
(* A call on an object that exists with the fields has, freed by owns.        *)
Method(steps, owns, has) == Procedure(Whole(self, has), steps, <<Destroy(self, owns)>>, <<Destroy(self, owns)>>)
LibcMethod(steps, owns, has) ==
    Procedure({[at |-> self, by |-> "libc"]} \cup Below(self, has), steps,
              <<Libc(Destroy(self, owns))>>, <<Libc(Destroy(self, owns))>>)
AdoptingMethod(steps, owns, has, xs, owned) ==
    Procedure(Whole(self, has) \cup UNION {Whole(arg(x), owned) : x \in xs}, steps, <<Destroy(self, owns)>>,
              <<Destroy(self, owns)>> \o SetToSeq({Destroy(arg(x), owned) : x \in xs}))
=============================================================================
