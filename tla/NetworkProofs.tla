--------------------------- MODULE NetworkProofs ---------------------------
(***************************************************************************)
(* For any number of threads, nodes and blocks and any workload: libcurl   *)
(* is set up before it is used; a poller skips no index, repeats none and  *)
(* is at most one ahead of the chain; and no call is given an answer that  *)
(* is older than its request.                                              *)
(***************************************************************************)
EXTENDS Network, SequenceTheorems, WellFoundedInduction, TLAPS

(***************************************************************************)
(* libcurl.  SetUpBeforeUse is inductive once it also speaks of a thread   *)
(* that is about to set the flag and of the one inside curl_global_init,   *)
(* which is alone there, while libcurl is starting, unless threads raced.  *)
(***************************************************************************)
InOrder ==
    /\ initialized => curl = "up"
    /\ \A t \in Thread : pc[t] \in {"set flag", "allocate"} \/ client[t] # NULL => curl = "up"
    /\ \A t \in Thread : pc[t] = "inside" => curl = "starting"
    /\ \A t, u \in Thread : pc[t] = "inside" /\ pc[u] = "inside" => t = u
SetUpInv ==
    /\ pc \in [Thread -> Place]
    /\ client \in [Thread -> {NULL} \cup [timeout : BOOLEAN]]
    /\ curl \in {"down", "starting", "up"} /\ raced \in BOOLEAN /\ initialized \in BOOLEAN
    /\ raced => Uses("old curl")
    /\ ~raced => InOrder

LEMMA SetUpInit == Init => SetUpInv
  BY Zenon DEF Init, SetUpInv, InOrder, Place

(* Steps that leave libcurl, the flag and the clients alone and send no       *)
(* thread to a handle or into curl_global_init.                               *)
LEMMA SetUpKept ==
    ASSUME SetUpInv, UNCHANGED <<work, curlVars, client>>, NEW t \in Thread, NEW place \in Place,
           Goto(t, place), place # "inside",
           place \in {"set flag", "allocate"} /\ ~raced => curl = "up"
    PROVE  SetUpInv'
<1>1. pc' \in [Thread -> Place] BY Zenon DEF SetUpInv, Goto
<1>2. ~raced => InOrder' BY Zenon DEF SetUpInv, InOrder, curlVars, Goto
<1> QED BY <1>1, <1>2, Zenon DEF SetUpInv, curlVars, Uses

LEMMA SetUpStep == SetUpInv /\ [Next]_vars => SetUpInv'
<1> SUFFICES ASSUME SetUpInv, [Next]_vars PROVE SetUpInv'
  OBVIOUS
<1>1. CASE UNCHANGED <<work, curlVars, pc, client>>
  BY <1>1, Zenon DEF SetUpInv, InOrder, curlVars, Uses
<1>2. ASSUME NEW t \in Thread, Create(t) PROVE SetUpInv'
  <2>1. CASE t \in Caller /\ neoc_service_create(t)
    BY <2>1, SetUpKept, Zenon DEF neoc_service_create, onlyPc, Place
  <2>2. CASE t \in Caller /\ ensure_curl_init(t)
    <3>1. UNCHANGED <<work, curlVars, client>> BY <2>2, Zenon DEF ensure_curl_init, onlyPc
    <3>2. CASE Goto(t, "set up") BY <3>1, <3>2, SetUpKept, Zenon DEF Place
    <3>3. CASE initialized /\ Goto(t, "allocate") BY <3>1, <3>3, SetUpKept, Zenon DEF SetUpInv, InOrder, Place
    <3> QED BY <2>2, <3>2, <3>3, Zenon DEF ensure_curl_init
  <2>3. CASE t \in Caller /\ set_initialized(t)
    <3>1. /\ pc[t] = "set flag" /\ initialized' = TRUE /\ pc' = [pc EXCEPT ![t] = "allocate"]
          /\ UNCHANGED <<work, curl, raced, client>>
      BY <2>3, Zenon DEF set_initialized, Goto
    <3>2. pc' \in [Thread -> Place] BY <3>1, Zenon DEF SetUpInv, Place
    <3>3. ~raced => InOrder' BY <3>1, Zenon DEF SetUpInv, InOrder
    <3> QED BY <3>1, <3>2, <3>3, Zenon DEF SetUpInv, Uses
  <2>4. CASE t \in Poller /\ neoc_neo_client_create(t)
    BY <2>4, SetUpKept, Zenon DEF neoc_neo_client_create, onlyPc, Place
  <2>5. CASE curl_global_init(t)
    <3>1. pc[t] = "set up" /\ UNCHANGED <<work, initialized, client>> BY <2>5, Zenon DEF curl_global_init
    <3>2. CASE curl = "down" /\ curl' = "starting" /\ Goto(t, "inside") /\ UNCHANGED raced
      <4>1. pc' \in [Thread -> Place] BY <3>2, Zenon DEF SetUpInv, Place, Goto
      <4>2. ~raced => InOrder' BY <3>1, <3>2, Zenon DEF SetUpInv, InOrder, Goto
      <4> QED BY <3>1, <3>2, <4>1, <4>2, Zenon DEF SetUpInv, Uses
    <3>3. CASE curl = "up" /\ SetUpDone(t) /\ UNCHANGED <<curl, raced>>
      <4>1. PICK place \in {"set flag", "allocate"} : Goto(t, place) BY <3>3, Zenon DEF SetUpDone
      <4>2. UNCHANGED <<work, curlVars, client>> BY <3>1, <3>3, Zenon DEF curlVars
      <4> QED BY <3>3, <4>1, <4>2, SetUpKept, Zenon DEF Place
    <3>4. CASE /\ curl = "starting" /\ Uses("old curl") /\ (SetUpDone(t) \/ Goto(t, "inside"))
               /\ raced' = TRUE /\ UNCHANGED curl
      <4>1. PICK place \in {"set flag", "allocate", "inside"} : Goto(t, place) BY <3>4, Zenon DEF SetUpDone
      <4>2. pc' \in [Thread -> Place] BY <4>1, Zenon DEF SetUpInv, Place, Goto
      <4> QED BY <3>1, <3>4, <4>2, Zenon DEF SetUpInv, Uses
    <3> QED BY <2>5, <3>2, <3>3, <3>4, Zenon DEF curl_global_init
  <2>6. CASE curl_global_init_ends(t)
    <3>1. pc[t] = "inside" /\ UNCHANGED <<work, raced, initialized, client>>
      BY <2>6, Zenon DEF curl_global_init_ends
    <3>2. CASE curl' = "up" /\ SetUpDone(t)
      <4>1. PICK place \in {"set flag", "allocate"} : Goto(t, place) BY <3>2, Zenon DEF SetUpDone
      <4>2. pc' \in [Thread -> Place] BY <4>1, Zenon DEF SetUpInv, Place, Goto
      <4>3. ~raced => InOrder' BY <3>1, <3>2, <4>1, Zenon DEF SetUpInv, InOrder, Goto
      <4> QED BY <3>1, <3>2, <4>2, <4>3, Zenon DEF SetUpInv, Uses
    <3>3. CASE curl' = "down" /\ Goto(t, "idle")
      <4>1. pc' \in [Thread -> Place] BY <3>3, Zenon DEF SetUpInv, Place, Goto
      <4>2. ~raced => InOrder' BY <3>1, <3>3, Zenon DEF SetUpInv, InOrder, Goto
      <4> QED BY <3>1, <3>3, <4>1, <4>2, Zenon DEF SetUpInv, Uses
    <3> QED BY <2>6, <3>2, <3>3, Zenon DEF curl_global_init_ends
  <2>7. CASE Allocate(t)
    <3>1. PICK made \in {NULL, [timeout |-> TRUE]} : client' = [client EXCEPT ![t] = made]
      BY <2>7, Zenon DEF Allocate
    <3>2. made \in {NULL} \cup [timeout : BOOLEAN]
      <4>1. [timeout |-> TRUE] \in [timeout : BOOLEAN] BY Zenon
      <4> QED BY <4>1, Zenon
    <3>3. client' \in [Thread -> {NULL} \cup [timeout : BOOLEAN]]
      BY <3>1, <3>2, Zenon DEF SetUpInv
    <3>4. pc[t] = "allocate" /\ UNCHANGED <<work, curlVars>> /\ pc' = [pc EXCEPT ![t] = "idle"]
      BY <2>7, Zenon DEF Allocate, Goto
    <3>5. pc' \in [Thread -> Place] BY <3>4, Zenon DEF SetUpInv, Place
    <3>6. ~raced => InOrder' BY <3>4, Zenon DEF SetUpInv, InOrder, curlVars
    <3> QED BY <3>3, <3>4, <3>5, <3>6, Zenon DEF SetUpInv, curlVars, Uses
  <2> QED BY <1>2, <2>1, <2>2, <2>3, <2>4, <2>5, <2>6, <2>7, Zenon DEF Create
<1>3. ASSUME NEW t \in Thread, Release(t) PROVE SetUpInv'
  <2>1. client' = [client EXCEPT ![t] = NULL] /\ UNCHANGED <<work, curlVars, pc>> BY <1>3, Zenon DEF Release
  <2>2. client' \in [Thread -> {NULL} \cup [timeout : BOOLEAN]] BY <2>1, Zenon DEF SetUpInv
  <2>3. ~raced => InOrder' BY <2>1, Zenon DEF SetUpInv, InOrder, curlVars
  <2> QED BY <2>1, <2>2, <2>3, Zenon DEF SetUpInv, curlVars, Uses
<1>4. ASSUME NEW t \in Thread, Return(t), UNCHANGED <<work, curlVars, client>> PROVE SetUpInv'
  BY <1>4, SetUpKept, Zenon DEF Return, Place
<1>5. ASSUME NEW t \in Thread, Receive(t) PROVE SetUpInv'
  BY <1>5, <1>4, Zenon DEF Receive, Uncounted, Start, PollOnce, Counted, Respond
<1>6. ASSUME NEW t \in Thread, Broken(t) \/ TimedOut(t) PROVE SetUpInv'
  BY <1>6, <1>4 DEF Broken, TimedOut, Failed
<1>7. ASSUME NEW n \in Node, NEW t \in Thread, NodeCounts(n, t) \/ NodeAnswers(n, t) PROVE SetUpInv'
  BY <1>7, <1>1 DEF NodeCounts, NodeAnswers, Send, curlVars
<1>8. ASSUME NEW t \in Thread, NEW call \in {"start", "poll", "send"}, Ask(t, call) PROVE SetUpInv'
  BY <1>8, SetUpKept, Zenon DEF Ask, Place
<1>9. ASSUME NEW p \in Thread, NEW timed \in BOOLEAN, neoc_rpc_client_set_timeout(p, timed) PROVE SetUpInv'
  <2>1. client[p] # NULL /\ client' = [client EXCEPT ![p].timeout = timed] /\ UNCHANGED <<work, curlVars, pc>>
    BY <1>9, Zenon DEF neoc_rpc_client_set_timeout
  <2>2. client' \in [Thread -> {NULL} \cup [timeout : BOOLEAN]] BY <2>1, Zenon DEF SetUpInv
  <2>3. ~raced => InOrder' BY <2>1, Zenon DEF SetUpInv, InOrder, curlVars
  <2> QED BY <2>1, <2>2, <2>3, Zenon DEF SetUpInv, curlVars, Uses
<1>10. ASSUME NEW p \in Thread, NEW i \in -1..MaxBlocks, SetCurrentIndex(p, i) PROVE SetUpInv'
  BY <1>10, <1>1 DEF SetCurrentIndex, curlVars
<1>11. ASSUME NEW n \in Node, NewBlock(n) PROVE SetUpInv'
  BY <1>11, <1>1 DEF NewBlock, curlVars
<1>12. CASE UNCHANGED vars
  BY <1>12, <1>1 DEF vars, curlVars
<1> QED
  BY <1>2, <1>3, <1>5, <1>6, <1>7, <1>8, <1>9, <1>10, <1>11, <1>12 DEF Next, PollerCalls, Thread

(* ensure_curl_init and curl_easy_init: no thread ever has or is making a     *)
(* handle before curl_global_init has come to its end, for any number of      *)
(* threads: always with a libcurl that locks curl_global_init, and with one   *)
(* that does not as long as no thread calls it while another one is inside.   *)
THEOREM SetUp == Spec => []SetUpBeforeUse
<1>1. SetUpInv => SetUpBeforeUse BY Zenon DEF SetUpInv, InOrder, SetUpBeforeUse
<1> QED BY <1>1, SetUpInit, SetUpStep, PTL DEF Spec

(***************************************************************************)
(* Polling.  A number that reaches a poller, over the wire or from a heap  *)
(* that still holds an answer, was some node's count and stays below it,   *)
(* since chains grow.                                                      *)
(***************************************************************************)
Known(count) == count \in Int /\ (count >= 0 => \E n \in Node : count <= blocks[n])
ChainInv ==
    /\ blocks \in [Node -> Int]
    /\ DOMAIN wire = Thread /\ wire = [t \in Thread |-> wire[t]]
    /\ \A t \in Thread : wire[t] \notin {NULL, Asked} => Known(wire[t].result)
    /\ DOMAIN left = Poller /\ left = [p \in Poller |-> left[p]]
    /\ \A p \in Poller : left[p] # NULL => left[p] \in Nat /\ Known(left[p])
FollowInv ==
    /\ polling \in [Poller -> Int]
    /\ told \in [Poller -> Seq(Int)]
    /\ Contiguous
    /\ AtMostOneAhead
Inv == ChainInv /\ FollowInv

LEMMA FollowInit == Init => Inv
  BY DEF Init, Inv, ChainInv, FollowInv, Contiguous, AtMostOneAhead

(* r goes on from s without a gap and ends at latest.                         *)
Continues(s, r, latest) ==
    /\ r \in Seq(Int) /\ r # <<>>
    /\ \A i \in 2..Len(r) : r[i] = r[i - 1] + 1
    /\ latest = r[Len(r)]
    /\ \A i \in 1..Len(r) : r[i] <= latest \/ (i \in 1..Len(s) /\ r[i] = s[i])

(* What New adds to a sequence that ends at the current index.                *)
LEMMA NewContiguous ==
    ASSUME NEW s \in Seq(Int), NEW current \in Int, NEW latest \in Int, latest > current,
           \A i \in 2..Len(s) : s[i] = s[i - 1] + 1, s # <<>> => current = s[Len(s)]
    PROVE  Continues(s, s \o New(current, latest), latest)
<1> DEFINE k == latest - current
           new == [i \in 1..k |-> current + i]
           r == s \o new
<1>1. k \in Nat /\ k > 0 OBVIOUS
<1>2. new \in Seq(Int) /\ Len(new) = k /\ \A i \in 1..k : new[i] = current + i BY <1>1
<1> HIDE DEF new
<1>a. r \in Seq(Int) BY <1>2
<1>b. Len(r) = Len(s) + Len(new) BY <1>2, ConcatProperties, Zenon
<1>c. Len(s) \in Nat OBVIOUS
<1>3. Len(r) = Len(s) + k BY <1>b, <1>2
<1>4. \A i \in 1..Len(s) : r[i] = s[i] BY <1>2, <1>3
<1>5. ASSUME NEW i \in (Len(s) + 1)..(Len(s) + k) PROVE r[i] = current + (i - Len(s))
  <2>1. i - Len(s) \in 1..k /\ i \in 1..(Len(s) + Len(new)) /\ ~(i <= Len(s)) BY <1>1, <1>2, <1>c
  <2>2. r[i] = new[i - Len(s)] BY <2>1, <1>2, ConcatProperties
  <2> QED BY <2>1, <2>2, <1>2
<1> HIDE DEF r
<1>6. ASSUME NEW i \in 2..Len(r) PROVE r[i] = r[i - 1] + 1
  <2>1. CASE i <= Len(s)
    <3>1. i \in 2..Len(s) /\ i \in 1..Len(s) /\ i - 1 \in 1..Len(s) BY <2>1, <1>c
    <3>2. r[i] = s[i] /\ r[i - 1] = s[i - 1] BY <3>1, <1>4
    <3> QED BY <3>1, <3>2
  <2>2. CASE i = Len(s) + 1
    <3>1. s # <<>> /\ Len(s) >= 1 BY <2>2
    <3>2. i - 1 = Len(s) /\ Len(s) \in 1..Len(s) BY <2>2, <3>1, <1>c
    <3>3. r[i - 1] = s[Len(s)] BY <3>2, <1>4
    <3>4. i \in (Len(s) + 1)..(Len(s) + k) BY <2>2, <1>1, <1>c
    <3>5. r[i] = current + (i - Len(s)) BY <3>4, <1>5
    <3>6. i - Len(s) = 1 BY <2>2, <1>c
    <3> QED BY <3>1, <3>3, <3>5, <3>6
  <2>3. CASE i > Len(s) + 1 BY <2>3, <1>c, <1>1, <1>3, <1>5
  <2> QED BY <2>1, <2>2, <2>3
<1>7. r[Len(r)] = latest BY <1>1, <1>c, <1>3, <1>5
<1>8. ASSUME NEW i \in 1..Len(r) PROVE r[i] <= latest \/ (i \in 1..Len(s) /\ r[i] = s[i])
  BY <1>1, <1>3, <1>4, <1>5
<1>9. r # <<>> BY <1>1, <1>3, <1>c
<1>10. s \o New(current, latest) = r BY DEF New, new, r, k
<1> QED BY <1>a, <1>6, <1>7, <1>8, <1>9, <1>10 DEF Continues

(* Counts never shrink, so that what is known stays known.                    *)
LEMMA KnownKept ==
    ASSUME ChainInv, NEW n \in Node, NewBlock(n), NEW count, Known(count)
    PROVE  Known(count)'
<1>1. blocks' = [blocks EXCEPT ![n] = @ + 1] BY DEF NewBlock
<1>2. \A k \in Node : blocks[k] \in Int /\ blocks'[k] >= blocks[k] BY <1>1 DEF ChainInv
<1>3. \A k \in Node : blocks'[k] \in Int BY <1>1 DEF ChainInv
<1> QED BY <1>2, <1>3 DEF Known

LEMMA NewBlockKeeps == ASSUME Inv, NEW n \in Node, NewBlock(n) PROVE Inv'
<1>1. blocks' \in [Node -> Int] BY DEF NewBlock, Inv, ChainInv
<1>2. UNCHANGED <<wire, left, polling, told>> BY DEF NewBlock
<1>3. ChainInv'
  <2>1. ASSUME NEW t \in Thread, wire[t] \notin {NULL, Asked} PROVE Known(wire[t].result)'
    BY <1>2, <2>1, KnownKept DEF Inv, ChainInv
  <2>2. ASSUME NEW p \in Poller, left[p] # NULL PROVE left[p] \in Nat /\ Known(left[p])'
    BY <1>2, <2>2, KnownKept DEF Inv, ChainInv
  <2> QED BY <1>1, <1>2, <2>1, <2>2 DEF Inv, ChainInv
<1>4. Contiguous' BY <1>2 DEF Inv, FollowInv, Contiguous
<1>5. AtMostOneAhead'
  <2> SUFFICES ASSUME NEW p \in Poller, NEW i \in DOMAIN told[p]
               PROVE  \E k \in Node : told[p][i] <= blocks'[k]
    BY <1>2 DEF AtMostOneAhead
  <2>1. PICK k \in Node : told[p][i] <= blocks[k] BY DEF Inv, FollowInv, AtMostOneAhead
  <2>2. told[p][i] \in Int BY DEF Inv, FollowInv
  <2>3. blocks[k] \in Int /\ blocks'[k] \in Int /\ blocks'[k] >= blocks[k] BY DEF NewBlock, Inv, ChainInv
  <2> QED BY <2>1, <2>2, <2>3
<1> QED BY <1>2, <1>3, <1>4, <1>5 DEF Inv, FollowInv

(* What a poller reads is known.                                              *)
LEMMA CountKnown ==
    ASSUME ChainInv, NEW p \in Poller, NEW latest, Counted(p, latest)
    PROVE  latest \in Nat /\ Known(latest)
<1>1. Answered(p) /\ latest \in Counts(p) /\ latest # NULL BY DEF Counted
<1>2. p \in Thread BY DEF Thread
<1>3. wire[p] \notin {NULL, Asked} BY <1>1 DEF Answered
<1>4. CASE wire[p] = Empty BY <1>1, <1>4 DEF Counts, ChainInv
<1>5. CASE wire[p] # Empty
  <2>1. latest = neoc_rpc_get_block_count(wire[p]) BY <1>1, <1>5 DEF Counts
  <2>2. latest = make_rpc_call(wire[p]) /\ latest \in Nat BY <1>1, <2>1 DEF neoc_rpc_get_block_count
  <2>3. latest = Null \/ latest = wire[p].result BY <1>1, <2>2 DEF make_rpc_call
  <2>4. latest = wire[p].result BY <2>2, <2>3 DEF Null
  <2> QED BY <1>2, <1>3, <2>2, <2>4 DEF ChainInv
<1> QED BY <1>4, <1>5

(* A step that changes one connection, and at most forgets or learns a count. *)
LEMMA ChainKept ==
    ASSUME ChainInv, UNCHANGED blocks, NEW t \in Thread, NEW x, wire' = [wire EXCEPT ![t] = x],
           x \in {NULL, Asked, wire[t]} \/ Known(x.result),
           \/ UNCHANGED left
           \/ \E p \in Poller : \E k : left' = [left EXCEPT ![p] = k] /\ (k \in {NULL, left[p]} \/ (k \in Nat /\ Known(k)))
    PROVE  ChainInv'
<1>1. ASSUME NEW k PROVE Known(k)' <=> Known(k) BY DEF Known
<1>2. DOMAIN wire' = Thread /\ wire' = [u \in Thread |-> wire'[u]] BY DEF ChainInv
<1>3. ASSUME NEW u \in Thread, wire'[u] \notin {NULL, Asked} PROVE Known(wire'[u].result)
  <2>1. CASE u = t BY <2>1, <1>3 DEF ChainInv
  <2>2. CASE u # t BY <2>2, <1>3 DEF ChainInv
  <2> QED BY <2>1, <2>2
<1>4. /\ DOMAIN left' = Poller /\ left' = [p \in Poller |-> left'[p]]
      /\ \A p \in Poller : left'[p] # NULL => left'[p] \in Nat /\ Known(left'[p])
  <2>1. CASE UNCHANGED left BY <2>1 DEF ChainInv
  <2>2. ASSUME NEW p \in Poller, NEW k, left' = [left EXCEPT ![p] = k],
               k \in {NULL, left[p]} \/ (k \in Nat /\ Known(k))
        PROVE  <1>4!1 /\ <1>4!2
    <3>1. DOMAIN left' = Poller /\ left' = [q \in Poller |-> left'[q]] BY <2>2 DEF ChainInv
    <3>2. ASSUME NEW q \in Poller, left'[q] # NULL PROVE left'[q] \in Nat /\ Known(left'[q])
      <4>1. CASE q = p BY <4>1, <3>2, <2>2 DEF ChainInv
      <4>2. CASE q # p BY <4>2, <3>2, <2>2 DEF ChainInv
      <4> QED BY <4>1, <4>2
    <3> QED BY <3>1, <3>2
  <2> QED BY <2>1, <2>2
<1>5. blocks' \in [Node -> Int] BY DEF ChainInv
<1> QED BY <1>1, <1>2, <1>3, <1>4, <1>5 DEF ChainInv

LEMMA FollowKept == ASSUME FollowInv, UNCHANGED <<blocks, polling, told>> PROVE FollowInv'
  BY DEF FollowInv, Contiguous, AtMostOneAhead

(* A poller that sets out anew, at an index it need not tell.                 *)
LEMMA FollowAnew ==
    ASSUME FollowInv, UNCHANGED blocks, NEW p \in Poller, NEW i \in Int,
           polling' = [polling EXCEPT ![p] = i], told' = [told EXCEPT ![p] = <<>>]
    PROVE  FollowInv'
<1>1. polling' \in [Poller -> Int] /\ told' \in [Poller -> Seq(Int)] BY DEF FollowInv
<1>2. told'[p] = <<>> BY DEF FollowInv
<1>3. \A q \in Poller : q # p => told'[q] = told[q] /\ polling'[q] = polling[q] BY DEF FollowInv
<1>4. Contiguous'
  <2> SUFFICES ASSUME NEW q \in Poller, told'[q] # <<>>
               PROVE  /\ \A j \in 2..Len(told'[q]) : told'[q][j] = told'[q][j - 1] + 1
                      /\ polling'[q] = told'[q][Len(told'[q])]
    BY DEF Contiguous
  <2>1. q # p BY <1>2
  <2> QED BY <1>3, <2>1 DEF FollowInv, Contiguous
<1>5. AtMostOneAhead'
  <2> SUFFICES ASSUME NEW q \in Poller, NEW j \in DOMAIN told'[q]
               PROVE  \E k \in Node : told'[q][j] <= blocks[k]
    BY DEF AtMostOneAhead
  <2>1. q # p BY <1>2
  <2> QED BY <1>3, <2>1 DEF FollowInv, AtMostOneAhead
<1> QED BY <1>1, <1>4, <1>5 DEF FollowInv

LEMMA StartFollows ==
    ASSUME ChainInv, FollowInv, NEW p \in Poller, NEW latest, Start(p, latest)
    PROVE  FollowInv'
<1>1. latest \in Nat /\ Known(latest) BY CountKnown DEF Start
<1>2. UNCHANGED blocks BY DEF Start, Counted
<1>3. polling' = [polling EXCEPT ![p] = latest - 1] /\ told' = [told EXCEPT ![p] = <<latest - 1>>] BY DEF Start
<1>4. PICK n \in Node : latest <= blocks[n] /\ blocks[n] \in Int BY <1>1 DEF Known, ChainInv
<1>5. polling' \in [Poller -> Int] /\ told' \in [Poller -> Seq(Int)] BY <1>1, <1>3 DEF FollowInv
<1>6. Contiguous'
  <2> SUFFICES ASSUME NEW q \in Poller, told'[q] # <<>>
               PROVE  /\ \A i \in 2..Len(told'[q]) : told'[q][i] = told'[q][i - 1] + 1
                      /\ polling'[q] = told'[q][Len(told'[q])]
    BY DEF Contiguous
  <2>1. CASE q = p BY <2>1, <1>1, <1>3 DEF FollowInv
  <2>2. CASE q # p BY <2>2, <1>3 DEF FollowInv, Contiguous
  <2> QED BY <2>1, <2>2
<1>7. AtMostOneAhead'
  <2> SUFFICES ASSUME NEW q \in Poller, NEW i \in DOMAIN told'[q]
               PROVE  \E k \in Node : told'[q][i] <= blocks[k]
    BY <1>2 DEF AtMostOneAhead
  <2>1. CASE q = p
    <3>1. told'[q][i] = latest - 1 BY <2>1, <1>3 DEF FollowInv
    <3> QED BY <3>1, <1>1, <1>4
  <2>2. CASE q # p BY <2>2, <1>3 DEF FollowInv, AtMostOneAhead
  <2> QED BY <2>1, <2>2
<1> QED BY <1>5, <1>6, <1>7 DEF FollowInv

LEMMA PollFollows ==
    ASSUME ChainInv, FollowInv, NEW p \in Poller, NEW latest, PollOnce(p, latest)
    PROVE  FollowInv'
<1>1. latest \in Nat /\ Known(latest) BY CountKnown DEF PollOnce
<1>2. UNCHANGED blocks BY DEF PollOnce, Counted
<1>3. CASE UNCHANGED <<polling, told>> BY <1>2, <1>3, FollowKept
<1>4. CASE /\ ~(latest <= polling[p])
           /\ polling' = [polling EXCEPT ![p] = latest]
           /\ told' = [told EXCEPT ![p] = @ \o New(polling[p], latest)]
  <2> DEFINE r == told[p] \o New(polling[p], latest)
  <2>1. told[p] \in Seq(Int) /\ polling[p] \in Int /\ latest > polling[p] BY <1>1, <1>4 DEF FollowInv
  <2>2. \A i \in 2..Len(told[p]) : told[p][i] = told[p][i - 1] + 1
    <3>1. CASE told[p] = <<>> BY <3>1
    <3>2. CASE told[p] # <<>> BY <3>2 DEF FollowInv, Contiguous
    <3> QED BY <3>1, <3>2
  <2>3. told[p] # <<>> => polling[p] = told[p][Len(told[p])] BY DEF FollowInv, Contiguous
  <2>4. /\ r \in Seq(Int) /\ r # <<>>
        /\ \A i \in 2..Len(r) : r[i] = r[i - 1] + 1
        /\ latest = r[Len(r)]
        /\ \A i \in 1..Len(r) : r[i] <= latest \/ (i \in 1..Len(told[p]) /\ r[i] = told[p][i])
    <3>1. latest \in Int BY <1>1
    <3>2. Continues(told[p], r, latest) BY <3>1, <2>1, <2>2, <2>3, NewContiguous, Zenon
    <3> HIDE DEF r
    <3> QED BY <3>2 DEF Continues
  <2> HIDE DEF r
  <2>a. told' = [told EXCEPT ![p] = r] BY <1>4 DEF r
  <2>5. told'[p] = r /\ polling'[p] = latest /\ told' \in [Poller -> Seq(Int)] /\ polling' \in [Poller -> Int]
    <3>1. latest \in Int /\ r \in Seq(Int) BY <1>1, <2>4
    <3>2. told \in [Poller -> Seq(Int)] /\ polling \in [Poller -> Int] BY DEF FollowInv
    <3> QED BY <1>4, <2>a, <3>1, <3>2, Zenon
  <2>6. \A q \in Poller : q # p => told'[q] = told[q] /\ polling'[q] = polling[q] BY <1>4, <2>a DEF FollowInv
  <2>7. Contiguous'
    <3> SUFFICES ASSUME NEW q \in Poller, told'[q] # <<>>
                 PROVE  /\ \A i \in 2..Len(told'[q]) : told'[q][i] = told'[q][i - 1] + 1
                        /\ polling'[q] = told'[q][Len(told'[q])]
      BY DEF Contiguous
    <3>1. CASE q = p BY <3>1, <2>4, <2>5
    <3>2. CASE q # p BY <3>2, <2>6 DEF FollowInv, Contiguous
    <3> QED BY <3>1, <3>2
  <2>8. AtMostOneAhead'
    <3> SUFFICES ASSUME NEW q \in Poller, NEW i \in DOMAIN told'[q]
                 PROVE  \E k \in Node : told'[q][i] <= blocks[k]
      BY <1>2 DEF AtMostOneAhead
    <3>1. CASE q # p BY <3>1, <2>6, Zenon DEF FollowInv, AtMostOneAhead
    <3>2. CASE q = p /\ r[i] <= latest
      <4>1. PICK n \in Node : latest <= blocks[n] /\ blocks[n] \in Int BY <1>1 DEF Known, ChainInv
      <4>2. i \in 1..Len(r) BY <3>2, <2>4, <2>5
      <4>3. r[i] \in Int BY <4>2, <2>4
      <4> QED BY <3>2, <4>1, <4>3, <1>1, <2>5
    <3>3. CASE q = p /\ i \in 1..Len(told[p]) /\ r[i] = told[p][i]
      <4>1. i \in DOMAIN told[p] BY <3>3, <2>1
      <4> QED BY <3>3, <4>1, <2>5, Zenon DEF FollowInv, AtMostOneAhead
    <3>4. q = p => i \in 1..Len(r) BY <2>4, <2>5
    <3> QED BY <3>1, <3>2, <3>3, <3>4, <2>4
  <2> QED BY <2>5, <2>7, <2>8 DEF FollowInv
<1> QED BY <1>3, <1>4, Zenon DEF PollOnce, poll_once

LEMMA ReceiveFollows == ASSUME Inv, NEW p \in Poller, Receive(p), ~Respond(p) PROVE Inv'
<1>1. p \in Thread BY DEF Thread
<1>2. CASE Uncounted(p)
  <2>1. FollowInv' BY <1>2, FollowKept DEF Uncounted, Inv
  <2>2. ChainInv'
    <3>1. wire' = [wire EXCEPT ![p] = NULL] /\ UNCHANGED blocks BY <1>2 DEF Uncounted, Return
    <3>2. \E k : left' = [left EXCEPT ![p] = k] /\ k \in {NULL, left[p]} BY <1>2, Zenon DEF Uncounted
    <3> QED BY <1>1, <3>1, <3>2, ChainKept, Zenon DEF Inv
  <2> QED BY <2>1, <2>2 DEF Inv
<1>3. ASSUME NEW latest, Counted(p, latest) PROVE ChainInv'
  <2>1. wire' = [wire EXCEPT ![p] = NULL] /\ UNCHANGED blocks BY <1>3 DEF Counted, Return
  <2>2. left' = [left EXCEPT ![p] = latest] BY <1>3 DEF Counted
  <2>3. latest \in Nat /\ Known(latest) BY <1>3, CountKnown DEF Inv
  <2> QED BY <1>1, <2>1, <2>2, <2>3, ChainKept, Zenon DEF Inv
<1>4. ASSUME NEW latest, Start(p, latest) PROVE Inv'
  BY <1>3, <1>4, StartFollows, Zenon DEF Inv, Start
<1>5. ASSUME NEW latest, PollOnce(p, latest) PROVE Inv'
  BY <1>3, <1>5, PollFollows DEF Inv, PollOnce
<1> QED BY <1>2, <1>4, <1>5 DEF Receive

LEMMA FollowStep == Inv /\ [Next]_vars => Inv'
<1> SUFFICES ASSUME Inv, [Next]_vars PROVE Inv'
  OBVIOUS
<1>1. ASSUME UNCHANGED <<blocks, wire, left, polling, told>> PROVE Inv'
  <2>1. ChainInv' BY <1>1 DEF Inv, ChainInv, Known
  <2> QED BY <1>1, <2>1, FollowKept DEF Inv
<1>2. ASSUME UNCHANGED <<blocks, left, polling, told>>, NEW t \in Thread, NEW x, wire' = [wire EXCEPT ![t] = x],
             x \in {NULL, Asked, wire[t]} \/ Known(x.result)
      PROVE  Inv'
  BY <1>2, ChainKept, FollowKept, Zenon DEF Inv
<1>3. ASSUME NEW t \in Thread, Create(t) PROVE Inv'
  BY <1>3, <1>1, Zenon DEF Create, neoc_service_create, ensure_curl_init, set_initialized, neoc_neo_client_create,
                    curl_global_init, curl_global_init_ends, Allocate, onlyPc
<1>4. ASSUME NEW t \in Thread, Release(t) PROVE Inv'
  <2>1. CASE t \in Poller
    <3>1. ChainInv' BY <1>4 DEF Release, Inv, ChainInv, Known
    <3>2. polling' = [polling EXCEPT ![t] = -1] /\ told' = [told EXCEPT ![t] = <<>>] /\ UNCHANGED blocks
      BY <1>4, <2>1 DEF Release
    <3>3. -1 \in Int OBVIOUS
    <3>4. FollowInv' BY <2>1, <3>2, <3>3, FollowAnew, Zenon DEF Inv
    <3> QED BY <3>1, <3>4 DEF Inv
  <2>2. CASE t \notin Poller BY <1>4, <2>2, <1>1 DEF Release
  <2> QED BY <2>1, <2>2
<1>5. ASSUME NEW t \in Thread, Receive(t) PROVE Inv'
  <2>1. CASE Respond(t) BY <2>1, <1>2, Zenon DEF Respond, Return
  <2>2. CASE ~Respond(t)
    <3>1. t \in Poller BY <1>5, <2>2 DEF Receive
    <3> QED BY <1>5, <2>2, <3>1, ReceiveFollows
  <2> QED BY <2>1, <2>2
<1>6. ASSUME NEW t \in Thread, Broken(t) \/ TimedOut(t) PROVE Inv'
  BY <1>6, <1>2 DEF Broken, TimedOut, Failed, Return
<1>7. ASSUME NEW n \in Node, NEW t \in Thread, NodeCounts(n, t) \/ NodeAnswers(n, t) PROVE Inv'
  <2>1. PICK a : Send(t, a) /\ (a = Answer(200, "absent", blocks[n]) \/ a \in Answers(n))
    BY <1>7 DEF NodeCounts, NodeAnswers
  <2>2. a.result \in {blocks[n], Absent, Null} BY <2>1 DEF Answers, Answer, Cut, Empty
  <2>3. blocks[n] \in Int BY DEF Inv, ChainInv
  <2>4. Known(a.result) BY <2>2, <2>3 DEF Known, Absent, Null
  <2> QED BY <2>1, <2>4, <1>2, Zenon DEF Send
<1>8. ASSUME NEW t \in Thread, NEW call, Ask(t, call) PROVE Inv'
  BY <1>8, <1>2, Zenon DEF Ask
<1>9. ASSUME NEW p \in Poller, NEW timed \in BOOLEAN, neoc_rpc_client_set_timeout(p, timed) PROVE Inv'
  BY <1>9, <1>1 DEF neoc_rpc_client_set_timeout
<1>10. ASSUME NEW p \in Poller, NEW i \in -1..MaxBlocks, SetCurrentIndex(p, i) PROVE Inv'
  <2>1. ChainInv' BY <1>10 DEF SetCurrentIndex, Inv, ChainInv, Known
  <2>2. polling' = [polling EXCEPT ![p] = i] /\ told' = [told EXCEPT ![p] = <<>>] /\ UNCHANGED blocks
    BY <1>10 DEF SetCurrentIndex
  <2>3. i \in Int OBVIOUS
  <2>4. FollowInv' BY <2>2, <2>3, FollowAnew, Zenon DEF Inv
  <2> QED BY <2>1, <2>4 DEF Inv
<1>11. CASE UNCHANGED vars
  BY <1>11, <1>1 DEF vars
<1> QED
  BY <1>3, <1>4, <1>5, <1>6, <1>7, <1>8, <1>9, <1>10, <1>11, NewBlockKeeps DEF Next, PollerCalls, Thread

(* block_index_polling.c: the indices told are consecutive and end at the     *)
(* current one, for any nodes, failures and lags.                             *)
THEOREM NoneSkipped == Spec => []Contiguous
<1>1. Inv => Contiguous BY DEF Inv, FollowInv
<1> QED BY <1>1, FollowInit, FollowStep, PTL DEF Spec

(* block_index_polling.c: no index is told that is more than one beyond the   *)
(* last block, stale answers included.                                        *)
THEOREM NoneInvented == Spec => []AtMostOneAhead
<1>1. Inv => AtMostOneAhead BY DEF Inv, FollowInv
<1> QED BY <1>1, FollowInit, FollowStep, PTL DEF Spec

(***************************************************************************)
(* Refinement.  A step of the clients and nodes is a step of a follower of *)
(* the chain or does not show.                                             *)
(***************************************************************************)
LEMMA FollowerOnly ==
    ASSUME Inv, NEW p \in Poller, NEW s, told' = [told EXCEPT ![p] = s], UNCHANGED blocks
    PROVE  Follower!Only(p) /\ told'[p] = s
  BY DEF Inv, FollowInv, Follower!Only

LEMMA StartRefines ==
    ASSUME Inv, NEW p \in Poller, NEW latest, Start(p, latest)
    PROVE  Follower!SetOut(p)
<1>1. latest \in Nat /\ Known(latest) BY CountKnown DEF Start, Inv
<1>2. UNCHANGED blocks /\ told' = [told EXCEPT ![p] = <<latest - 1>>] BY DEF Start, Counted
<1>3. Follower!Only(p) /\ told'[p] = <<latest - 1>> BY <1>2, FollowerOnly, Zenon
<1>4. Len(told'[p]) = 1 /\ told'[p][1] = latest - 1 BY <1>1, <1>3
<1>5. PICK n \in Node : latest <= blocks[n] BY <1>1 DEF Known
<1>6. blocks[n] \in Int BY DEF Inv, ChainInv
<1>7. told'[p][1] < blocks[n] BY <1>1, <1>4, <1>5, <1>6
<1>8. Follower!Exists(told'[p][1]) BY <1>7, Zenon DEF Follower!Exists
<1> QED BY <1>3, <1>4, <1>8, Zenon DEF Follower!SetOut

LEMMA PollRefines ==
    ASSUME Inv, Inv', NEW p \in Poller, NEW latest, PollOnce(p, latest)
    PROVE  Follower!Tell(p) \/ UNCHANGED <<blocks, told>>
<1>1. UNCHANGED blocks BY DEF PollOnce, Counted
<1>2. CASE UNCHANGED <<polling, told>> BY <1>1, <1>2
<1>3. CASE /\ ~(latest <= polling[p])
           /\ polling' = [polling EXCEPT ![p] = latest]
           /\ told' = [told EXCEPT ![p] = @ \o New(polling[p], latest)]
  <2>1. latest \in Nat BY CountKnown DEF PollOnce, Inv
  <2> DEFINE new == New(polling[p], latest)
  <2>2. polling[p] \in Int /\ told[p] \in Seq(Int) /\ latest > polling[p] BY <1>3, <2>1 DEF Inv, FollowInv
  <2>3. new \in Seq(Int) /\ Len(new) > 0
    <3>1. latest - polling[p] \in Nat /\ latest - polling[p] > 0 BY <2>1, <2>2
    <3>2. new = [i \in 1..(latest - polling[p]) |-> polling[p] + i] BY DEF New
    <3> HIDE DEF new
    <3>3. new \in Seq(Int) BY <2>2, <3>1, <3>2
    <3>4. Len(new) = latest - polling[p] BY <3>1, <3>2
    <3> QED BY <3>1, <3>3, <3>4
  <2> HIDE DEF new
  <2>4. Follower!Only(p) /\ told'[p] = told[p] \o new BY <1>1, <1>3, FollowerOnly, Zenon DEF new
  <2>5. Len(told'[p]) = Len(told[p]) + Len(new) BY <2>2, <2>3, <2>4, ConcatProperties
  <2>6. Len(told[p]) \in Nat /\ Len(new) \in Nat BY <2>2, <2>3
  <2>7. \A i \in 1..Len(told[p]) : told'[p][i] = told[p][i] BY <2>2, <2>3, <2>4
  <2>8. told'[p] \in Seq(Int) /\ told'[p] # <<>> BY <2>2, <2>3, <2>4, <2>5, <2>6
  <2>9. \A i \in 2..Len(told'[p]) : told'[p][i] = told'[p][i - 1] + 1 BY <2>8 DEF Inv, FollowInv, Contiguous
  <2>10. \A i \in 1..Len(told'[p]) : \E n \in Node : told'[p][i] <= blocks[n]
    <3>1. DOMAIN told'[p] = 1..Len(told'[p]) BY <2>8
    <3> QED BY <1>1, <3>1, Zenon DEF Inv, FollowInv, AtMostOneAhead
  <2>11. Len(told'[p]) > Len(told[p]) BY <2>3, <2>5, <2>6
  <2>12. \A i \in 1..Len(told'[p]) : Follower!Due(told'[p][i]) BY <2>10 DEF Follower!Due
  <2> QED BY <2>4, <2>7, <2>9, <2>11, <2>12, Zenon DEF Follower!Tell
<1> QED BY <1>2, <1>3, Zenon DEF PollOnce, poll_once

LEMMA StepRefines == Inv /\ Inv' /\ [Next]_vars => [Follower!Next]_(Follower!vars)
<1> SUFFICES ASSUME Inv, Inv', [Next]_vars PROVE Follower!Next \/ UNCHANGED <<blocks, told>>
  BY DEF Follower!vars
<1>1. ASSUME NEW n \in Node, NewBlock(n) PROVE Follower!Next
  BY <1>1, Zenon DEF NewBlock, Follower!Next, Follower!Grow
<1>2. ASSUME NEW t \in Thread, Create(t) PROVE UNCHANGED <<blocks, told>>
  BY <1>2, Zenon DEF Create, neoc_service_create, ensure_curl_init, set_initialized, neoc_neo_client_create,
              curl_global_init, curl_global_init_ends, Allocate, onlyPc
<1>3. ASSUME NEW p \in Poller, told' = [told EXCEPT ![p] = <<>>], UNCHANGED blocks PROVE Follower!Next
  <2>1. Follower!SetOut(p) BY <1>3, FollowerOnly, Zenon DEF Follower!SetOut
  <2> QED BY <2>1 DEF Follower!Next
<1>4. ASSUME NEW t \in Thread, Release(t) PROVE Follower!Next \/ UNCHANGED <<blocks, told>>
  BY <1>3, <1>4 DEF Release
<1>5. ASSUME NEW t \in Thread, Receive(t) PROVE Follower!Next \/ UNCHANGED <<blocks, told>>
  <2>1. CASE Respond(t) BY <2>1 DEF Respond
  <2>2. CASE t \in Poller /\ Uncounted(t) BY <2>2 DEF Uncounted
  <2>3. ASSUME NEW latest, t \in Poller, Start(t, latest) PROVE Follower!Next
    BY <2>3, StartRefines DEF Follower!Next
  <2>4. ASSUME NEW latest, t \in Poller, PollOnce(t, latest) PROVE Follower!Next \/ UNCHANGED <<blocks, told>>
    BY <2>4, PollRefines DEF Follower!Next
  <2> QED BY <1>5, <2>1, <2>2, <2>3, <2>4 DEF Receive
<1>6. ASSUME NEW t \in Thread, Broken(t) \/ TimedOut(t) PROVE UNCHANGED <<blocks, told>>
  BY <1>6 DEF Broken, TimedOut, Failed
<1>7. ASSUME NEW n \in Node, NEW t \in Thread, NodeCounts(n, t) \/ NodeAnswers(n, t) PROVE UNCHANGED <<blocks, told>>
  BY <1>7 DEF NodeCounts, NodeAnswers, Send
<1>8. ASSUME NEW t \in Thread, NEW call, Ask(t, call) PROVE UNCHANGED <<blocks, told>>
  BY <1>8 DEF Ask
<1>9. ASSUME NEW p \in Poller, NEW timed \in BOOLEAN, neoc_rpc_client_set_timeout(p, timed) PROVE UNCHANGED <<blocks, told>>
  BY <1>9 DEF neoc_rpc_client_set_timeout
<1>10. ASSUME NEW p \in Poller, NEW i \in -1..MaxBlocks, SetCurrentIndex(p, i) PROVE Follower!Next
  BY <1>3, <1>10, Zenon DEF SetCurrentIndex
<1>11. CASE UNCHANGED vars BY <1>11 DEF vars
<1> QED
  BY <1>1, <1>2, <1>4, <1>5, <1>6, <1>7, <1>8, <1>9, <1>10, <1>11 DEF Next, PollerCalls, Thread

(* block_index_polling.c over rpc_client.c implements ChainFollower, for any  *)
(* pollers, callers and nodes and whatever fails.                             *)
THEOREM Implements == Spec => FollowsChain
<1>1. Init => Follower!Init BY DEF Init, Follower!Init
<1> QED BY <1>1, FollowInit, FollowStep, StepRefines, PTL DEF Spec, FollowsChain, Follower!Spec

(***************************************************************************)
(* Answers belong to their requests.  A connection is empty between calls, *)
(* and what is on it during one is no less than the slowest node had when  *)
(* the call began.                                                         *)
(***************************************************************************)
Fresh(counts, place, x, asked) ==
    IF place \in {"start", "poll", "send"}
      THEN /\ \A n \in Node : asked \in Int /\ asked <= counts[n]
           /\ x \notin {NULL, Asked} => x.result \in Int /\ (x.result >= 0 => asked \in Int /\ asked <= x.result)
      ELSE x = NULL
FreshInv ==
    /\ blocks \in [Node -> Nat]
    /\ DOMAIN pc = Thread /\ DOMAIN wire = Thread /\ DOMAIN since = Thread /\ DOMAIN response = Caller
    /\ \A t \in Thread : Fresh(blocks, pc[t], wire[t], since[t])

(* At first nobody has asked anything.                                        *)
LEMMA FreshInit == Init => FreshInv
  BY DEF Init, FreshInv, Fresh

(* No node is behind the slowest one.                                         *)
LEMMA SlowestLeast ==
    ASSUME blocks \in [Node -> Nat], NEW n \in Node
    PROVE  Slowest \in Nat /\ Slowest <= blocks[n]
<1> DEFINE T == {blocks[m] : m \in Node}
           R == OpToRel(<, Nat)
<1>1. T \subseteq Nat /\ blocks[n] \in T OBVIOUS
<1>2. IsWellFoundedOn(R, Nat) BY NatLessThanWellFounded, Zenon
<1>3. \A x, y \in Nat : x < y => <<x, y>> \in R BY DEF OpToRel
<1> HIDE DEF R
<1>4. Slowest = Min(T) BY DEF Slowest
<1> HIDE DEF T
<1>5. PICK x \in T : \A y \in T : ~(<<y, x>> \in R) BY <1>1, <1>2, WFMin, Zenon
<1>6. ASSUME NEW y \in T PROVE x <= y
  <2>1. x \in Nat /\ y \in Nat BY <1>1
  <2>2. ~(y < x) BY <1>3, <1>5, <2>1, Zenon
  <2> QED BY <2>1, <2>2
<1>7. Min(T) \in T /\ \A y \in T : Min(T) <= y BY <1>6 DEF Min
<1> QED BY <1>1, <1>4, <1>7, Zenon

(* A step of one call.                                                        *)
LEMMA FreshMove ==
    ASSUME FreshInv, UNCHANGED blocks, NEW t \in Thread,
           DOMAIN pc' = Thread, DOMAIN wire' = Thread, DOMAIN since' = Thread, DOMAIN response' = Caller,
           \A u \in Thread : u # t => pc'[u] = pc[u] /\ wire'[u] = wire[u] /\ since'[u] = since[u],
           Fresh(blocks, pc'[t], wire'[t], since'[t])
    PROVE  FreshInv'
<1>1. ASSUME NEW u \in Thread PROVE Fresh(blocks', pc'[u], wire'[u], since'[u])
  <2>1. CASE u = t BY <2>1
  <2>2. CASE u # t BY <2>2 DEF FreshInv
  <2> QED BY <2>1, <2>2
<1> QED BY <1>1 DEF FreshInv

(* A step that is no part of a call.                                          *)
LEMMA FreshAside ==
    ASSUME FreshInv, UNCHANGED <<blocks, pc, wire, since>>, DOMAIN response' = Caller
    PROVE  FreshInv'
  BY DEF FreshInv

(* A call that comes back leaves its connection empty.                        *)
LEMMA FreshReturn ==
    ASSUME FreshInv, NEW t \in Thread, Return(t), UNCHANGED <<blocks, since>>, DOMAIN response' = Caller
    PROVE  FreshInv'
<1>1. pc' = [pc EXCEPT ![t] = "idle"] /\ wire' = [wire EXCEPT ![t] = NULL] BY DEF Return, Goto
<1>2. DOMAIN pc = Thread /\ DOMAIN wire = Thread /\ DOMAIN since = Thread BY DEF FreshInv
<1>3. pc'[t] = "idle" /\ wire'[t] = NULL BY <1>1, <1>2
<1>4. Fresh(blocks, pc'[t], wire'[t], since'[t]) BY <1>3 DEF Fresh
<1>5. \A u \in Thread : u # t => pc'[u] = pc[u] /\ wire'[u] = wire[u] /\ since'[u] = since[u] BY <1>1, <1>2
<1>6. DOMAIN pc' = Thread /\ DOMAIN wire' = Thread /\ DOMAIN since' = Thread BY <1>1, <1>2
<1> QED BY <1>4, <1>5, <1>6, FreshMove

(* Every step keeps connections fresh.                                        *)
LEMMA FreshStep == ASSUME Asked # NULL, FreshInv, [Next]_vars PROVE FreshInv'
<1>0. DOMAIN pc = Thread /\ DOMAIN wire = Thread /\ DOMAIN since = Thread /\ DOMAIN response = Caller
  BY DEF FreshInv
<1>1. ASSUME NEW n \in Node, NewBlock(n) PROVE FreshInv'
  <2>1. blocks' = [blocks EXCEPT ![n] = @ + 1] /\ UNCHANGED <<pc, wire, since, response>> BY <1>1 DEF NewBlock
  <2>2. blocks' \in [Node -> Nat] /\ \A m \in Node : blocks[m] \in Nat /\ blocks'[m] >= blocks[m] BY <2>1 DEF FreshInv
  <2>3. ASSUME NEW t \in Thread PROVE Fresh(blocks', pc[t], wire[t], since[t])
    <3>1. Fresh(blocks, pc[t], wire[t], since[t]) BY DEF FreshInv
    <3>2. ASSUME NEW m \in Node, since[t] \in Int, since[t] <= blocks[m] PROVE since[t] <= blocks'[m]
      <4>1. blocks[m] \in Nat /\ blocks'[m] \in Nat /\ blocks'[m] >= blocks[m] BY <2>2
      <4> QED BY <3>2, <4>1
    <3> QED BY <3>1, <3>2 DEF Fresh
  <2> QED BY <1>0, <2>1, <2>2, <2>3, Zenon DEF FreshInv
<1>2. ASSUME NEW t \in Thread, Create(t) PROVE FreshInv'
  <2> DEFINE quiet == {"idle", "read flag", "set up", "inside", "set flag", "allocate"}
  <2>1. /\ UNCHANGED <<blocks, wire, since, response>> /\ pc[t] \in quiet
        /\ \E place \in quiet : pc' = [pc EXCEPT ![t] = place]
    BY <1>2, Zenon DEF Create, neoc_service_create, ensure_curl_init, set_initialized, neoc_neo_client_create,
                curl_global_init, curl_global_init_ends, SetUpDone, Allocate, onlyPc, Goto
  <2>2. pc'[t] \in quiet /\ DOMAIN pc' = Thread /\ \A u \in Thread : u # t => pc'[u] = pc[u] BY <1>0, <2>1, Zenon
  <2>3. wire[t] = NULL BY <2>1, Zenon DEF FreshInv, Fresh
  <2>4. Fresh(blocks, pc'[t], wire'[t], since'[t]) BY <2>1, <2>2, <2>3, Zenon DEF Fresh
  <2> QED BY <1>0, <2>1, <2>2, <2>4, FreshMove, Zenon
<1>3. ASSUME NEW t \in Thread, Release(t) PROVE FreshInv'
  BY <1>0, <1>3, FreshAside DEF Release
<1>4. ASSUME NEW t \in Thread, Receive(t) PROVE FreshInv'
  <2>1. Return(t) /\ UNCHANGED <<blocks, since>>
    BY <1>4, Zenon DEF Receive, Uncounted, Start, PollOnce, Counted, Respond
  <2>2. DOMAIN response' = Caller
    BY <1>0, <1>4, Zenon DEF Receive, Uncounted, Start, PollOnce, Counted, Respond
  <2> QED BY <2>1, <2>2, FreshReturn
<1>5. ASSUME NEW t \in Thread, Broken(t) \/ TimedOut(t) PROVE FreshInv'
  <2>1. Return(t) /\ UNCHANGED <<blocks, since>> /\ DOMAIN response' = Caller
    BY <1>0, <1>5 DEF Broken, TimedOut, Failed
  <2> QED BY <2>1, FreshReturn
<1>6. ASSUME NEW n \in Node, NEW t \in Thread, NodeCounts(n, t) \/ NodeAnswers(n, t) PROVE FreshInv'
  <2>1. PICK a : Send(t, a) /\ (a = Answer(200, "absent", blocks[n]) \/ a \in Answers(n))
    BY <1>6 DEF NodeCounts, NodeAnswers
  <2>2. a.result \in {blocks[n], Absent, Null} BY <2>1 DEF Answers, Answer, Cut, Empty
  <2>3. /\ wire[t] = Asked /\ wire' = [wire EXCEPT ![t] = a]
        /\ UNCHANGED <<blocks, pc, since, response>>
    BY <2>1 DEF Send
  <2>4. Fresh(blocks, pc[t], wire[t], since[t]) /\ blocks[n] \in Nat BY DEF FreshInv
  <2>5. pc[t] \in {"start", "poll", "send"} BY <2>3, <2>4 DEF Fresh
  <2>6. \A m \in Node : since[t] \in Int /\ since[t] <= blocks[m] BY <2>4, <2>5 DEF Fresh
  <2>7. a.result \in Int /\ (a.result >= 0 => since[t] \in Int /\ since[t] <= a.result)
    BY <2>2, <2>4, <2>6 DEF Absent, Null
  <2>8. Fresh(blocks, pc[t], a, since[t]) BY <2>5, <2>6, <2>7 DEF Fresh
  <2>9. wire'[t] = a /\ DOMAIN wire' = Thread /\ \A u \in Thread : u # t => wire'[u] = wire[u] BY <1>0, <2>3
  <2> QED BY <1>0, <2>3, <2>8, <2>9, FreshMove
<1>7. ASSUME NEW t \in Thread, NEW call \in {"start", "poll", "send"}, Ask(t, call) PROVE FreshInv'
  <2>1. /\ pc[t] = "idle" /\ pc' = [pc EXCEPT ![t] = call]
        /\ wire' = [wire EXCEPT ![t] = IF wire[t] = NULL THEN Asked ELSE wire[t]]
        /\ since' = [since EXCEPT ![t] = Slowest]
        /\ UNCHANGED <<blocks, response>>
    BY <1>7 DEF Ask, Goto
  <2>2. wire[t] = NULL BY <2>1 DEF FreshInv, Fresh
  <2>3. pc'[t] = call /\ wire'[t] = Asked /\ since'[t] = Slowest BY <1>0, <2>1, <2>2
  <2>4. \A n \in Node : Slowest \in Int /\ Slowest <= blocks[n] BY SlowestLeast DEF FreshInv
  <2>5. Fresh(blocks, pc'[t], wire'[t], since'[t]) BY <2>3, <2>4 DEF Fresh
  <2>6. \A u \in Thread : u # t => pc'[u] = pc[u] /\ wire'[u] = wire[u] /\ since'[u] = since[u] BY <1>0, <2>1
  <2>7. DOMAIN pc' = Thread /\ DOMAIN wire' = Thread /\ DOMAIN since' = Thread /\ DOMAIN response' = Caller
    BY <1>0, <2>1
  <2> QED BY <2>1, <2>5, <2>6, <2>7, FreshMove
<1>8. ASSUME NEW p \in Poller, NEW timed \in BOOLEAN, neoc_rpc_client_set_timeout(p, timed) PROVE FreshInv'
  BY <1>0, <1>8, FreshAside DEF neoc_rpc_client_set_timeout
<1>9. ASSUME NEW p \in Poller, NEW i \in -1..MaxBlocks, SetCurrentIndex(p, i) PROVE FreshInv'
  BY <1>0, <1>9, FreshAside DEF SetCurrentIndex
<1>10. CASE UNCHANGED vars
  BY <1>0, <1>10, FreshAside DEF vars
<1> QED
  BY <1>1, <1>2, <1>3, <1>4, <1>5, <1>6, <1>7, <1>8, <1>9, <1>10 DEF Next, PollerCalls, Thread

(* A count that a poller reads from an answer is fresh.                       *)
LEMMA CountFresh ==
    ASSUME FreshInv, NEW p \in Poller, NEW latest, Counted(p, latest), wire[p] # Empty
    PROVE  latest \in Nat /\ since[p] \in Int /\ since[p] <= latest
<1>1. /\ pc[p] \in {"start", "poll", "send"} /\ wire[p] \notin {NULL, Asked}
      /\ latest \in Counts(p) /\ latest # NULL
  BY DEF Counted, Answered, Waiting
<1>2. latest = neoc_rpc_get_block_count(wire[p]) BY <1>1 DEF Counts
<1>3. latest = make_rpc_call(wire[p]) /\ latest \in Nat BY <1>1, <1>2 DEF neoc_rpc_get_block_count
<1>4. latest = Null \/ latest = wire[p].result BY <1>1, <1>3 DEF make_rpc_call
<1>5. latest = wire[p].result /\ latest >= 0 BY <1>3, <1>4 DEF Null
<1>6. Fresh(blocks, pc[p], wire[p], since[p]) BY DEF FreshInv, Thread
<1> QED BY <1>1, <1>3, <1>5, <1>6 DEF Fresh

(* neoc_block_index_polling_start: what the callback is given.                *)
LEMMA StartFresh ==
    ASSUME Inv, FreshInv, NEW p \in Poller, NEW latest, Start(p, latest), NEW q \in Poller,
           told'[q] # told[q], wire[q] # Empty
    PROVE  told'[q][Len(told'[q])] >= since[q] - 1
<1>1. told' = [told EXCEPT ![p] = <<latest - 1>>] /\ told \in [Poller -> Seq(Int)] BY DEF Start, Inv, FollowInv
<1>2. q = p /\ told'[q] = <<latest - 1>> BY <1>1
<1>3. latest \in Nat /\ since[q] \in Int /\ since[q] <= latest BY <1>2, CountFresh DEF Start
<1>4. Len(told'[q]) = 1 /\ told'[q][1] = latest - 1 BY <1>2, <1>3
<1> QED BY <1>3, <1>4

(* neoc_block_index_polling_poll_once: the last index it gives.               *)
LEMMA PollFresh ==
    ASSUME Inv, FreshInv, NEW p \in Poller, NEW latest, PollOnce(p, latest), NEW q \in Poller,
           told'[q] # told[q], wire[q] # Empty
    PROVE  told'[q][Len(told'[q])] >= since[q] - 1
<1> DEFINE r == told[p] \o New(polling[p], latest)
<1>1. /\ ~(latest <= polling[p]) /\ told' = [told EXCEPT ![p] = r]
      /\ told \in [Poller -> Seq(Int)] /\ polling \in [Poller -> Int]
  BY DEF PollOnce, poll_once, Inv, FollowInv
<1>2. q = p /\ told'[q] = r BY <1>1
<1>3. latest \in Nat /\ since[q] \in Int /\ since[q] <= latest BY <1>2, CountFresh DEF PollOnce
<1>4. latest \in Int /\ told[p] \in Seq(Int) /\ polling[p] \in Int /\ latest > polling[p] BY <1>1, <1>3
<1>5. \A i \in 2..Len(told[p]) : told[p][i] = told[p][i - 1] + 1
  <2>1. CASE told[p] = <<>> BY <2>1
  <2>2. CASE told[p] # <<>> BY <2>2 DEF Inv, FollowInv, Contiguous
  <2> QED BY <2>1, <2>2
<1>6. told[p] # <<>> => polling[p] = told[p][Len(told[p])] BY DEF Inv, FollowInv, Contiguous
<1>7. Continues(told[p], r, latest) BY <1>4, <1>5, <1>6, NewContiguous
<1> HIDE DEF r
<1>8. told'[q][Len(told'[q])] = latest BY <1>2, <1>7 DEF Continues
<1> QED BY <1>3, <1>8

(* neoc_service_send_request: what it makes of an answer.                     *)
LEMMA RespondFresh ==
    ASSUME FreshInv, NEW c \in Caller, Respond(c), NEW d \in Caller,
           response'[d] # response[d], response'[d] # NULL, response'[d].result >= 0
    PROVE  response'[d].result >= since[d]
<1>1. DOMAIN response = Caller BY DEF FreshInv
<1>2. PICK x : response' = [response EXCEPT ![c] = x]
                 /\ x \in {neoc_service_send_request(wire[c]), Response(FALSE, Absent)}
  BY Zenon DEF Respond
<1>3. d = c /\ response'[d] = x BY <1>1, <1>2
<1>4. x = NULL \/ x = Response(TRUE, Absent) \/ x = Response(FALSE, Absent) \/ x = Response(FALSE, wire[c].result)
  BY <1>2, Zenon DEF neoc_service_send_request
<1>5. x.result = Absent \/ x.result = wire[c].result BY <1>3, <1>4 DEF Response
<1>6. x.result = wire[c].result BY <1>3, <1>5 DEF Absent
<1>7. pc[c] = "send" /\ wire[c] \notin {NULL, Asked} BY DEF Respond, Answered
<1>8. Fresh(blocks, pc[c], wire[c], since[c]) BY DEF FreshInv, Thread
<1> QED BY <1>3, <1>6, <1>7, <1>8 DEF Fresh

(* Which steps give a poller or a caller something.                           *)
LEMMA Given ==
    ASSUME [Next]_vars
    PROVE  /\ \/ UNCHANGED told
              \/ \E p \in Poller : told' = [told EXCEPT ![p] = <<>>]
              \/ \E p \in Poller : \E latest : Start(p, latest) \/ PollOnce(p, latest)
           /\ \/ UNCHANGED response
              \/ \E c \in Caller : response' = [response EXCEPT ![c] = NULL] \/ Respond(c)
<1> DEFINE Told == \/ UNCHANGED told
                   \/ \E p \in Poller : told' = [told EXCEPT ![p] = <<>>]
                   \/ \E p \in Poller : \E latest : Start(p, latest) \/ PollOnce(p, latest)
           Responded == \/ UNCHANGED response
                        \/ \E c \in Caller : response' = [response EXCEPT ![c] = NULL] \/ Respond(c)
<1>1. ASSUME NEW n \in Node, NewBlock(n) PROVE UNCHANGED <<told, response>>
  BY <1>1 DEF NewBlock
<1>2. ASSUME NEW t \in Thread, Create(t) PROVE UNCHANGED <<told, response>>
  BY <1>2, Zenon DEF Create, neoc_service_create, ensure_curl_init, set_initialized, neoc_neo_client_create,
              curl_global_init, curl_global_init_ends, Allocate, onlyPc
<1>3. ASSUME NEW t \in Thread, Release(t) PROVE Told /\ UNCHANGED response
  BY <1>3 DEF Release
<1>4. ASSUME NEW t \in Thread, Receive(t) PROVE Told /\ Responded
  <2>1. CASE t \in Caller /\ Respond(t)
    <3>1. UNCHANGED told BY <2>1 DEF Respond
    <3> QED BY <2>1, <3>1
  <2>2. CASE t \in Poller /\ Uncounted(t) BY <2>2 DEF Uncounted
  <2>3. ASSUME t \in Poller, NEW latest, Start(t, latest) \/ PollOnce(t, latest) PROVE Told /\ Responded
    <3>1. UNCHANGED response BY <2>3 DEF Start, PollOnce, Counted
    <3> QED BY <2>3, <3>1
  <2> HIDE DEF Told, Responded
  <2> QED BY <1>4, <2>1, <2>2, <2>3 DEF Receive
<1>5. ASSUME NEW t \in Thread, Broken(t) \/ TimedOut(t) PROVE UNCHANGED told /\ Responded
  BY <1>5 DEF Broken, TimedOut, Failed
<1>6. ASSUME NEW n \in Node, NEW t \in Thread, NodeCounts(n, t) \/ NodeAnswers(n, t) PROVE UNCHANGED <<told, response>>
  BY <1>6 DEF NodeCounts, NodeAnswers, Send
<1>7. ASSUME NEW t \in Thread, NEW call, Ask(t, call) PROVE UNCHANGED <<told, response>>
  BY <1>7 DEF Ask
<1>8. ASSUME NEW p \in Poller, NEW timed \in BOOLEAN, neoc_rpc_client_set_timeout(p, timed) PROVE UNCHANGED <<told, response>>
  BY <1>8 DEF neoc_rpc_client_set_timeout
<1>9. ASSUME NEW p \in Poller, NEW i \in -1..MaxBlocks, SetCurrentIndex(p, i) PROVE Told /\ UNCHANGED response
  BY <1>9, Zenon DEF SetCurrentIndex
<1>10. ASSUME UNCHANGED vars PROVE UNCHANGED <<told, response>> BY <1>10 DEF vars
<1>11. UNCHANGED <<told, response>> => Told /\ Responded OBVIOUS
<1>12. UNCHANGED told => Told OBVIOUS
<1>13. UNCHANGED response => Responded OBVIOUS
<1> HIDE DEF Told, Responded
<1>14. ASSUME NEW t \in Thread,
              \/ Create(t) \/ Release(t) \/ Receive(t) \/ Broken(t) \/ TimedOut(t)
              \/ \E n \in Node : NodeCounts(n, t) \/ NodeAnswers(n, t)
       PROVE  Told /\ Responded
  BY <1>2, <1>3, <1>4, <1>5, <1>6, <1>11, <1>12, <1>13, <1>14
<1>15. ASSUME NEW p \in Poller, PollerCalls(p) PROVE Told /\ Responded
  BY <1>7, <1>8, <1>9, <1>11, <1>12, <1>13, <1>15 DEF PollerCalls, Thread
<1>16. ASSUME NEW c \in Caller, Ask(c, "send") PROVE Told /\ Responded
  BY <1>7, <1>11, <1>16 DEF Thread
<1>17. Told /\ Responded
  <2>1. CASE \E n \in Node : NewBlock(n) BY <1>1, <1>11, <2>1
  <2>2. CASE \E p \in Poller \cap work.threads : PollerCalls(p) BY <1>15, <2>2
  <2>3. CASE \E c \in Caller \cap work.threads : Ask(c, "send") BY <1>16, <2>3
  <2>4. CASE \E t \in Thread \cap work.threads :
               \/ Create(t) \/ Release(t) \/ Receive(t) \/ Broken(t) \/ TimedOut(t)
               \/ \E n \in Node : NodeCounts(n, t) \/ NodeAnswers(n, t)
    <3>1. PICK t \in Thread \cap work.threads :
               \/ Create(t) \/ Release(t) \/ Receive(t) \/ Broken(t) \/ TimedOut(t)
               \/ \E n \in Node : NodeCounts(n, t) \/ NodeAnswers(n, t)
      BY <2>4, Zenon
    <3>2. t \in Thread OBVIOUS
    <3> QED BY <1>14, <3>1, <3>2, Zenon
  <2>5. CASE UNCHANGED vars BY <1>10, <1>11, <2>5, Zenon
  <2> QED BY <2>1, <2>2, <2>3, <2>4, <2>5, Zenon DEF Next
<1> QED BY <1>17 DEF Told, Responded

(* make_rpc_call and neoc_service_send_request: for any nodes, threads and    *)
(* failures, what a call gives its caller is no older than its request.  All  *)
(* that is asked of the constants is that a connection with a request differs *)
(* from one without.                                                          *)
THEOREM AnswersAreFresh == ASSUME Asked # NULL PROVE Spec => NeverStale
<1>1. Inv /\ FreshInv /\ [Next]_vars =>
        [/\ \A p \in Poller :
              told'[p] # told[p] /\ told'[p] # <<>> /\ wire[p] # Empty => told'[p][Len(told'[p])] >= since[p] - 1
         /\ \A c \in Caller :
              response'[c] # response[c] /\ response'[c] # NULL =>
                  (response'[c].result >= 0 => response'[c].result >= since[c])]_vars
  <2> SUFFICES ASSUME Inv, FreshInv, [Next]_vars
               PROVE  /\ \A p \in Poller :
                            told'[p] # told[p] /\ told'[p] # <<>> /\ wire[p] # Empty =>
                                told'[p][Len(told'[p])] >= since[p] - 1
                      /\ \A c \in Caller :
                            response'[c] # response[c] /\ response'[c] # NULL =>
                                (response'[c].result >= 0 => response'[c].result >= since[c])
    OBVIOUS
  <2>1. ASSUME NEW q \in Poller, told'[q] # told[q], told'[q] # <<>>, wire[q] # Empty
        PROVE  told'[q][Len(told'[q])] >= since[q] - 1
    <3>1. ~UNCHANGED told BY <2>1
    <3>2. ASSUME NEW p \in Poller, told' = [told EXCEPT ![p] = <<>>] PROVE FALSE
      BY <2>1, <3>2 DEF Inv, FollowInv
    <3>3. PICK p \in Poller : \E latest : Start(p, latest) \/ PollOnce(p, latest) BY <3>1, <3>2, Given
    <3> QED BY <2>1, <3>3, StartFresh, PollFresh
  <2>2. ASSUME NEW d \in Caller, response'[d] # response[d], response'[d] # NULL, response'[d].result >= 0
        PROVE  response'[d].result >= since[d]
    <3>1. ~UNCHANGED response BY <2>2
    <3>2. ASSUME NEW c \in Caller, response' = [response EXCEPT ![c] = NULL] PROVE FALSE
      BY <2>2, <3>2 DEF FreshInv
    <3>3. PICK c \in Caller : Respond(c) BY <3>1, <3>2, Given
    <3> QED BY <2>2, <3>3, RespondFresh
  <2> QED BY <2>1, <2>2
<1>2. FreshInv /\ [Next]_vars => FreshInv' BY FreshStep
<1> QED BY <1>1, <1>2, FreshInit, FollowInit, FollowStep, PTL DEF Spec, NeverStale
=============================================================================
