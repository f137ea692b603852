------------------------------ MODULE Network ------------------------------
(* Threads that talk to Neo nodes.  A poller has an RPC client (one curl      *)
(* handle, rpc_client.c) behind a Neo client (core/neo.c) and follows the     *)
(* chain with it (core/polling/block_index_polling.c).  A caller has a        *)
(* service over an URL session (service.c, url_session.c) and sends requests  *)
(* through it.  All share the set-up of libcurl.                              *)
(*                                                                            *)
(* Outside the library, and modelled as it is used: libcurl, which is set up  *)
(* once, behind a lock of its own only from version 7.84 on (CMakeLists.txt   *)
(* asks for no version), and ends a transfer with an answer, an error or      *)
(* after the time allowed; the nodes, several of which may serve one URL,     *)
(* each with its own part of the chain; and a connection, which an answer may *)
(* be lost on.                                                                *)
EXTENDS Integers, Sequences, FiniteSets, FiniteSetsExt

CONSTANTS Poller, Caller, Node, NULL,
          Asked,            \* a connection with a request and no answer yet
          MaxBlocks,        \* blocks the chain grows to
          Workload          \* what the threads of a behaviour do

Thread == Poller \cup Caller
Place == {"idle", "read flag", "set up", "inside", "set flag", "allocate", "start", "poll", "send"}

VARIABLES
    work,           \* the workload of this behaviour
    blocks,         \* blocks[n]: what node n answers to getblockcount
    curl,           \* libcurl: "down", "starting" while curl_global_init runs, "up"
    raced,          \* curl_global_init was called while it was running, and did not wait
    initialized,    \* the static flag of ensure_curl_init
    pc,             \* pc[t]: where thread t is
    client,         \* client[t]: the client or service of t, NULL when it has none
    wire,           \* wire[t]: what is on the connection of t
    since,          \* since[t]: what the slowest node had when t asked
    polling,        \* polling[p]: current_block_index
    told,           \* told[p]: the indices given to the application since p set out
    left,           \* left[p]: the count in the last answer that p read, freed since
    response        \* response[c]: what the last request gave its sender
vars == <<work, blocks, curl, raced, initialized, pc, client, wire, since, polling, told, left, response>>
curlVars == <<curl, raced, initialized>>

Uses(x) == x \in work.uses
Chain == Max({blocks[n] : n \in Node})
Slowest == Min({blocks[n] : n \in Node})

(****************************************************************************)
(* What may arrive: a document with the members error and result, one cut    *)
(* off, or nothing.                                                           *)
(****************************************************************************)
Absent == -1
Null == -2
Answer(status, error, result) == [status |-> status, error |-> error, result |-> result]
Cut == Answer(200, "cut", Absent)
Empty == Answer(200, "empty", Absent)
Answers(n) ==
    {Answer(200, "absent", blocks[n]), Answer(200, "null", blocks[n]), Answer(200, "absent", Absent),
     Answer(200, "absent", Null), Answer(200, "object", Absent), Answer(500, "object", Absent), Cut, Empty}

(* make_rpc_call: any member "error" is an error, null too; the member        *)
(* "result" printed, or the text null.                                        *)
make_rpc_call(a) ==
    IF a.error = "absent" THEN (IF a.result = Absent THEN Null ELSE a.result) ELSE NULL
(* neoc_rpc_get_block_count: the result has to be a number.                   *)
neoc_rpc_get_block_count(a) == IF make_rpc_call(a) \in Nat THEN make_rpc_call(a) ELSE NULL

(* neoc_service_send_request: a status of 400 or more or a cut text gives no       *)
(* response; an error counts when it is an object.                            *)
Response(has_error, result) == [has_error |-> has_error, result |-> result]
neoc_service_send_request(a) ==
    IF a.status >= 400 \/ a.error \in {"cut", "empty"} THEN NULL
    ELSE IF a.error = "object" THEN Response(TRUE, Absent) ELSE Response(FALSE, a.result)

(****************************************************************************)
(* Nodes                                                                      *)
(****************************************************************************)
(* A node makes a block or hears of one.                                      *)
NewBlock(n) ==
    /\ Uses("requests") /\ blocks[n] < MaxBlocks
    /\ blocks' = [blocks EXCEPT ![n] = @ + 1]
    /\ UNCHANGED <<work, curlVars, pc, client, wire, since, polling, told, left, response>>

Send(t, a) ==
    /\ wire[t] = Asked
    /\ wire' = [wire EXCEPT ![t] = a]
    /\ UNCHANGED <<work, blocks, curlVars, pc, client, since, polling, told, left, response>>
NodeCounts(n, t) == Send(t, Answer(200, "absent", blocks[n]))
NodeAnswers(n, t) == Uses("errors") /\ \E a \in Answers(n) : Send(t, a)

(****************************************************************************)
(* Making clients                                                             *)
(****************************************************************************)
Goto(t, place) == pc' = [pc EXCEPT ![t] = place]
onlyPc == UNCHANGED <<work, blocks, curlVars, client, wire, since, polling, told, left, response>>

(* ensure_curl_init, called by neoc_url_session_create_with_config: the flag  *)
(* is read, curl_global_init called, the flag set.                            *)
neoc_service_create(c) == pc[c] = "idle" /\ client[c] = NULL /\ Goto(c, "read flag") /\ onlyPc
FlagFirst(c) ==             \* mutant: the flag is set before the set-up
    /\ pc[c] = "read flag"
    /\ Goto(c, IF initialized THEN "allocate" ELSE "set up")
    /\ initialized' = TRUE
    /\ UNCHANGED <<work, blocks, curl, raced, client, wire, since, polling, told, left, response>>
ensure_curl_init(c) ==      \* no lock: a thread may still see the flag as it was
    /\ pc[c] = "read flag"
    /\ \/ Goto(c, "set up")
       \/ initialized /\ Goto(c, "allocate")
    /\ onlyPc
(* The first caller sets libcurl up.  While it does, another one waits for    *)
(* the lock; before version 7.84 there is none and a plain counter, which     *)
(* lets it come back at once or go in as well.                                *)
SetUpDone(t) == Goto(t, IF t \in Caller THEN "set flag" ELSE "allocate")
curl_global_init(t) ==
    /\ pc[t] = "set up"
    /\ \/ curl = "down" /\ curl' = "starting" /\ Goto(t, "inside") /\ UNCHANGED raced
       \/ curl = "up" /\ SetUpDone(t) /\ UNCHANGED <<curl, raced>>
       \/ /\ curl = "starting" /\ Uses("old curl") /\ (SetUpDone(t) \/ Goto(t, "inside"))
          /\ raced' = TRUE /\ UNCHANGED curl
    /\ UNCHANGED <<work, blocks, initialized, client, wire, since, polling, told, left, response>>
curl_global_init_ends(t) ==
    /\ pc[t] = "inside"
    /\ \/ curl' = "up" /\ SetUpDone(t)
       \/ curl' = "down" /\ Goto(t, "idle")
    /\ UNCHANGED <<work, blocks, raced, initialized, client, wire, since, polling, told, left, response>>
set_initialized(c) ==
    /\ pc[c] = "set flag"
    /\ initialized' = TRUE
    /\ Goto(c, "allocate")
    /\ UNCHANGED <<work, blocks, curl, raced, client, wire, since, polling, told, left, response>>
(* neoc_neo_client_create and neoc_rpc_client_create: curl_easy_init calls    *)
(* curl_global_init when that has not been done.                              *)
neoc_neo_client_create(p) == pc[p] = "idle" /\ client[p] = NULL /\ Goto(p, "set up") /\ onlyPc
(* What is left are allocations.  A client waits 30 s for an answer.          *)
WaitingForEver(t) ==        \* mutant: no time is allowed by default
    /\ pc[t] = "allocate"
    /\ \E made \in {NULL, [timeout |-> FALSE]} : client' = [client EXCEPT ![t] = made]
    /\ Goto(t, "idle")
    /\ UNCHANGED <<work, blocks, curlVars, wire, since, polling, told, left, response>>
Allocate(t) ==
    /\ pc[t] = "allocate"
    /\ \E made \in {NULL, [timeout |-> TRUE]} : client' = [client EXCEPT ![t] = made]
    /\ Goto(t, "idle")
    /\ UNCHANGED <<work, blocks, curlVars, wire, since, polling, told, left, response>>
(* neoc_service_free; neoc_neo_client_free and neoc_block_index_polling_free.  *)
Release(t) ==
    /\ Uses("release") /\ pc[t] = "idle" /\ client[t] # NULL
    /\ client' = [client EXCEPT ![t] = NULL]
    /\ polling' = IF t \in Poller THEN [polling EXCEPT ![t] = -1] ELSE polling
    /\ told' = IF t \in Poller THEN [told EXCEPT ![t] = <<>>] ELSE told
    /\ UNCHANGED <<work, blocks, curlVars, pc, wire, since, left, response>>
(* neoc_rpc_client_set_timeout: with 0, libcurl waits for ever.               *)
neoc_rpc_client_set_timeout(p, timed) ==
    /\ Uses("timeout") /\ pc[p] = "idle" /\ client[p] # NULL
    /\ client' = [client EXCEPT ![p].timeout = timed]
    /\ UNCHANGED <<work, blocks, curlVars, pc, wire, since, polling, told, left, response>>

(****************************************************************************)
(* A request and its end                                                      *)
(****************************************************************************)
(* An answer that is still there is the first to be read.                     *)
Ask(t, call) ==
    /\ Uses("requests") /\ pc[t] = "idle" /\ client[t] # NULL
    /\ Goto(t, call)
    /\ wire' = [wire EXCEPT ![t] = IF @ = NULL THEN Asked ELSE @]
    /\ since' = [since EXCEPT ![t] = Slowest]
    /\ UNCHANGED <<work, blocks, curlVars, client, polling, told, left, response>>
Waiting(t) == pc[t] \in {"start", "poll", "send"}
Answered(t) == Waiting(t) /\ wire[t] \notin {NULL, Asked}
(* curl_easy_perform has returned and closed the connection or left it empty. *)
LeavingTheAnswer(t) == Goto(t, "idle") /\ UNCHANGED wire     \* mutant: what was received stays
Return(t) == Goto(t, "idle") /\ wire' = [wire EXCEPT ![t] = NULL]
Failed(t) ==
    /\ Return(t)
    /\ response' = IF t \in Caller THEN [response EXCEPT ![t] = NULL] ELSE response
    /\ UNCHANGED <<work, blocks, curlVars, client, since, polling, told, left>>
(* The transfer breaks, or memory for the request or the answer is lacking.   *)
Broken(t) == Uses("errors") /\ Waiting(t) /\ Failed(t)
TimedOut(t) == Waiting(t) /\ client[t].timeout /\ Failed(t)

(* neoc_service_perform_io and what neoc_service_send_request makes of it.    *)
Respond(c) ==
    /\ pc[c] = "send" /\ Answered(c)
    /\ \/ response' = [response EXCEPT ![c] = neoc_service_send_request(wire[c])]
       \/ (* neoc_response_set_error lacks memory, which is not looked at *)
          /\ Uses("errors") /\ wire[c].error = "object" /\ wire[c].status < 400
          /\ response' = [response EXCEPT ![c] = Response(FALSE, Absent)]
    /\ Return(c)
    /\ UNCHANGED <<work, blocks, curlVars, client, since, polling, told, left>>

(****************************************************************************)
(* Polling                                                                    *)
(****************************************************************************)
(* The buffer of make_rpc_call is not set to a text before the transfer.      *)
(* Without a body it is parsed as the heap left it: nothing that parses, or   *)
(* the answer that was there before.                                          *)
Counts(p) == IF wire[p] = Empty THEN {NULL, left[p]} ELSE {neoc_rpc_get_block_count(wire[p])}
Uncounted(p) ==
    /\ p \in Poller /\ Answered(p) /\ NULL \in Counts(p)
    /\ left' = [left EXCEPT ![p] = IF wire[p] = Empty THEN @ ELSE NULL]
    /\ Return(p)
    /\ UNCHANGED <<work, blocks, curlVars, client, since, polling, told, response>>
Counted(p, latest) ==
    /\ Answered(p) /\ latest \in Counts(p) \ {NULL}
    /\ left' = [left EXCEPT ![p] = latest]
    /\ Return(p)
    /\ UNCHANGED <<work, blocks, curlVars, client, since, response>>

(* neoc_block_index_polling_start: the callback gets the last index.          *)
Start(p, latest) ==
    /\ pc[p] = "start" /\ Counted(p, latest)
    /\ polling' = [polling EXCEPT ![p] = latest - 1]
    /\ told' = [told EXCEPT ![p] = <<latest - 1>>]

New(current, latest) == [i \in 1..(latest - current) |-> current + i]
(* neoc_block_index_polling_poll_once: the indices behind the current one up  *)
(* to the count.  The current index only moves when there was memory for them.*)
Rewinding(p, latest) ==     \* mutant: a node that lags takes the current index back
    /\ polling' = [polling EXCEPT ![p] = latest]
    /\ told' = [told EXCEPT ![p] = @ \o New(polling[p], latest)]
Swapped(p, latest) ==       \* mutant: the comparison is swapped
    IF latest >= polling[p] THEN UNCHANGED <<polling, told>>
    ELSE /\ polling' = [polling EXCEPT ![p] = latest]
         /\ told' = [told EXCEPT ![p] = @ \o New(polling[p], latest)]
poll_once(p, latest) ==
    IF latest <= polling[p] THEN UNCHANGED <<polling, told>>
    ELSE /\ polling' = [polling EXCEPT ![p] = latest]
         /\ told' = [told EXCEPT ![p] = @ \o New(polling[p], latest)]
MovingFirst(p, latest) ==   \* mutant: the current index moves before the indices are allocated
    /\ pc[p] = "poll" /\ Counted(p, latest)
    /\ \/ poll_once(p, latest)
       \/ Uses("errors") /\ polling' = [polling EXCEPT ![p] = Max({@, latest})] /\ UNCHANGED told
PollOnce(p, latest) ==
    /\ pc[p] = "poll" /\ Counted(p, latest)
    /\ \/ poll_once(p, latest)
       \/ Uses("errors") /\ UNCHANGED <<polling, told>>

(* neoc_block_index_polling_set_current_index and _reset, which sets -1: the  *)
(* poller sets out anew.                                                      *)
SetCurrentIndex(p, i) ==
    /\ Uses("set") /\ pc[p] = "idle"
    /\ polling' = [polling EXCEPT ![p] = i]
    /\ told' = [told EXCEPT ![p] = <<>>]
    /\ UNCHANGED <<work, blocks, curlVars, pc, client, wire, since, left, response>>

Init ==
    /\ work \in Workload
    /\ blocks = [n \in Node |-> 1]
    /\ curl = "down" /\ raced = FALSE /\ initialized = FALSE
    /\ pc = [t \in Thread |-> "idle"]
    /\ client = [t \in Thread |-> NULL]
    /\ wire = [t \in Thread |-> NULL]
    /\ since = [t \in Thread |-> 1]
    /\ polling = [p \in Poller |-> -1]
    /\ told = [p \in Poller |-> <<>>]
    /\ left = [p \in Poller |-> NULL]
    /\ response = [c \in Caller |-> NULL]

Create(t) ==
    \/ t \in Caller /\ (neoc_service_create(t) \/ ensure_curl_init(t) \/ set_initialized(t))
    \/ t \in Poller /\ neoc_neo_client_create(t)
    \/ curl_global_init(t) \/ curl_global_init_ends(t)
    \/ Allocate(t)
PollerCalls(p) ==
    \/ \E call \in {"start", "poll"} : Ask(p, call)
    \/ \E timed \in BOOLEAN : neoc_rpc_client_set_timeout(p, timed)
    \/ \E i \in -1..MaxBlocks : SetCurrentIndex(p, i)
Receive(t) ==
    \/ t \in Poller /\ (Uncounted(t) \/ \E latest \in 1..MaxBlocks : Start(t, latest) \/ PollOnce(t, latest))
    \/ t \in Caller /\ Respond(t)

Next ==
    \/ \E n \in Node : NewBlock(n)
    \/ \E t \in Thread \cap work.threads :
        \/ Create(t) \/ Release(t) \/ Receive(t) \/ Broken(t) \/ TimedOut(t)
        \/ \E n \in Node : NodeCounts(n, t) \/ NodeAnswers(n, t)
    \/ \E p \in Poller \cap work.threads : PollerCalls(p)
    \/ \E c \in Caller \cap work.threads : Ask(c, "send")
Spec == Init /\ [][Next]_vars
(****************************************************************************)
(* Fairness.  libcurl's clock runs and a thread runs on.  For following the   *)
(* chain more is needed of the world: nodes hear of blocks, the application   *)
(* keeps calling the poller, and an answer arrives in time now and then.      *)
(****************************************************************************)
Fairness ==
    /\ \A n \in Node : WF_vars(NewBlock(n))
    /\ \A t \in Thread : WF_vars(t \in work.threads /\ TimedOut(t)) /\ WF_vars(t \in work.threads /\ Create(t))
    /\ \A p \in Poller :
        /\ WF_vars(p \in work.threads /\ \E call \in {"start", "poll"} : Ask(p, call))
        /\ SF_vars(p \in work.threads /\ \E n \in Node : NodeCounts(n, p))
        /\ SF_vars(p \in work.threads /\ \E latest \in 1..MaxBlocks : Start(p, latest) \/ PollOnce(p, latest))
FairSpec == Spec /\ Fairness

(****************************************************************************)
(* Properties                                                                 *)
(****************************************************************************)
(* ensure_curl_init (url_session.c): however the threads that make sessions   *)
(* and RPC clients interleave, none goes on to a curl handle before           *)
(* curl_global_init has come to its end, and the flag never promises it early *)
(* - with a libcurl that has a lock (7.84 on), and with an older one as long  *)
(* as no thread called curl_global_init while another one was inside.         *)
SetUpBeforeUse ==
    ~(raced /\ Uses("old curl")) =>
        /\ initialized => curl = "up"
        /\ \A t \in Thread : pc[t] = "allocate" \/ client[t] # NULL => curl = "up"

(* block_index_polling.c: from the first index on, the application hears of   *)
(* every index once and in order, whatever requests failed, timed out, were   *)
(* answered by a node that lags or lacked memory in between; and the current  *)
(* index is the last one told.                                                *)
Contiguous ==
    \A p \in Poller : told[p] # <<>> =>
        /\ \A i \in 2..Len(told[p]) : told[p][i] = told[p][i - 1] + 1
        /\ polling[p] = told[p][Len(told[p])]

(* block_index_polling.c: an index told is at most one beyond the last block  *)
(* of the chain (poll_once reports the count itself, start the count less 1). *)
AtMostOneAhead ==
    \A p \in Poller : \A i \in DOMAIN told[p] : \E n \in Node : told[p][i] <= blocks[n]

(* block_index_polling.c on top of the clients does what a follower of the    *)
(* chain promises, which is to tell each index once, in order, and no index   *)
(* beyond the next block of the chain: polls that fail, lag, repeat or time   *)
(* out do not show.                                                           *)
Follower == INSTANCE ChainFollower
FollowsChain == Follower!Spec

(* make_rpc_call, neoc_service_send_request: what a call gives its caller was *)
(* answered to that call: no count is older than the slowest node was when    *)
(* the request went out, however many requests before it timed out.  The one  *)
(* exception is an answer without a body to the RPC client.                   *)
NeverStale ==
    [][/\ \A p \in Poller :
            told'[p] # told[p] /\ told'[p] # <<>> /\ wire[p] # Empty => told'[p][Len(told'[p])] >= since[p] - 1
       /\ \A c \in Caller :
            response'[c] # response[c] /\ response'[c] # NULL =>
                (response'[c].result >= 0 => response'[c].result >= since[c])]_vars

(* rpc_client.c, url_session.c: a call comes back, whatever the nodes do,     *)
(* unless the application set the timeout to 0.                               *)
CallsReturn == \A t \in Thread : Waiting(t) /\ ~Uses("timeout") ~> pc[t] = "idle"

(* block_index_polling.c: with a client that was made and no errors, a block  *)
(* that exists is told.                                                       *)
EveryBlockTold ==
    \A p \in Poller, count \in 1..MaxBlocks :
        (work.uses = {"requests"} /\ client[p] # NULL /\ Chain >= count)
            ~> (told[p] # <<>> /\ told[p][Len(told[p])] >= count - 1)

(* What a header says and the code does not keep: the indices told are those  *)
(* of blocks (block_index_polling.h:38, "Array of new block indices").        *)
(* poll_once tells the count itself, the index of a block no node has yet.    *)
BlocksExist == \A p \in Poller : \A i \in DOMAIN told[p] : told[p][i] < Chain
=============================================================================
