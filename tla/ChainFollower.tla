--------------------------- MODULE ChainFollower ---------------------------
(* What following a chain promises an application: it sets out at a block     *)
(* some node has, and from there hears of each index once and in order, up to *)
(* the number of blocks of some node.  That is the index of the next block,   *)
(* one beyond the last that exists (block_index_polling.c:84, 97).  How the   *)
(* counts are asked for, lost, repeated and compared does not show.           *)
EXTENDS Integers, Sequences

CONSTANTS Poller, Node
VARIABLES blocks,           \* blocks[n]: how many blocks node n has
          told              \* told[p]: the indices p has told since it set out
vars == <<blocks, told>>

(* Some node has block i; some node has it or has it next.                    *)
Exists(i) == \E n \in Node : i < blocks[n]
Due(i) == \E n \in Node : i <= blocks[n]
Only(p) == told' = [told EXCEPT ![p] = told'[p]] /\ UNCHANGED blocks

Grow ==
    /\ \E n \in Node : blocks' = [blocks EXCEPT ![n] = @ + 1]
    /\ UNCHANGED told
(* Afresh, or with the last index of a node.                                  *)
SetOut(p) ==
    /\ Only(p)
    /\ told'[p] = <<>> \/ (Len(told'[p]) = 1 /\ Exists(told'[p][1]))
(* Goes on from what was told, as far as the next block.                      *)
Tell(p) ==
    /\ Only(p)
    /\ Len(told'[p]) > Len(told[p])
    /\ \A i \in 1..Len(told[p]) : told'[p][i] = told[p][i]
    /\ \A i \in 2..Len(told'[p]) : told'[p][i] = told'[p][i - 1] + 1
    /\ \A i \in 1..Len(told'[p]) : Due(told'[p][i])

Init == blocks = [n \in Node |-> 1] /\ told = [p \in Poller |-> <<>>]
Next == Grow \/ \E p \in Poller : SetOut(p) \/ Tell(p)
Spec == Init /\ [][Next]_vars
=============================================================================
