----------------------------- MODULE MCNetwork -----------------------------
(* One poller and two callers over two nodes.                                 *)
EXTENDS Network

CONSTANTS p1, c1, c2, n1, n2
MCPoller == {p1}
MCCaller == {c1, c2}
MCNode == {n1, n2}
Work(threads, uses) == [threads |-> threads, uses |-> uses]
(* The poller alone, in a world without errors and in one with every error;   *)
(* the poller and a caller together; a caller with every answer; and all      *)
(* threads making and freeing clients, which sets libcurl up, with a lock and  *)
(* without.                                                                   *)
MCWorkload ==
    {Work({p1}, {"requests"}), Work({p1}, {"requests", "errors", "timeout", "set", "release"}),
     Work({p1, c1}, {"requests"}), Work({c1}, {"requests", "errors"}),
     Work({p1, c1, c2}, {"release"}), Work({p1, c1, c2}, {"release", "old curl"})}
=============================================================================
