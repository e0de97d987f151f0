---------------------------- MODULE MCTaskQueue ----------------------------
(* Small instances of TaskQueue: one task with two targets, or two tasks   *)
(* with one target each.                                                   *)
EXTENDS TaskQueue, TLC

CONSTANTS t1, t2, x1, x2, x3

MCTaskOf2 == x1 :> t1 @@ x2 :> t1
MCTaskOf1 == x1 :> t1 @@ x3 :> t2

Symmetry == Permutations(Workers) \cup Permutations(Scopes)
=============================================================================
