---------------------------- MODULE MCInMemStore ----------------------------
(* Small instances of InMemStore.                                          *)
EXTENDS InMemStore

Obj(k, n) == [k |-> k, n |-> n]

\* Two folders that share a bucket and a key, with objects of size 0, 1 and 2
\* and one that can never fit.
SharedFolder ==
    [l \in {"l1", "l2"} |->
        IF l = "l1"
        THEN << [b |-> "x", objs |-> <<Obj("k", 2), Obj("m", 0)>>],
                [b |-> "y", objs |-> <<Obj("k", 1), Obj("m", 4)>>] >>
        ELSE << [b |-> "x", objs |-> <<Obj("k", 1), Obj("m", 2)>>] >>]
=============================================================================
