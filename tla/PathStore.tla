------------------------------ MODULE PathStore ------------------------------
(***************************************************************************)
(* What mounting values at paths promises, however it is done: each value  *)
(* is mounted at once, a path below which something is mounted is an       *)
(* object, any other path holds the value that was mounted there last, and *)
(* nothing else exists.                                                    *)
(***************************************************************************)
EXTENDS PathTree

VARIABLES last,   \* the value mounted last at each path that one was mounted at
          view    \* the tree a reader sees

Init == last = <<>> /\ view = <<>>

Mount(p, v) == last' = Put(last, p, v) /\ view' = ViewOf(last')

Next == \E p \in Paths, v \in Values : Mount(p, v)

Spec == Init /\ [][Next]_<<last, view>>
=============================================================================
