---------------------------- MODULE MCPublisher ----------------------------
(* Constants of the model-checking instances of Publisher.                 *)
EXTENDS PublisherSerial, TLC

CONSTANTS parent, child

SwapOps  == {"publish", "rollbackTo"}
LifeOps  == {"publish", "rollback", "unpublish"}

(* No site is nested under another; child is nested under parent.          *)
FlatPaths   == [s \in Sites |-> {s}]
NestedPaths == [s \in Sites |-> IF s = parent THEN Sites ELSE {s}]
Symmetric == Permutations(Contents) \union Permutations(Workers)
=============================================================================
