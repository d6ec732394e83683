---------------------------- MODULE MCConfigPush ----------------------------
(* Model-checking instance of ConfigPush: two streams, two configurations  *)
(* besides the empty one, the scheduler and an administrator.              *)
EXTENDS ConfigPush, TLC

PushSymmetry == Permutations(Conn) \union Permutations(Bound)
=============================================================================
