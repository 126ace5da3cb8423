--------------------------- MODULE MCLocalServing ---------------------------
EXTENDS LocalServing, TLC

CONSTANTS llama, mlx, small, large

(* What is asked for: two sizes of a llama model, by turns and loads, an   *)
(* agent turn and one-shot calls that leave the size out, and another      *)
(* model on the other engine.                                              *)
Asked ==
    {[kind |-> "turn", key |-> llama, size |-> small],
     [kind |-> "turn", key |-> llama, size |-> NoSize],
     [kind |-> "turn", key |-> mlx, size |-> NoSize],
     [kind |-> "load", key |-> llama, size |-> large],
     [kind |-> "judge", key |-> llama, size |-> NoSize],
     [kind |-> "plain", key |-> llama, size |-> NoSize]}

(* Calls are all alike. *)
Identities == Permutations(Call)
=============================================================================
