---------------------------- MODULE MCChatTurns -----------------------------
EXTENDS ChatTurns, TLC

(* Messages, turn and wake identities are all alike. *)
Identities == Permutations(Turn) \cup Permutations(Wake) \cup Permutations(Users)
=============================================================================
