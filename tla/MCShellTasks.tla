---------------------------- MODULE MCShellTasks ----------------------------
EXTENDS ShellTasks, TLC

(* The commands are alike, Mine being all of them. *)
Commands == Permutations(Cmd)
=============================================================================
