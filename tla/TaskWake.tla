------------------------------ MODULE TaskWake ------------------------------
(***************************************************************************)
(* How the result of a background command gets back to its chat            *)
(* (server/tasks/wake.py on the server, chatStream/backgroundWake.ts in    *)
(* the window).  report_finished runs on the command's waiter thread, so   *)
(* the event loop can take steps between its three parts: the row, the     *)
(* look at the slot, and the push.                                         *)
(***************************************************************************)
EXTENDS StreamSlot

VARIABLES rowed,    \* results whose row is out and whose thread has not looked yet
          sawLive,  \* results whose thread saw a live slot and has not pushed yet
          asked     \* the window's pending map: results waiting for a wake turn

taskVars == <<rowed, sawLive, asked>>

TaskInit == rowed = {} /\ sawLive = {} /\ asked = {}

(* report_finished, first part: the task_report row is stored and sent. *)
EmitRow(r) == rowed' = rowed \cup {r} /\ UNCHANGED <<sawLive, asked>>

(* request_wake reaching the window's requestWake: the ids are merged. *)
AskWindow(S) == asked' = asked \cup S

(* stream_slot.is_live, on the waiter thread. *)
LookAtSlot(r) ==
    /\ r \in rowed
    /\ rowed' = rowed \ {r}
    /\ IF IsLive
       THEN sawLive' = sawLive \cup {r} /\ UNCHANGED asked
       ELSE AskWindow({r}) /\ UNCHANGED sawLive

(* The push, on the waiter thread, under the inbox lock alone. *)
PushResult(r) ==
    /\ r \in sawLive
    /\ sawLive' = sawLive \ {r}
    /\ UNCHANGED rowed
    /\ IF closed
       THEN AskWindow({r}) /\ UNCHANGED inboxVars
       ELSE Push({r}) /\ UNCHANGED asked
=============================================================================
