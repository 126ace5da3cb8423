---------------------------- MODULE MidturnInbox ----------------------------
(***************************************************************************)
(* The mid-turn inbox of one chat session                                  *)
(* (server/chat/engine/midturn_inbox.py): text that reaches a chat turn    *)
(* while it is running.  Three producers push to it (the chat route with   *)
(* what the user typed, agents/wake.py with agent reports, tasks/wake.py   *)
(* with command results); the running turn drains it once per round and    *)
(* closes it at its last look.                                             *)
(*                                                                         *)
(* An entry is known by the item it carries.  The order of the entries is  *)
(* left out: every reader takes them all.  Each operation runs under the   *)
(* module's lock, so each is one step.                                     *)
(***************************************************************************)
CONSTANTS Users,    \* messages the user sends
          Reports,  \* reports of finished background agents
          Results   \* results of finished background commands

VARIABLES inbox,    \* _inboxes[session]: queued and not read yet
          closed    \* session \in _closed: the last look has been taken

inboxVars == <<inbox, closed>>

Item == Users \cup Reports \cup Results

ASSUME KindsApart ==
    /\ Users \cap Reports = {}
    /\ Users \cap Results = {}
    /\ Reports \cap Results = {}

InboxInit == inbox = {} /\ closed = FALSE

(* push: refused once the turn has taken its last look. *)
Push(S) == ~closed /\ inbox' = inbox \cup S /\ UNCHANGED closed

(* drain: the reader takes everything, the inbox stays as open as it was. *)
Drain == inbox' = {} /\ UNCHANGED closed

(* Slip: what is taken stays queued. *)
CloseOnly == closed' = TRUE /\ UNCHANGED inbox

(* close_and_take, and close_if_empty when it closes. *)
CloseAndTake == inbox' = {} /\ closed' = TRUE

(* reopen: a continuation took the session, or the slot was freed. *)
Reopen == closed' = FALSE /\ UNCHANGED inbox

(* clear: a fresh turn, a Stop or /reset drops what is queued and reopens. *)
Clear == inbox' = {} /\ closed' = FALSE
=============================================================================
