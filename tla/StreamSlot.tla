----------------------------- MODULE StreamSlot -----------------------------
(***************************************************************************)
(* The busy slot of one chat session (server/chat/stream_slot.py).  A turn *)
(* claims it before any of its setup runs.  The start time stored in       *)
(* active_streams is the owner's token; here the token is the turn itself. *)
(* A monotonic clock never gives two live turns one token.                 *)
(*                                                                         *)
(* The heartbeat's age is abstracted to whether it has passed              *)
(* STALE_AFTER_S.                                                          *)
(***************************************************************************)
EXTENDS MidturnInbox

CONSTANTS Turn,     \* the chat turns that can exist at one time
          NoTurn

VARIABLES slot,     \* active_streams[session]: the owner, NoTurn when free
          stale     \* the owner's heartbeat is older than STALE_AFTER_S

slotVars == <<slot, stale>>

ASSUME NoTurnIsNoTurn == NoTurn \notin Turn

SlotInit == slot = NoTurn /\ stale = FALSE

(* is_live: held, with progress inside the stale window. *)
IsLive == slot # NoTurn /\ ~stale

(* What both wake modules ask of a session: is_live and an accepted push.  *)
Accepts == IsLive /\ ~closed

(* Slip: the new turn inherits the last look of the one before. *)
ClaimKeepsClosed(t, fresh) ==
    slot' = t /\ stale' = FALSE /\ Drain

(* Slip: what was queued for the turn before stays queued. *)
ClaimKeepsQueue(t, fresh) ==
    slot' = t /\ stale' = FALSE /\ Reopen

(* claim: whoever held the slot, t holds it now. *)
Claim(t, fresh) ==
    /\ slot' = t
    /\ stale' = FALSE
    /\ IF fresh THEN Clear ELSE Reopen

(* beat: refreshes the heartbeat only for the turn that owns the slot. *)
Beat(t) ==
    /\ stale' = IF slot = t THEN FALSE ELSE stale
    /\ UNCHANGED slot

(* drop: /reset frees the slot whoever holds it. *)
Drop == slot' = NoTurn /\ stale' = FALSE

(* Slip: the token is not compared. *)
AnyoneOwns(t) == TRUE

(* Only the owner's token frees the slot. *)
Owns(t) == slot = t

(* Slip: a turn that is closed early keeps the slot. *)
ReleaseFinished(t, stopped) ==
    IF Owns(t) /\ ~stopped THEN Drop /\ Reopen ELSE UNCHANGED <<slotVars, inboxVars>>

(* Slip: a turn that is closed early leaves its queue. *)
ReleaseKeepsQueue(t, stopped) ==
    IF Owns(t) THEN Drop /\ Reopen ELSE UNCHANGED <<slotVars, inboxVars>>

(* Slip: only a turn that is closed early gives the slot up. *)
ReleaseStopped(t, stopped) ==
    IF Owns(t) /\ stopped THEN Drop /\ Clear ELSE UNCHANGED <<slotVars, inboxVars>>

(* release: a turn whose slot was taken over leaves it alone. *)
Release(t, stopped) ==
    IF Owns(t)
    THEN Drop /\ IF stopped THEN Clear ELSE Reopen
    ELSE UNCHANGED <<slotVars, inboxVars>>
=============================================================================
