----------------------------- MODULE AgentWake ------------------------------
(***************************************************************************)
(* The wake turns that answer agent reports in one session                 *)
(* (server/agents/wake.py).  All of it runs on the server's event loop: a  *)
(* function without an await is one step, and a wake turn is one model     *)
(* call between its start and its finally block.                           *)
(***************************************************************************)
EXTENDS StreamSlot

CONSTANTS Wake,     \* identities for the wake tasks alive at one time
          NoWake,
          WakeOn    \* the wake_parent_on_reports switch

VARIABLES wpc,        \* what each wake task does: "none", "running", "cancelled"
          wtask,      \* _tasks[session], NoWake when there is none
          answering,  \* _answering[session]: the reports it answers
          late        \* _late[session]: reports that landed during it

wakeVars == <<wpc, wtask, answering, late>>

ASSUME NoWakeIsNoWake == NoWake \notin Wake
ASSUME WakeOnIsSwitch == WakeOn \in BOOLEAN

WakeInit ==
    /\ wpc = [w \in Wake |-> "none"]
    /\ wtask = NoWake
    /\ answering = {}
    /\ late = {}

StartWake(P) ==
    \E w \in Wake :
        /\ wpc[w] = "none"
        /\ wpc' = [wpc EXCEPT ![w] = "running"]
        /\ wtask' = w
        /\ answering' = P
        /\ UNCHANGED late

(* The end of maybe_wake, when no chat turn takes the reports: they wait   *)
(* behind the wake that is running, or get one of their own.               *)
WakeOrQueue(P) ==
    IF wtask # NoWake
    THEN late' = late \cup P /\ UNCHANGED <<wpc, wtask, answering>>
    ELSE StartWake(P)

(* Slip: the busy slot is not looked at. *)
MaybeWakeBesideTurn(P) == WakeOrQueue(P) /\ UNCHANGED inboxVars

(* maybe_wake, with the switch on. *)
MaybeWake(P) ==
    IF Accepts
    THEN Push(P) /\ UNCHANGED wakeVars
    ELSE WakeOrQueue(P) /\ UNCHANGED inboxVars

(* yield_to_chat_turn: the wake in progress is cancelled and forgotten.    *)
(* The reports go to the inbox of a continuation, framed as agent output.  *)
(* A fresh turn is taken to have them in the history it came with.         *)
Given == answering \cup late

CancelWake ==
    /\ wpc' = IF wtask = NoWake THEN wpc ELSE [wpc EXCEPT ![wtask] = "cancelled"]
    /\ wtask' = NoWake

(* Slip: a continuation is not handed the reports. *)
YieldToAnyTurn(fresh) == CancelWake /\ answering' = {} /\ late' = {} /\ UNCHANGED inboxVars

(* Slip: the reports of the cancelled wake stay behind. *)
YieldKeepsAnswering(fresh) == CancelWake /\ late' = {} /\ UNCHANGED <<answering, inboxVars>>

YieldToChatTurn(fresh) ==
    /\ CancelWake
    /\ answering' = {}
    /\ late' = {}
    /\ IF fresh \/ closed THEN UNCHANGED inboxVars ELSE Push(Given)

(* _tasks[session] is this very task: a wake that a chat turn superseded   *)
(* finds another one there, or none.                                       *)
StillCurrent(w) == wtask = w

(* Slip: the reports that landed meanwhile are dropped. *)
WakeForgetsLate(w) ==
    IF ~StillCurrent(w)
    THEN wpc' = [wpc EXCEPT ![w] = "none"] /\ UNCHANGED <<wtask, answering, late, inboxVars>>
    ELSE /\ wpc' = [wpc EXCEPT ![w] = "none"] /\ wtask' = NoWake
         /\ answering' = {} /\ late' = {} /\ UNCHANGED inboxVars

(* The finally block of _wake.  Reports that landed during the wake get    *)
(* their own in the same step, or go into a chat turn that has started.    *)
WakeFinally(w) ==
    IF ~StillCurrent(w)
    THEN wpc' = [wpc EXCEPT ![w] = "none"] /\ UNCHANGED <<wtask, answering, late, inboxVars>>
    ELSE /\ late' = {}
         /\ IF late = {} \/ ~WakeOn \/ Accepts
            THEN /\ wpc' = [wpc EXCEPT ![w] = "none"]
                 /\ wtask' = NoWake
                 /\ answering' = {}
                 /\ IF WakeOn /\ Accepts THEN Push(late) ELSE UNCHANGED inboxVars
            ELSE \* the follow-up wake, under the identity just given up
                 /\ wpc' = [wpc EXCEPT ![w] = "running"]
                 /\ wtask' = w
                 /\ answering' = late
                 /\ UNCHANGED inboxVars
=============================================================================
