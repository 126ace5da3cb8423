----------------------------- MODULE ChatTurns ------------------------------
(***************************************************************************)
(* The chat turns of one session, from POST /api/chat to the release of    *)
(* the busy slot, together with everything that can reach a running turn:  *)
(* messages sent mid-turn, agent reports, command results, wake turns,     *)
(* Stop, /reset and a client that goes silent.                             *)
(*                                                                         *)
(* The server runs on one event loop, so a step here is a stretch of code  *)
(* between two awaits; the waiter threads of background commands are the   *)
(* exception (TaskWake).  A turn identity is given out again once its turn *)
(* is over, so there is no bound on how many turns a behaviour has.        *)
(***************************************************************************)
EXTENDS AgentWake, TaskWake, Naturals, FiniteSets, Sequences

CONSTANTS MaxRounds,   \* the turn's round cap
          Parking,     \* a client may stop reading without a disconnect
          Leaves,      \* the runner's own poll may see the client gone
          Resets,      \* the user may call /reset
          TwoWindows   \* an approval card may be answered while another
                       \* window's request for the session is on its way

ASSUME RoundsPositive == MaxRounds \in Nat \ {0}
ASSUME Switches == {Parking, Leaves, Resets, TwoWindows} \subseteq BOOLEAN

VARIABLES pc,      \* where each turn is
          fresh,   \* the turn is a new one, not an approval continuation
          last,    \* turns whose round under way is their last
          round,   \* rounds begun
          parked,  \* the client has stopped taking chunks
          knows,   \* the reports in the turn's prompt: its history and its drains
          paused,  \* paused_sessions[session] is set: an approval card is up
          rows,    \* reports and results stored as rows and shown in the window
          delivered, \* reports whose task row is marked delivered
          net,     \* requests the window has sent and the route has not begun
          fate     \* history variable: what became of each item

turnVars == <<pc, fresh, last, round, parked, knows>>
storeVars == <<rows, delivered>>
vars == <<inboxVars, slotVars, wakeVars, taskVars, turnVars, paused, storeVars, net, fate>>

(***************************************************************************)
(* A turn is                                                               *)
(*   "setup"     claimed, its model not resolved yet                       *)
(*   "resolved"  past model resolution, preparing its first round          *)
(*   "top"       about to begin a round                                    *)
(*   "check"     drained, reporting what it read, polling the client       *)
(*   "model"     streaming a model round                                   *)
(*   "tools"     running the round's tool calls                            *)
(*   "answered"  the model gave an answer: gate and captions' wait         *)
(*   "labels"    ending without a last look: the captions' wait            *)
(*   "ending"    inbox closed, sending [DONE], the slot still held         *)
(*   "pausing"   stopped at an approval card, sending [DONE]               *)
(*   "quit"      returned on its disconnect poll, without a [DONE]         *)
(*   "stopped"   its stream was closed by the client and is unwinding      *)
(***************************************************************************)
Rounds == {"top", "check", "model", "tools", "answered", "labels"}
Working == {"setup", "resolved"} \cup Rounds
Finished == {"ending", "pausing", "quit"}
Phase == {"idle", "stopped"} \cup Working \cup Finished

Fates == {"new",        \* not produced yet
          "pending",    \* sent, landed or finished, and not settled
          "read",       \* in a turn's prompt
          "answered",   \* a wake turn ended with it: an answer or a notification
          "announced",  \* the user was told it was not answered
          "carried",    \* a fresh turn took it from a wake
          "cleared",    \* dropped by a Stop, a /reset or a fresh turn's claim
          "refused",    \* a mid-turn request answered 409: the composer keeps it
          "skipped"}    \* no wake for it: the switch is off, no open window,
                        \* or a wake request that found a turn running

Fated(S, f) == fate' = [i \in Item |-> IF i \in S THEN f ELSE fate[i]]

Kinds == {"send", "midturn", "continue", "wake"}

Request == [kind : Kinds, items : SUBSET Item,
            history : SUBSET Reports]  \* the reports among its messages

Starting == {q \in net : q.kind # "midturn"}

(* The window shows no reply in progress: its request was answered and its *)
(* stream's body has ended, or the user stopped it.                        *)
WindowIdle ==
    /\ Starting = {}
    /\ \A t \in Turn : pc[t] \in {"idle", "stopped"} \/ parked[t]

Init ==
    /\ InboxInit /\ SlotInit /\ WakeInit /\ TaskInit
    /\ pc = [t \in Turn |-> "idle"]
    /\ fresh = [t \in Turn |-> TRUE]
    /\ last = {}
    /\ round = [t \in Turn |-> 0]
    /\ parked = [t \in Turn |-> FALSE]
    /\ knows = [t \in Turn |-> {}]
    /\ paused = FALSE
    /\ rows = {} /\ delivered = {}
    /\ net = {}
    /\ fate = [i \in Item |-> "new"]

-----------------------------------------------------------------------------
(* The window (src/hooks/useChatStream.ts, chatStream/backgroundWake.ts).  *)

(* sendChatTurn with the user's words: the history is taken now. *)
Send(m) ==
    /\ fate[m] = "new"
    /\ TwoWindows \/ \A q \in net : q.kind # "continue"
    /\ net' = net \cup {[kind |-> "send", items |-> {m}, history |-> rows \cap Reports]}
    /\ Fated({m}, "pending")
    /\ UNCHANGED <<inboxVars, slotVars, wakeVars, taskVars, turnVars, paused, storeVars>>

(* sendMidTurn: a body that may only be queued into the running turn. *)
SendMidTurn(m) ==
    /\ fate[m] = "new"
    /\ ~WindowIdle
    /\ net' = net \cup {[kind |-> "midturn", items |-> {m}, history |-> {}]}
    /\ Fated({m}, "pending")
    /\ UNCHANGED <<inboxVars, slotVars, wakeVars, taskVars, turnVars, paused, storeVars>>

(* The approval card is answered: the turn it paused is continued. *)
AnswerCard ==
    /\ paused
    /\ TwoWindows \/ WindowIdle
    /\ net' = net \cup {[kind |-> "continue", items |-> {}, history |-> {}]}
    /\ UNCHANGED <<inboxVars, slotVars, wakeVars, taskVars, turnVars, paused, storeVars, fate>>

(* tryWake: the results that wait start one turn once the session is free. *)
TryWake ==
    /\ asked # {}
    /\ WindowIdle /\ ~paused
    /\ net' = net \cup {[kind |-> "wake", items |-> asked, history |-> rows \cap Reports]}
    /\ asked' = {}
    /\ UNCHANGED <<inboxVars, slotVars, wakeVars, rowed, sawLive, turnVars, paused, storeVars, fate>>

(* tryWake in a window whose runtime was evicted: the rows wait. *)
ForgetWake ==
    /\ asked # {}
    /\ asked' = {}
    /\ Fated(asked, "skipped")
    /\ UNCHANGED <<inboxVars, slotVars, wakeVars, rowed, sawLive, turnVars, paused, storeVars, net>>

-----------------------------------------------------------------------------
(* The chat route (server/chat/routes.py, chat_endpoint).                  *)

(* A turn claims the session.  What the claim drops from the inbox, and    *)
(* what the request brings, is settled here.                               *)
Begin(q, isNew) ==
    \E t \in Turn :
        /\ pc[t] = "idle"
        /\ Claim(t, isNew)
        /\ pc' = [pc EXCEPT ![t] = "setup"]
        /\ fresh' = [fresh EXCEPT ![t] = isNew]
        /\ last' = last \ {t}
        /\ round' = [round EXCEPT ![t] = 0]
        /\ parked' = [parked EXCEPT ![t] = FALSE]
        /\ knows' = [knows EXCEPT ![t] = q.history]
        /\ fate' = [i \in Item |-> IF i \in q.items THEN "read"
                                   ELSE IF isNew /\ i \in inbox THEN "cleared" ELSE fate[i]]
        /\ UNCHANGED <<wakeVars, taskVars, paused, storeVars>>

(* A new turn's text goes into the live turn unless that turn has taken    *)
(* its last look; then it starts the next turn.                            *)
ServeSend(q) ==
    /\ q.kind = "send"
    /\ net' = net \ {q}
    /\ IF Accepts
       THEN Push(q.items) /\ UNCHANGED <<slotVars, wakeVars, taskVars, turnVars, paused, storeVars, fate>>
       ELSE Begin(q, TRUE)

ServeMidTurn(q) ==
    /\ q.kind = "midturn"
    /\ net' = net \ {q}
    /\ IF Accepts
       THEN Push(q.items) /\ UNCHANGED fate
       ELSE Fated(q.items, "refused") /\ UNCHANGED inboxVars
    /\ UNCHANGED <<slotVars, wakeVars, taskVars, turnVars, paused, storeVars>>

(* Slip: a wake request starts its turn beside a running one. *)
ServeWakeAnyway(q) ==
    q.kind = "wake" /\ net' = net \ {q} /\ Begin(q, TRUE)

(* A wake request is never folded into a running turn: 409. *)
ServeWake(q) ==
    /\ q.kind = "wake"
    /\ net' = net \ {q}
    /\ IF IsLive
       THEN /\ Fated(q.items, "skipped")
            /\ UNCHANGED <<inboxVars, slotVars, wakeVars, taskVars, turnVars, paused, storeVars>>
       ELSE Begin(q, TRUE)

(* A continuation claims the slot whatever it finds there. *)
ServeContinue(q) ==
    /\ q.kind = "continue"
    /\ net' = net \ {q}
    /\ Begin(q, FALSE)

-----------------------------------------------------------------------------
(* A turn's setup (routes.py, _build_turn and staged_stream).              *)

Runs(t, phases) == pc[t] \in phases /\ ~parked[t]

Goto(t, phase) == pc' = [pc EXCEPT ![t] = phase]

KeepTurn == UNCHANGED <<fresh, last, round, parked, knows>>

(* The turn is over or stopped: nothing reads its locals again. *)
Over(t, phase) ==
    /\ Goto(t, phase)
    /\ fresh' = [fresh EXCEPT ![t] = TRUE]
    /\ last' = last \ {t}
    /\ round' = [round EXCEPT ![t] = 0]
    /\ parked' = [parked EXCEPT ![t] = FALSE]
    /\ knows' = [knows EXCEPT ![t] = {}]

(* The model is resolved: a wake turn in the session gives way. *)
Resolve(t) ==
    /\ Runs(t, {"setup"})
    /\ Goto(t, "resolved") /\ KeepTurn
    /\ YieldToChatTurn(fresh[t])
    /\ IF fresh[t] THEN Fated(Given, "carried") ELSE UNCHANGED fate
    /\ UNCHANGED <<slotVars, taskVars, paused, storeVars, net>>

(* inject_completions: a fresh turn's prompt gets the agent runs that have *)
(* ended and were in no turn's prompt yet, read from the task registry,    *)
(* whatever the turn's history holds.                                      *)
Completions == (rows \cap Reports) \ delivered

(* The rest of the setup.  A continuation takes the paused turn's state. *)
BeginRounds(t) ==
    /\ Runs(t, {"resolved"})
    /\ Goto(t, "top")
    /\ IF fresh[t]
       THEN /\ knows' = [knows EXCEPT ![t] = @ \cup Completions]
            /\ delivered' = delivered \cup Completions
            /\ UNCHANGED paused
       ELSE paused' = FALSE /\ UNCHANGED <<knows, delivered>>
    /\ UNCHANGED <<fresh, last, round, parked, inboxVars, slotVars, wakeVars, taskVars,
                   rows, net, fate>>

(* Slip: every entry is handed to a wake turn. *)
HandEverythingOn ==
    /\ CloseAndTake
    /\ IF inbox # {} THEN WakeOrQueue(inbox) ELSE UNCHANGED wakeVars
    /\ UNCHANGED <<taskVars, fate>>

(* close_and_announce: the inbox closes for good, and what it accepted and *)
(* nobody read is handed on, in one step.                                  *)
CloseAndAnnounce ==
    /\ CloseAndTake
    /\ IF WakeOn /\ inbox \cap Reports # {}
       THEN WakeOrQueue(inbox \cap Reports)
       ELSE UNCHANGED wakeVars
    /\ AskWindow(inbox \cap Results) /\ UNCHANGED <<rowed, sawLive>>
    /\ fate' = [i \in Item |->
                  IF i \in inbox \cap Users THEN "announced"
                  ELSE IF ~WakeOn /\ i \in inbox \cap Reports THEN "skipped" ELSE fate[i]]

(* A refusal, a setup that raised or a model that failed to load: the turn *)
(* ends before its round loop with the same last look.                     *)
FailSetup(t) ==
    /\ \/ Runs(t, {"setup", "resolved"})
       \/ Runs(t, {"top"}) /\ round[t] = 0
    /\ CloseAndAnnounce
    /\ Goto(t, "ending") /\ KeepTurn
    /\ UNCHANGED <<slotVars, paused, storeVars, net>>

-----------------------------------------------------------------------------
(* The round loop (server/chat/engine/runner.py, run_turn and _run_rounds).*)

(* A step of the round loop that moves t and touches nothing else. *)
Move(t, from, to) ==
    /\ Runs(t, from)
    /\ Goto(t, to) /\ KeepTurn
    /\ Beat(t)
    /\ UNCHANGED <<inboxVars, wakeVars, taskVars, paused, storeVars, net, fate>>

(* The head of a round: everything queued is folded into the prompt.  A    *)
(* deadline or the cost budget can make any round the last one.            *)
BeginRound(t) ==
    /\ Runs(t, {"top"})
    /\ round[t] < MaxRounds
    /\ round' = [round EXCEPT ![t] = @ + 1]
    /\ \E forced \in BOOLEAN :
          last' = IF forced \/ round[t] + 1 = MaxRounds THEN last \cup {t} ELSE last \ {t}
    /\ Drain
    /\ knows' = [knows EXCEPT ![t] = @ \cup (inbox \cap Reports)]
    /\ Fated(inbox \cup {i \in knows[t] : fate[i] = "carried"}, "read")
    /\ Goto(t, "check") /\ Beat(t)
    /\ UNCHANGED <<wakeVars, taskVars, fresh, parked, paused, storeVars, net>>

CapReached(t) == round[t] = MaxRounds /\ Move(t, {"top"}, "labels")

StartModel(t) == Move(t, {"check"}, "model")

(* is_disconnected: the loop returns, with no [DONE]. *)
LeaveSeen(t) == Leaves /\ Move(t, {"check"}, "quit")

(* A retry, a compaction, an output limit, a paused provider stream or a   *)
(* round dropped for a message the user sent: the next round begins.       *)
NextRound(t) == Move(t, {"model"}, "top")

CallTools(t) == Move(t, {"model"}, "tools")

ToolsDone(t) == Move(t, {"tools"}, "top")

(* A call waits for approval: the conversation is stashed. *)
Pause(t) ==
    /\ Runs(t, {"tools"})
    /\ Goto(t, "pausing") /\ KeepTurn
    /\ paused' = TRUE
    /\ Beat(t)
    /\ UNCHANGED <<inboxVars, wakeVars, taskVars, storeVars, net, fate>>

Answer(t) == Move(t, {"model"}, "answered")

(* The completion gate, or a claim sent back, asks for another round. *)
GateBlocks(t) == t \notin last /\ Move(t, {"answered"}, "top")

(* A failed round, the cost cap, a round without a result. *)
EndWithoutAnswer(t) == Move(t, {"check", "model", "tools"}, "labels")

(* close_if_empty refuses while something is queued and a round is left. *)
MustReadOn(t) == t \notin last /\ inbox # {}

(* The last look after an answer.  There is no await between it and the    *)
(* close that hands the rest on.                                           *)
LastLook(t) ==
    /\ Runs(t, {"answered"})
    /\ IF MustReadOn(t)
       THEN Goto(t, "top") /\ UNCHANGED <<inboxVars, wakeVars, taskVars, fate>>
       ELSE Goto(t, "ending") /\ CloseAndAnnounce
    /\ KeepTurn /\ Beat(t)
    /\ UNCHANGED <<paused, storeVars, net>>

(* Every other ending of the round loop. *)
CloseTurn(t) ==
    /\ Runs(t, {"labels"})
    /\ CloseAndAnnounce
    /\ Goto(t, "ending") /\ KeepTurn /\ Beat(t)
    /\ UNCHANGED <<paused, storeVars, net>>

-----------------------------------------------------------------------------
(* The end of staged_stream, and what the client and the user can do.      *)

(* The stream ran to its end. *)
FinishTurn(t) ==
    /\ Runs(t, Finished)
    /\ Release(t, FALSE)
    /\ Over(t, "idle")
    /\ UNCHANGED <<wakeVars, taskVars, paused, storeVars, net, fate>>

(* Stop, a closed tab: the stream is being closed.  Its tool batch and its *)
(* provider stream unwind before the slot opens.                           *)
Stop(t) ==
    /\ pc[t] \in Working \cup Finished
    /\ Over(t, "stopped")
    /\ UNCHANGED <<inboxVars, slotVars, wakeVars, taskVars, paused, storeVars, net, fate>>

Unwind(t) ==
    /\ Runs(t, {"stopped"})
    /\ Release(t, TRUE)
    /\ IF Owns(t) THEN Fated(inbox, "cleared") ELSE UNCHANGED fate
    /\ Over(t, "idle")
    /\ UNCHANGED <<wakeVars, taskVars, paused, storeVars, net>>

(* The client stops taking chunks; its heartbeat ages; it comes back. *)
Park(t) ==
    /\ Parking /\ Runs(t, Working \cup Finished)
    /\ parked' = [parked EXCEPT ![t] = TRUE]
    /\ UNCHANGED <<inboxVars, slotVars, wakeVars, taskVars, pc, fresh, last, round, knows,
                   paused, storeVars, net, fate>>

GoStale ==
    /\ slot # NoTurn /\ parked[slot] /\ ~stale
    /\ stale' = TRUE
    /\ UNCHANGED <<inboxVars, slot, wakeVars, taskVars, turnVars, paused, storeVars, net, fate>>

Unpark(t) ==
    /\ parked[t]
    /\ parked' = [parked EXCEPT ![t] = FALSE]
    /\ UNCHANGED <<inboxVars, slotVars, wakeVars, taskVars, pc, fresh, last, round, knows,
                   paused, storeVars, net, fate>>

(* reset_chat_session: the slot, the inbox and the approval state go. *)
Reset ==
    /\ Resets
    /\ Drop /\ Clear
    /\ paused' = FALSE
    /\ Fated(inbox, "cleared")
    /\ UNCHANGED <<wakeVars, taskVars, turnVars, storeVars, net>>

-----------------------------------------------------------------------------
(* Agents, wakes and background commands.                                  *)

(* emit_agent_report: the row first, then maybe_wake, without an await. *)
LandReport(r) ==
    /\ fate[r] = "new"
    /\ rows' = rows \cup {r}
    /\ IF WakeOn
       THEN MaybeWake({r}) /\ Fated({r}, "pending")
       ELSE UNCHANGED <<inboxVars, wakeVars>> /\ Fated({r}, "skipped")
    /\ UNCHANGED <<slotVars, taskVars, turnVars, paused, delivered, net>>

(* A wake turn ends: with an answer row, or with a notification that says  *)
(* why there is none.                                                      *)
EndWake(w) ==
    /\ wpc[w] = "running"
    /\ WakeFinally(w)
    /\ fate' = [i \in Item |-> IF i \in answering THEN "answered"
                               ELSE IF ~WakeOn /\ i \in late THEN "skipped" ELSE fate[i]]
    /\ UNCHANGED <<slotVars, taskVars, turnVars, paused, storeVars, net>>

(* A cancelled wake unwinds, after whoever took its place. *)
UnwindWake(w) ==
    /\ wpc[w] = "cancelled"
    /\ WakeFinally(w)
    /\ UNCHANGED <<slotVars, taskVars, turnVars, paused, storeVars, net, fate>>

FinishCommand(r) ==
    /\ fate[r] = "new"
    /\ EmitRow(r)
    /\ rows' = rows \cup {r}
    /\ Fated({r}, "pending")
    /\ UNCHANGED <<inboxVars, slotVars, wakeVars, turnVars, paused, delivered, net>>

ReportResult(r) ==
    /\ LookAtSlot(r)
    /\ UNCHANGED <<inboxVars, slotVars, wakeVars, turnVars, paused, storeVars, net, fate>>

DeliverResult(r) ==
    /\ PushResult(r)
    /\ UNCHANGED <<slotVars, wakeVars, turnVars, paused, storeVars, net, fate>>

-----------------------------------------------------------------------------
chat_endpoint(q) == ServeSend(q) \/ ServeMidTurn(q) \/ ServeWake(q) \/ ServeContinue(q)

Serve(kind) == \E q \in net : q.kind = kind /\ chat_endpoint(q)

(* The steps the server takes for a turn on its own. *)
TurnStep(t) ==
    \/ Resolve(t) \/ BeginRounds(t) \/ FailSetup(t)
    \/ BeginRound(t) \/ CapReached(t) \/ StartModel(t) \/ LeaveSeen(t) \/ NextRound(t)
    \/ CallTools(t) \/ ToolsDone(t) \/ Pause(t) \/ Answer(t) \/ GateBlocks(t)
    \/ EndWithoutAnswer(t) \/ LastLook(t) \/ CloseTurn(t)
    \/ FinishTurn(t) \/ Unwind(t)

Thread(r) == ReportResult(r) \/ DeliverResult(r)

WakeStep(w) == EndWake(w) \/ UnwindWake(w)

Next ==
    \/ \E m \in Users : Send(m) \/ SendMidTurn(m)
    \/ AnswerCard \/ TryWake \/ ForgetWake
    \/ \E kind \in Kinds : Serve(kind)
    \/ \E t \in Turn : TurnStep(t) \/ Stop(t) \/ Park(t) \/ Unpark(t)
    \/ GoStale \/ Reset
    \/ \E r \in Reports : LandReport(r)
    \/ \E w \in Wake : WakeStep(w)
    \/ \E r \in Results : FinishCommand(r) \/ Thread(r)

(* The event loop runs every task that is ready and every waiter thread    *)
(* runs on; the window starts a wake that is due.  Nothing obliges the     *)
(* user to write, stop, reset or answer a card, or a client to come back.  *)
Fairness ==
    /\ \A kind \in Kinds : WF_vars(Serve(kind))
    /\ WF_vars(TryWake)
    /\ \A t \in Turn : WF_vars(TurnStep(t))
    /\ \A w \in Wake : WF_vars(WakeStep(w))
    /\ \A r \in Results : WF_vars(Thread(r))

Spec == Init /\ [][Next]_vars /\ Fairness

-----------------------------------------------------------------------------
(* Properties.                                                             *)

(* Every variable holds a value of its kind. *)
TypeOK ==
    /\ inbox \subseteq Item /\ closed \in BOOLEAN
    /\ slot \in Turn \cup {NoTurn} /\ stale \in BOOLEAN
    /\ wpc \in [Wake -> {"none", "running", "cancelled"}]
    /\ wtask \in Wake \cup {NoWake}
    /\ answering \subseteq Reports /\ late \subseteq Reports
    /\ rowed \subseteq Results /\ sawLive \subseteq Results /\ asked \subseteq Results
    /\ pc \in [Turn -> Phase]
    /\ fresh \in [Turn -> BOOLEAN] /\ last \subseteq Turn
    /\ round \in [Turn -> 0..MaxRounds]
    /\ parked \in [Turn -> BOOLEAN]
    /\ knows \in [Turn -> SUBSET Reports]
    /\ paused \in BOOLEAN
    /\ rows \subseteq Reports \cup Results /\ delivered \subseteq Reports
    /\ net \subseteq Request
    /\ fate \in [Item -> Fates]

(* Everything the code holds for later, by the structure that holds it. *)
Requested == UNION {q.items : q \in net}
Places == <<inbox, answering, late, rowed, sawLive, asked, Requested>>
Waiting == UNION {Places[k] : k \in DOMAIN Places}
Settled == {i \in Item : fate[i] \notin {"new", "pending"}}

(* What is sent to the session and not dealt with yet is in exactly one of *)
(* the inbox, the wake's reports, its late reports, a waiter thread, the   *)
(* window's map and a request: never in two, so it is not answered twice,  *)
(* and never in none, so it is not lost.                                   *)
OnePlace ==
    \A i \in Item :
        fate[i] = "pending" <=> Cardinality({k \in DOMAIN Places : i \in Places[k]}) = 1

(* The structures together deliver everything once: what is accepted waits *)
(* in one of them until it is settled and does not come back after.        *)
Promise == INSTANCE Delivery WITH waiting <- Waiting, settled <- Settled
DeliversOnce == Promise!Spec

(* The session has one turn at work: the guard at the top of the route     *)
(* ("same-session double-stream guard").                                   *)
SoleTurn == \A t, u \in Turn : pc[t] \in Working /\ pc[u] \in Working => t = u

(* A wake turn never runs beside a chat turn that is past the resolution   *)
(* of its model (agents/wake.py, its module comment).                      *)
WakeAlone == wtask # NoWake => \A t \in Turn : pc[t] \notin {"resolved"} \cup Rounds

(* Reports wait for a wake only while there is a wake to wait for: its     *)
(* finally block, or the chat turn that cancels it, takes them on.         *)
LateBehindWake == wtask = NoWake => answering = {} /\ late = {}

(* The slot is never held for a turn that is over: it would swallow every  *)
(* later message of the session (stream_slot.py, its module comment).      *)
SlotHeldByTurn == slot # NoTurn => pc[slot] # "idle"

(* While the session is busy its inbox is closed only because the turn has *)
(* taken its last look: until then every push is accepted.                 *)
ClosedByEnding == closed /\ slot # NoTurn => pc[slot] \in {"ending", "stopped"}

(* What is queued has a turn that can read it: the one that holds the slot *)
(* or the one that waits at an approval card.                              *)
InboxHasReader == inbox # {} => slot # NoTurn \/ paused

(* The slot opens only when its owner's stream is over, or by /reset: a    *)
(* turn whose slot was taken over never opens it under the new owner.      *)
OwnerFrees == [][\A t \in Turn : slot = t /\ slot' = NoTurn => pc'[t] = "idle" \/ Reset]_vars

(* The inbox has one consumer, the turn that owns the slot                 *)
(* (midturn_inbox.py, its module comment).                                 *)
OwnerDrains == [][\A t \in Turn : pc[t] = "top" /\ pc'[t] = "check" => slot = t]_vars

(* Nothing is handled twice: what was read, answered, announced or dropped  *)
(* never waits again.                                                       *)
NeverAgain == [][Settled \subseteq Settled' /\ Settled \cap Waiting' = {}]_vars

(* Everything sent to the session is settled some day, unless the approval *)
(* card is up, and nobody has to answer a card.                            *)
Held(i) == paused /\ i \in inbox \cup asked
Settles == \A i \in Item : fate[i] = "pending" ~> (fate[i] # "pending" \/ Held(i))

(* Every turn gives the slot up. *)
SlotFreed == \A t \in Turn : slot = t ~> slot # t
=============================================================================
