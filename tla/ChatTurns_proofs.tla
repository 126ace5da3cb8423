-------------------------- MODULE ChatTurns_proofs --------------------------
(***************************************************************************)
(* Proofs about ChatTurns, for any number of messages, reports, results,   *)
(* turns and rounds, whatever the clients do.                              *)
(***************************************************************************)
EXTENDS ChatTurns, FiniteSetTheorems, TLAPS

(* A turn that claims the session. *)
LEMMA BeginTyped ==
    ASSUME TypeOK, NEW q \in net, NEW isNew \in BOOLEAN, Begin(q, isNew), net' = net \ {q}
    PROVE  TypeOK'
<1> USE DEF TypeOK
<1>1. PICK t \in Turn :
        /\ Claim(t, isNew)
        /\ pc' = [pc EXCEPT ![t] = "setup"]
        /\ fresh' = [fresh EXCEPT ![t] = isNew]
        /\ last' = last \ {t}
        /\ round' = [round EXCEPT ![t] = 0]
        /\ parked' = [parked EXCEPT ![t] = FALSE]
        /\ knows' = [knows EXCEPT ![t] = q.history]
        /\ fate' = [i \in Item |-> IF i \in q.items THEN "read"
                                   ELSE IF isNew /\ i \in inbox THEN "cleared" ELSE fate[i]]
        /\ UNCHANGED <<wakeVars, taskVars, paused, storeVars>>
  BY DEF Begin
<1>2. inbox' \subseteq Item /\ closed' \in BOOLEAN
  BY <1>1 DEF Claim, Clear, Reopen
<1>3. slot' \in Turn \cup {NoTurn} /\ stale' \in BOOLEAN
  BY <1>1 DEF Claim
<1>4. pc' \in [Turn -> Phase] /\ last' \subseteq Turn
  BY <1>1 DEF Phase, Working
<1>5. round' \in [Turn -> 0..MaxRounds]
  BY <1>1, RoundsPositive
<1>6. fresh' \in [Turn -> BOOLEAN] /\ parked' \in [Turn -> BOOLEAN]
  BY <1>1
<1>7. knows' \in [Turn -> SUBSET Reports]
  BY <1>1 DEF Request
<1>8. fate' \in [Item -> Fates]
  BY <1>1 DEF Fates
<1> QED
  BY <1>1, <1>2, <1>3, <1>4, <1>5, <1>6, <1>7, <1>8 DEF wakeVars, taskVars, storeVars

(* A turn that is over or stopped. *)
LEMMA OverTyped ==
    ASSUME TypeOK, NEW t \in Turn, NEW phase \in {"idle", "stopped"}, Over(t, phase)
    PROVE  /\ pc' \in [Turn -> Phase] /\ fresh' \in [Turn -> BOOLEAN] /\ last' \subseteq Turn
           /\ round' \in [Turn -> 0..MaxRounds]
           /\ parked' \in [Turn -> BOOLEAN]
           /\ knows' \in [Turn -> SUBSET Reports]
<1> USE DEF TypeOK, Over, Goto
<1>1. pc' \in [Turn -> Phase]
  BY DEF Phase
<1>2. round' \in [Turn -> 0..MaxRounds]
  BY RoundsPositive
<1>3. fresh' \in [Turn -> BOOLEAN] /\ parked' \in [Turn -> BOOLEAN]
  OBVIOUS
<1>4. knows' \in [Turn -> SUBSET Reports]
  OBVIOUS
<1> QED
  BY <1>1, <1>2, <1>3, <1>4

(* Every variable of the chat-turn model keeps its type. *)
LEMMA TypeKept == TypeOK /\ [Next]_vars => TypeOK'
<1> SUFFICES ASSUME TypeOK, [Next]_vars PROVE TypeOK'
  OBVIOUS
<1> USE DEF TypeOK, Item, Phase, Working, Rounds, Finished, Fates, Kinds, Request, inboxVars,
            slotVars, wakeVars, taskVars, turnVars, storeVars, Fated, Goto, Over, KeepTurn, Move,
            Runs, Push, Drain, CloseAndTake, Reopen, Clear, Claim, Beat, Drop, Release, Begin,
            StartWake, WakeOrQueue, MaybeWake, Given, CancelWake, YieldToChatTurn, WakeFinally,
            EmitRow, AskWindow, LookAtSlot, PushResult, CloseAndAnnounce, Completions
<1>1. CASE UNCHANGED vars
  BY <1>1 DEF vars
<1>2. ASSUME NEW m \in Users, Send(m) \/ SendMidTurn(m) PROVE TypeOK'
  <2>1. CASE Send(m)
    BY <2>1 DEF Send
  <2>2. CASE SendMidTurn(m)
    BY <2>2 DEF SendMidTurn
  <2> QED
    BY <1>2, <2>1, <2>2
<1>3. CASE AnswerCard
  BY <1>3 DEF AnswerCard
<1>4. CASE TryWake
  BY <1>4 DEF TryWake
<1>5. CASE ForgetWake
  BY <1>5 DEF ForgetWake
<1>6. CASE GoStale
  BY <1>6 DEF GoStale
<1>7. CASE Reset
  BY <1>7 DEF Reset
<1>8. ASSUME NEW q \in net, chat_endpoint(q) PROVE TypeOK'
  <2>1. CASE ServeSend(q)
    <3>1. CASE Accepts
      BY <2>1, <3>1 DEF ServeSend
    <3>2. CASE ~Accepts
      BY ONLY BeginTyped, TypeOK, <2>1, <3>2 DEF ServeSend
    <3> QED
      BY <3>1, <3>2
  <2>2. CASE ServeMidTurn(q)
    BY <2>2 DEF ServeMidTurn
  <2>3. CASE ServeWake(q)
    <3>1. CASE IsLive
      BY <2>3, <3>1 DEF ServeWake
    <3>2. CASE ~IsLive
      BY ONLY BeginTyped, TypeOK, <2>3, <3>2 DEF ServeWake
    <3> QED
      BY <3>1, <3>2
  <2>4. CASE ServeContinue(q)
    BY ONLY BeginTyped, TypeOK, <2>4 DEF ServeContinue
  <2> QED
    BY <1>8, <2>1, <2>2, <2>3, <2>4 DEF chat_endpoint
<1>9. ASSUME NEW t \in Turn, TurnStep(t) PROVE TypeOK'
  <2>1. CASE Resolve(t)
    BY <2>1 DEF Resolve
  <2>2. CASE BeginRounds(t)
    <3>1. CASE fresh[t]
      <4>1. Completions \subseteq Reports
        OBVIOUS
      <4>2. knows' \in [Turn -> SUBSET Reports]
        BY ONLY <2>2, <3>1, <4>1, TypeOK DEF BeginRounds, TypeOK
      <4> QED
        BY <2>2, <3>1, <4>2 DEF BeginRounds
    <3>2. CASE ~fresh[t]
      BY <2>2, <3>2 DEF BeginRounds
    <3> QED
      BY <3>1, <3>2
  <2>3. CASE FailSetup(t)
    BY <2>3 DEF FailSetup
  <2>4. CASE BeginRound(t)
    <3>1. round' \in [Turn -> 0..MaxRounds]
      BY <2>4, RoundsPositive DEF BeginRound
    <3>2. last' \subseteq Turn /\ stale' \in BOOLEAN /\ pc' \in [Turn -> Phase]
      BY <2>4 DEF BeginRound
    <3>3. knows' \in [Turn -> SUBSET Reports] /\ fate' \in [Item -> Fates]
      BY <2>4 DEF BeginRound
    <3> QED
      BY <2>4, <3>1, <3>2, <3>3 DEF BeginRound
  <2>5. CASE CapReached(t)
    BY <2>5 DEF CapReached
  <2>6. CASE StartModel(t)
    BY <2>6 DEF StartModel
  <2>7. CASE LeaveSeen(t)
    BY <2>7 DEF LeaveSeen
  <2>8. CASE NextRound(t)
    BY <2>8 DEF NextRound
  <2>9. CASE CallTools(t)
    BY <2>9 DEF CallTools
  <2>10. CASE ToolsDone(t)
    BY <2>10 DEF ToolsDone
  <2>11. CASE Pause(t)
    BY <2>11 DEF Pause
  <2>12. CASE Answer(t)
    BY <2>12 DEF Answer
  <2>13. CASE GateBlocks(t)
    BY <2>13 DEF GateBlocks
  <2>14. CASE EndWithoutAnswer(t)
    BY <2>14 DEF EndWithoutAnswer
  <2>15. CASE LastLook(t)
    <3>1. CASE MustReadOn(t)
      BY <2>15, <3>1 DEF LastLook
    <3>2. CASE ~MustReadOn(t)
      <4>1. CloseAndAnnounce /\ Goto(t, "ending") /\ KeepTurn /\ Beat(t)
            /\ UNCHANGED <<paused, storeVars, net>>
        BY ONLY <2>15, <3>2 DEF LastLook
      <4> QED
        BY <4>1
    <3> QED
      BY <3>1, <3>2
  <2>16. CASE CloseTurn(t)
    BY <2>16 DEF CloseTurn
  <2>17. CASE FinishTurn(t)
    <3>1. Over(t, "idle")
      BY ONLY <2>17 DEF FinishTurn
    <3> QED
      BY OverTyped, <2>17, <3>1 DEF FinishTurn
  <2>18. CASE Unwind(t)
    <3>1. Over(t, "idle")
      BY ONLY <2>18 DEF Unwind
    <3>2. /\ pc' \in [Turn -> Phase] /\ fresh' \in [Turn -> BOOLEAN] /\ last' \subseteq Turn
          /\ round' \in [Turn -> 0..MaxRounds]
          /\ parked' \in [Turn -> BOOLEAN]
          /\ knows' \in [Turn -> SUBSET Reports]
      BY ONLY OverTyped, TypeOK, <3>1
    <3>3. inbox' \subseteq Item /\ closed' \in BOOLEAN /\ slot' \in Turn \cup {NoTurn} /\ stale' \in BOOLEAN
      BY ONLY <2>18, TypeOK DEF Unwind, TypeOK, Release, Drop, Clear, Reopen, slotVars, inboxVars
    <3>4. fate' \in [Item -> Fates]
      BY ONLY <2>18, TypeOK DEF Unwind, TypeOK, Fated, Fates
    <3>5. UNCHANGED <<wakeVars, taskVars, paused, storeVars, net>>
      BY ONLY <2>18 DEF Unwind
    <3> QED
      BY ONLY TypeOK, <3>2, <3>3, <3>4, <3>5 DEF TypeOK, wakeVars, taskVars, storeVars
  <2> QED
    BY <1>9, <2>1, <2>2, <2>3, <2>4, <2>5, <2>6, <2>7, <2>8, <2>9, <2>10, <2>11, <2>12, <2>13, <2>14, <2>15, <2>16, <2>17, <2>18 DEF TurnStep
<1>10. ASSUME NEW t \in Turn, Stop(t) \/ Park(t) \/ Unpark(t) PROVE TypeOK'
  <2>1. CASE Stop(t)
    <3>1. Over(t, "stopped") /\ UNCHANGED <<inboxVars, slotVars, wakeVars, taskVars, paused, storeVars, net, fate>>
      BY ONLY <2>1 DEF Stop
    <3>2. /\ pc' \in [Turn -> Phase] /\ fresh' \in [Turn -> BOOLEAN] /\ last' \subseteq Turn
          /\ round' \in [Turn -> 0..MaxRounds]
          /\ parked' \in [Turn -> BOOLEAN]
          /\ knows' \in [Turn -> SUBSET Reports]
      BY ONLY OverTyped, TypeOK, <3>1
    <3> QED
      BY ONLY TypeOK, <3>1, <3>2
      DEF TypeOK, inboxVars, slotVars, wakeVars, taskVars, storeVars
  <2>2. CASE Park(t)
    BY <2>2 DEF Park
  <2>3. CASE Unpark(t)
    BY <2>3 DEF Unpark
  <2> QED
    BY <1>10, <2>1, <2>2, <2>3
<1>11. ASSUME NEW r \in Reports, LandReport(r) PROVE TypeOK'
  <2>1. CASE LandReport(r)
    BY <2>1 DEF LandReport
  <2> QED
    BY <1>11, <2>1
<1>12. ASSUME NEW w \in Wake, WakeStep(w) PROVE TypeOK'
  <2>1. CASE EndWake(w)
    BY <2>1 DEF EndWake
  <2>2. CASE UnwindWake(w)
    BY <2>2 DEF UnwindWake
  <2> QED
    BY <1>12, <2>1, <2>2 DEF WakeStep
<1>13. ASSUME NEW r \in Results, FinishCommand(r) \/ Thread(r) PROVE TypeOK'
  <2>1. CASE FinishCommand(r)
    BY <2>1 DEF FinishCommand
  <2>2. CASE ReportResult(r)
    BY <2>2 DEF ReportResult
  <2>3. CASE DeliverResult(r)
    BY <2>3 DEF DeliverResult
  <2> QED
    BY <1>13, <2>1, <2>2, <2>3 DEF Thread
<1> QED
  BY <1>1, <1>2, <1>3, <1>4, <1>5, <1>6, <1>7, <1>8, <1>9, <1>10, <1>11, <1>12, <1>13 DEF Next, Serve

(* The structures of a chat session hold only what the code puts there,    *)
(* whatever the number of messages, turns, wakes and rounds.               *)
THEOREM TypeCorrect == Spec => []TypeOK
<1>1. Init => TypeOK
  <2> SUFFICES ASSUME Init PROVE TypeOK
    OBVIOUS
  <2> USE DEF Init, InboxInit, SlotInit, WakeInit, TaskInit
  <2>1. pc \in [Turn -> Phase] /\ fate \in [Item -> Fates]
    BY DEF Phase, Fates
  <2>2. round \in [Turn -> 0..MaxRounds]
    BY RoundsPositive
  <2>3. knows \in [Turn -> SUBSET Reports]
    OBVIOUS
  <2>4. fresh \in [Turn -> BOOLEAN] /\ parked \in [Turn -> BOOLEAN]
    OBVIOUS
  <2> QED
    BY <2>1, <2>2, <2>3, <2>4 DEF TypeOK
<1> QED
  BY <1>1, TypeKept, PTL DEF Spec

-----------------------------------------------------------------------------
(* The slot and the wake reports have somebody who will give them up.      *)
Attended == SlotHeldByTurn /\ LateBehindWake

(* No step of a turn, a wake, a client or the user takes that away. *)
LEMMA AttendedKept == TypeOK /\ Attended /\ [Next]_vars => Attended'
<1> SUFFICES ASSUME TypeOK, Attended, [Next]_vars PROVE Attended'
  OBVIOUS
<1> USE NoTurnIsNoTurn, NoWakeIsNoWake
<1> USE DEF TypeOK, Attended, SlotHeldByTurn, LateBehindWake, inboxVars, slotVars, wakeVars, taskVars, turnVars, storeVars, Phase,
            Working, Rounds, Finished, Goto, Over, KeepTurn, Move, Runs, Claim, Beat, Drop, Owns,
            Release, Begin, StartWake, WakeOrQueue, MaybeWake, Given, CancelWake,
            YieldToChatTurn, StillCurrent, WakeFinally, EmitRow, AskWindow, LookAtSlot,
            PushResult, CloseAndAnnounce
<1>1. CASE UNCHANGED vars
  BY <1>1 DEF vars
<1>2. ASSUME NEW m \in Users, Send(m) \/ SendMidTurn(m) PROVE Attended'
  <2>1. CASE Send(m)
    BY <2>1 DEF Send
  <2>2. CASE SendMidTurn(m)
    BY <2>2 DEF SendMidTurn
  <2> QED
    BY <1>2, <2>1, <2>2
<1>3. CASE AnswerCard
  BY <1>3 DEF AnswerCard
<1>4. CASE TryWake
  BY <1>4 DEF TryWake
<1>5. CASE ForgetWake
  BY <1>5 DEF ForgetWake
<1>6. CASE GoStale
  BY <1>6 DEF GoStale
<1>7. CASE Reset
  BY <1>7 DEF Reset
<1>8. ASSUME NEW q \in net, chat_endpoint(q) PROVE Attended'
  <2>1. CASE ServeSend(q)
    BY <2>1 DEF ServeSend
  <2>2. CASE ServeMidTurn(q)
    BY <2>2 DEF ServeMidTurn
  <2>3. CASE ServeWake(q)
    BY <2>3 DEF ServeWake
  <2>4. CASE ServeContinue(q)
    BY <2>4 DEF ServeContinue
  <2> QED
    BY <1>8, <2>1, <2>2, <2>3, <2>4 DEF chat_endpoint
<1>9. ASSUME NEW t \in Turn, TurnStep(t) PROVE Attended'
  <2>1. CASE Resolve(t)
    BY <2>1 DEF Resolve
  <2>2. CASE BeginRounds(t)
    BY <2>2 DEF BeginRounds
  <2>3. CASE FailSetup(t)
    BY <2>3 DEF FailSetup
  <2>4. CASE BeginRound(t)
    BY <2>4 DEF BeginRound
  <2>5. CASE CapReached(t)
    BY <2>5 DEF CapReached
  <2>6. CASE StartModel(t)
    BY <2>6 DEF StartModel
  <2>7. CASE LeaveSeen(t)
    BY <2>7 DEF LeaveSeen
  <2>8. CASE NextRound(t)
    BY <2>8 DEF NextRound
  <2>9. CASE CallTools(t)
    BY <2>9 DEF CallTools
  <2>10. CASE ToolsDone(t)
    BY <2>10 DEF ToolsDone
  <2>11. CASE Pause(t)
    BY <2>11 DEF Pause
  <2>12. CASE Answer(t)
    BY <2>12 DEF Answer
  <2>13. CASE GateBlocks(t)
    BY <2>13 DEF GateBlocks
  <2>14. CASE EndWithoutAnswer(t)
    BY <2>14 DEF EndWithoutAnswer
  <2>15. CASE LastLook(t)
    BY <2>15 DEF LastLook
  <2>16. CASE CloseTurn(t)
    BY <2>16 DEF CloseTurn
  <2>17. CASE FinishTurn(t)
    BY <2>17 DEF FinishTurn
  <2>18. CASE Unwind(t)
    BY <2>18 DEF Unwind
  <2> QED
    BY <1>9, <2>1, <2>2, <2>3, <2>4, <2>5, <2>6, <2>7, <2>8, <2>9, <2>10, <2>11, <2>12, <2>13, <2>14, <2>15, <2>16, <2>17, <2>18 DEF TurnStep
<1>10. ASSUME NEW t \in Turn, Stop(t) \/ Park(t) \/ Unpark(t) PROVE Attended'
  <2>1. CASE Stop(t)
    BY <2>1 DEF Stop
  <2>2. CASE Park(t)
    BY <2>2 DEF Park
  <2>3. CASE Unpark(t)
    BY <2>3 DEF Unpark
  <2> QED
    BY <1>10, <2>1, <2>2, <2>3
<1>11. ASSUME NEW r \in Reports, LandReport(r) PROVE Attended'
  <2>1. CASE LandReport(r)
    BY <2>1 DEF LandReport
  <2> QED
    BY <1>11, <2>1
<1>12. ASSUME NEW w \in Wake, WakeStep(w) PROVE Attended'
  <2>1. CASE EndWake(w)
    BY <2>1 DEF EndWake
  <2>2. CASE UnwindWake(w)
    BY <2>2 DEF UnwindWake
  <2> QED
    BY <1>12, <2>1, <2>2 DEF WakeStep
<1>13. ASSUME NEW r \in Results, FinishCommand(r) \/ Thread(r) PROVE Attended'
  <2>1. CASE FinishCommand(r)
    BY <2>1 DEF FinishCommand
  <2>2. CASE ReportResult(r)
    BY <2>2 DEF ReportResult
  <2>3. CASE DeliverResult(r)
    BY <2>3 DEF DeliverResult
  <2> QED
    BY <1>13, <2>1, <2>2, <2>3 DEF Thread
<1> QED
  BY <1>1, <1>2, <1>3, <1>4, <1>5, <1>6, <1>7, <1>8, <1>9, <1>10, <1>11, <1>12, <1>13 DEF Next, Serve

(* So it holds throughout. *)
LEMMA AttendedHolds == Spec => []Attended
<1>1. Init => Attended
  BY DEF Init, SlotInit, WakeInit, Attended, SlotHeldByTurn, LateBehindWake
<1> QED
  BY <1>1, TypeCorrect, AttendedKept, PTL DEF Spec

(* The busy slot is never held for a turn that is over, whatever clients   *)
(* do: no session is swallowed by a slot nobody will free.                 *)
THEOREM SlotNeverOrphaned == Spec => []SlotHeldByTurn
<1>1. Attended => SlotHeldByTurn
  BY DEF Attended
<1> QED
  BY <1>1, AttendedHolds, PTL

(* No report waits behind a wake that is not there. *)
THEOREM NoReportWithoutWake == Spec => []LateBehindWake
<1>1. Attended => LateBehindWake
  BY DEF Attended
<1> QED
  BY <1>1, AttendedHolds, PTL

-----------------------------------------------------------------------------
(* Only the step that ends the owner's stream, or /reset, opens the slot.  *)
LEMMA OpenedByOwner ==
    TypeOK /\ [Next]_vars =>
        \A u \in Turn : slot = u /\ slot' = NoTurn => pc'[u] = "idle" \/ Reset
<1> SUFFICES ASSUME TypeOK, [Next]_vars,
                    NEW u \in Turn, slot = u, slot' = NoTurn, ~Reset
             PROVE  pc'[u] = "idle"
  OBVIOUS
<1> USE NoTurnIsNoTurn
<1> USE DEF TypeOK, inboxVars, slotVars, wakeVars, taskVars, turnVars, storeVars, Phase,
            Working, Rounds, Finished, Goto, Over, KeepTurn, Move, Runs, Claim, Beat, Drop, Owns,
            Release, Begin, StartWake, WakeOrQueue, MaybeWake, Given, CancelWake,
            YieldToChatTurn, StillCurrent, WakeFinally, EmitRow, AskWindow, LookAtSlot,
            PushResult, CloseAndAnnounce
<1>1. CASE UNCHANGED vars
  BY <1>1 DEF vars
<1>2. ASSUME NEW m \in Users, Send(m) \/ SendMidTurn(m) PROVE pc'[u] = "idle"
  <2>1. CASE Send(m)
    BY <2>1 DEF Send
  <2>2. CASE SendMidTurn(m)
    BY <2>2 DEF SendMidTurn
  <2> QED
    BY <1>2, <2>1, <2>2
<1>3. CASE AnswerCard
  BY <1>3 DEF AnswerCard
<1>4. CASE TryWake
  BY <1>4 DEF TryWake
<1>5. CASE ForgetWake
  BY <1>5 DEF ForgetWake
<1>6. CASE GoStale
  BY <1>6 DEF GoStale
<1>7. CASE Reset
  BY <1>7
<1>8. ASSUME NEW q \in net, chat_endpoint(q) PROVE pc'[u] = "idle"
  <2>1. CASE ServeSend(q)
    BY <2>1 DEF ServeSend
  <2>2. CASE ServeMidTurn(q)
    BY <2>2 DEF ServeMidTurn
  <2>3. CASE ServeWake(q)
    BY <2>3 DEF ServeWake
  <2>4. CASE ServeContinue(q)
    BY <2>4 DEF ServeContinue
  <2> QED
    BY <1>8, <2>1, <2>2, <2>3, <2>4 DEF chat_endpoint
<1>9. ASSUME NEW t \in Turn, TurnStep(t) PROVE pc'[u] = "idle"
  <2>1. CASE Resolve(t)
    BY <2>1 DEF Resolve
  <2>2. CASE BeginRounds(t)
    BY <2>2 DEF BeginRounds
  <2>3. CASE FailSetup(t)
    BY <2>3 DEF FailSetup
  <2>4. CASE BeginRound(t)
    BY <2>4 DEF BeginRound
  <2>5. CASE CapReached(t)
    BY <2>5 DEF CapReached
  <2>6. CASE StartModel(t)
    BY <2>6 DEF StartModel
  <2>7. CASE LeaveSeen(t)
    BY <2>7 DEF LeaveSeen
  <2>8. CASE NextRound(t)
    BY <2>8 DEF NextRound
  <2>9. CASE CallTools(t)
    BY <2>9 DEF CallTools
  <2>10. CASE ToolsDone(t)
    BY <2>10 DEF ToolsDone
  <2>11. CASE Pause(t)
    BY <2>11 DEF Pause
  <2>12. CASE Answer(t)
    BY <2>12 DEF Answer
  <2>13. CASE GateBlocks(t)
    BY <2>13 DEF GateBlocks
  <2>14. CASE EndWithoutAnswer(t)
    BY <2>14 DEF EndWithoutAnswer
  <2>15. CASE LastLook(t)
    BY <2>15 DEF LastLook
  <2>16. CASE CloseTurn(t)
    BY <2>16 DEF CloseTurn
  <2>17. CASE FinishTurn(t)
    BY <2>17 DEF FinishTurn
  <2>18. CASE Unwind(t)
    BY <2>18 DEF Unwind
  <2> QED
    BY <1>9, <2>1, <2>2, <2>3, <2>4, <2>5, <2>6, <2>7, <2>8, <2>9, <2>10, <2>11, <2>12, <2>13, <2>14, <2>15, <2>16, <2>17, <2>18 DEF TurnStep
<1>10. ASSUME NEW t \in Turn, Stop(t) \/ Park(t) \/ Unpark(t) PROVE pc'[u] = "idle"
  <2>1. CASE Stop(t)
    BY <2>1 DEF Stop
  <2>2. CASE Park(t)
    BY <2>2 DEF Park
  <2>3. CASE Unpark(t)
    BY <2>3 DEF Unpark
  <2> QED
    BY <1>10, <2>1, <2>2, <2>3
<1>11. ASSUME NEW r \in Reports, LandReport(r) PROVE pc'[u] = "idle"
  <2>1. CASE LandReport(r)
    BY <2>1 DEF LandReport
  <2> QED
    BY <1>11, <2>1
<1>12. ASSUME NEW w \in Wake, WakeStep(w) PROVE pc'[u] = "idle"
  <2>1. CASE EndWake(w)
    BY <2>1 DEF EndWake
  <2>2. CASE UnwindWake(w)
    BY <2>2 DEF UnwindWake
  <2> QED
    BY <1>12, <2>1, <2>2 DEF WakeStep
<1>13. ASSUME NEW r \in Results, FinishCommand(r) \/ Thread(r) PROVE pc'[u] = "idle"
  <2>1. CASE FinishCommand(r)
    BY <2>1 DEF FinishCommand
  <2>2. CASE ReportResult(r)
    BY <2>2 DEF ReportResult
  <2>3. CASE DeliverResult(r)
    BY <2>3 DEF DeliverResult
  <2> QED
    BY <1>13, <2>1, <2>2, <2>3 DEF Thread
<1> QED
  BY <1>1, <1>2, <1>3, <1>4, <1>5, <1>6, <1>7, <1>8, <1>9, <1>10, <1>11, <1>12, <1>13 DEF Next, Serve

(* A turn whose slot was reclaimed never opens it under the new owner      *)
(* (stream_slot.release compares the token).                               *)
THEOREM OnlyOwnerFrees == Spec => OwnerFrees
<1>1. TypeOK /\ [Next]_vars =>
        [\A t \in Turn : slot = t /\ slot' = NoTurn => pc'[t] = "idle" \/ Reset]_vars
  BY OpenedByOwner
<1> QED
  BY <1>1, TypeCorrect, PTL DEF Spec, OwnerFrees

-----------------------------------------------------------------------------
(***************************************************************************)
(* One turn at a time, for clients that read what they are sent, one       *)
(* window that has a request on its way, and no /reset under a turn.       *)
(***************************************************************************)
Calm == ~Parking /\ ~Resets /\ ~TwoWindows

(* No heartbeat ages. *)
Beating == ~stale /\ \A t \in Turn : ~parked[t]

(* A turn that is at work or about to end in a pause holds the slot. *)
OwnsWork == \A t \in Turn : pc[t] \in Working \cup {"pausing", "quit"} => slot = t

(* While the answer to a card is on its way no turn runs and no other      *)
(* request can start one: the claim of a continuation needs no guard.      *)
CardAlone ==
    \A q \in net : q.kind = "continue" =>
        /\ \A p \in net : p.kind # "midturn" => p = q
        /\ \A t \in Turn : pc[t] \in {"idle", "stopped"}

Orderly == Beating /\ OwnsWork /\ CardAlone /\ ClosedByEnding /\ WakeAlone

(* In a calm session every step keeps the turns in order. *)
LEMMA OrderlyKept ==
    ASSUME Calm, TypeOK, Orderly, [Next]_vars
    PROVE  Orderly'
<1> USE NoTurnIsNoTurn, NoWakeIsNoWake
<1> USE DEF Calm, TypeOK, Orderly, Beating, OwnsWork, CardAlone, ClosedByEnding, WakeAlone, Request, inboxVars, slotVars, wakeVars, taskVars, turnVars, storeVars, Phase,
            Working, Rounds, Finished, Goto, Over, KeepTurn, Move, Runs, Push, Drain, CloseAndTake,
            Reopen, Clear, Claim, IsLive, Accepts, Beat, Drop, Owns, Release, Begin, StartWake,
            WakeOrQueue, MaybeWake, Given, CancelWake, YieldToChatTurn, StillCurrent,
            WakeFinally, EmitRow, AskWindow, LookAtSlot, PushResult,
            CloseAndAnnounce, Starting, WindowIdle
<1>1. CASE UNCHANGED vars
  BY <1>1 DEF vars
<1>2. ASSUME NEW m \in Users, Send(m) \/ SendMidTurn(m) PROVE Orderly'
  <2>1. CASE Send(m)
    BY <2>1 DEF Send
  <2>2. CASE SendMidTurn(m)
    BY <2>2 DEF SendMidTurn
  <2> QED
    BY <1>2, <2>1, <2>2
<1>3. CASE AnswerCard
  BY <1>3 DEF AnswerCard
<1>4. CASE TryWake
  BY <1>4 DEF TryWake
<1>5. CASE ForgetWake
  BY <1>5 DEF ForgetWake
<1>6. CASE GoStale
  BY <1>6 DEF GoStale
<1>7. CASE Reset
  BY <1>7 DEF Reset
<1>8. ASSUME NEW q \in net, chat_endpoint(q) PROVE Orderly'
  <2>1. CASE ServeSend(q)
    BY <2>1 DEF ServeSend
  <2>2. CASE ServeMidTurn(q)
    BY <2>2 DEF ServeMidTurn
  <2>3. CASE ServeWake(q)
    BY <2>3 DEF ServeWake
  <2>4. CASE ServeContinue(q)
    BY <2>4 DEF ServeContinue
  <2> QED
    BY <1>8, <2>1, <2>2, <2>3, <2>4 DEF chat_endpoint
<1>9. ASSUME NEW t \in Turn, TurnStep(t) PROVE Orderly'
  <2>1. CASE Resolve(t)
    BY <2>1 DEF Resolve
  <2>2. CASE BeginRounds(t)
    BY <2>2 DEF BeginRounds
  <2>3. CASE FailSetup(t)
    BY <2>3 DEF FailSetup
  <2>4. CASE BeginRound(t)
    BY <2>4 DEF BeginRound
  <2>5. CASE CapReached(t)
    BY <2>5 DEF CapReached
  <2>6. CASE StartModel(t)
    BY <2>6 DEF StartModel
  <2>7. CASE LeaveSeen(t)
    BY <2>7 DEF LeaveSeen
  <2>8. CASE NextRound(t)
    BY <2>8 DEF NextRound
  <2>9. CASE CallTools(t)
    BY <2>9 DEF CallTools
  <2>10. CASE ToolsDone(t)
    BY <2>10 DEF ToolsDone
  <2>11. CASE Pause(t)
    BY <2>11 DEF Pause
  <2>12. CASE Answer(t)
    BY <2>12 DEF Answer
  <2>13. CASE GateBlocks(t)
    BY <2>13 DEF GateBlocks
  <2>14. CASE EndWithoutAnswer(t)
    BY <2>14 DEF EndWithoutAnswer
  <2>15. CASE LastLook(t)
    BY <2>15 DEF LastLook
  <2>16. CASE CloseTurn(t)
    BY <2>16 DEF CloseTurn
  <2>17. CASE FinishTurn(t)
    BY <2>17 DEF FinishTurn
  <2>18. CASE Unwind(t)
    BY <2>18 DEF Unwind
  <2> QED
    BY <1>9, <2>1, <2>2, <2>3, <2>4, <2>5, <2>6, <2>7, <2>8, <2>9, <2>10, <2>11, <2>12, <2>13, <2>14, <2>15, <2>16, <2>17, <2>18 DEF TurnStep
<1>10. ASSUME NEW t \in Turn, Stop(t) \/ Park(t) \/ Unpark(t) PROVE Orderly'
  <2>1. CASE Stop(t)
    BY <2>1 DEF Stop
  <2>2. CASE Park(t)
    BY <2>2 DEF Park
  <2>3. CASE Unpark(t)
    BY <2>3 DEF Unpark
  <2> QED
    BY <1>10, <2>1, <2>2, <2>3
<1>11. ASSUME NEW r \in Reports, LandReport(r) PROVE Orderly'
  <2>1. CASE LandReport(r)
    BY <2>1 DEF LandReport
  <2> QED
    BY <1>11, <2>1
<1>12. ASSUME NEW w \in Wake, WakeStep(w) PROVE Orderly'
  <2>1. CASE EndWake(w)
    BY <2>1 DEF EndWake
  <2>2. CASE UnwindWake(w)
    BY <2>2 DEF UnwindWake
  <2> QED
    BY <1>12, <2>1, <2>2 DEF WakeStep
<1>13. ASSUME NEW r \in Results, FinishCommand(r) \/ Thread(r) PROVE Orderly'
  <2>1. CASE FinishCommand(r)
    BY <2>1 DEF FinishCommand
  <2>2. CASE ReportResult(r)
    BY <2>2 DEF ReportResult
  <2>3. CASE DeliverResult(r)
    BY <2>3 DEF DeliverResult
  <2> QED
    BY <1>13, <2>1, <2>2, <2>3 DEF Thread
<1> QED
  BY <1>1, <1>2, <1>3, <1>4, <1>5, <1>6, <1>7, <1>8, <1>9, <1>10, <1>11, <1>12, <1>13 DEF Next, Serve

(* So a calm session stays in order. *)
LEMMA OrderlyHolds == ASSUME Calm PROVE Spec => []Orderly
<1>1. Init => Orderly
  BY DEF Init, InboxInit, SlotInit, WakeInit, Orderly, Beating, OwnsWork, CardAlone,
         ClosedByEnding, WakeAlone, Working, Rounds
<1>2. TypeOK /\ Orderly /\ [Next]_vars => Orderly'
  BY OrderlyKept
<1> QED
  BY <1>1, <1>2, TypeCorrect, PTL DEF Spec

(* Two turns are never at work in one session. *)
THEOREM OneTurnAtATime == ASSUME Calm PROVE Spec => []SoleTurn
<1>1. Orderly => SoleTurn
  BY DEF Orderly, OwnsWork, SoleTurn
<1> QED
  BY <1>1, OrderlyHolds, PTL

(* A wake turn never runs beside a chat turn whose model is resolved. *)
THEOREM WakesAlone == ASSUME Calm PROVE Spec => []WakeAlone
<1>1. Orderly => WakeAlone
  BY DEF Orderly
<1> QED
  BY <1>1, OrderlyHolds, PTL

(* The inbox is closed under a busy slot only by the last look of its turn. *)
THEOREM ClosedOnlyAtEnd == ASSUME Calm PROVE Spec => []ClosedByEnding
<1>1. Orderly => ClosedByEnding
  BY DEF Orderly
<1> QED
  BY <1>1, OrderlyHolds, PTL

(* Only the owner of the slot reads the inbox. *)
THEOREM OneConsumer == ASSUME Calm PROVE Spec => OwnerDrains
<1>1. Orderly /\ [Next]_vars =>
        [\A t \in Turn : pc[t] = "top" /\ pc'[t] = "check" => slot = t]_vars
  BY DEF Orderly, OwnsWork, Working, Rounds
<1> QED
  BY <1>1, OrderlyHolds, PTL DEF Spec, OwnerDrains

-----------------------------------------------------------------------------
(***************************************************************************)
(* Where an item waits.  Sorted holds whatever clients do: an item that    *)
(* waits anywhere is pending and waits in one place, so what is settled    *)
(* does not come back.  That nothing pending is lost needs a calm session. *)
(***************************************************************************)
Pending == {i \in Item : fate[i] = "pending"}

(* What the server and the window hold, requests on their way aside. *)
HeldItems == inbox \cup answering \cup late \cup rowed \cup sawLive \cup asked

(* The wake that runs is the one the session knows. *)
WakeKnown == \A w \in Wake : wpc[w] = "running" <=> wtask = w

(* A request carries what waits nowhere else. *)
Carried ==
    \A q \in net :
        /\ q.items \subseteq Pending \ HeldItems
        /\ \A p \in net : p # q => p.items \cap q.items = {}

(* What is held is held by one structure. *)
Apart ==
    /\ HeldItems \subseteq Pending
    /\ inbox \cap (answering \cup late \cup rowed \cup sawLive \cup asked) = {}
    /\ answering \cap late = {}
    /\ rowed \cap sawLive = {} /\ rowed \cap asked = {} /\ sawLive \cap asked = {}

Sorted == WakeKnown /\ Carried /\ Apart

(* A step settles items for good and forgets none that was sent. *)
SettledStay ==
    \A i \in Item :
        /\ fate[i] # "new" => fate'[i] # "new"
        /\ fate[i] \notin {"new", "pending"} => fate'[i] \notin {"new", "pending"}

(* A new request carries items that nothing else does. *)
LEMMA RequestCarried ==
    ASSUME Carried, NEW n, NEW S, n.items = S, net' = net \cup {n},
           \A q \in net : q.items \cap S = {}, HeldItems' \subseteq HeldItems,
           S \cap HeldItems' = {}, Pending' = Pending \cup S
    PROVE  Carried'
<1>1. \A q \in net' : q.items \subseteq Pending' \ HeldItems'
  BY DEF Carried
<1>2. ASSUME NEW q \in net', NEW p \in net', p # q PROVE p.items \cap q.items = {}
  BY <1>2 DEF Carried
<1> QED
  BY <1>1, <1>2 DEF Carried

(* Every step keeps each waiting item in its one place. *)
LEMMA SortedKept == TypeOK /\ Attended /\ Sorted /\ [Next]_vars => Sorted'
<1> SUFFICES ASSUME TypeOK, Attended, Sorted, [Next]_vars PROVE Sorted'
  OBVIOUS
<1> USE NoWakeIsNoWake, KindsApart
<1> USE DEF TypeOK, Attended, LateBehindWake, Sorted, WakeKnown, Carried, Apart, HeldItems, Pending,
            Item, Request, inboxVars, slotVars, wakeVars, taskVars, turnVars, storeVars, Fated,
            Goto, Over, KeepTurn, Move, Push, Drain, CloseAndTake, Reopen, Clear, Claim, Accepts,
            Drop, Owns, Release, Begin, StartWake, WakeOrQueue, MaybeWake, Given, CancelWake,
            YieldToChatTurn, StillCurrent, WakeFinally, EmitRow, AskWindow, LookAtSlot,
            PushResult, CloseAndAnnounce
<1>1. CASE UNCHANGED vars
  BY <1>1 DEF vars
<1>2. ASSUME NEW m \in Users, Send(m) \/ SendMidTurn(m) PROVE Sorted'
  <2>1. CASE Send(m)
    <3> DEFINE n == [kind |-> "send", items |-> {m}, history |-> rows \cap Reports]
    <3>1. /\ net' = net \cup {n} /\ n.items = {m}
          /\ UNCHANGED <<inboxVars, wakeVars, taskVars>>
          /\ fate[m] = "new" /\ Fated({m}, "pending")
      BY ONLY <2>1 DEF Send
    <3>2. m \notin HeldItems /\ (\A q \in net : q.items \cap {m} = {}) /\ m \in Item
      BY <3>1
    <3>3. Pending' = Pending \cup {m} /\ HeldItems' = HeldItems
      BY <3>1, <3>2
    <3> HIDE DEF n
    <3>4. Carried'
      BY ONLY Sorted, <3>1, <3>2, <3>3, RequestCarried DEF Sorted
    <3>5. WakeKnown' /\ Apart'
      BY <3>1, <3>2, <3>3
    <3> QED
      BY <3>4, <3>5 DEF Sorted
  <2>2. CASE SendMidTurn(m)
    <3> DEFINE n == [kind |-> "midturn", items |-> {m}, history |-> {}]
    <3>1. /\ net' = net \cup {n} /\ n.items = {m}
          /\ UNCHANGED <<inboxVars, wakeVars, taskVars>>
          /\ fate[m] = "new" /\ Fated({m}, "pending")
      BY ONLY <2>2 DEF SendMidTurn
    <3>2. m \notin HeldItems /\ (\A q \in net : q.items \cap {m} = {}) /\ m \in Item
      BY <3>1
    <3>3. Pending' = Pending \cup {m} /\ HeldItems' = HeldItems
      BY <3>1, <3>2
    <3> HIDE DEF n
    <3>4. Carried'
      BY ONLY Sorted, <3>1, <3>2, <3>3, RequestCarried DEF Sorted
    <3>5. WakeKnown' /\ Apart'
      BY <3>1, <3>2, <3>3
    <3> QED
      BY <3>4, <3>5 DEF Sorted
  <2> QED
    BY <1>2, <2>1, <2>2
<1>3. CASE AnswerCard
  BY <1>3 DEF AnswerCard
<1>4. CASE TryWake
  <2> DEFINE n == [kind |-> "wake", items |-> asked, history |-> rows \cap Reports]
  <2>1. /\ net' = net \cup {n} /\ n.items = asked /\ asked' = {}
        /\ UNCHANGED <<inboxVars, wakeVars, rowed, sawLive, fate>>
    BY ONLY <1>4 DEF TryWake
  <2>2. asked \subseteq Pending /\ \A q \in net : q.items \cap asked = {}
    OBVIOUS
  <2>3. Pending' = Pending \cup asked
    BY <2>1, <2>2
  <2>4. HeldItems' \subseteq HeldItems /\ asked \cap HeldItems' = {}
    BY <2>1
  <2> HIDE DEF n
  <2>5. Carried'
    BY ONLY Sorted, <2>1, <2>2, <2>3, <2>4, RequestCarried DEF Sorted
  <2>6. WakeKnown' /\ Apart'
    BY <2>1
  <2> QED
    BY <2>5, <2>6 DEF Sorted
<1>5. CASE ForgetWake
  BY <1>5 DEF ForgetWake
<1>6. CASE GoStale
  BY <1>6 DEF GoStale
<1>7. CASE Reset
  BY <1>7 DEF Reset
<1>8. ASSUME NEW q \in net, chat_endpoint(q) PROVE Sorted'
  <2>1. CASE ServeSend(q)
    BY <2>1 DEF ServeSend
  <2>2. CASE ServeMidTurn(q)
    BY <2>2 DEF ServeMidTurn
  <2>3. CASE ServeWake(q)
    BY <2>3 DEF ServeWake
  <2>4. CASE ServeContinue(q)
    BY <2>4 DEF ServeContinue
  <2> QED
    BY <1>8, <2>1, <2>2, <2>3, <2>4 DEF chat_endpoint
<1>9. ASSUME NEW t \in Turn, TurnStep(t) PROVE Sorted'
  <2>1. CASE Resolve(t)
    BY <2>1 DEF Resolve
  <2>2. CASE BeginRounds(t)
    BY <2>2 DEF BeginRounds
  <2>3. CASE FailSetup(t)
    BY <2>3 DEF FailSetup
  <2>4. CASE BeginRound(t)
    BY <2>4 DEF BeginRound
  <2>5. CASE CapReached(t)
    BY <2>5 DEF CapReached
  <2>6. CASE StartModel(t)
    BY <2>6 DEF StartModel
  <2>7. CASE LeaveSeen(t)
    BY <2>7 DEF LeaveSeen
  <2>8. CASE NextRound(t)
    BY <2>8 DEF NextRound
  <2>9. CASE CallTools(t)
    BY <2>9 DEF CallTools
  <2>10. CASE ToolsDone(t)
    BY <2>10 DEF ToolsDone
  <2>11. CASE Pause(t)
    BY <2>11 DEF Pause
  <2>12. CASE Answer(t)
    BY <2>12 DEF Answer
  <2>13. CASE GateBlocks(t)
    BY <2>13 DEF GateBlocks
  <2>14. CASE EndWithoutAnswer(t)
    BY <2>14 DEF EndWithoutAnswer
  <2>15. CASE LastLook(t)
    BY <2>15 DEF LastLook
  <2>16. CASE CloseTurn(t)
    BY <2>16 DEF CloseTurn
  <2>17. CASE FinishTurn(t)
    BY <2>17 DEF FinishTurn
  <2>18. CASE Unwind(t)
    BY <2>18 DEF Unwind
  <2> QED
    BY <1>9, <2>1, <2>2, <2>3, <2>4, <2>5, <2>6, <2>7, <2>8, <2>9,
       <2>10, <2>11, <2>12, <2>13, <2>14, <2>15, <2>16, <2>17, <2>18 DEF TurnStep
<1>10. ASSUME NEW t \in Turn, Stop(t) \/ Park(t) \/ Unpark(t) PROVE Sorted'
  <2>1. CASE Stop(t)
    BY <2>1 DEF Stop
  <2>2. CASE Park(t)
    BY <2>2 DEF Park
  <2>3. CASE Unpark(t)
    BY <2>3 DEF Unpark
  <2> QED
    BY <1>10, <2>1, <2>2, <2>3
<1>11. ASSUME NEW r \in Reports, LandReport(r) PROVE Sorted'
  <2>1. CASE LandReport(r)
    BY <2>1 DEF LandReport
  <2> QED
    BY <1>11, <2>1
<1>12. ASSUME NEW w \in Wake, WakeStep(w) PROVE Sorted'
  <2>1. CASE EndWake(w)
    BY <2>1 DEF EndWake
  <2>2. CASE UnwindWake(w)
    BY <2>2 DEF UnwindWake
  <2> QED
    BY <1>12, <2>1, <2>2 DEF WakeStep
<1>13. ASSUME NEW r \in Results, FinishCommand(r) \/ Thread(r) PROVE Sorted'
  <2>1. CASE FinishCommand(r)
    BY <2>1 DEF FinishCommand
  <2>2. CASE ReportResult(r)
    BY <2>2 DEF ReportResult
  <2>3. CASE DeliverResult(r)
    BY <2>3 DEF DeliverResult
  <2> QED
    BY <1>13, <2>1, <2>2, <2>3 DEF Thread
<1> QED
  BY <1>1, <1>2, <1>3, <1>4, <1>5, <1>6, <1>7, <1>8, <1>9, <1>10, <1>11, <1>12, <1>13 DEF Next, Serve

(* A turn that claims the session settles what its request brings and what *)
(* its claim drops.                                                        *)
LEMMA BeginSettles ==
    ASSUME NEW q \in net, NEW isNew \in BOOLEAN, Begin(q, isNew)
    PROVE  SettledStay
<1>1. \A i \in Item : fate'[i] \in {"read", "cleared", fate[i]}
  BY DEF Begin
<1> QED
  BY <1>1 DEF SettledStay

(* Every step leaves what is settled settled. *)
LEMMA SettledKept == TypeOK /\ Attended /\ Sorted /\ [Next]_vars => SettledStay
<1> SUFFICES ASSUME TypeOK, Attended, Sorted, [Next]_vars PROVE SettledStay
  OBVIOUS
<1> USE NoWakeIsNoWake, KindsApart
<1> USE DEF SettledStay, TypeOK, Attended, LateBehindWake, Sorted, WakeKnown, Carried, Apart,
            HeldItems, Pending, Item, Request, inboxVars, slotVars, wakeVars, taskVars, turnVars,
            storeVars, Fated, Goto, Over, KeepTurn, Move, Owns, Begin, StillCurrent, WakeFinally,
            CloseAndAnnounce
<1>1. CASE UNCHANGED vars
  BY <1>1 DEF vars
<1>2. ASSUME NEW m \in Users, Send(m) \/ SendMidTurn(m) PROVE SettledStay
  <2>1. CASE Send(m)
    BY <2>1 DEF Send
  <2>2. CASE SendMidTurn(m)
    BY <2>2 DEF SendMidTurn
  <2> QED
    BY <1>2, <2>1, <2>2
<1>3. CASE AnswerCard
  BY <1>3 DEF AnswerCard
<1>4. CASE TryWake
  BY <1>4 DEF TryWake
<1>5. CASE ForgetWake
  BY <1>5 DEF ForgetWake
<1>6. CASE GoStale
  BY <1>6 DEF GoStale
<1>7. CASE Reset
  BY <1>7 DEF Reset
<1>8. ASSUME NEW q \in net, chat_endpoint(q) PROVE SettledStay
  <2>1. CASE ServeSend(q)
    <3>1. CASE Accepts
      BY <2>1, <3>1 DEF ServeSend
    <3>2. CASE ~Accepts
      <4>1. Begin(q, TRUE)
        BY ONLY <2>1, <3>2 DEF ServeSend
      <4> QED
        BY ONLY <4>1, Sorted, TypeOK, BeginSettles
    <3> QED
      BY <3>1, <3>2
  <2>2. CASE ServeMidTurn(q)
    BY <2>2 DEF ServeMidTurn
  <2>3. CASE ServeWake(q)
    <3>1. CASE IsLive
      BY <2>3, <3>1 DEF ServeWake
    <3>2. CASE ~IsLive
      <4>1. Begin(q, TRUE)
        BY ONLY <2>3, <3>2 DEF ServeWake
      <4> QED
        BY ONLY <4>1, Sorted, TypeOK, BeginSettles
    <3> QED
      BY <3>1, <3>2
  <2>4. CASE ServeContinue(q)
    BY <2>4 DEF ServeContinue
  <2> QED
    BY <1>8, <2>1, <2>2, <2>3, <2>4 DEF chat_endpoint
<1>9. ASSUME NEW t \in Turn, TurnStep(t) PROVE SettledStay
  <2>1. CASE Resolve(t)
    BY <2>1 DEF Resolve
  <2>2. CASE BeginRounds(t)
    BY <2>2 DEF BeginRounds
  <2>3. CASE FailSetup(t)
    BY <2>3 DEF FailSetup
  <2>4. CASE BeginRound(t)
    BY <2>4 DEF BeginRound
  <2>5. CASE CapReached(t)
    BY <2>5 DEF CapReached
  <2>6. CASE StartModel(t)
    BY <2>6 DEF StartModel
  <2>7. CASE LeaveSeen(t)
    BY <2>7 DEF LeaveSeen
  <2>8. CASE NextRound(t)
    BY <2>8 DEF NextRound
  <2>9. CASE CallTools(t)
    BY <2>9 DEF CallTools
  <2>10. CASE ToolsDone(t)
    BY <2>10 DEF ToolsDone
  <2>11. CASE Pause(t)
    BY <2>11 DEF Pause
  <2>12. CASE Answer(t)
    BY <2>12 DEF Answer
  <2>13. CASE GateBlocks(t)
    BY <2>13 DEF GateBlocks
  <2>14. CASE EndWithoutAnswer(t)
    BY <2>14 DEF EndWithoutAnswer
  <2>15. CASE LastLook(t)
    BY <2>15 DEF LastLook
  <2>16. CASE CloseTurn(t)
    BY <2>16 DEF CloseTurn
  <2>17. CASE FinishTurn(t)
    BY <2>17 DEF FinishTurn
  <2>18. CASE Unwind(t)
    BY <2>18 DEF Unwind
  <2> QED
    BY <1>9, <2>1, <2>2, <2>3, <2>4, <2>5, <2>6, <2>7, <2>8, <2>9,
       <2>10, <2>11, <2>12, <2>13, <2>14, <2>15, <2>16, <2>17, <2>18 DEF TurnStep
<1>10. ASSUME NEW t \in Turn, Stop(t) \/ Park(t) \/ Unpark(t) PROVE SettledStay
  <2>1. CASE Stop(t)
    BY <2>1 DEF Stop
  <2>2. CASE Park(t)
    BY <2>2 DEF Park
  <2>3. CASE Unpark(t)
    BY <2>3 DEF Unpark
  <2> QED
    BY <1>10, <2>1, <2>2, <2>3
<1>11. ASSUME NEW r \in Reports, LandReport(r) PROVE SettledStay
  <2>1. CASE LandReport(r)
    BY <2>1 DEF LandReport
  <2> QED
    BY <1>11, <2>1
<1>12. ASSUME NEW w \in Wake, WakeStep(w) PROVE SettledStay
  <2>1. CASE EndWake(w)
    BY <2>1 DEF EndWake
  <2>2. CASE UnwindWake(w)
    BY <2>2 DEF UnwindWake
  <2> QED
    BY <1>12, <2>1, <2>2 DEF WakeStep
<1>13. ASSUME NEW r \in Results, FinishCommand(r) \/ Thread(r) PROVE SettledStay
  <2>1. CASE FinishCommand(r)
    BY <2>1 DEF FinishCommand
  <2>2. CASE ReportResult(r)
    BY <2>2 DEF ReportResult
  <2>3. CASE DeliverResult(r)
    BY <2>3 DEF DeliverResult
  <2> QED
    BY <1>13, <2>1, <2>2, <2>3 DEF Thread
<1> QED
  BY <1>1, <1>2, <1>3, <1>4, <1>5, <1>6, <1>7, <1>8, <1>9, <1>10, <1>11, <1>12, <1>13 DEF Next, Serve

(* So nothing waits twice. *)
LEMMA SortedHolds == Spec => []Sorted
<1>1. Init => Sorted
  BY NoWakeIsNoWake DEF Init, InboxInit, SlotInit, WakeInit, TaskInit, Sorted, WakeKnown, Carried,
                        Apart, HeldItems, Pending
<1> QED
  BY <1>1, TypeCorrect, AttendedHolds, SortedKept, PTL DEF Spec

(* The places of OnePlace, put together, are what is held and requested. *)
LEMMA WaitingIs == Waiting = HeldItems \cup Requested
<1>1. DOMAIN Places = {1, 2, 3, 4, 5, 6, 7}
  BY DEF Places
<1>2. Waiting = UNION {Places[1], Places[2], Places[3], Places[4], Places[5], Places[6], Places[7]}
  BY <1>1 DEF Waiting
<1> QED
  BY <1>2 DEF Places, HeldItems

(* Whatever waits is pending. *)
LEMMA WaitingPending == Sorted => Waiting \subseteq Pending
  BY WaitingIs DEF Sorted, Apart, Carried, Requested

(* Nothing is handled twice, whatever the clients and the user do: what    *)
(* was read, answered, announced or dropped never waits again.             *)
THEOREM SettledForGood == Spec => NeverAgain
<1>1. (Sorted => Waiting \subseteq Pending)'
  BY WaitingPending, PTL
<1>2. ASSUME TypeOK, Attended, Sorted, Sorted', [Next]_vars
      PROVE  Settled \subseteq Settled' /\ Settled \cap Waiting' = {}
  <2>1. Settled \subseteq Settled'
    BY <1>2, SettledKept DEF SettledStay, Settled
  <2> QED
    BY <1>1, <1>2, <2>1 DEF Settled, Pending
<1>3. TypeOK /\ Attended /\ Sorted /\ Sorted' /\ [Next]_vars =>
        [Settled \subseteq Settled' /\ Settled \cap Waiting' = {}]_vars
  BY <1>2
<1> QED
  BY <1>3, TypeCorrect, AttendedHolds, SortedHolds, PTL DEF Spec, NeverAgain

-----------------------------------------------------------------------------
(* In a calm session what is pending waits somewhere. *)
NotLost == \A i \in Pending : i \in HeldItems \/ \E q \in net : i \in q.items

(* No step of a calm session drops what is pending: when a wake gives way  *)
(* to a continuation, the inbox it hands its reports to is open.           *)
LEMMA NotLostKept ==
    ASSUME Calm, TypeOK, Attended, Orderly, Sorted, NotLost, [Next]_vars
    PROVE  NotLost'
<1> USE NoTurnIsNoTurn, NoWakeIsNoWake, KindsApart
<1> USE DEF TypeOK, Attended, LateBehindWake, Orderly, OwnsWork, ClosedByEnding, Sorted, WakeKnown,
            NotLost, HeldItems, Pending,
            Item, Request, inboxVars, slotVars, wakeVars, taskVars, turnVars, storeVars, Fated,
            Goto, Over, KeepTurn, Move, Push, Drain, CloseAndTake, Reopen, Clear, Claim, Accepts,
            Drop, Owns, Release, Begin, StartWake, WakeOrQueue, MaybeWake, Given, CancelWake,
            YieldToChatTurn, StillCurrent, WakeFinally, EmitRow, AskWindow, LookAtSlot,
            PushResult, CloseAndAnnounce, Runs, Working
<1>1. CASE UNCHANGED vars
  BY <1>1 DEF vars
<1>2. ASSUME NEW m \in Users, Send(m) \/ SendMidTurn(m) PROVE NotLost'
  <2>1. CASE Send(m)
    <3>1. /\ \E n : n.items = {m} /\ net' = net \cup {n}
          /\ Fated({m}, "pending")
          /\ UNCHANGED <<inboxVars, wakeVars, taskVars>>
      <4> DEFINE n == [kind |-> "send", items |-> {m}, history |-> rows \cap Reports]
      <4>1. n.items = {m} /\ net' = net \cup {n}
        BY ONLY <2>1 DEF Send
      <4> QED
        BY ONLY <4>1, <2>1 DEF Send
    <3>2. PICK n : n.items = {m} /\ net' = net \cup {n}
      BY <3>1
    <3> QED
      BY ONLY NotLost, TypeOK, <3>1, <3>2
      DEF NotLost, HeldItems, Pending, Fated, inboxVars, wakeVars, taskVars
  <2>2. CASE SendMidTurn(m)
    <3>1. /\ \E n : n.items = {m} /\ net' = net \cup {n}
          /\ Fated({m}, "pending")
          /\ UNCHANGED <<inboxVars, wakeVars, taskVars>>
      <4> DEFINE n == [kind |-> "midturn", items |-> {m}, history |-> {}]
      <4>1. n.items = {m} /\ net' = net \cup {n}
        BY ONLY <2>2 DEF SendMidTurn
      <4> QED
        BY ONLY <4>1, <2>2 DEF SendMidTurn
    <3>2. PICK n : n.items = {m} /\ net' = net \cup {n}
      BY <3>1
    <3> QED
      BY ONLY NotLost, TypeOK, <3>1, <3>2
      DEF NotLost, HeldItems, Pending, Fated, inboxVars, wakeVars, taskVars
  <2> QED
    BY <1>2, <2>1, <2>2
<1>3. CASE AnswerCard
  BY <1>3 DEF AnswerCard
<1>4. CASE TryWake
  <2>1. \E n : n.items = asked /\ net' = net \cup {n}
    <3> DEFINE n == [kind |-> "wake", items |-> asked, history |-> rows \cap Reports]
    <3>1. n.items = asked /\ net' = net \cup {n}
      BY ONLY <1>4 DEF TryWake
    <3> QED
      BY ONLY <3>1
  <2>2. PICK n : n.items = asked /\ net' = net \cup {n}
    BY <2>1
  <2>3. UNCHANGED <<inboxVars, wakeVars, rowed, sawLive, fate>>
    BY ONLY <1>4 DEF TryWake
  <2> QED
    BY ONLY NotLost, <2>2, <2>3
    DEF NotLost, HeldItems, Pending, inboxVars, wakeVars
<1>5. CASE ForgetWake
  BY <1>5 DEF ForgetWake
<1>6. CASE GoStale
  BY <1>6 DEF GoStale
<1>7. CASE Reset
  BY <1>7 DEF Reset
<1>8. ASSUME NEW q \in net, chat_endpoint(q) PROVE NotLost'
  <2>1. CASE ServeSend(q)
    BY <2>1 DEF ServeSend
  <2>2. CASE ServeMidTurn(q)
    BY <2>2 DEF ServeMidTurn
  <2>3. CASE ServeWake(q)
    BY <2>3 DEF ServeWake
  <2>4. CASE ServeContinue(q)
    BY <2>4 DEF ServeContinue
  <2> QED
    BY <1>8, <2>1, <2>2, <2>3, <2>4 DEF chat_endpoint
<1>9. ASSUME NEW t \in Turn, TurnStep(t) PROVE NotLost'
  <2>1. CASE Resolve(t)
    BY <2>1 DEF Resolve
  <2>2. CASE BeginRounds(t)
    BY <2>2 DEF BeginRounds
  <2>3. CASE FailSetup(t)
    BY <2>3 DEF FailSetup
  <2>4. CASE BeginRound(t)
    BY <2>4 DEF BeginRound
  <2>5. CASE CapReached(t)
    BY <2>5 DEF CapReached
  <2>6. CASE StartModel(t)
    BY <2>6 DEF StartModel
  <2>7. CASE LeaveSeen(t)
    BY <2>7 DEF LeaveSeen
  <2>8. CASE NextRound(t)
    BY <2>8 DEF NextRound
  <2>9. CASE CallTools(t)
    BY <2>9 DEF CallTools
  <2>10. CASE ToolsDone(t)
    BY <2>10 DEF ToolsDone
  <2>11. CASE Pause(t)
    BY <2>11 DEF Pause
  <2>12. CASE Answer(t)
    BY <2>12 DEF Answer
  <2>13. CASE GateBlocks(t)
    BY <2>13 DEF GateBlocks
  <2>14. CASE EndWithoutAnswer(t)
    BY <2>14 DEF EndWithoutAnswer
  <2>15. CASE LastLook(t)
    BY <2>15 DEF LastLook
  <2>16. CASE CloseTurn(t)
    BY <2>16 DEF CloseTurn
  <2>17. CASE FinishTurn(t)
    BY <2>17 DEF FinishTurn
  <2>18. CASE Unwind(t)
    BY <2>18 DEF Unwind
  <2> QED
    BY <1>9, <2>1, <2>2, <2>3, <2>4, <2>5, <2>6, <2>7, <2>8, <2>9,
       <2>10, <2>11, <2>12, <2>13, <2>14, <2>15, <2>16, <2>17, <2>18 DEF TurnStep
<1>10. ASSUME NEW t \in Turn, Stop(t) \/ Park(t) \/ Unpark(t) PROVE NotLost'
  <2>1. CASE Stop(t)
    BY <2>1 DEF Stop
  <2>2. CASE Park(t)
    BY <2>2 DEF Park
  <2>3. CASE Unpark(t)
    BY <2>3 DEF Unpark
  <2> QED
    BY <1>10, <2>1, <2>2, <2>3
<1>11. ASSUME NEW r \in Reports, LandReport(r) PROVE NotLost'
  <2>1. CASE LandReport(r)
    BY <2>1 DEF LandReport
  <2> QED
    BY <1>11, <2>1
<1>12. ASSUME NEW w \in Wake, WakeStep(w) PROVE NotLost'
  <2>1. CASE EndWake(w)
    BY <2>1 DEF EndWake
  <2>2. CASE UnwindWake(w)
    BY <2>2 DEF UnwindWake
  <2> QED
    BY <1>12, <2>1, <2>2 DEF WakeStep
<1>13. ASSUME NEW r \in Results, FinishCommand(r) \/ Thread(r) PROVE NotLost'
  <2>1. CASE FinishCommand(r)
    BY <2>1 DEF FinishCommand
  <2>2. CASE ReportResult(r)
    BY <2>2 DEF ReportResult
  <2>3. CASE DeliverResult(r)
    BY <2>3 DEF DeliverResult
  <2> QED
    BY <1>13, <2>1, <2>2, <2>3 DEF Thread
<1> QED
  BY <1>1, <1>2, <1>3, <1>4, <1>5, <1>6, <1>7, <1>8, <1>9, <1>10, <1>11, <1>12, <1>13 DEF Next, Serve

(* So a calm session loses nothing. *)
LEMMA NotLostHolds == ASSUME Calm PROVE Spec => []NotLost
<1>1. Init => NotLost
  BY DEF Init, NotLost, Pending
<1>2. TypeOK /\ Attended /\ Orderly /\ Sorted /\ NotLost /\ [Next]_vars => NotLost'
  BY NotLostKept
<1> QED
  BY <1>1, <1>2, TypeCorrect, AttendedHolds, OrderlyHolds, SortedHolds, PTL DEF Spec

(* In a calm session what was sent and not dealt with is in exactly one    *)
(* structure: it is neither lost nor handed on twice.                      *)
THEOREM InOnePlace == ASSUME Calm PROVE Spec => []OnePlace
<1>1. ASSUME TypeOK, Sorted, NotLost PROVE OnePlace
  <2> DEFINE At(i) == {k \in DOMAIN Places : i \in Places[k]}
  <2>1. DOMAIN Places = {1, 2, 3, 4, 5, 6, 7}
    BY DEF Places
  <2>2. ASSUME NEW i \in Item, fate[i] = "pending" PROVE Cardinality(At(i)) = 1
    <3>1. i \in HeldItems \cup Requested
      BY <1>1, <2>2 DEF NotLost, Pending, Requested
    <3>2. i \in HeldItems => i \notin Requested
      BY <1>1 DEF Sorted, Carried, Requested
    <3>3. /\ Places[1] = inbox /\ Places[2] = answering /\ Places[3] = late
          /\ Places[4] = rowed /\ Places[5] = sawLive /\ Places[6] = asked
          /\ Places[7] = Requested
      BY DEF Places
    <3>4. (answering \cup late) \cap (rowed \cup sawLive \cup asked) = {}
      BY <1>1, KindsApart DEF TypeOK
    <3>5. \E k \in {1, 2, 3, 4, 5, 6, 7} :
             \A l \in {1, 2, 3, 4, 5, 6, 7} : i \in Places[l] <=> l = k
      BY <1>1, <3>1, <3>2, <3>3, <3>4 DEF Sorted, Apart, HeldItems
    <3>6. PICK k \in DOMAIN Places : At(i) = {k}
      BY <2>1, <3>5
    <3> QED
      BY <3>6, FS_Singleton
  <2>3. ASSUME NEW i \in Item, Cardinality(At(i)) = 1 PROVE fate[i] = "pending"
    <3>1. At(i) # {}
      BY <2>3, FS_EmptySet
    <3>2. i \in Waiting
      BY <3>1 DEF Waiting
    <3> QED
      BY <1>1, <3>2, WaitingPending DEF Pending
  <2> QED
    BY <2>2, <2>3 DEF OnePlace
<1>2. TypeOK /\ Sorted /\ NotLost => OnePlace
  BY <1>1
<1> QED
  BY <1>2, TypeCorrect, SortedHolds, NotLostHolds, PTL

-----------------------------------------------------------------------------
(***************************************************************************)
(* The refinement: the inbox, the wake's two queues, the waiter threads,   *)
(* the window's map and the requests together are Delivery's waiting set.  *)
(***************************************************************************)

(* The structures hold what is pending, all of it. *)
LEMMA WaitingIsPending == Sorted /\ NotLost => Waiting = Pending
  BY WaitingPending, WaitingIs DEF NotLost, Requested

(* A step of the session is a step of the promise: what it sends and lands *)
(* arrives, what it answers, announces or drops is settled.                *)
LEMMA StepDelivers ==
    ASSUME Waiting = Pending, Waiting' = Pending', SettledStay
    PROVE  Promise!Step
<1> DEFINE arriving == {i \in Item : fate[i] = "new" /\ fate'[i] # "new"}
           done == Settled' \ Settled
<1>1. arriving \subseteq Promise!Unseen
  BY DEF Promise!Unseen, Pending, Settled
<1>2. done \subseteq Waiting \cup arriving
  BY DEF Pending, Settled
<1>3. Waiting' = (Waiting \cup arriving) \ done
  BY DEF SettledStay, Pending, Settled
<1>4. Settled' = Settled \cup done
  BY DEF SettledStay, Settled
<1> HIDE DEF arriving, done
<1> QED
  BY <1>1, <1>2, <1>3, <1>4 DEF Promise!Step

(* A calm session keeps Delivery's promise: everything that is accepted    *)
(* waits until it is settled, and is settled once.                         *)
THEOREM KeepsPromise == ASSUME Calm PROVE Spec => DeliversOnce
<1>1. Init => Promise!Init
  BY WaitingIs DEF Init, InboxInit, WakeInit, TaskInit, HeldItems, Requested, Settled, Promise!Init
<1>2. (Sorted /\ NotLost => Waiting = Pending)'
  BY WaitingIsPending, PTL
<1>3. ASSUME TypeOK, Attended, Sorted, NotLost, Sorted', NotLost', [Next]_vars PROVE Promise!Step
  <2>1. SettledStay
    BY <1>3, SettledKept
  <2> QED
    BY <1>2, <1>3, <2>1, WaitingIsPending, StepDelivers
<1>4. TypeOK /\ Attended /\ Sorted /\ NotLost /\ Sorted' /\ NotLost' /\ [Next]_vars =>
        [Promise!Step]_<<Waiting, Settled>>
  BY <1>3
<1> QED
  BY <1>1, <1>4, TypeCorrect, AttendedHolds, SortedHolds, NotLostHolds, PTL
  DEF Spec, DeliversOnce, Promise!Spec

-----------------------------------------------------------------------------
(* A calm session without background commands, whose turns do not return   *)
(* on their own poll of the client: the other two ways in which an entry   *)
(* is left behind in the inbox of a free session.                          *)
Quiet == Calm /\ ~Leaves /\ Results = {}

(* A turn that is about to give its slot up leaves nothing in the inbox,   *)
(* or waits at a card for the continuation that reads it.                  *)
LastLooks ==
    /\ closed => inbox = {}
    /\ \A t \in Turn :
          /\ pc[t] # "quit"
          /\ slot = t => (pc[t] = "ending" => closed) /\ (pc[t] = "pausing" => paused)

Readers == InboxHasReader /\ LastLooks

(* Every step of a quiet session leaves what is queued with its reader. *)
LEMMA ReadersKept ==
    ASSUME Quiet, TypeOK, Orderly, Readers, [Next]_vars
    PROVE  Readers'
<1> USE NoTurnIsNoTurn
<1> USE DEF Quiet, Calm, TypeOK, Orderly, Beating, OwnsWork, CardAlone, Readers, InboxHasReader,
            LastLooks, Request, inboxVars, slotVars, wakeVars, taskVars, turnVars, storeVars,
            Phase, Working, Rounds, Finished, Goto, Over, KeepTurn, Move, Runs, Push, Drain,
            CloseAndTake, Reopen, Clear, Claim, IsLive, Accepts, Beat, Drop, Owns, Release, Begin,
            MaybeWake, YieldToChatTurn, WakeFinally, EmitRow, LookAtSlot, PushResult,
            CloseAndAnnounce, WakeOrQueue, StartWake, CancelWake, AskWindow
<1>1. CASE UNCHANGED vars
  BY <1>1 DEF vars
<1>2. ASSUME NEW m \in Users, Send(m) \/ SendMidTurn(m) PROVE Readers'
  <2>1. CASE Send(m)
    BY <2>1 DEF Send
  <2>2. CASE SendMidTurn(m)
    BY <2>2 DEF SendMidTurn
  <2> QED
    BY <1>2, <2>1, <2>2
<1>3. CASE AnswerCard
  BY <1>3 DEF AnswerCard
<1>4. CASE TryWake
  BY <1>4 DEF TryWake
<1>5. CASE ForgetWake
  BY <1>5 DEF ForgetWake
<1>6. CASE GoStale
  BY <1>6 DEF GoStale
<1>7. CASE Reset
  BY <1>7 DEF Reset
<1>8. ASSUME NEW q \in net, chat_endpoint(q) PROVE Readers'
  <2>1. CASE ServeSend(q)
    BY <2>1 DEF ServeSend
  <2>2. CASE ServeMidTurn(q)
    BY <2>2 DEF ServeMidTurn
  <2>3. CASE ServeWake(q)
    BY <2>3 DEF ServeWake
  <2>4. CASE ServeContinue(q)
    BY <2>4 DEF ServeContinue
  <2> QED
    BY <1>8, <2>1, <2>2, <2>3, <2>4 DEF chat_endpoint
<1>9. ASSUME NEW t \in Turn, TurnStep(t) PROVE Readers'
  <2>1. CASE Resolve(t)
    BY <2>1 DEF Resolve
  <2>2. CASE BeginRounds(t)
    BY <2>2 DEF BeginRounds
  <2>3. CASE FailSetup(t)
    BY <2>3 DEF FailSetup
  <2>4. CASE BeginRound(t)
    BY <2>4 DEF BeginRound
  <2>5. CASE CapReached(t)
    BY <2>5 DEF CapReached
  <2>6. CASE StartModel(t)
    BY <2>6 DEF StartModel
  <2>7. CASE LeaveSeen(t)
    BY <2>7 DEF LeaveSeen
  <2>8. CASE NextRound(t)
    BY <2>8 DEF NextRound
  <2>9. CASE CallTools(t)
    BY <2>9 DEF CallTools
  <2>10. CASE ToolsDone(t)
    BY <2>10 DEF ToolsDone
  <2>11. CASE Pause(t)
    BY <2>11 DEF Pause
  <2>12. CASE Answer(t)
    BY <2>12 DEF Answer
  <2>13. CASE GateBlocks(t)
    BY <2>13 DEF GateBlocks
  <2>14. CASE EndWithoutAnswer(t)
    BY <2>14 DEF EndWithoutAnswer
  <2>15. CASE LastLook(t)
    BY <2>15 DEF LastLook
  <2>16. CASE CloseTurn(t)
    BY <2>16 DEF CloseTurn
  <2>17. CASE FinishTurn(t)
    BY <2>17 DEF FinishTurn
  <2>18. CASE Unwind(t)
    BY <2>18 DEF Unwind
  <2> QED
    BY <1>9, <2>1, <2>2, <2>3, <2>4, <2>5, <2>6, <2>7, <2>8, <2>9,
       <2>10, <2>11, <2>12, <2>13, <2>14, <2>15, <2>16, <2>17, <2>18 DEF TurnStep
<1>10. ASSUME NEW t \in Turn, Stop(t) \/ Park(t) \/ Unpark(t) PROVE Readers'
  <2>1. CASE Stop(t)
    BY <2>1 DEF Stop
  <2>2. CASE Park(t)
    BY <2>2 DEF Park
  <2>3. CASE Unpark(t)
    BY <2>3 DEF Unpark
  <2> QED
    BY <1>10, <2>1, <2>2, <2>3
<1>11. ASSUME NEW r \in Reports, LandReport(r) PROVE Readers'
  <2>1. CASE LandReport(r)
    BY <2>1 DEF LandReport
  <2> QED
    BY <1>11, <2>1
<1>12. ASSUME NEW w \in Wake, WakeStep(w) PROVE Readers'
  <2>1. CASE EndWake(w)
    BY <2>1 DEF EndWake
  <2>2. CASE UnwindWake(w)
    BY <2>2 DEF UnwindWake
  <2> QED
    BY <1>12, <2>1, <2>2 DEF WakeStep
<1>13. ASSUME NEW r \in Results, FinishCommand(r) \/ Thread(r) PROVE Readers'
  <2>1. CASE FinishCommand(r)
    BY <2>1 DEF FinishCommand
  <2>2. CASE ReportResult(r)
    BY <2>2 DEF ReportResult
  <2>3. CASE DeliverResult(r)
    BY <2>3 DEF DeliverResult
  <2> QED
    BY <1>13, <2>1, <2>2, <2>3 DEF Thread
<1> QED
  BY <1>1, <1>2, <1>3, <1>4, <1>5, <1>6, <1>7, <1>8, <1>9, <1>10, <1>11, <1>12, <1>13 DEF Next, Serve

(* In a quiet session what is queued has a turn that can read it: the one  *)
(* that holds the slot, or the one that waits at an approval card.         *)
THEOREM QueuedIsRead == ASSUME Quiet PROVE Spec => []InboxHasReader
<1>1. Init => Readers
  BY DEF Init, InboxInit, SlotInit, Readers, InboxHasReader, LastLooks
<1>2. TypeOK /\ Orderly /\ Readers /\ [Next]_vars => Readers'
  BY ReadersKept
<1>3. Readers => InboxHasReader
  BY DEF Readers
<1>4. Calm
  BY DEF Quiet
<1> QED
  BY <1>1, <1>2, <1>3, <1>4, TypeCorrect, OrderlyHolds, PTL DEF Spec
=============================================================================
