------------------------- MODULE AgentQueue_proofs -------------------------
(***************************************************************************)
(* Proofs about the semaphore of AgentRuns (server/tasks/agents.py): at    *)
(* most Slots of the wrapped runs are inside it, the queue lists exactly   *)
(* the runs that wait, and with it every variable keeps its type.  And     *)
(* about the runs of one agent: which of them may be alive at once.        *)
(***************************************************************************)
EXTENDS AgentRuns_proofs, SequenceTheorems

(* The queue lists the runs that wait for the semaphore, each of them once *)
(* and all of them wrapped ones.                                           *)
Listed ==
    /\ queue \in Seq(Run)
    /\ \A k \in 1..Len(queue) : run[queue[k]].pc = "queued" /\ Wrapped(queue[k])
    /\ \A j, k \in 1..Len(queue) : queue[j] = queue[k] => j = k
    /\ \A r \in Run : run[r].pc = "queued" => \E k \in 1..Len(queue) : queue[k] = r

(* At most DETACHED_CONCURRENCY of them are at work.                       *)
WithinSlots == Cardinality(Holding) <= Slots

Counted == sent \in 0..MaxSent /\ boots \in 0..MaxBoots

QInv == Listed /\ WithinSlots /\ Counted

-----------------------------------------------------------------------------
(* A step after which no run has come to the semaphore or left the queue.  *)
Apart(r) ==
    /\ run'[r].pc = "queued" <=> run[r].pc = "queued"
    /\ run[r].pc = "queued" => run'[r].how = run[r].how
    /\ r \in Holding' => r \in Holding

Elsewhere == queue' = queue /\ \A r \in Run : Apart(r)

(* Holding is a finite set.                                                *)
LEMMA HoldingFinite == IsFiniteSet(Holding)
<1>1. Holding \subseteq 1..MaxRuns
  BY DEF Holding, Run
<1>2. IsFiniteSet(1..MaxRuns)
  BY Bounds, FS_Interval
<1> QED
  BY <1>1, <1>2, FS_Subset

(* Fewer runs inside are no more than allowed.                             *)
LEMMA FewerHold ==
    ASSUME WithinSlots, Holding' \subseteq Holding
    PROVE  WithinSlots'
<1>1. Cardinality(Holding') <= Cardinality(Holding)
  BY HoldingFinite, FS_Subset
<1>2. IsFiniteSet(Holding')
  BY HoldingFinite, FS_Subset
<1>3. Cardinality(Holding) \in Nat /\ Cardinality(Holding') \in Nat
  BY <1>2, HoldingFinite, FS_CardinalityType
<1> QED
  BY <1>1, <1>3, Bounds DEF WithinSlots

(* Such a step leaves the queue and the semaphore right.                   *)
LEMMA ElsewhereKept ==
    ASSUME Listed, WithinSlots, Elsewhere
    PROVE  Listed' /\ WithinSlots'
<1>1. Holding' \subseteq Holding
  BY DEF Elsewhere, Apart, Holding
<1>2. ASSUME NEW k \in 1..Len(queue)
      PROVE  run'[queue[k]].pc = "queued" /\ Wrapped(queue[k])'
  <2>1. queue[k] \in Run
    BY ElementOfSeq DEF Listed
  <2>2. run[queue[k]].pc = "queued" /\ Wrapped(queue[k])
    BY DEF Listed
  <2> QED
    BY <2>1, <2>2 DEF Elsewhere, Apart, Wrapped
<1>3. Listed'
  BY <1>2 DEF Listed, Elsewhere, Apart
<1> QED
  BY <1>1, <1>3, FewerHold

(* A step of one run that neither comes from the queue nor goes to it or   *)
(* into the semaphore.                                                     *)
LEMMA OneApart ==
    ASSUME Typed, NEW r \in Run, NEW d, run' = [run EXCEPT ![r] = d], queue' = queue,
           run[r].pc # "queued", d.pc # "queued",
           d.how = run[r].how,
           d.pc \in {"ahead", "fork", "setup", "ready", "work", "harvest", "tidy"}
             => run[r].pc \in {"ahead", "fork", "setup", "ready", "work", "harvest", "tidy"}
    PROVE  Elsewhere
<1>1. \A s \in Run : run'[s] = IF s = r THEN d ELSE run[s]
  BY DEF Typed
<1> QED
  BY <1>1 DEF Elsewhere, Apart, Holding, Wrapped

(* The rounds of a run and its ends stay inside the semaphore or leave it. *)
LEMMA RunsApart ==
    ASSUME Typed, NEW r \in Run,
           \/ stream_run(r) \/ PreflightFails(r) \/ Open(r, "open") \/ Open(r, "none")
           \/ (\E made \in BOOLEAN : Forked(r, made)) \/ Receive(r) \/ RoundStart(r)
           \/ ServeFails(r) \/ RunRaises(r) \/ (\E v \in {"completed", "failed"} : RunEnds(r, v))
           \/ Brought(r) \/ CancelledUnborn(r) \/ CancelledInside(r)
    PROVE  Elsewhere
<1> DEFINE c == run[r]
<1>1. c \in Coroutine
  BY DEF Typed
<1>2. Outside(r) \in {"closing", "over"}
  BY DEF Outside
<1>3. ASSUME NEW place, c.pc # "queued", place # "queued", queue' = queue,
             \E d : run' = [run EXCEPT ![r] = d] /\ d.pc = place /\ d.how = c.how,
             \/ place \in {"made", "closing", "over"}
             \/ c.pc \in {"ahead", "fork", "setup", "ready", "work", "harvest", "tidy"}
      PROVE  Elsewhere
  BY <1>3, OneApart
<1>4. CASE stream_run(r)
  <2>1. c.pc = "frame" /\ queue' = queue /\ run' = [run EXCEPT ![r] = [c EXCEPT !.pc = "made"]]
    BY <1>4 DEF stream_run, At
  <2>2. [c EXCEPT !.pc = "made"].pc = "made" /\ [c EXCEPT !.pc = "made"].how = c.how
    BY <1>1 DEF Coroutine
  <2> HIDE DEF c
  <2> QED
    BY <1>3, <2>1, <2>2
<1>5. CASE Receive(r) \/ RoundStart(r)
  <2>1. PICK p \in {"ready", "work"} :
          c.pc \in {"setup", "ready"} /\ queue' = queue /\ run' = [run EXCEPT ![r] = [c EXCEPT !.pc = p]]
    BY <1>5 DEF Receive, RoundStart, At
  <2>2. [c EXCEPT !.pc = p].pc = p /\ [c EXCEPT !.pc = p].how = c.how
    BY <1>1 DEF Coroutine
  <2> HIDE DEF c
  <2> QED
    BY <1>3, <2>1, <2>2
<1>6. CASE PreflightFails(r)
  <2> DEFINE d == [c EXCEPT !.pc = Outside(r), !.end = "failed", !.text = r]
  <2>1. c.pc = "ahead" /\ queue' = queue /\ run' = [run EXCEPT ![r] = d]
    BY <1>6 DEF PreflightFails, At, Typed
  <2>2. d.pc = Outside(r) /\ d.how = c.how
    BY <1>1 DEF Coroutine
  <2> HIDE DEF c, d
  <2> QED
    BY <1>2, <1>3, <2>1, <2>2
<1>7. ASSUME NEW jrn, Open(r, jrn) PROVE Elsewhere
  <2> DEFINE p == IF c.iso THEN "fork" ELSE "setup"
             d == [c EXCEPT !.pc = p, !.jrn = jrn]
  <2>1. c.pc = "ahead" /\ queue' = queue /\ run' = [run EXCEPT ![r] = d]
    BY <1>7 DEF Open, At, Typed
  <2>2. d.pc = p /\ d.how = c.how
    BY <1>1 DEF Coroutine
  <2>3. p # "queued"
    OBVIOUS
  <2> HIDE DEF c, d, p
  <2> QED
    BY <1>3, <2>1, <2>2, <2>3
<1>8. ASSUME NEW made, Forked(r, made) PROVE Elsewhere
  <2> DEFINE d == [c EXCEPT !.pc = "setup", !.iso = made]
  <2>1. c.pc = "fork" /\ queue' = queue /\ run' = [run EXCEPT ![r] = d]
    BY <1>8 DEF Forked, At, Typed
  <2>2. d.pc = "setup" /\ d.how = c.how
    BY <1>1 DEF Coroutine
  <2> HIDE DEF c, d
  <2> QED
    BY <1>3, <2>1, <2>2
<1>9. ASSUME NEW place \in {"harvest", "tidy"}, NEW jrn, NEW v, NEW text, Ended(r, place, jrn, v, text),
             c.pc \in {"setup", "ready", "work"}, queue' = queue
      PROVE  Elsewhere
  <2> DEFINE p == IF c.iso THEN place ELSE Outside(r)
             d == [c EXCEPT !.pc = p, !.hit = FALSE, !.jrn = jrn, !.end = v, !.text = text]
  <2>1. run' = [run EXCEPT ![r] = d]
    BY <1>9 DEF Ended, Typed
  <2>2. d.pc = p /\ d.how = c.how
    BY <1>1 DEF Coroutine
  <2>3. p # "queued"
    BY <1>2
  <2> HIDE DEF c, d, p
  <2> QED
    BY <1>3, <1>9, <2>1, <2>2, <2>3
<1>10. CASE ServeFails(r)
  <2>1. c.pc = "ready" /\ queue' = queue /\ Ended(r, "harvest", c.jrn, "failed", r)
    BY <1>10 DEF ServeFails, At
  <2> QED
    BY <1>9, <2>1
<1>11. CASE \E v \in {"completed", "failed"} : RunEnds(r, v)
  <2>1. PICK v \in {"completed", "failed"} :
          c.pc = "work" /\ queue' = queue /\ Ended(r, "harvest", JournalEnd(r), v, r)
    BY <1>11 DEF RunEnds, At
  <2> QED
    BY <1>9, <2>1
<1>12. CASE RunRaises(r) \/ CancelledInside(r)
  <2>1. PICK v, text : c.pc \in {"setup", "ready", "work"} /\ Abort(r, v, text)
    BY <1>12 DEF RunRaises, CancelledInside
  <2>2. queue' = queue /\ Ended(r, "tidy", JournalEnd(r), v, text)
    BY <2>1 DEF Abort
  <2> QED
    BY <1>9, <2>1, <2>2
<1>13. CASE Brought(r)
  <2>1. PICK text : /\ c.pc \in {"harvest", "tidy"} /\ queue' = queue
                    /\ run' = [run EXCEPT ![r] = [c EXCEPT !.pc = Outside(r), !.hit = FALSE, !.text = text]]
    BY <1>13 DEF Brought, Typed
  <2>2. /\ [c EXCEPT !.pc = Outside(r), !.hit = FALSE, !.text = text].pc = Outside(r)
        /\ [c EXCEPT !.pc = Outside(r), !.hit = FALSE, !.text = text].how = c.how
    BY <1>1 DEF Coroutine
  <2> HIDE DEF c
  <2> QED
    BY <1>2, <1>3, <2>1, <2>2
<1>14. CASE CancelledUnborn(r)
  <2>1. PICK end : /\ c.pc = "made" /\ queue' = queue
                   /\ run' = [run EXCEPT ![r] = [c EXCEPT !.pc = "over", !.hit = FALSE, !.end = end]]
    BY <1>14 DEF CancelledUnborn, Typed
  <2>2. /\ [c EXCEPT !.pc = "over", !.hit = FALSE, !.end = end].pc = "over"
        /\ [c EXCEPT !.pc = "over", !.hit = FALSE, !.end = end].how = c.how
    BY <1>1 DEF Coroutine
  <2> HIDE DEF c
  <2> QED
    BY <1>3, <2>1, <2>2
<1> QED
  BY <1>4, <1>5, <1>6, <1>7, <1>8, <1>10, <1>11, <1>12, <1>13, <1>14

(* A step that leaves every run where it is, or takes one that is over     *)
(* further: nothing else counts.                                           *)
LEMMA OthersApart ==
    ASSUME queue' = queue,
           \A s \in Run : /\ run'[s].how = run[s].how
                          /\ run'[s].pc = run[s].pc
                             \/ (run[s].pc # "queued" /\ run'[s].pc \in {"made", "over", "left", "gone"})
    PROVE  Elsewhere
BY DEF Elsewhere, Apart, Holding, Wrapped

(* What is done with a run that is over, and a stream that goes.           *)
LEMMA HandsApart ==
    ASSUME Typed, NEW r \in Run, Finish(r) \/ DoneCallback(r) \/ StreamEnds(r) \/ Disconnect(r)
    PROVE  Elsewhere
<1> DEFINE c == run[r]
<1>1. c \in Coroutine
  BY DEF Typed
<1>2. ASSUME NEW d, queue' = queue, run' = [run EXCEPT ![r] = d], d.how = c.how,
             d.pc = c.pc \/ (c.pc # "queued" /\ d.pc \in {"over", "left", "gone"})
      PROVE  Elsewhere
  BY <1>2, OthersApart DEF Typed
<1>3. CASE Finish(r)
  <2> DEFINE d == [c EXCEPT !.pc = "over", !.hit = FALSE, !.said = "report"]
  <2>1. c.pc = "closing" /\ queue' = queue /\ run' = [run EXCEPT ![r] = d]
    BY <1>3 DEF Finish, Typed
  <2>2. d.pc = "over" /\ d.how = c.how
    BY <1>1 DEF Coroutine
  <2> HIDE DEF c, d
  <2> QED
    BY <1>2, <2>1, <2>2
<1>4. CASE DoneCallback(r)
  <2> DEFINE p == IF c.how = "stream" /\ c.said = "no" THEN "left" ELSE "gone"
  <2>1. c.pc = "over" /\ queue' = queue /\ run' = [run EXCEPT ![r] = [c EXCEPT !.pc = p]]
    BY <1>4 DEF DoneCallback
  <2>2. [c EXCEPT !.pc = p].pc = p /\ [c EXCEPT !.pc = p].how = c.how
    BY <1>1 DEF Coroutine
  <2>3. p \in {"left", "gone"}
    OBVIOUS
  <2> HIDE DEF c, p
  <2> QED
    BY <1>2, <2>1, <2>2, <2>3
<1>5. CASE StreamEnds(r)
  <2> DEFINE d == [c EXCEPT !.pc = "gone", !.said = "told"]
  <2>1. c.pc = "left" /\ queue' = queue /\ run' = [run EXCEPT ![r] = d]
    BY <1>5 DEF StreamEnds, Typed
  <2>2. d.pc = "gone" /\ d.how = c.how
    BY <1>1 DEF Coroutine
  <2> HIDE DEF c, d
  <2> QED
    BY <1>2, <2>1, <2>2
<1>6. CASE Disconnect(r)
  <2>1. queue' = queue
    BY <1>6 DEF Disconnect
  <2>2. CASE c.pc = "frame" /\ run' = [run EXCEPT ![r].pc = "gone"]
    <3>1. run' = [run EXCEPT ![r] = [c EXCEPT !.pc = "gone"]]
      BY <2>2
    <3>2. [c EXCEPT !.pc = "gone"].pc = "gone" /\ [c EXCEPT !.pc = "gone"].how = c.how
      BY <1>1 DEF Coroutine
    <3> HIDE DEF c
    <3> QED
      BY <1>2, <2>1, <2>2, <3>1, <3>2
  <2>3. CASE run' = [run EXCEPT ![r].hit = TRUE, ![r].said = "told"]
    <3> DEFINE d == [c EXCEPT !.hit = TRUE, !.said = "told"]
    <3>1. run' = [run EXCEPT ![r] = d]
      BY <2>3 DEF Typed
    <3>2. d.pc = c.pc /\ d.how = c.how
      BY <1>1 DEF Coroutine
    <3> HIDE DEF c, d
    <3> QED
      BY <1>2, <2>1, <3>1, <3>2
  <2> QED
    BY <1>6, <2>2, <2>3 DEF Disconnect
<1> QED
  BY <1>3, <1>4, <1>5, <1>6

(* Stops, and the results of a team.                                       *)
LEMMA FlagsApart ==
    ASSUME Typed, \/ \E a \in Agent : cancel_task(a)
                  \/ \E t \in Team : TurnCancelled(t) \/ \E late \in BOOLEAN : TeamReads(t, late)
    PROVE  Elsewhere
<1>1. ASSUME NEW c \in Coroutine
      PROVE  [c EXCEPT !.hit = TRUE].pc = c.pc /\ [c EXCEPT !.hit = TRUE].how = c.how
  BY <1>1 DEF Coroutine
<1>2. ASSUME queue' = queue, \A s \in Run : run'[s] = run[s] \/ run'[s] = [run[s] EXCEPT !.hit = TRUE]
      PROVE  Elsewhere
  <2>1. \A s \in Run : run'[s].pc = run[s].pc /\ run'[s].how = run[s].how
    BY <1>1, <1>2 DEF Typed
  <2> QED
    BY <1>2, <2>1, OthersApart
<1>3. ASSUME NEW a \in Agent, cancel_task(a) PROVE Elsewhere
  <2>1. queue' = queue
    BY <1>3 DEF cancel_task
  <2>2. CASE \E r \in Run : run' = [run EXCEPT ![r].hit = TRUE]
    <3>1. \A s \in Run : run'[s] = run[s] \/ run'[s] = [run[s] EXCEPT !.hit = TRUE]
      BY <2>2 DEF Typed
    <3> QED
      BY <1>2, <2>1, <3>1
  <2>3. CASE \E t \in Team : run' = [r \in Run |-> IF r \in team[t].runs /\ ~Done(r)
                                                  THEN [run[r] EXCEPT !.hit = TRUE] ELSE run[r]]
    <3>1. \A s \in Run : run'[s] = run[s] \/ run'[s] = [run[s] EXCEPT !.hit = TRUE]
      BY <2>3
    <3> QED
      BY <1>2, <2>1, <3>1
  <2> QED
    BY <1>3, <2>2, <2>3 DEF cancel_task
<1>4. ASSUME NEW t \in Team, TurnCancelled(t) PROVE Elsewhere
  <2>1. queue' = queue /\ \A s \in Run : run'[s] = run[s] \/ run'[s] = [run[s] EXCEPT !.hit = TRUE]
    BY <1>4 DEF TurnCancelled
  <2> QED
    BY <1>2, <2>1
<1>5. ASSUME NEW t \in Team, NEW late \in BOOLEAN, TeamReads(t, late) PROVE Elsewhere
  <2>1. queue' = queue
    BY <1>5 DEF TeamReads
  <2>2. ASSUME NEW s \in Run
        PROVE  run'[s] = run[s] \/ \E text, said :
                  run'[s] = [run[s] EXCEPT !.pc = IF Done(s) THEN "gone" ELSE @, !.text = text, !.said = said]
    BY <1>5 DEF TeamReads
  <2>3. ASSUME NEW s \in Run
        PROVE  /\ run'[s].how = run[s].how
               /\ run'[s].pc = run[s].pc
                  \/ (run[s].pc # "queued" /\ run'[s].pc \in {"made", "over", "left", "gone"})
    <3>1. CASE run'[s] # run[s]
      <4>1. PICK text, said :
              run'[s] = [run[s] EXCEPT !.pc = IF Done(s) THEN "gone" ELSE @, !.text = text, !.said = said]
        BY <2>2, <3>1
      <4>2. run[s] \in Coroutine
        BY DEF Typed
      <4>3. run'[s].how = run[s].how /\ run'[s].pc = IF Done(s) THEN "gone" ELSE run[s].pc
        BY <4>1, <4>2 DEF Coroutine
      <4> QED
        BY <4>3 DEF Done
    <3> QED
      BY <3>1
  <2> QED
    BY <2>1, <2>3, OthersApart
<1> QED
  BY <1>3, <1>4, <1>5

(* Runs that start, and messages.                                          *)
LEMMA StartsApart ==
    ASSUME IInv,
           \/ \E a \in Agent :
                 \/ \E iso \in BOOLEAN : start_detached_agent(a, iso)
                 \/ subagent_stream(a) \/ send_message(a)
           \/ \E t \in Team, members \in SUBSET Agent, iso \in BOOLEAN : create_team(t, members, iso)
           \/ \E r \in Run : receive_messages(r)
           \/ UNCHANGED vars
    PROVE  Elsewhere
<1>1. Typed /\ Numbered
  BY DEF IInv, Base
<1>2. ASSUME queue' = queue, run' = run PROVE Elsewhere
  BY <1>2, OthersApart
<1>3. ASSUME queue' = queue,
             \A s \in Run : \/ run[s].pc = "unused" /\ run'[s].pc \in {"made", "frame"}
                            \/ run'[s].pc = run[s].pc /\ run'[s].how = run[s].how
      PROVE  Elsewhere
  BY <1>3 DEF Elsewhere, Apart, Holding, Wrapped
<1>4. ASSUME NEW d, NextRun \in Run, run' = [run EXCEPT ![NextRun] = d], d.pc \in {"made", "frame"},
             queue' = queue
      PROVE  Elsewhere
  <2>1. run[NextRun].pc = "unused"
    BY <1>1, <1>4, NextFacts
  <2>2. \A s \in Run : run'[s] = IF s = NextRun THEN d ELSE run[s]
    BY <1>1, <1>4 DEF Typed
  <2> HIDE DEF NextRun
  <2> QED
    BY <1>3, <1>4, <2>1, <2>2
<1>5. ASSUME NEW a \in Agent, NEW iso \in BOOLEAN, start_detached_agent(a, iso) PROVE Elsewhere
  <2> DEFINE d == [Unused EXCEPT !.pc = "made", !.agent = a, !.how = "detached", !.iso = iso]
  <2>1. NextRun \in Run /\ run' = [run EXCEPT ![NextRun] = d] /\ queue' = queue
    BY <1>5 DEF start_detached_agent
  <2>2. d.pc = "made"
    BY DEF Unused
  <2> HIDE DEF d
  <2> QED
    BY <1>4, <2>1, <2>2
<1>6. ASSUME NEW a \in Agent, subagent_stream(a) PROVE Elsewhere
  <2> DEFINE d == [Unused EXCEPT !.pc = "frame", !.agent = a, !.how = "stream"]
  <2>1. NextRun \in Run /\ run' = [run EXCEPT ![NextRun] = d] /\ queue' = queue
    BY <1>6 DEF subagent_stream
  <2>2. d.pc = "frame"
    BY DEF Unused
  <2> HIDE DEF d
  <2> QED
    BY <1>4, <2>1, <2>2
<1>7. ASSUME NEW a \in Agent, send_message(a) PROVE Elsewhere
  <2>1. queue' = queue
    BY <1>7 DEF send_message
  <2>2. CASE NextRun \in Run /\ resume_agent(a)
    <3>1. run[NextRun].pc = "unused"
      BY <1>1, <2>2, NextFacts
    <3>2. ASSUME NEW s \in Run
          PROVE  \/ run[s].pc = "unused" /\ run'[s].pc \in {"made", "frame"}
                 \/ run'[s].pc = run[s].pc /\ run'[s].how = run[s].how
      <4>1. CASE s = NextRun
        <5>1. run'[s].pc = "made"
          BY <2>2, <4>1 DEF resume_agent, Unused
        <5> QED
          BY <3>1, <4>1, <5>1
      <4>2. CASE s # NextRun
        <5>1. run'[s] = run[s] \/ run'[s] = [run[s] EXCEPT !.alone = FALSE]
          BY <2>2, <4>2 DEF resume_agent
        <5>2. run[s] \in Coroutine
          BY <1>1 DEF Typed
        <5> QED
          BY <5>1, <5>2 DEF Coroutine
      <4> QED
        BY <4>1, <4>2
    <3> QED
      BY <1>3, <2>1, <3>2
  <2>3. CASE run' = run
    BY <1>2, <2>1, <2>3
  <2> QED
    BY <1>7, <2>2, <2>3 DEF send_message
<1>8. ASSUME NEW t \in Team, NEW members \in SUBSET Agent, NEW iso \in BOOLEAN,
             create_team(t, members, iso)
      PROVE  Elsewhere
  <2> DEFINE new == NextRun..(NextRun + Cardinality(members) - 1)
  <2>1. /\ queue' = queue /\ new \subseteq Run
        /\ \A s \in Run \ new : run'[s] = run[s]
    BY <1>8 DEF create_team
  <2>2. \A s \in Run \cap new : run'[s].pc = "made"
    <3>1. PICK who : run' = [r \in Run |->
                               IF r \in new
                               THEN [Unused EXCEPT !.pc = "made", !.agent = who[r], !.how = "chat",
                                                   !.iso = iso, !.team = t]
                               ELSE run[r]]
      BY <1>8 DEF create_team
    <3> HIDE DEF new
    <3> QED
      BY <3>1 DEF Unused
  <2>3. \A s \in Run \cap new : run[s].pc = "unused"
    <3>1. PICK n \in 0..MaxRuns : Used = 1..n
      BY <1>1 DEF Numbered
    <3>2. Cardinality(1..n) = n
      BY <3>1, FS_Interval
    <3>3. NextRun = n + 1
      BY <3>1, <3>2 DEF NextRun
    <3>4. \A s \in new : s \notin Used
      BY <3>1, <3>3
    <3> QED
      BY <3>4 DEF Used
  <2> HIDE DEF new
  <2> QED
    BY <1>3, <2>1, <2>2, <2>3
<1>9. ASSUME NEW r \in Run, receive_messages(r) PROVE Elsewhere
  BY <1>2, <1>9 DEF receive_messages
<1>10. CASE UNCHANGED vars
  BY <1>2, <1>10 DEF vars
<1> QED
  BY <1>5, <1>6, <1>7, <1>8, <1>9, <1>10

-----------------------------------------------------------------------------
(* The queue.                                                              *)

(* A sequence without its k-th element.                                    *)
LEMMA WithoutOne ==
    ASSUME NEW S, NEW q \in Seq(S), NEW k \in 1..Len(q), NEW p,
           p = SubSeq(q, 1, k - 1) \o SubSeq(q, k + 1, Len(q))
    PROVE  /\ p \in Seq(S) /\ Len(p) = Len(q) - 1
           /\ \A i \in 1..Len(p) : p[i] = IF i < k THEN q[i] ELSE q[i + 1]
<1> DEFINE before == SubSeq(q, 1, k - 1)
           after == SubSeq(q, k + 1, Len(q))
<1>1. Len(q) \in Nat /\ k \in Nat /\ \A i \in 1..Len(q) : q[i] \in S
  BY LenProperties, ElementOfSeq
<1>2. before \in Seq(S) /\ Len(before) = k - 1 /\ \A i \in 1..(k - 1) : before[i] = q[i]
  <2>1. \A i \in 1..(k - 1) : q[i] \in S
    BY <1>1
  <2>2. /\ before \in Seq(S) /\ Len(before) = IF 1 <= k - 1 THEN (k - 1) - 1 + 1 ELSE 0
        /\ \A i \in 1..((k - 1) - 1 + 1) : before[i] = q[1 + i - 1]
    BY <1>1, <2>1, SubSeqProperties
  <2> HIDE DEF before
  <2> QED
    BY <1>1, <2>2
<1>3. /\ after \in Seq(S) /\ Len(after) = Len(q) - k
      /\ \A i \in 1..(Len(q) - k) : after[i] = q[k + i]
  <2>1. \A i \in (k + 1)..Len(q) : q[i] \in S
    BY <1>1
  <2>2. /\ after \in Seq(S) /\ Len(after) = IF k + 1 <= Len(q) THEN Len(q) - (k + 1) + 1 ELSE 0
        /\ \A i \in 1..(Len(q) - (k + 1) + 1) : after[i] = q[k + 1 + i - 1]
    BY <1>1, <2>1, SubSeqProperties
  <2> HIDE DEF after
  <2> QED
    BY <1>1, <2>2
<1>4. p = before \o after
  OBVIOUS
<1> HIDE DEF before, after
<1>5. /\ p \in Seq(S) /\ Len(p) = Len(before) + Len(after)
      /\ \A i \in 1..(Len(before) + Len(after)) :
            p[i] = IF i <= Len(before) THEN before[i] ELSE after[i - Len(before)]
  <2>1. /\ before \o after \in Seq(S) /\ Len(before \o after) = Len(before) + Len(after)
        /\ \A i \in 1..(Len(before) + Len(after)) :
             (before \o after)[i] = IF i <= Len(before) THEN before[i] ELSE after[i - Len(before)]
    BY ONLY <1>2, <1>3, ConcatProperties
  <2> QED
    BY ONLY <1>4, <2>1
<1>6. Len(p) = Len(q) - 1
  BY ONLY <1>1, <1>2, <1>3, <1>5, k \in 1..Len(q)
<1>7. ASSUME NEW i \in 1..Len(p) PROVE p[i] = IF i < k THEN q[i] ELSE q[i + 1]
  <2>1. i \in Nat /\ 1 <= i /\ i <= Len(q) - 1 /\ i \in 1..(Len(before) + Len(after))
    BY ONLY <1>1, <1>5, <1>6, i \in 1..Len(p)
  <2>2. CASE i < k
    <3>1. i \in 1..(k - 1) /\ i <= Len(before)
      BY <1>1, <1>2, <2>1, <2>2
    <3> QED
      BY <1>2, <1>5, <2>1, <2>2, <3>1
  <2>3. CASE ~(i < k)
    <3>1. ~(i <= Len(before)) /\ i - Len(before) = i - k + 1 /\ i - k + 1 \in 1..(Len(q) - k)
          /\ k + (i - k + 1) = i + 1
      BY <1>1, <1>2, <2>1, <2>3
    <3>2. p[i] = after[i - k + 1]
      BY ONLY <1>5, <2>1, <3>1
    <3>3. after[i - k + 1] = q[k + (i - k + 1)]
      BY ONLY <1>3, <3>1
    <3> QED
      BY <2>3, <3>1, <3>2, <3>3
  <2> QED
    BY <2>2, <2>3
<1> QED
  BY <1>5, <1>6, <1>7

(* The queue stays right when the run that leaves it is taken off it.      *)
LEMMA LeavesQueue ==
    ASSUME Listed, NEW k \in 1..Len(queue),
           queue' \in Seq(Run), Len(queue') = Len(queue) - 1,
           \A i \in 1..Len(queue') : queue'[i] = IF i < k THEN queue[i] ELSE queue[i + 1],
           \A s \in Run \ {queue[k]} : run'[s] = run[s],
           run'[queue[k]].pc # "queued"
    PROVE  Listed'
<1> DEFINE n == Len(queue)
<1>1. n \in Nat /\ k \in Nat /\ Len(queue') = n - 1 /\ \A i \in 1..n : queue[i] \in Run
  BY LenProperties, ElementOfSeq DEF Listed
<1>2. /\ \A i \in 1..n : run[queue[i]].pc = "queued" /\ Wrapped(queue[i])
      /\ \A i, j \in 1..n : queue[i] = queue[j] => i = j
      /\ \A s \in Run : run[s].pc = "queued" => \E i \in 1..n : queue[i] = s
  BY DEF Listed
<1> HIDE DEF n
<1>3. ASSUME NEW i \in 1..(n - 1)
      PROVE  \E j \in 1..n : j # k /\ queue'[i] = queue[j] /\ (j = IF i < k THEN i ELSE i + 1)
  BY <1>1
<1>4. \A i \in 1..(n - 1) :
        run'[queue'[i]].pc = "queued" /\ run'[queue'[i]].how \in {"detached", "resumed"}
  <2> TAKE i \in 1..(n - 1)
  <2>1. PICK j \in 1..n : j # k /\ queue'[i] = queue[j]
    BY <1>3
  <2>2. queue[j] \in Run \ {queue[k]}
    BY <1>1, <1>2, <2>1 DEF n
  <2>3. run'[queue[j]] = run[queue[j]] /\ run[queue[j]].pc = "queued" /\ Wrapped(queue[j])
    BY <1>2, <2>2
  <2> QED
    BY <2>1, <2>3 DEF Wrapped
<1>5. \A i, j \in 1..(n - 1) : queue'[i] = queue'[j] => i = j
  <2> SUFFICES ASSUME NEW i \in 1..(n - 1), NEW j \in 1..(n - 1), queue'[i] = queue'[j]
               PROVE  i = j
    OBVIOUS
  <2>1. PICK a \in 1..n : queue'[i] = queue[a] /\ a = IF i < k THEN i ELSE i + 1
    BY <1>3
  <2>2. PICK b \in 1..n : queue'[j] = queue[b] /\ b = IF j < k THEN j ELSE j + 1
    BY <1>3
  <2>3. \A x, y \in 1..n : queue[x] = queue[y] => x = y
    BY <1>2
  <2>4. queue[a] = queue[b]
    BY <2>1, <2>2
  <2>5. a = b
    BY ONLY <2>3, <2>4, a \in 1..n, b \in 1..n
  <2> QED
    BY <1>1, <2>1, <2>2, <2>5
<1>6. ASSUME NEW s \in Run, run'[s].pc = "queued" PROVE \E i \in 1..(n - 1) : queue'[i] = s
  <2>1. s # queue[k] /\ run[s].pc = "queued"
    BY <1>6
  <2>2. PICK j \in 1..n : queue[j] = s
    BY <1>2, <2>1
  <2>3. j # k
    BY <2>1, <2>2
  <2>4. PICK i \in 1..(n - 1) : i = IF j < k THEN j ELSE j - 1
    BY <1>1, <2>3 DEF n
  <2>5. queue'[i] = queue[j]
    BY <1>1, <2>3, <2>4
  <2> QED
    BY <2>2, <2>5
<1> QED
  BY <1>1, <1>4, <1>5, <1>6 DEF Listed, Wrapped

(* A run that finds the semaphore taken joins the end of the queue.        *)
LEMMA JoinsQueue ==
    ASSUME Listed, NEW r \in Run, queue' = Append(queue, r), run[r].pc # "queued", Wrapped(r)',
           run'[r].pc = "queued", \A s \in Run \ {r} : run'[s] = run[s]
    PROVE  Listed'
<1> DEFINE n == Len(queue)
<1>1. n \in Nat /\ \A i \in 1..n : queue[i] \in Run
  BY LenProperties, ElementOfSeq DEF Listed
<1>2. /\ queue' \in Seq(Run) /\ Len(queue') = n + 1 /\ queue'[n + 1] = r
      /\ \A i \in 1..n : queue'[i] = queue[i]
  BY AppendProperties DEF Listed
<1>3. /\ \A i \in 1..n : run[queue[i]].pc = "queued" /\ Wrapped(queue[i])
      /\ \A i, j \in 1..n : queue[i] = queue[j] => i = j
      /\ \A s \in Run : run[s].pc = "queued" => \E i \in 1..n : queue[i] = s
  BY DEF Listed
<1> HIDE DEF n
<1>4. \A i \in 1..n : queue[i] # r
  BY <1>3
<1>5. ASSUME NEW i \in 1..(n + 1) 
      PROVE  run'[queue'[i]].pc = "queued" /\ run'[queue'[i]].how \in {"detached", "resumed"}
  <2>1. CASE i = n + 1
    BY <1>2, <2>1 DEF Wrapped
  <2>2. CASE i \in 1..n
    <3>1. queue'[i] = queue[i] /\ run'[queue[i]] = run[queue[i]]
      BY <1>1, <1>2, <1>4, <2>2
    <3> QED
      BY <1>3, <2>2, <3>1 DEF Wrapped
  <2>3. i = n + 1 \/ i \in 1..n
    BY ONLY <1>1, i \in 1..(n + 1)
  <2> QED
    BY <2>1, <2>2, <2>3
<1>6. \A i, j \in 1..(n + 1) : queue'[i] = queue'[j] => i = j
  <2> SUFFICES ASSUME NEW i \in 1..(n + 1), NEW j \in 1..(n + 1), queue'[i] = queue'[j]
               PROVE  i = j
    OBVIOUS
  <2>1. (i \in 1..n \/ i = n + 1) /\ (j \in 1..n \/ j = n + 1)
    BY <1>1
  <2> QED
    BY <1>2, <1>3, <1>4, <2>1
<1>7. ASSUME NEW s \in Run, run'[s].pc = "queued" PROVE \E i \in 1..(n + 1) : queue'[i] = s
  <2>1. CASE s = r
    BY <1>1, <1>2, <2>1
  <2>2. CASE s # r
    <3>1. PICK i \in 1..n : queue[i] = s
      BY <1>3, <1>7, <2>2
    <3>2. i \in 1..(n + 1)
      BY <1>1
    <3> QED
      BY <1>2, <3>1, <3>2
  <2> QED
    BY <2>1, <2>2
<1> QED
  BY <1>2, <1>5, <1>6, <1>7 DEF Listed, Wrapped

(* One more inside, when there was room.                                   *)
LEMMA OneMoreHolds ==
    ASSUME Cardinality(Holding) < Slots, NEW r, Holding' \subseteq Holding \cup {r}
    PROVE  WithinSlots'
<1>1. Cardinality(Holding \cup {r}) <= Cardinality(Holding) + 1 /\ IsFiniteSet(Holding \cup {r})
  <2>1. Cardinality(Holding) \in Nat
    BY HoldingFinite, FS_CardinalityType
  <2> QED
    BY <2>1, HoldingFinite, FS_AddElement
<1>2. Cardinality(Holding') <= Cardinality(Holding \cup {r}) /\ IsFiniteSet(Holding')
  BY <1>1, FS_Subset
<1>3. /\ Cardinality(Holding) \in Nat /\ Cardinality(Holding \cup {r}) \in Nat
      /\ Cardinality(Holding') \in Nat
  BY <1>1, <1>2, HoldingFinite, FS_CardinalityType
<1> QED
  BY <1>1, <1>2, <1>3, Bounds DEF WithinSlots

(* The step of a run to another place, and what that does to Holding.      *)
LEMMA Placed ==
    ASSUME Typed, NEW r \in Run, NEW p, run' = [run EXCEPT ![r].pc = p]
    PROVE  /\ run'[r].pc = p /\ run'[r].how = run[r].how
           /\ \A s \in Run \ {r} : run'[s] = run[s]
           /\ Holding' \subseteq Holding \cup {r}
           /\ (p = "queued" \/ ~Wrapped(r)) => Holding' \subseteq Holding
<1>1. run'[r] = [run[r] EXCEPT !.pc = p] /\ \A s \in Run \ {r} : run'[s] = run[s]
  BY DEF Typed
<1>2. run[r] \in Coroutine
  BY DEF Typed
<1>3. run'[r].pc = p /\ run'[r].how = run[r].how
  BY <1>1, <1>2 DEF Coroutine
<1> QED
  BY <1>1, <1>3 DEF Holding, Wrapped

(* A run that begins takes a place, or waits behind the others.            *)
LEMMA BeginKept ==
    ASSUME Typed, Listed, WithinSlots, NEW r \in Run, Begin(r)
    PROVE  Listed' /\ WithinSlots'
<1>1. run[r].pc = "made"
  BY DEF Begin, At
<1>2. CASE /\ Wrapped(r)
           /\ run' = [run EXCEPT ![r].pc = "queued"] /\ queue' = Append(queue, r)
  <2>1. /\ run'[r].pc = "queued" /\ run'[r].how = run[r].how
        /\ \A s \in Run \ {r} : run'[s] = run[s] /\ Holding' \subseteq Holding
    BY <1>2, Placed
  <2>2. Holding' \subseteq Holding
    BY <1>2, Placed
  <2>3. Wrapped(r)'
    BY <1>2, <2>1 DEF Wrapped
  <2> QED
    BY <1>1, <1>2, <2>1, <2>2, <2>3, JoinsQueue, FewerHold
<1>3. CASE /\ ~(Wrapped(r) /\ (queue # <<>> \/ Cardinality(Holding) >= Slots))
           /\ run' = [run EXCEPT ![r].pc = "ahead"] /\ queue' = queue
  <2>1. /\ run'[r].pc = "ahead" /\ run'[r].how = run[r].how
        /\ \A s \in Run \ {r} : run'[s] = run[s]
        /\ Holding' \subseteq Holding \cup {r}
        /\ ~Wrapped(r) => Holding' \subseteq Holding
    BY <1>3, Placed
  <2>2. Listed'
    <3>1. ASSUME NEW k \in 1..Len(queue) PROVE run'[queue[k]].pc = "queued" /\ Wrapped(queue[k])'
      <4>1. queue[k] \in Run /\ run[queue[k]].pc = "queued" /\ Wrapped(queue[k])
        BY ElementOfSeq DEF Listed
      <4>2. run'[queue[k]] = run[queue[k]]
        BY <1>1, <2>1, <4>1
      <4> QED
        BY <1>3, <4>1, <4>2 DEF Wrapped
    <3>2. \A s \in Run : run'[s].pc = "queued" => run[s].pc = "queued"
      BY <2>1
    <3> QED
      BY <1>3, <3>1, <3>2 DEF Listed
  <2>3. WithinSlots'
    <3>1. CASE Wrapped(r)
      <4>1. Cardinality(Holding) < Slots
        <5>1. Cardinality(Holding) \in Nat
          BY HoldingFinite, FS_CardinalityType
        <5> QED
          BY <1>3, <3>1, <5>1, Bounds
      <4> QED
        BY <2>1, <4>1, OneMoreHolds
    <3>2. CASE ~Wrapped(r)
      BY <2>1, <3>2, FewerHold
    <3> QED
      BY <3>1, <3>2
  <2> QED
    BY <2>2, <2>3
<1> QED
  BY <1>2, <1>3 DEF Begin

(* The semaphore is handed to the first in the queue.                      *)
LEMMA AdmitKept ==
    ASSUME Typed, Listed, NEW r \in Run, Admit(r)
    PROVE  Listed' /\ WithinSlots'
<1>1. /\ run[r].pc = "queued" /\ Head(queue) = r /\ Cardinality(Holding) < Slots
      /\ run' = [run EXCEPT ![r].pc = "ahead"] /\ queue' = Tail(queue)
  BY DEF Admit, At
<1>2. /\ run'[r].pc = "ahead" /\ \A s \in Run \ {r} : run'[s] = run[s]
      /\ Holding' \subseteq Holding \cup {r}
  BY <1>1, Placed
<1>3. Len(queue) \in Nat /\ \E k \in 1..Len(queue) : queue[k] = r
  BY <1>1, LenProperties DEF Listed
<1>4. queue # <<>> /\ 1 \in 1..Len(queue) /\ queue[1] = r
  <2>1. Len(queue) # 0
    BY <1>3
  <2>2. queue # <<>>
    BY <2>1
  <2> QED
    BY <1>1, <1>3, <2>1, <2>2 DEF Listed
<1>5. /\ queue' \in Seq(Run) /\ Len(queue') = Len(queue) - 1
      /\ \A i \in 1..Len(queue') : queue'[i] = queue[i + 1]
  BY <1>1, <1>4, HeadTailProperties DEF Listed
<1>6. \A i \in 1..Len(queue') : queue'[i] = IF i < 1 THEN queue[i] ELSE queue[i + 1]
  BY <1>3, <1>5
<1>7. Listed'
  <2>1. run'[queue[1]].pc # "queued" /\ \A s \in Run \ {queue[1]} : run'[s] = run[s]
    BY <1>2, <1>4
  <2> QED
    BY <1>4, <1>5, <1>6, <2>1, LeavesQueue
<1> QED
  BY <1>1, <1>2, <1>7, OneMoreHolds

(* A cancelled run takes itself off the queue, or gives its place back.    *)
LEMMA CancelKept ==
    ASSUME Typed, Listed, WithinSlots, NEW r \in Run, CancelledAhead(r)
    PROVE  Listed' /\ WithinSlots'
<1> DEFINE d == [run[r] EXCEPT !.pc = Outside(r), !.hit = FALSE, !.end = "stopped",
                              !.text = rec[Who(r)].report]
<1>1. run[r].pc \in {"queued", "ahead", "fork"} /\ run' = [run EXCEPT ![r] = d]
  BY DEF CancelledAhead, Typed
<1>2. d.pc \in {"closing", "over"} /\ d.how = run[r].how
  <2>1. d.pc = Outside(r) /\ d.how = run[r].how
    BY DEF Typed, Coroutine
  <2> QED
    BY <2>1 DEF Outside
<1> HIDE DEF d
<1>3. run'[r] = d /\ \A s \in Run \ {r} : run'[s] = run[s]
  BY <1>1 DEF Typed
<1>4. Holding' \subseteq Holding
  BY <1>2, <1>3 DEF Holding, Wrapped
<1>5. CASE run[r].pc = "queued"
  <2>1. PICK k \in DOMAIN queue :
          queue[k] = r /\ queue' = SubSeq(queue, 1, k - 1) \o SubSeq(queue, k + 1, Len(queue))
    BY <1>5 DEF CancelledAhead
  <2>2. k \in 1..Len(queue)
    BY LenProperties DEF Listed
  <2>3. /\ queue' \in Seq(Run) /\ Len(queue') = Len(queue) - 1
        /\ \A i \in 1..Len(queue') : queue'[i] = IF i < k THEN queue[i] ELSE queue[i + 1]
    <3>1. queue \in Seq(Run)
      BY DEF Listed
    <3>2. \A p : p = SubSeq(queue, 1, k - 1) \o SubSeq(queue, k + 1, Len(queue)) =>
             /\ p \in Seq(Run) /\ Len(p) = Len(queue) - 1
             /\ \A i \in 1..Len(p) : p[i] = IF i < k THEN queue[i] ELSE queue[i + 1]
      BY ONLY <2>2, <3>1, WithoutOne
    <3>3. queue' = SubSeq(queue, 1, k - 1) \o SubSeq(queue, k + 1, Len(queue))
      BY <2>1
    <3> QED
      BY ONLY <3>2, <3>3
  <2>4. run'[queue[k]].pc # "queued" /\ \A s \in Run \ {queue[k]} : run'[s] = run[s]
    BY <1>2, <1>3, <2>1
  <2>5. Listed'
    BY <2>2, <2>3, <2>4, LeavesQueue
  <2> QED
    BY <1>4, <2>5, FewerHold
<1>6. CASE run[r].pc # "queued"
  <2>1. queue' = queue
    BY <1>6 DEF CancelledAhead
  <2>2. Elsewhere
    BY <1>2, <1>3, <1>4, <1>6, <2>1 DEF Elsewhere, Apart
  <2> QED
    BY <2>2, ElsewhereKept
<1> QED
  BY <1>5, <1>6

(* A restart leaves nobody inside and nobody waiting.                      *)
LEMMA RestartEmpties ==
    ASSUME Typed, WithinSlots, Restart
    PROVE  Listed' /\ WithinSlots'
<1>1. \A s \in Run : run'[s].pc \in {"unused", "gone"}
  <2> TAKE s \in Run
  <2>1. CASE Live(s)
    BY <2>1 DEF Restart, Unused
  <2>2. CASE ~Live(s)
    BY <2>2 DEF Restart, Live
  <2> QED
    BY <2>1, <2>2
<1>2. Holding' \subseteq Holding
  BY <1>1 DEF Holding
<1>3. queue' = <<>> /\ <<>> \in Seq(Run) /\ Len(<<>>) = 0
  BY EmptySeq DEF Restart
<1>4. Listed'
  BY <1>1, <1>3 DEF Listed
<1> QED
  BY <1>2, <1>4, FewerHold

-----------------------------------------------------------------------------
(* The counters.                                                           *)
LEMMA CountedKept ==
    ASSUME Counted, [Next]_vars
    PROVE  Counted'
<1>1. ASSUME NEW a \in Agent, send_message(a) PROVE Counted'
  BY <1>1, Bounds DEF send_message, Counted
<1>2. ASSUME Restart PROVE Counted'
  <2>1. boots < MaxBoots /\ boots' = boots + 1 /\ sent' = sent
    BY <1>2 DEF Restart
  <2> QED
    BY <2>1, Bounds DEF Counted
<1>3. ASSUME sent' = sent, boots' = boots PROVE Counted'
  BY <1>3 DEF Counted
<1>4. ASSUME NEW r \in Run, run_agent(r) PROVE sent' = sent /\ boots' = boots
  BY <1>4 DEF run_agent, Begin, Admit, PreflightFails, Open, Forked, Receive, RoundStart, ServeFails,
              RunRaises, RunEnds, Brought, CancelledUnborn, CancelledAhead, CancelledInside, Abort
<1>5. ASSUME NEW r \in Run, HandOn(r) \/ receive_messages(r) \/ Disconnect(r)
      PROVE  sent' = sent /\ boots' = boots
  BY <1>5 DEF HandOn, stream_run, Finish, DoneCallback, StreamEnds, receive_messages, Disconnect
<1>6. ASSUME NEW a \in Agent,
             (\E iso \in BOOLEAN : start_detached_agent(a, iso)) \/ subagent_stream(a) \/ cancel_task(a)
      PROVE  sent' = sent /\ boots' = boots
  BY <1>6 DEF start_detached_agent, subagent_stream, cancel_task
<1>7. ASSUME NEW t \in Team,
             \/ \E members \in SUBSET Agent, iso \in BOOLEAN : create_team(t, members, iso)
             \/ (\E late \in BOOLEAN : TeamReads(t, late)) \/ TurnCancelled(t)
      PROVE  sent' = sent /\ boots' = boots
  BY <1>7 DEF create_team, TeamReads, TurnCancelled
<1>8. CASE UNCHANGED vars
  BY <1>3, <1>8 DEF vars
<1> QED
  BY <1>1, <1>2, <1>3, <1>4, <1>5, <1>6, <1>7, <1>8 DEF Next

(* Every step keeps the queue, the semaphore and the counters right.       *)
LEMMA QueueKept ==
    ASSUME IInv, QInv, [Next]_vars
    PROVE  QInv'
<1>1. Typed /\ Listed /\ WithinSlots /\ Counted
  BY DEF IInv, Base, QInv
<1>2. Counted'
  BY <1>1, CountedKept
<1>3. ASSUME Elsewhere PROVE Listed' /\ WithinSlots'
  BY <1>1, <1>3, ElsewhereKept
<1>4. ASSUME NEW r \in Run, run_agent(r) PROVE Listed' /\ WithinSlots'
  <2>1. CASE Begin(r)
    BY <1>1, <2>1, BeginKept
  <2>2. CASE Admit(r)
    BY <1>1, <2>2, AdmitKept
  <2>3. CASE CancelledAhead(r)
    BY <1>1, <2>3, CancelKept
  <2>4. CASE \/ PreflightFails(r) \/ Open(r, "open") \/ Open(r, "none")
             \/ (\E made \in BOOLEAN : Forked(r, made)) \/ Receive(r) \/ RoundStart(r)
             \/ ServeFails(r) \/ RunRaises(r) \/ (\E v \in {"completed", "failed"} : RunEnds(r, v))
             \/ Brought(r) \/ CancelledUnborn(r) \/ CancelledInside(r)
    <3>1. Elsewhere
      BY <1>1, <2>4, RunsApart
    <3> QED
      BY <1>3, <3>1
  <2> QED
    BY <1>4, <2>1, <2>2, <2>3, <2>4 DEF run_agent
<1>5. ASSUME NEW r \in Run, HandOn(r) \/ Disconnect(r) PROVE Listed' /\ WithinSlots'
  <2>1. Elsewhere
    BY <1>1, <1>5, RunsApart, HandsApart DEF HandOn
  <2> QED
    BY <1>3, <2>1
<1>6. ASSUME Restart PROVE Listed' /\ WithinSlots'
  BY <1>1, <1>6, RestartEmpties
<1>7. ASSUME \/ \E a \in Agent :
                   \/ \E iso \in BOOLEAN : start_detached_agent(a, iso)
                   \/ subagent_stream(a) \/ send_message(a)
             \/ \E t \in Team, members \in SUBSET Agent, iso \in BOOLEAN : create_team(t, members, iso)
             \/ \E r \in Run : receive_messages(r)
             \/ UNCHANGED vars
      PROVE  Listed' /\ WithinSlots'
  <2>1. Elsewhere
    BY <1>7, StartsApart
  <2> QED
    BY <1>3, <2>1
<1>8. ASSUME \/ \E a \in Agent : cancel_task(a)
             \/ \E t \in Team : TurnCancelled(t) \/ \E late \in BOOLEAN : TeamReads(t, late)
      PROVE  Listed' /\ WithinSlots'
  <2>1. Elsewhere
    BY <1>1, <1>8, FlagsApart
  <2> QED
    BY <1>3, <2>1
<1>9. Listed' /\ WithinSlots'
  BY <1>4, <1>5, <1>6, <1>7, <1>8 DEF Next
<1> QED
  BY <1>2, <1>9 DEF QInv

(* They are right in the beginning, so they always are.                    *)
LEMMA QueueHolds == Spec => [](IInv /\ QInv)
<1>1. Init => QInv
  <2> SUFFICES ASSUME Init PROVE QInv
    OBVIOUS
  <2>1. \A r \in Run : run[r].pc = "unused"
    BY DEF Init, Unused
  <2>2. Holding = {}
    BY <2>1 DEF Holding
  <2>3. WithinSlots
    BY <2>2, FS_EmptySet, Bounds DEF WithinSlots
  <2>4. queue = <<>> /\ <<>> \in Seq(Run) /\ Len(<<>>) = 0
    BY EmptySeq DEF Init
  <2>5. Listed
    BY <2>1, <2>4 DEF Listed
  <2>6. Counted
    BY Bounds DEF Init, Counted
  <2> QED
    BY <2>3, <2>5, <2>6 DEF QInv
<1>2. IInv /\ QInv /\ [Next]_vars => IInv' /\ QInv'
  BY StepKept, QueueKept
<1> QED
  BY <1>1, <1>2, InitHolds, PTL DEF Spec

-----------------------------------------------------------------------------
(* The runs of one agent.                                                  *)

(* Whoever comes after another run of its agent was resumed.               *)
Later == \A r, s \in Used : Who(r) = Who(s) /\ r < s => run[s].how = "resumed"

(* The agent of a run and how it was started stay what they are.           *)
SameRuns ==
    \A r \in Run :
       /\ run'[r].agent = run[r].agent /\ run'[r].how = run[r].how
       /\ run'[r].pc = "unused" <=> run[r].pc = "unused"

(* A step that starts no run keeps it.                                     *)
LEMMA SameKeepLater ==
    ASSUME Later, SameRuns
    PROVE  Later'
BY DEF Later, SameRuns, Used, Who

(* A step of one run.                                                      *)
LEMMA LocalSame ==
    ASSUME NEW r \in Run, Local(r)
    PROVE  SameRuns
BY DEF Local, Step, SameRuns, Live

(* Cancels, a team that is read, and a restart.                            *)
LEMMA OthersSame ==
    ASSUME IInv,
           \/ \E a \in Agent : cancel_task(a)
           \/ \E t \in Team : TurnCancelled(t) \/ \E late \in BOOLEAN : TeamReads(t, late)
           \/ \E r \in Run : receive_messages(r)
           \/ Restart
           \/ UNCHANGED vars
    PROVE  SameRuns
<1>1. Typed /\ Members
  BY DEF IInv, Base
<1>2. ASSUME \A r \in Run : run'[r] = run[r] \/ run'[r] = [run[r] EXCEPT !.hit = TRUE]
      PROVE  SameRuns
  <2>1. \A r \in Run : run[r] \in Coroutine
    BY <1>1 DEF Typed
  <2>2. \A c \in Coroutine : /\ [c EXCEPT !.hit = TRUE].pc = c.pc /\ [c EXCEPT !.hit = TRUE].how = c.how
                             /\ [c EXCEPT !.hit = TRUE].agent = c.agent
    BY DEF Coroutine
  <2> QED
    BY <1>2, <2>1, <2>2 DEF SameRuns
<1>3. ASSUME NEW a \in Agent, cancel_task(a) PROVE SameRuns
  <2>1. CASE \E r \in Run : run' = [run EXCEPT ![r].hit = TRUE]
    <3>1. \A s \in Run : run'[s] = run[s] \/ run'[s] = [run[s] EXCEPT !.hit = TRUE]
      BY <1>1, <2>1 DEF Typed
    <3> QED
      BY <1>2, <3>1
  <2>2. CASE \E t \in Team : run' = [r \in Run |-> IF r \in team[t].runs /\ ~Done(r)
                                                  THEN [run[r] EXCEPT !.hit = TRUE] ELSE run[r]]
    <3>1. \A s \in Run : run'[s] = run[s] \/ run'[s] = [run[s] EXCEPT !.hit = TRUE]
      BY <2>2
    <3> QED
      BY <1>2, <3>1
  <2> QED
    BY <1>3, <2>1, <2>2 DEF cancel_task
<1>4. ASSUME NEW t \in Team, TurnCancelled(t) PROVE SameRuns
  <2>1. \A s \in Run : run'[s] = run[s] \/ run'[s] = [run[s] EXCEPT !.hit = TRUE]
    BY <1>4 DEF TurnCancelled
  <2> QED
    BY <1>2, <2>1
<1>5. ASSUME NEW t \in Team, NEW late \in BOOLEAN, TeamReads(t, late) PROVE SameRuns
  <2> SUFFICES ASSUME NEW s \in Run
               PROVE  /\ run'[s].agent = run[s].agent /\ run'[s].how = run[s].how
                      /\ run'[s].pc = "unused" <=> run[s].pc = "unused"
    BY DEF SameRuns
  <2>1. CASE s \in team[t].runs
    <3>1. PICK text, said :
            run'[s] = [run[s] EXCEPT !.pc = IF Done(s) THEN "gone" ELSE @, !.text = text, !.said = said]
      BY <1>5, <2>1 DEF TeamReads
    <3>2. run[s] \in Coroutine /\ run[s].pc # "unused"
      BY <1>1, <2>1 DEF Typed, Members
    <3>3. /\ run'[s].how = run[s].how /\ run'[s].agent = run[s].agent
          /\ run'[s].pc = IF Done(s) THEN "gone" ELSE run[s].pc
      BY <3>1, <3>2 DEF Coroutine
    <3> QED
      BY <3>2, <3>3
  <2>2. CASE s \notin team[t].runs
    BY <1>5, <2>2 DEF TeamReads
  <2> QED
    BY <2>1, <2>2
<1>6. CASE Restart
  <2> SUFFICES ASSUME NEW s \in Run
               PROVE  /\ run'[s].agent = run[s].agent /\ run'[s].how = run[s].how
                      /\ run'[s].pc = "unused" <=> run[s].pc = "unused"
    BY DEF SameRuns
  <2>1. CASE Live(s)
    <3> DEFINE d == [Unused EXCEPT !.pc = "gone", !.agent = Who(s), !.how = run[s].how, !.end = "lost"]
    <3>1. run'[s] = d
      BY <1>6, <2>1 DEF Restart
    <3>2. d.pc = "gone" /\ d.agent = run[s].agent /\ d.how = run[s].how
      BY DEF Unused, Who
    <3> HIDE DEF d
    <3> QED
      BY <2>1, <3>1, <3>2 DEF Live
  <2>2. CASE ~Live(s)
    BY <1>6, <2>2 DEF Restart
  <2> QED
    BY <2>1, <2>2
<1>7. CASE (\E r \in Run : receive_messages(r)) \/ UNCHANGED vars
  BY <1>7 DEF receive_messages, vars, SameRuns
<1> QED
  BY <1>3, <1>4, <1>5, <1>6, <1>7

(* New runs after all others: of agents without a run, or resumed.         *)
LEMMA NewKeepLater ==
    ASSUME Later, Numbered, NextRun \in Run, NEW new \in SUBSET Run,
           \A r \in new : NextRun <= r,
           \A r \in Run \ new : /\ run'[r].agent = run[r].agent /\ run'[r].how = run[r].how
                                /\ run'[r].pc = run[r].pc,
           \A r \in new : run'[r].how = "resumed" \/ Fresh(run'[r].agent),
           \A r, s \in new : run'[r].agent = run'[s].agent => r = s
    PROVE  Later'
<1>1. \A r \in Used : r < NextRun /\ r \in Nat
  BY NextFacts DEF Used, Run
<1>2. NextRun \in Nat /\ \A r \in new : r \in Nat
  BY Bounds DEF Run
<1>3. \A r \in Used' : r \in Run /\ (r \in new \/ (r \in Used /\ r \notin new))
  BY DEF Used
<1> SUFFICES ASSUME NEW r \in Used', NEW s \in Used', run'[r].agent = run'[s].agent, r < s
             PROVE  run'[s].how = "resumed"
  BY DEF Later, Who
<1>4. r \in Run /\ s \in Run /\ r \in Nat /\ s \in Nat
  BY <1>3 DEF Run
<1>5. CASE s \in new
  <2>1. r \notin new
    BY <1>4, <1>5
  <2>2. r \in Used /\ run'[r].agent = Who(r)
    BY <1>3, <1>4, <2>1 DEF Who
  <2>3. ~Fresh(run'[s].agent)
    BY <2>2 DEF Fresh, Who
  <2> QED
    BY <1>5, <2>3
<1>6. CASE s \notin new
  <2>1. s \in Used /\ s < NextRun
    BY <1>1, <1>3, <1>6
  <2>2. r \notin new
    BY <1>2, <1>4, <2>1
  <2>3. r \in Used
    BY <1>3, <2>2
  <2>4. Who(r) = Who(s) /\ run'[s].how = run[s].how
    BY <1>4, <1>6, <2>2 DEF Who
  <2> QED
    BY <2>1, <2>3, <2>4 DEF Later
<1> QED
  BY <1>5, <1>6

(* A run that is started is the first of its agent or a resumed one.       *)
LEMMA StartsLater ==
    ASSUME IInv, Later, NEW a \in Agent,
           \/ \E iso \in BOOLEAN : start_detached_agent(a, iso)
           \/ subagent_stream(a) \/ send_message(a)
    PROVE  Later'
<1>1. Typed /\ Numbered
  BY DEF IInv, Base
<1>2. ASSUME NextRun \in Run, NEW d, run' = [run EXCEPT ![NextRun] = d], d.agent = a, Fresh(a)
      PROVE  Later'
  <2> DEFINE new == {NextRun}
  <2>1. run'[NextRun] = d /\ \A r \in Run \ new : run'[r] = run[r]
    BY <1>1, <1>2 DEF Typed
  <2>2. NextRun \in Nat
    BY <1>2, Bounds DEF Run
  <2>3. /\ new \in SUBSET Run /\ \A r \in new : NextRun <= r
        /\ \A r, s \in new : run'[r].agent = run'[s].agent => r = s
    BY <1>2, <2>2
  <2>4. \A r \in new : Fresh(run'[r].agent)
    BY <1>2, <2>1
  <2> HIDE DEF new
  <2> QED
    BY <1>1, <1>2, <2>1, <2>3, <2>4, NewKeepLater
<1>3. ASSUME NEW iso \in BOOLEAN, start_detached_agent(a, iso) PROVE Later'
  <2> DEFINE d == [Unused EXCEPT !.pc = "made", !.agent = a, !.how = "detached", !.iso = iso]
  <2>1. NextRun \in Run /\ run' = [run EXCEPT ![NextRun] = d] /\ Fresh(a)
    BY <1>3 DEF start_detached_agent
  <2>2. d.agent = a
    BY DEF Unused
  <2> HIDE DEF d
  <2> QED
    BY <1>2, <2>1, <2>2
<1>4. CASE subagent_stream(a)
  <2> DEFINE d == [Unused EXCEPT !.pc = "frame", !.agent = a, !.how = "stream"]
  <2>1. NextRun \in Run /\ run' = [run EXCEPT ![NextRun] = d] /\ Fresh(a)
    BY <1>4 DEF subagent_stream
  <2>2. d.agent = a
    BY DEF Unused
  <2> HIDE DEF d
  <2> QED
    BY <1>2, <2>1, <2>2
<1>5. CASE NextRun \in Run /\ resume_agent(a)
  <2> DEFINE new == {NextRun}
  <2>1. run'[NextRun].how = "resumed"
    BY <1>5 DEF resume_agent, Unused
  <2>2. ASSUME NEW r \in Run \ new
        PROVE  /\ run'[r].agent = run[r].agent /\ run'[r].how = run[r].how
               /\ run'[r].pc = run[r].pc
    <3>1. run'[r] = run[r] \/ run'[r] = [run[r] EXCEPT !.alone = FALSE]
      BY <1>5, <2>2 DEF resume_agent
    <3>2. run[r] \in Coroutine
      BY <1>1, <2>2 DEF Typed
    <3> QED
      BY <3>1, <3>2 DEF Coroutine
  <2>3. NextRun \in Nat
    BY <1>5, Bounds DEF Run
  <2>4. /\ new \in SUBSET Run /\ \A r \in new : NextRun <= r
        /\ \A r, s \in new : run'[r].agent = run'[s].agent => r = s
        /\ \A r \in new : run'[r].how = "resumed"
    BY <1>5, <2>1, <2>3
  <2> HIDE DEF new
  <2> QED
    BY <1>1, <1>5, <2>2, <2>4, NewKeepLater
<1>6. CASE run' = run
  <2>1. SameRuns
    BY <1>6 DEF SameRuns
  <2> QED
    BY <2>1, SameKeepLater
<1>7. CASE send_message(a)
  BY <1>5, <1>6, <1>7 DEF send_message
<1> QED
  BY <1>3, <1>4, <1>7

(* A team has one run for each of its members, who have none so far.       *)
LEMMA TeamLater ==
    ASSUME IInv, Later, NEW t \in Team, NEW members \in SUBSET Agent, NEW iso \in BOOLEAN,
           create_team(t, members, iso)
    PROVE  Later'
<1>1. Typed /\ Numbered
  BY DEF IInv, Base
<1> DEFINE k == Cardinality(members)
           new == NextRun..(NextRun + k - 1)
<1>2. PICK who \in [new -> members] :
        /\ \A a \in members : \E r \in new : who[r] = a
        /\ run' = [r \in Run |->
                     IF r \in new
                     THEN [Unused EXCEPT !.pc = "made", !.agent = who[r], !.how = "chat",
                                         !.iso = iso, !.team = t]
                     ELSE run[r]]
  BY DEF create_team
<1>3. members # {} /\ (\A a \in members : Fresh(a)) /\ new \subseteq Run
  BY DEF create_team
<1>4. k \in Nat /\ k # 0
  BY <1>3, Agents, FS_Subset, FS_CardinalityType, FS_EmptySet
<1>5. PICK n \in 0..MaxRuns : Used = 1..n
  BY <1>1 DEF Numbered
<1>6. NextRun = n + 1 /\ n \in Nat
  <2>1. n \in Nat
    BY Bounds
  <2>2. Cardinality(1..n) = n
    BY <2>1, FS_Interval
  <2> QED
    BY <1>5, <2>1, <2>2 DEF NextRun
<1>7. \A r, s \in new : who[r] = who[s] => r = s
  <2>1. NextRun \in Nat /\ NextRun # 0
    BY <1>6
  <2> QED
    BY <1>2, <2>1, OneEach
<1>8. NextRun \in new /\ \A r \in new : NextRun <= r
  BY <1>4, <1>6
<1> HIDE DEF new, k
<1>9. \A r \in new : r \in Run /\ run'[r].agent = who[r] /\ who[r] \in members
  BY <1>2, <1>3 DEF Unused
<1>10. \A r \in Run \ new : run'[r] = run[r]
  BY <1>2
<1>11. /\ NextRun \in Run /\ \A r \in new : Fresh(run'[r].agent)
       /\ \A r, s \in new : run'[r].agent = run'[s].agent => r = s
  BY <1>3, <1>7, <1>8, <1>9
<1>12. new \in SUBSET Run
  BY <1>3
<1> QED
  BY <1>1, <1>8, <1>10, <1>11, <1>12, NewKeepLater

(* Every step keeps it.                                                    *)
LEMMA LaterKept ==
    ASSUME IInv, Later, [Next]_vars
    PROVE  Later'
<1>1. ASSUME NEW r \in Run, Local(r) PROVE Later'
  <2>1. SameRuns
    BY <1>1, LocalSame
  <2> QED
    BY <2>1, SameKeepLater
<1>2. ASSUME NEW r \in Run, run_agent(r) \/ HandOn(r) \/ Disconnect(r) PROVE Later'
  <2>1. CASE \/ stream_run(r) \/ Begin(r) \/ Admit(r) \/ PreflightFails(r) \/ Open(r, "open")
             \/ Open(r, "none") \/ (\E made \in BOOLEAN : Forked(r, made))
             \/ Receive(r) \/ RoundStart(r)
    <3>1. Local(r)
      BY <2>1, StartsLocal
    <3> QED
      BY <1>1, <3>1
  <2>2. CASE \/ ServeFails(r) \/ RunRaises(r) \/ CancelledInside(r)
             \/ \E v \in {"completed", "failed"} : RunEnds(r, v)
    <3>1. Local(r)
      BY <2>2, EndsLocal
    <3> QED
      BY <1>1, <3>1
  <2>3. CASE CancelledUnborn(r) \/ CancelledAhead(r)
    <3>1. Local(r)
      BY <2>3, CutLocal
    <3> QED
      BY <1>1, <3>1
  <2>4. CASE Brought(r) \/ Finish(r) \/ DoneCallback(r) \/ StreamEnds(r) \/ Disconnect(r)
    <3>1. Local(r)
      BY <2>4, HandsLocal
    <3> QED
      BY <1>1, <3>1
  <2> QED
    BY <1>2, <2>1, <2>2, <2>3, <2>4 DEF run_agent, HandOn
<1>3. ASSUME \/ \E a \in Agent : cancel_task(a)
             \/ \E t \in Team : TurnCancelled(t) \/ \E late \in BOOLEAN : TeamReads(t, late)
             \/ \E r \in Run : receive_messages(r)
             \/ Restart
             \/ UNCHANGED vars
      PROVE  Later'
  <2>1. SameRuns
    BY <1>3, OthersSame
  <2> QED
    BY <2>1, SameKeepLater
<1>4. ASSUME NEW a \in Agent,
             \/ \E iso \in BOOLEAN : start_detached_agent(a, iso)
             \/ subagent_stream(a) \/ send_message(a)
      PROVE  Later'
  BY <1>4, StartsLater
<1>5. ASSUME NEW t \in Team, NEW members \in SUBSET Agent, NEW iso \in BOOLEAN,
             create_team(t, members, iso)
      PROVE  Later'
  BY <1>5, TeamLater
<1> QED
  BY <1>2, <1>3, <1>4, <1>5 DEF Next

-----------------------------------------------------------------------------
(* What follows.                                                           *)

(* Every variable holds a value of its kind, the queue and the counters    *)
(* included.                                                               *)
THEOREM TypeCorrect == Spec => []TypeOK
<1>1. IInv /\ QInv => TypeOK
  BY DEF IInv, Base, Typed, QInv, Listed, Counted, TypeOK
<1> QED
  BY <1>1, QueueHolds, PTL

(* Never more than Slots of the detached and resumed runs are inside the   *)
(* semaphore, however they are cancelled in the queue or inside it         *)
(* ("async with _semaphore()" in server/tasks/agents.py).                  *)
THEOREM SemaphoreHolds == Spec => [](Cardinality(Holding) <= Slots)
<1>1. IInv /\ QInv => Cardinality(Holding) <= Slots
  BY DEF QInv, WithinSlots
<1> QED
  BY <1>1, QueueHolds, PTL

(* Nobody waits outside the queue and nobody is left in it after a cancel: *)
(* its head is a run that takes the place when one comes free.             *)
THEOREM QueueListsWaiting ==
    Spec => [](/\ queue # <<>> => run[Head(queue)].pc = "queued"
               /\ \A r \in Run : run[r].pc = "queued" <=> \E k \in 1..Len(queue) : queue[k] = r)
<1>1. Listed => /\ queue # <<>> => run[Head(queue)].pc = "queued"
                /\ \A r \in Run : run[r].pc = "queued" <=> \E k \in 1..Len(queue) : queue[k] = r
  <2> SUFFICES ASSUME Listed, queue # <<>> PROVE run[Head(queue)].pc = "queued"
    BY DEF Listed
  <2>1. Len(queue) \in Nat \ {0} /\ Head(queue) = queue[1]
    BY LenProperties, EmptySeq DEF Listed
  <2> QED
    BY <2>1 DEF Listed
<1>2. QInv => Listed
  BY DEF QInv
<1> QED
  BY <1>1, <1>2, QueueHolds, PTL

(* Two runs of one agent are alive at once only when the later one was     *)
(* resumed by a message, and then neither of them counts as alone: the     *)
(* agent ids that spawn_agent, team_create and /subagent make are new, so  *)
(* resume_agent is all there is to guard.                                  *)
THEOREM OnlyResumesOverlap ==
    Spec => [](\A r, s \in Run :
                 Live(r) /\ Live(s) /\ Who(r) = Who(s) /\ r < s
                   => run[s].how = "resumed" /\ ~run[r].alone /\ ~run[s].alone)
<1>1. Init => Later
  BY DEF Init, Unused, Later, Used
<1>2. IInv /\ Later /\ [Next]_vars => IInv' /\ Later'
  BY StepKept, LaterKept
<1>3. IInv /\ Later => \A r, s \in Run :
                         Live(r) /\ Live(s) /\ Who(r) = Who(s) /\ r < s
                           => run[s].how = "resumed" /\ ~run[r].alone /\ ~run[s].alone
  <2> SUFFICES ASSUME IInv, Later, NEW r \in Run, NEW s \in Run,
                      Live(r), Live(s), Who(r) = Who(s), r < s
               PROVE  run[s].how = "resumed" /\ ~run[r].alone /\ ~run[s].alone
    OBVIOUS
  <2>1. r \in Used /\ s \in Used
    BY DEF Used, Live
  <2>2. Marked
    BY DEF IInv
  <2>3. ~run[r].alone /\ ~run[s].alone
    BY <2>1, <2>2 DEF Marked
  <2> QED
    BY <2>1, <2>3 DEF Later
<1> QED
  BY <1>1, <1>2, <1>3, InitHolds, PTL DEF Spec
=============================================================================
