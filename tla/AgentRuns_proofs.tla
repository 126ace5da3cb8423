-------------------------- MODULE AgentRuns_proofs --------------------------
(***************************************************************************)
(* Proofs about AgentRuns, for any agents, teams, runs, messages and       *)
(* restarts, and a semaphore of any size.                                  *)
(***************************************************************************)
EXTENDS AgentRuns, FiniteSetTheorems, TLAPS

(* The type of all but the queue and the counters, which are the subject   *)
(* of AgentQueue_proofs.                                                   *)
Typed ==
    /\ row \in [Agent -> Statuses]
    /\ info \in [Agent -> Statuses \ {"interrupted"}]
    /\ mail \in [Agent -> BOOLEAN]
    /\ rec \in [Agent -> [dir : BOOLEAN, msgs : BOOLEAN, report : Run \cup {NoRun}]]
    /\ handle \in [Agent -> Run \cup {NoRun}]
    /\ run \in [Run -> Coroutine]
    /\ team \in [Team -> [runs : SUBSET Run, asked : BOOLEAN, read : BOOLEAN]]

Early == {"frame", "made", "queued", "ahead"}
Inside == {"fork", "setup", "ready", "work"}

(* How far a run has come and what is known of its journal, its verdict    *)
(* and its report by then.                                                 *)
StagedOf(r) ==
    /\ run[r].pc = "unused" => run[r].how = "none" /\ Who(r) = NoAgent
    /\ run[r].pc # "unused" => Who(r) \in Agent /\ run[r].how # "none"
    /\ run[r].pc \in Early \cup {"unused"} => run[r].jrn = "none" /\ run[r].end = "none"
    /\ run[r].pc \in Inside => run[r].jrn # "closed" /\ run[r].end = "none"
    /\ run[r].pc \in {"fork", "harvest", "tidy"} => run[r].iso
    /\ run[r].pc \in {"harvest", "tidy", "closing", "left"} => run[r].end \in Verdicts
    /\ run[r].pc = "over" => run[r].end \in Verdicts \/ (Wrapped(r) /\ run[r].end = "none")
    /\ run[r].pc \in {"over", "gone"} /\ run[r].end = "none" => run[r].jrn = "none"
    /\ run[r].pc = "closing" => Wrapped(r)
    /\ run[r].pc \in {"frame", "left"} => run[r].how = "stream"
    /\ run[r].how = "stream" /\ run[r].said # "no" /\ run[r].pc \in Early => run[r].hit
    /\ Wrapped(r) /\ run[r].pc \in {"over", "gone"} /\ run[r].end \notin {"none", "lost"}
          => run[r].said = "report"
    /\ Wrapped(r) /\ run[r].pc \notin {"over", "gone"} => run[r].said = "no"
    /\ run[r].pc = "harvest" => run[r].end # "stopped"
    /\ run[r].pc = "tidy" => run[r].jrn # "open"
    /\ Wrapped(r) /\ run[r].alone /\ run[r].end = "stopped" /\ run[r].jrn # "none"
          /\ ~(run[r].jrn = "open" /\ run[r].iso)
          => run[r].text = r

Staged == \A r \in Run : StagedOf(r)

(* The members of a team are runs of the turn that made it. *)
Members == \A t \in Team : \A r \in team[t].runs : run[r].how = "chat" /\ run[r].pc # "unused"

(* The numbers in use are the first ones. *)
Numbered == \E n \in 0..MaxRuns : Used = 1..n

Base == Typed /\ Staged /\ Members /\ Numbered

(* A run that answers for the mailbox of its agent: it reads it, or takes  *)
(* it away with its worktree, or was cut at the fork and left it behind.   *)
Reader(r) == CutAtFork(r) \/ run[r].pc \in {"fork", "setup", "ready", "work", "harvest", "tidy"}

(* A run that answers for a row that says running: it will close it, or it *)
(* is one of the two that leave it behind.                                 *)
Pledge(r) ==
    \/ Wrapped(r) /\ (run[r].pc \notin {"over", "gone"} \/ run[r].end = "none")
    \/ run[r].how = "stream" /\ IF run[r].pc = "gone" THEN run[r].end = "none" ELSE run[r].said = "no"
    \/ run[r].how = "chat" /\ run[r].jrn = "open"

(* A run that lives beside a later one of its agent is marked, and so is   *)
(* the later one.                                                          *)
Marked ==
    \A r, s \in Used : Who(r) = Who(s) /\ s < r /\ Live(s) => ~run[r].alone /\ ~run[s].alone

(* An agent runs again only when it has a record; a worktree is for the    *)
(* first run; and a record comes with a run.                               *)
Single == \A r, s \in Used : Who(r) = Who(s) /\ r # s => rec[Who(r)].dir
Isolated == \A r \in Used : run[r].iso /\ run[r].jrn = "none" => ~rec[Who(r)].dir
Recorded == \A a \in Agent : rec[a].dir => ~Fresh(a)

(* The row follows the last run of its agent: a wrapped one from its start *)
(* to its verdict, and one of a chat turn while it has a journal.          *)
RowFits(r) ==
    /\ Wrapped(r) =>
          /\ run[r].pc \in Early \cup Inside => row[Who(r)] = "running"
          /\ run[r].pc \in {"harvest", "tidy", "closing"} => row[Who(r)] \in {"running", run[r].end}
          /\ run[r].pc \in {"over", "gone"} /\ run[r].end \notin {"none", "lost"}
                => row[Who(r)] = run[r].end
    /\ run[r].how = "chat" =>
          /\ run[r].jrn = "open" /\ run[r].end = "none" => row[Who(r)] = "running"
          /\ run[r].jrn = "closed" => row[Who(r)] = run[r].end

Followed == \A r \in Used : Last(r) => RowFits(r)

(* The salvage report of a run that tidies its worktree, alone on its      *)
(* record, is still the one on disk.                                       *)
Salvaged ==
    \A r \in Used : run[r].pc = "tidy" /\ run[r].alone /\ run[r].jrn = "closed"
       => rec[Who(r)].report = r

Working(r) == run[r].jrn = "open" /\ run[r].end = "none" /\ run[r].said = "no"
Shown == \A r \in Run : Working(r) /\ run[r].alone => row[Who(r)] = "running"

Pledged == \A a \in Agent : row[a] = "running" => \E r \in Run : Who(r) = a /\ Pledge(r)

Readers ==
    \A a \in Agent : info[a] = "running" \/ mail[a] =>
       ~rec[a].dir \/ \E r \in Run : Who(r) = a /\ Reader(r)

IInv ==
    /\ Base /\ Marked /\ Single /\ Isolated /\ Recorded
    /\ Followed /\ Salvaged /\ Shown /\ Pledged /\ Readers

-----------------------------------------------------------------------------
(* A change of one field leaves a coroutine one. *)
LEMMA FieldTyped ==
    ASSUME NEW c \in Coroutine
    PROVE  /\ \A x \in Places : [c EXCEPT !.pc = x] \in Coroutine
           /\ \A x \in BOOLEAN : [c EXCEPT !.iso = x] \in Coroutine
           /\ \A x \in BOOLEAN : [c EXCEPT !.hit = x] \in Coroutine
           /\ \A x \in BOOLEAN : [c EXCEPT !.alone = x] \in Coroutine
           /\ \A x \in {"none", "open", "closed"} : [c EXCEPT !.jrn = x] \in Coroutine
           /\ \A x \in Verdicts \cup {"none", "lost"} : [c EXCEPT !.end = x] \in Coroutine
           /\ \A x \in Run \cup {NoRun} : [c EXCEPT !.text = x] \in Coroutine
           /\ \A x \in {"no", "report", "told"} : [c EXCEPT !.said = x] \in Coroutine
  BY DEF Coroutine

(* A run that was never started is a well-formed one. *)
LEMMA UnusedTyped == Unused \in Coroutine
  BY DEF Unused, Coroutine, Places, NoRun

(* The next number is free, and the numbers stay the first ones with it. *)
LEMMA NextFacts ==
    ASSUME Numbered, NextRun \in Run
    PROVE  /\ run[NextRun].pc = "unused" /\ Used = 1..(NextRun - 1) /\ NextRun \in Nat \ {0}
           /\ \A r \in Used : r < NextRun
<1> USE Bounds DEF Run
<1>1. PICK n \in 0..MaxRuns : Used = 1..n
  BY DEF Numbered
<1>2. Cardinality(1..n) = n
  BY FS_Interval
<1>3. NextRun = n + 1
  BY <1>1, <1>2 DEF NextRun
<1>4. NextRun \notin Used
  BY <1>1, <1>3
<1> QED
  BY <1>1, <1>3, <1>4 DEF Used

-----------------------------------------------------------------------------
(* A step of one run: what it leaves alone. *)
Step(r) ==
    /\ Live(r) /\ run[r] \in Coroutine /\ run'[r] \in Coroutine
    /\ run' \in [Run -> Coroutine] /\ \A s \in Run \ {r} : run'[s] = run[s]
    /\ run'[r].agent = run[r].agent /\ run'[r].how = run[r].how /\ run'[r].alone = run[r].alone
    /\ run'[r].pc # "unused"
    /\ StagedOf(r)'

(* Each of them is one, and takes the run to a place that its stage allows. *)
LEMMA StartsStep ==
    ASSUME Base, NEW r \in Run,
           \/ stream_run(r) \/ Begin(r) \/ Admit(r) \/ PreflightFails(r)
           \/ Open(r, "open") \/ Open(r, "none") \/ (\E made \in BOOLEAN : Forked(r, made))
           \/ Receive(r) \/ RoundStart(r)
    PROVE  Step(r)
<1> DEFINE c == run[r]
<1>1. c \in Coroutine
  BY DEF Base, Typed
<1>2. StagedOf(r)
  BY DEF Base, Staged
<1>3. ASSUME NEW d \in Coroutine, run' = [run EXCEPT ![r] = d], Live(r),
             d.agent = c.agent, d.how = c.how, d.alone = c.alone, d.pc # "unused", StagedOf(r)'
      PROVE  Step(r)
  BY <1>1, <1>3 DEF Step, Base, Typed
<1>4. ASSUME NEW place \in Places, run' = [run EXCEPT ![r].pc = place], place # "unused", Live(r),
             StagedOf(r)'
      PROVE  Step(r)
  <2>1. [c EXCEPT !.pc = place] \in Coroutine /\ run' = [run EXCEPT ![r] = [c EXCEPT !.pc = place]]
    BY <1>1, <1>4, FieldTyped DEF Base, Typed
  <2>2. /\ [c EXCEPT !.pc = place].pc = place /\ [c EXCEPT !.pc = place].agent = c.agent
        /\ [c EXCEPT !.pc = place].how = c.how /\ [c EXCEPT !.pc = place].alone = c.alone
    BY <1>1 DEF Coroutine
  <2> HIDE DEF c
  <2> QED
    BY <1>3, <1>4, <2>1, <2>2
<1>5. CASE stream_run(r) \/ Begin(r) \/ Admit(r)
  <2>1. PICK place \in {"made", "queued", "ahead"} : run' = [run EXCEPT ![r].pc = place]
    BY <1>5 DEF stream_run, Begin, Admit
  <2>2. c.pc \in Early /\ Live(r) /\ place \in Places
    BY <1>5 DEF stream_run, Begin, Admit, At, Early, Live, Places
  <2>3. StagedOf(r)'
    BY <1>1, <1>2, <2>1, <2>2 DEF StagedOf, Who, Wrapped, Early, Inside, Base, Typed, Coroutine
  <2> QED
    BY <1>4, <2>1, <2>2, <2>3
<1>6. CASE PreflightFails(r)
  <2> DEFINE d == [c EXCEPT !.pc = Outside(r), !.end = "failed", !.text = r]
  <2>1. run' = [run EXCEPT ![r] = d] /\ c.pc = "ahead" /\ Live(r)
    BY <1>1, <1>6 DEF PreflightFails, At, Live, Base, Typed
  <2>2. Outside(r) \in Places \ {"unused"}
    BY DEF Outside, Places
  <2>3. d \in Coroutine
    BY <1>1, <2>2 DEF Coroutine, Verdicts
  <2>4. /\ d.pc = Outside(r) /\ d.end = "failed" /\ d.text = r /\ d.agent = c.agent /\ d.how = c.how
        /\ d.alone = c.alone /\ d.jrn = c.jrn /\ d.said = c.said /\ d.iso = c.iso /\ d.hit = c.hit
    BY <1>1 DEF Coroutine
  <2>5. run'[r] = d
    BY <2>1 DEF Base, Typed
  <2> HIDE DEF d
  <2>6. StagedOf(r)'
    BY <1>2, <2>1, <2>4, <2>5
       DEF StagedOf, Who, Wrapped, Outside, Early, Inside, Verdicts
  <2> QED
    BY <1>3, <2>1, <2>2, <2>3, <2>4, <2>6
<1>7. ASSUME NEW jrn \in {"open", "none"}, Open(r, jrn) PROVE Step(r)
  <2> DEFINE d == [c EXCEPT !.pc = IF c.iso THEN "fork" ELSE "setup", !.jrn = jrn]
  <2>1. run' = [run EXCEPT ![r] = d] /\ c.pc = "ahead" /\ ~c.hit /\ Live(r)
    BY <1>1, <1>7 DEF Open, At, Live, Base, Typed
  <2>2. d \in Coroutine
    <3>1. CASE c.iso
      <4>1. d = [[c EXCEPT !.pc = "fork"] EXCEPT !.jrn = jrn]
        BY <1>1, <3>1 DEF Coroutine
      <4> QED
        BY <1>1, <4>1, FieldTyped DEF Places
    <3>2. CASE ~c.iso
      <4>1. d = [[c EXCEPT !.pc = "setup"] EXCEPT !.jrn = jrn]
        BY <1>1, <3>2 DEF Coroutine
      <4> QED
        BY <1>1, <4>1, FieldTyped DEF Places
    <3> QED
      BY <3>1, <3>2
  <2>3. /\ d.pc = (IF c.iso THEN "fork" ELSE "setup") /\ d.end = c.end /\ d.text = c.text
        /\ d.agent = c.agent /\ d.how = c.how
        /\ d.alone = c.alone /\ d.jrn = jrn /\ d.said = c.said /\ d.iso = c.iso /\ d.hit = c.hit
    BY <1>1 DEF Coroutine
  <2>4. run'[r] = d
    BY <2>1 DEF Base, Typed
  <2> HIDE DEF d
  <2>5. StagedOf(r)'
    BY <1>2, <2>1, <2>3, <2>4 DEF StagedOf, Who, Wrapped, Early, Inside
  <2> QED
    BY <1>3, <2>1, <2>2, <2>3, <2>5
<1>8. ASSUME NEW made \in BOOLEAN, Forked(r, made) PROVE Step(r)
  <2> DEFINE d == [c EXCEPT !.pc = "setup", !.iso = made]
  <2>1. run' = [run EXCEPT ![r] = d] /\ c.pc = "fork" /\ Live(r)
    BY <1>1, <1>8 DEF Forked, At, Live, Base, Typed
  <2>2. d \in Coroutine
    <3>1. "setup" \in Places
      BY DEF Places
    <3> QED
      BY <1>1, <3>1 DEF Coroutine
  <2>3. /\ d.pc = "setup" /\ d.end = c.end /\ d.text = c.text /\ d.agent = c.agent /\ d.how = c.how
        /\ d.alone = c.alone /\ d.jrn = c.jrn /\ d.said = c.said /\ d.hit = c.hit
    BY <1>1 DEF Coroutine
  <2>4. run'[r] = d
    BY <2>1 DEF Base, Typed
  <2> HIDE DEF d
  <2>5. StagedOf(r)'
    BY <1>2, <2>1, <2>3, <2>4 DEF StagedOf, Who, Wrapped, Early, Inside
  <2> QED
    BY <1>3, <2>1, <2>2, <2>3, <2>5
<1>9. CASE Receive(r) \/ RoundStart(r)
  <2>1. PICK place \in {"ready", "work"} : run' = [run EXCEPT ![r].pc = place]
    BY <1>9 DEF Receive, RoundStart
  <2>2. c.pc \in {"setup", "ready"} /\ Live(r) /\ place \in Places
    BY <1>9 DEF Receive, RoundStart, At, Live, Places
  <2>3. StagedOf(r)'
    BY <1>1, <1>2, <2>1, <2>2 DEF StagedOf, Who, Wrapped, Early, Inside, Base, Typed, Coroutine
  <2> QED
    BY <1>4, <2>1, <2>2, <2>3
<1> QED
  BY <1>5, <1>6, <1>7, <1>8, <1>9

(* Leaving run_agent: the verdict is there, and a worktree comes first. *)
LEMMA EndedStep ==
    ASSUME Base, NEW r \in Run, NEW place \in {"harvest", "tidy"}, NEW jrn \in {"none", "open", "closed"},
           NEW v \in Verdicts, NEW text \in Run \cup {NoRun}, Ended(r, place, jrn, v, text),
           run[r].pc \in Inside,
           place = "harvest" => v # "stopped", place = "tidy" => jrn # "open",
           v = "stopped" /\ jrn # "none" => text = r
    PROVE  Step(r) /\ run'[r].end = v /\ run'[r].jrn = jrn /\ run'[r].iso = run[r].iso
           /\ run'[r].pc = (IF run[r].iso THEN place ELSE Outside(r))
           /\ run'[r].said = run[r].said
<1> DEFINE c == run[r]
<1>1. c \in Coroutine
  BY DEF Base, Typed
<1>2. StagedOf(r) /\ Live(r)
  BY DEF Base, Staged, Inside, Live
<1> DEFINE d == [c EXCEPT !.pc = IF c.iso THEN place ELSE Outside(r), !.hit = FALSE, !.jrn = jrn,
                          !.end = v, !.text = text]
<1>3. run' = [run EXCEPT ![r] = d]
  BY <1>1 DEF Ended, Base, Typed
<1>4. Outside(r) \in {"closing", "over"}
  BY DEF Outside
<1>5. d \in Coroutine
  <2>1. PICK p \in Places : p = IF c.iso THEN place ELSE Outside(r)
    BY <1>4 DEF Places
  <2> DEFINE e == [c EXCEPT !.pc = p, !.hit = FALSE, !.jrn = jrn, !.end = v, !.text = text]
  <2>2. d = e
    BY <2>1
  <2>3. e \in Coroutine
    <3> DEFINE e1 == [c EXCEPT !.pc = p]
               e2 == [e1 EXCEPT !.hit = FALSE]
               e3 == [e2 EXCEPT !.jrn = jrn]
               e4 == [e3 EXCEPT !.end = v]
    <3>1. e = [e4 EXCEPT !.text = text]
      OBVIOUS
    <3>2. e1 \in Coroutine
      BY <1>1, FieldTyped
    <3> HIDE DEF e1
    <3>3. e2 \in Coroutine
      BY <3>2, FieldTyped
    <3> HIDE DEF e2
    <3>4. e3 \in Coroutine
      BY <3>3, FieldTyped
    <3> HIDE DEF e3
    <3>5. e4 \in Coroutine
      BY <3>4, FieldTyped
    <3> HIDE DEF e4
    <3> QED
      BY <3>1, <3>5, FieldTyped
  <2> QED
    BY <2>2, <2>3
<1>6. /\ d.pc = (IF c.iso THEN place ELSE Outside(r)) /\ d.end = v /\ d.text = text
      /\ d.agent = c.agent /\ d.how = c.how
      /\ d.alone = c.alone /\ d.jrn = jrn /\ d.said = c.said /\ d.iso = c.iso /\ ~d.hit
  BY <1>1 DEF Coroutine
<1>7. run'[r] = d
  BY <1>3 DEF Base, Typed
<1> HIDE DEF d
<1>8. StagedOf(r)'
  BY <1>2, <1>6, <1>7 DEF StagedOf, Who, Wrapped, Outside, Early, Inside, Verdicts
<1> QED
  BY <1>1, <1>2, <1>3, <1>4, <1>5, <1>6, <1>7, <1>8 DEF Step, Base, Typed

-----------------------------------------------------------------------------
(* What a step of one run may do to the row, the status, the mailbox and   *)
(* the record of its agent.                                                *)
OthersKept(a) ==
    \A b \in Agent \ {a} : row'[b] = row[b] /\ info'[b] = info[b] /\ mail'[b] = mail[b] /\ rec'[b] = rec[b]

TablesTyped ==
    /\ row' \in [Agent -> Statuses]
    /\ info' \in [Agent -> Statuses \ {"interrupted"}]
    /\ mail' \in [Agent -> BOOLEAN]
    /\ rec' \in [Agent -> [dir : BOOLEAN, msgs : BOOLEAN, report : Run \cup {NoRun}]]
    /\ handle' \in [Agent -> Run \cup {NoRun}]
    /\ team' = team

RowLocal(r, a) ==
    /\ row'[a] = "running" => Pledge(r)' \/ (row[a] = "running" /\ ~Pledge(r))
    /\ RowFits(r) => RowFits(r)'
    /\ Working(r)' => row'[a] = "running" \/ (Working(r) /\ row'[a] = row[a])

RecordLocal(r, a) ==
    /\ rec[a].dir => rec'[a].dir
    /\ run'[r].iso /\ run'[r].jrn = "none"
          => run[r].iso /\ run[r].jrn = "none" /\ rec'[a].dir = rec[a].dir
    /\ run'[r].pc = "tidy" /\ run'[r].jrn = "closed"
          => \/ rec'[a].report = r
             \/ run[r].pc = "tidy" /\ run[r].jrn = "closed" /\ rec'[a].report = rec[a].report

MailLocal(r, a) ==
    info'[a] = "running" \/ mail'[a] =>
       \/ ~rec'[a].dir \/ Reader(r)'
       \/ (info[a] = "running" \/ mail[a]) /\ ~Reader(r) /\ rec'[a].dir = rec[a].dir

Local(r) ==
    /\ Step(r) /\ TablesTyped /\ OthersKept(Who(r))
    /\ RowLocal(r, Who(r)) /\ RecordLocal(r, Who(r)) /\ MailLocal(r, Who(r))

(* Such a step keeps the invariant. *)
LEMMA LocalKept ==
    ASSUME IInv, NEW r \in Run, Local(r)
    PROVE  IInv'
<1> USE Bounds
<1> DEFINE a == Who(r)
<1>1. /\ Step(r) /\ TablesTyped /\ OthersKept(a)
      /\ RowLocal(r, a) /\ RecordLocal(r, a) /\ MailLocal(r, a)
  BY DEF Local
<1>2. Typed /\ Staged /\ Members /\ Numbered
  BY DEF IInv, Base
<1>3. /\ Live(r) /\ run[r].pc # "unused" /\ run'[r].pc # "unused" /\ a \in Agent
      /\ Who(r)' = a /\ run'[r].how = run[r].how /\ run'[r].alone = run[r].alone
      /\ \A s \in Run : s # r => run'[s] = run[s]
  BY <1>1, <1>2 DEF Step, Live, Staged, StagedOf, Who
<1>4. Used' = Used /\ r \in Used /\ Used \subseteq Run
  BY <1>3 DEF Used
<1>5. \A s \in Run : Who(s)' = Who(s) /\ run'[s].alone = run[s].alone /\ run'[s].how = run[s].how
                     /\ (Live(s)' => Live(s)) /\ (s \in Used => Who(s) \in Agent)
  BY <1>2, <1>3, <1>4 DEF Who, Live, Used, Staged, StagedOf
<1> HIDE DEF a
<1>6. Base'
  <2>1. Typed'
    BY <1>1, <1>2 DEF Step, TablesTyped, Typed
  <2>2. Staged'
    <3> SUFFICES ASSUME NEW s \in Run PROVE StagedOf(s)'
      BY DEF Staged
    <3>1. CASE s = r
      BY <1>1, <3>1 DEF Step
    <3>2. CASE s # r
      <4>1. run'[s] = run[s] /\ StagedOf(s)
        BY <1>2, <1>3, <3>2 DEF Staged
      <4> QED
        BY <4>1 DEF StagedOf, Who, Wrapped
    <3> QED
      BY <3>1, <3>2
  <2>3. Members'
    <3> SUFFICES ASSUME NEW t \in Team, NEW s \in team[t].runs
                 PROVE  run'[s].how = "chat" /\ run'[s].pc # "unused"
      BY <1>1 DEF Members, TablesTyped
    <3>1. s \in Run /\ run[s].how = "chat" /\ run[s].pc # "unused"
      BY <1>2 DEF Members, Typed
    <3> QED
      BY <1>3, <1>5, <3>1
  <2> QED
    BY <1>2, <1>4, <2>1, <2>2, <2>3 DEF Base, Numbered
<1>7. Marked'
  BY <1>4, <1>5 DEF IInv, Marked
<1>8. \A b \in Agent : rec[b].dir => rec'[b].dir
  BY <1>1 DEF RecordLocal, OthersKept
<1>9. Single'
  BY <1>4, <1>5, <1>8 DEF IInv, Single
<1>10. Isolated'
  <2> SUFFICES ASSUME NEW s \in Used, run'[s].iso, run'[s].jrn = "none" PROVE ~rec'[Who(s)].dir
    BY <1>4, <1>5 DEF Isolated
  <2>1. CASE s = r
    <3>1. ~rec[a].dir /\ rec'[a].dir = rec[a].dir
      BY <1>1, <1>4, <2>1 DEF IInv, Isolated, RecordLocal, a
    <3> QED
      BY <2>1, <3>1 DEF a
  <2>2. CASE s # r
    <3>1. run'[s] = run[s] /\ ~rec[Who(s)].dir
      BY <1>3, <1>4, <2>2 DEF IInv, Isolated
    <3>2. Who(s) # a
      BY <1>4, <2>2, <3>1 DEF IInv, Single, a
    <3> QED
      BY <1>1, <1>5, <1>4, <3>1, <3>2 DEF OthersKept
  <2> QED
    BY <2>1, <2>2
<1>11. Recorded'
  <2> SUFFICES ASSUME NEW b \in Agent, rec'[b].dir PROVE ~Fresh(b)'
    BY DEF Recorded
  <2>1. CASE b = a
    BY <1>4, <1>5, <2>1 DEF Fresh, Who, a
  <2>2. CASE b # a
    <3>1. rec[b].dir
      BY <1>1, <2>2 DEF OthersKept
    <3>2. PICK s \in Used : Who(s) = b
      BY <3>1 DEF IInv, Recorded, Fresh, Who
    <3> QED
      BY <1>4, <1>5, <3>2 DEF Fresh, Who
  <2> QED
    BY <2>1, <2>2
<1>12. \A s \in Run : Last(s)' = Last(s) /\ Wrapped(s)' = Wrapped(s)
  BY <1>5 DEF Last, Wrapped
<1>13. Followed'
  <2> SUFFICES ASSUME NEW s \in Used, Last(s) PROVE RowFits(s)'
    BY <1>4, <1>12 DEF Followed
  <2>1. RowFits(s)
    BY DEF IInv, Followed
  <2>2. CASE s = r
    BY <1>1, <2>1, <2>2 DEF RowLocal
  <2>3. CASE s # r
    <3>1. Who(s) # a
      <4>1. SUFFICES ASSUME Who(s) = a PROVE FALSE
        OBVIOUS
      <4>2. r \in Nat /\ s \in Nat /\ r <= s
        BY <1>4, <4>1 DEF Last, Run, a
      <4>3. r < s
        BY <4>2, <2>3
      <4> QED
        BY <1>3, <1>4, <4>1, <4>3 DEF IInv, Marked, Last, a
    <3>2. run'[s] = run[s] /\ row'[Who(s)] = row[Who(s)] /\ s \in Run
      BY <1>1, <1>3, <1>4, <1>5, <2>3, <3>1 DEF OthersKept
    <3> QED
      BY <2>1, <3>2 DEF RowFits, Who, Wrapped
  <2> QED
    BY <2>2, <2>3
<1>14. Shown'
  <2> SUFFICES ASSUME NEW s \in Run, Working(s)', run'[s].alone PROVE row'[Who(s)] = "running"
    BY <1>5 DEF Shown
  <2>1. CASE s = r
    BY <1>1, <1>5, <2>1 DEF RowLocal, IInv, Shown, a
  <2>2. CASE s # r
    <3>1. run'[s] = run[s] /\ Working(s) /\ run[s].alone
      BY <1>3, <2>2 DEF Working
    <3>2. s \in Used /\ Live(s)
      <4>1. StagedOf(s) /\ run[s] \in Coroutine
        BY <1>2 DEF Staged, Typed
      <4> QED
        BY <3>1, <4>1 DEF StagedOf, Working, Used, Live, Early, Verdicts
    <3>3. Who(s) # a
      <4>1. SUFFICES ASSUME Who(s) = a PROVE FALSE
        OBVIOUS
      <4>2. r \in Nat /\ s \in Nat /\ (r < s \/ s < r)
        BY <2>2 DEF Run
      <4> QED
        BY <1>3, <1>4, <3>1, <3>2, <4>1, <4>2 DEF IInv, Marked, a
    <3>4. row[Who(s)] = "running" /\ Who(s) \in Agent
      BY <1>5, <3>1, <3>2 DEF IInv, Shown
    <3> QED
      BY <1>1, <3>3, <3>4 DEF OthersKept
  <2> QED
    BY <2>1, <2>2
<1>15. Pledged'
  <2> SUFFICES ASSUME NEW b \in Agent, row'[b] = "running"
               PROVE  \E s \in Run : Who(s) = b /\ Pledge(s)'
    BY <1>5 DEF Pledged
  <2>1. CASE b = a /\ Pledge(r)'
    BY <2>1 DEF a
  <2>2. CASE b # a \/ ~Pledge(r)'
    <3>1. row[b] = "running" /\ (b = a => ~Pledge(r))
      BY <1>1, <2>2 DEF RowLocal, OthersKept
    <3>2. PICK s \in Run : Who(s) = b /\ Pledge(s)
      BY <3>1 DEF IInv, Pledged
    <3>3. run'[s] = run[s]
      BY <1>3, <3>1, <3>2 DEF a
    <3> QED
      BY <3>2, <3>3 DEF Pledge, Wrapped
  <2> QED
    BY <2>1, <2>2
<1>16. Readers'
  <2> SUFFICES ASSUME NEW b \in Agent, info'[b] = "running" \/ mail'[b], rec'[b].dir
               PROVE  \E s \in Run : Who(s) = b /\ Reader(s)'
    BY <1>5 DEF Readers
  <2>1. CASE b = a /\ Reader(r)'
    BY <2>1 DEF a
  <2>2. CASE b # a \/ ~Reader(r)'
    <3>1. (info[b] = "running" \/ mail[b]) /\ rec[b].dir /\ (b = a => ~Reader(r))
      BY <1>1, <2>2 DEF MailLocal, OthersKept
    <3>2. PICK s \in Run : Who(s) = b /\ Reader(s)
      BY <3>1 DEF IInv, Readers
    <3>3. run'[s] = run[s]
      BY <1>3, <3>1, <3>2 DEF a
    <3> QED
      BY <3>2, <3>3 DEF Reader, CutAtFork
  <2> QED
    BY <2>1, <2>2
<1>17. Salvaged'
  <2> SUFFICES ASSUME NEW s \in Used, run'[s].pc = "tidy", run[s].alone, run'[s].jrn = "closed"
               PROVE  rec'[Who(s)].report = s
    BY <1>4, <1>5 DEF Salvaged
  <2>1. CASE s = r
    BY <1>1, <1>4, <2>1 DEF RecordLocal, IInv, Salvaged, a
  <2>2. CASE s # r
    <3>1. run'[s] = run[s] /\ rec[Who(s)].report = s /\ Live(s)
      BY <1>3, <1>4, <2>2 DEF IInv, Salvaged, Live
    <3>2. Who(s) # a
      <4>1. r \in Nat /\ s \in Nat /\ (r < s \/ s < r)
        BY <1>4, <2>2 DEF Run
      <4> QED
        BY <1>3, <1>4, <3>1, <4>1 DEF IInv, Marked, a
    <3> QED
      BY <1>1, <1>4, <1>5, <3>1, <3>2 DEF OthersKept
  <2> QED
    BY <2>1, <2>2
<1> QED
  BY <1>6, <1>7, <1>9, <1>10, <1>11, <1>13, <1>14, <1>15, <1>16, <1>17 DEF IInv

-----------------------------------------------------------------------------
(* The steps of run_agent up to the first round are local.                 *)

Records == [Agent -> [dir : BOOLEAN, msgs : BOOLEAN, report : Run \cup {NoRun}]]
RecordKept(a, old, new) == new \in Records /\ \A b \in Agent \ {a} : new[b] = old[b]

(* A change of one field leaves the records records, and all the others as *)
(* they were.                                                              *)
LEMMA RecordTyped ==
    ASSUME NEW recs \in Records, NEW a \in Agent, NEW x \in BOOLEAN, NEW y \in Run \cup {NoRun},
           NEW new, \/ new = recs \/ new = [recs EXCEPT ![a].dir = TRUE]
                    \/ new = [recs EXCEPT ![a].msgs = x] \/ new = [recs EXCEPT ![a].report = y]
    PROVE  RecordKept(a, recs, new)
<1> DEFINE R == [dir : BOOLEAN, msgs : BOOLEAN, report : Run \cup {NoRun}]
           c == recs[a]
<1>1. c \in R /\ Records = [Agent -> R]
  BY DEF Records
<1>2. ASSUME NEW d \in R
      PROVE  RecordKept(a, recs, [recs EXCEPT ![a] = d])
  <2> HIDE DEF R
  <2> QED
    BY <1>1 DEF RecordKept
<1>3. RecordKept(a, recs, [recs EXCEPT ![a].dir = TRUE])
  <2>1. [c EXCEPT !.dir = TRUE] \in R
    BY <1>1
  <2> QED
    BY <1>2, <2>1
<1>4. RecordKept(a, recs, [recs EXCEPT ![a].msgs = x])
  <2>1. [c EXCEPT !.msgs = x] \in R
    BY <1>1
  <2> QED
    BY <1>2, <2>1
<1>5. RecordKept(a, recs, [recs EXCEPT ![a].report = y])
  <2>1. [c EXCEPT !.report = y] \in R
    BY <1>1
  <2> QED
    BY <1>2, <2>1
<1>6. RecordKept(a, recs, recs)
  BY DEF RecordKept
<1> QED
  BY <1>3, <1>4, <1>5, <1>6

(* Moving on changes nothing else of the coroutine. *)
LEMMA PlaceMoved ==
    ASSUME Typed, NEW r \in Run, NEW place, run' = [run EXCEPT ![r].pc = place]
    PROVE  /\ run'[r].pc = place /\ run'[r].agent = run[r].agent /\ run'[r].how = run[r].how
           /\ run'[r].iso = run[r].iso /\ run'[r].jrn = run[r].jrn /\ run'[r].end = run[r].end
           /\ run'[r].said = run[r].said /\ run'[r].hit = run[r].hit /\ run'[r].text = run[r].text
  BY DEF Typed, Coroutine

(* A step that leaves the tables alone is local when the run goes on       *)
(* answering for its row and for its mailbox.                              *)
LEMMA QuietLocal ==
    ASSUME IInv, NEW r \in Run, Step(r), UNCHANGED <<row, info, mail, rec, team>>,
           handle' \in [Agent -> Run \cup {NoRun}],
           Pledge(r) => Pledge(r)',
           RowFits(r) => RowFits(r)',
           Working(r)' => Working(r), run'[r].pc # "tidy",
           run'[r].iso /\ run'[r].jrn = "none" => run[r].iso /\ run[r].jrn = "none",
           Reader(r) => Reader(r)' \/ ~rec[Who(r)].dir
    PROVE  Local(r)
<1>1. TablesTyped /\ OthersKept(Who(r))
  BY DEF IInv, Base, Typed, TablesTyped, OthersKept
<1>2. RowLocal(r, Who(r))
  BY DEF RowLocal
<1>3. RecordLocal(r, Who(r))
  BY DEF RecordLocal
<1>4. MailLocal(r, Who(r))
  BY DEF MailLocal
<1> QED
  BY <1>1, <1>2, <1>3, <1>4 DEF Local

(* Each step up to the first round is local.                               *)
LEMMA StartsLocal ==
    ASSUME IInv, NEW r \in Run,
           \/ stream_run(r) \/ Begin(r) \/ Admit(r) \/ PreflightFails(r)
           \/ Open(r, "open") \/ Open(r, "none") \/ (\E made \in BOOLEAN : Forked(r, made))
           \/ Receive(r) \/ RoundStart(r)
    PROVE  Local(r)
<1>1. Base /\ Typed /\ Step(r) /\ StagedOf(r) /\ run[r] \in Coroutine
  BY StartsStep DEF IInv, Base, Staged, Typed
<1>2. Who(r) \in Agent /\ run[r].pc # "unused"
  BY <1>1 DEF Step, Live, StagedOf
<1>3. CASE stream_run(r) \/ Begin(r) \/ Admit(r)
  <2>1. PICK place \in {"made", "queued", "ahead"} : run' = [run EXCEPT ![r].pc = place]
    BY <1>3 DEF stream_run, Begin, Admit
  <2>2. run[r].pc \in Early /\ UNCHANGED <<row, info, mail, rec, team>>
    BY <1>3 DEF stream_run, Begin, Admit, At, Early
  <2>3. handle' \in [Agent -> Run \cup {NoRun}]
    BY <1>1, <1>3 DEF stream_run, Begin, Admit, Typed
  <2>4. /\ Pledge(r) => Pledge(r)'
        /\ RowFits(r) => RowFits(r)'
        /\ (Working(r)' => Working(r)) /\ run'[r].pc # "tidy"
        /\ run'[r].iso /\ run'[r].jrn = "none" => run[r].iso /\ run[r].jrn = "none"
        /\ Reader(r) => Reader(r)'
    BY <1>1, <2>1, <2>2, PlaceMoved
       DEF Pledge, Wrapped, RowFits, Working, Reader, CutAtFork, Early, Inside, Who, StagedOf
  <2> QED
    BY <1>1, <2>2, <2>3, <2>4, QuietLocal
<1>4. CASE PreflightFails(r)
  <2>1. /\ run[r].pc = "ahead" /\ UNCHANGED <<row, info, mail, rec, team, handle>>
        /\ run' = [run EXCEPT ![r].pc = Outside(r), ![r].end = "failed", ![r].text = r]
    BY <1>4 DEF PreflightFails, At
  <2>2. /\ run'[r].pc = Outside(r) /\ run'[r].agent = run[r].agent /\ run'[r].how = run[r].how
        /\ run'[r].iso = run[r].iso /\ run'[r].jrn = run[r].jrn /\ run'[r].end = "failed"
        /\ run'[r].said = run[r].said
    BY <1>1, <2>1 DEF Typed, Coroutine
  <2>3. /\ Pledge(r) => Pledge(r)'
        /\ RowFits(r) => RowFits(r)'
        /\ (Working(r)' => Working(r)) /\ run'[r].pc # "tidy"
        /\ run'[r].iso /\ run'[r].jrn = "none" => run[r].iso /\ run[r].jrn = "none"
        /\ Reader(r) => Reader(r)'
    BY <1>1, <2>1, <2>2
       DEF Pledge, Wrapped, RowFits, Working, Reader, CutAtFork, Early, Inside, Who, StagedOf, Outside
  <2> QED
    BY <1>1, <2>1, <2>3, QuietLocal DEF Typed
<1>5. ASSUME NEW jrn \in {"open", "none"}, Open(r, jrn) PROVE Local(r)
  <2> DEFINE p == IF run[r].iso THEN "fork" ELSE "setup"
  <2>1. /\ run[r].pc = "ahead" /\ ~run[r].hit /\ UNCHANGED <<mail, handle, team>>
        /\ run' = [run EXCEPT ![r].pc = p, ![r].jrn = jrn]
        /\ info' = [info EXCEPT ![Who(r)] = "running"]
        /\ jrn = "open" => /\ rec' = [rec EXCEPT ![Who(r)].dir = TRUE]
                           /\ row' = [row EXCEPT ![Who(r)] = "running"]
        /\ jrn = "none" => UNCHANGED <<rec, row>>
    BY <1>5 DEF Open, At
  <2>2. /\ run'[r].pc = p /\ run'[r].agent = run[r].agent /\ run'[r].how = run[r].how
        /\ run'[r].iso = run[r].iso /\ run'[r].jrn = jrn /\ run'[r].end = run[r].end
        /\ run'[r].said = run[r].said
    BY <1>1, <2>1 DEF Typed, Coroutine
  <2>3. p \in {"fork", "setup"}
    OBVIOUS
  <2> HIDE DEF p
  <2>4. TablesTyped /\ OthersKept(Who(r))
    <3> DEFINE a == Who(r)
    <3>1. row' = row \/ row' = [row EXCEPT ![a] = "running"]
      BY <2>1
    <3>2. rec' = rec \/ rec' = [rec EXCEPT ![a].dir = TRUE]
      BY <2>1
    <3>3. a \in Agent
      BY <1>2
    <3> HIDE DEF a
    <3>4. row' \in [Agent -> Statuses] /\ \A b \in Agent \ {a} : row'[b] = row[b]
      BY <1>1, <3>1, <3>3 DEF Typed, Statuses
    <3>5. RecordKept(a, rec, rec')
      <4>1. rec \in Records
        BY <1>1 DEF Typed, Records
      <4> QED
        BY <3>2, <3>3, <4>1, RecordTyped
    <3>6. info' = [info EXCEPT ![a] = "running"]
      BY <2>1 DEF a
    <3>7. info' \in [Agent -> Statuses \ {"interrupted"}] /\ \A b \in Agent \ {a} : info'[b] = info[b]
      BY <1>1, <3>6, <3>3 DEF Typed, Statuses
    <3> QED
      BY <1>1, <2>1, <3>4, <3>5, <3>7 DEF TablesTyped, OthersKept, Typed, RecordKept, Records, a
  <2>5. row'[Who(r)] = (IF jrn = "open" THEN "running" ELSE row[Who(r)])
        /\ (jrn = "open" => rec'[Who(r)].dir) /\ (jrn = "none" => rec' = rec)
    BY <1>1, <1>2, <2>1 DEF Typed
  <2>6. /\ Wrapped(r)' = Wrapped(r) /\ run[r].jrn = "none" /\ run[r].end = "none"
        /\ run[r].how = "stream" => run[r].said = "no"
        /\ run[r].how \in {"detached", "resumed", "stream", "chat"}
    BY <1>1, <1>2, <2>1, <2>2 DEF Wrapped, StagedOf, Early, Coroutine
  <2>7. RowLocal(r, Who(r))
    BY <2>1, <2>2, <2>3, <2>5, <2>6 DEF RowLocal, Pledge, Wrapped, RowFits, Working, Early, Inside, Who
  <2>8. RecordLocal(r, Who(r))
    BY <2>2, <2>5, <2>6 DEF RecordLocal
  <2>9. MailLocal(r, Who(r))
    BY <2>2, <2>3 DEF MailLocal, Reader
  <2> QED
    BY <1>1, <2>4, <2>7, <2>8, <2>9 DEF Local
<1>6. ASSUME NEW made \in BOOLEAN, Forked(r, made) PROVE Local(r)
  <2>1. /\ run[r].pc = "fork" /\ UNCHANGED <<row, info, mail, rec, team, handle>>
        /\ run' = [run EXCEPT ![r].pc = "setup", ![r].iso = made]
    BY <1>6 DEF Forked, At
  <2>2. /\ run'[r].pc = "setup" /\ run'[r].agent = run[r].agent /\ run'[r].how = run[r].how
        /\ run'[r].iso = made /\ run'[r].jrn = run[r].jrn /\ run'[r].end = run[r].end
        /\ run'[r].said = run[r].said
    BY <1>1, <2>1 DEF Typed, Coroutine
  <2>3. /\ Pledge(r) => Pledge(r)'
        /\ RowFits(r) => RowFits(r)'
        /\ (Working(r)' => Working(r)) /\ run'[r].pc # "tidy"
        /\ run'[r].iso /\ run'[r].jrn = "none" => run[r].iso /\ run[r].jrn = "none"
        /\ Reader(r)'
    BY <1>1, <2>1, <2>2
       DEF Pledge, Wrapped, RowFits, Working, Reader, CutAtFork, Early, Inside, Who, StagedOf
  <2> QED
    BY <1>1, <2>1, <2>3, QuietLocal DEF Typed
<1>7. CASE Receive(r) \/ RoundStart(r)
  <2>1. PICK place \in {"ready", "work"} : run' = [run EXCEPT ![r].pc = place]
    BY <1>7 DEF Receive, RoundStart
  <2>2. /\ run[r].pc \in {"setup", "ready"} /\ UNCHANGED <<row, info, handle, team>>
        /\ mail' = mail \/ mail' = [mail EXCEPT ![Who(r)] = FALSE]
        /\ rec' = rec \/ rec' = [rec EXCEPT ![Who(r)].msgs = @ \/ run[r].jrn = "open"]
    BY <1>7 DEF Receive, RoundStart, At, Read
  <2>3. TablesTyped /\ OthersKept(Who(r)) /\ rec'[Who(r)].dir = rec[Who(r)].dir
    <3> DEFINE a == Who(r)
               saved == rec[a].msgs \/ run[r].jrn = "open"
    <3>1. a \in Agent /\ saved \in BOOLEAN
      BY <1>2
    <3>2. /\ mail' = mail \/ mail' = [mail EXCEPT ![a] = FALSE]
          /\ rec' = rec \/ rec' = [rec EXCEPT ![a].msgs = saved]
      BY <2>2
    <3> HIDE DEF a, saved
    <3>3. mail' \in [Agent -> BOOLEAN] /\ \A b \in Agent \ {a} : mail'[b] = mail[b]
      BY <1>1, <3>1, <3>2 DEF Typed
    <3>4. RecordKept(a, rec, rec') /\ rec'[a].dir = rec[a].dir
      <4>1. rec \in Records /\ NoRun \in Run \cup {NoRun}
        BY <1>1 DEF Typed, Records
      <4>2. RecordKept(a, rec, rec')
        BY <3>1, <3>2, <4>1, RecordTyped
      <4>3. rec'[a].dir = rec[a].dir
        BY <1>1, <3>1, <3>2 DEF Typed
      <4> QED
        BY <4>2, <4>3
    <3> QED
      BY <1>1, <2>2, <3>3, <3>4 DEF TablesTyped, OthersKept, Typed, RecordKept, Records, a
  <2>4. RowLocal(r, Who(r)) /\ RecordLocal(r, Who(r))
    <3>1. /\ run'[r].pc = place /\ run'[r].agent = run[r].agent /\ run'[r].how = run[r].how
          /\ run'[r].iso = run[r].iso /\ run'[r].jrn = run[r].jrn /\ run'[r].end = run[r].end
          /\ run'[r].said = run[r].said
      BY <1>1, <2>1, PlaceMoved
    <3>2. row'[Who(r)] = row[Who(r)]
      BY <2>2
    <3>3. RowLocal(r, Who(r))
      BY <2>2, <3>1, <3>2 DEF RowLocal, Pledge, Wrapped, RowFits, Working, Early, Inside, Who
    <3>4. RecordLocal(r, Who(r))
      BY <2>3, <3>1 DEF RecordLocal
    <3> QED
      BY <3>3, <3>4
  <2>5. MailLocal(r, Who(r))
    <3>1. run'[r].pc = place
      BY <1>1, <2>1, PlaceMoved
    <3> QED
      BY <3>1 DEF MailLocal, Reader
  <2> QED
    BY <1>1, <2>3, <2>4, <2>5 DEF Local
<1> QED
  BY <1>3, <1>4, <1>5, <1>6, <1>7

-----------------------------------------------------------------------------
(* The ends of run_agent are local.                                        *)

(* finish_task closes the row of its agent if it runs, and touches no      *)
(* other.                                                                  *)
LEMMA RowClosed ==
    ASSUME Typed, NEW a \in Agent, NEW v \in Verdicts
    PROVE  /\ CloseRow(a, v) \in [Agent -> Statuses]
           /\ CloseRow(a, v)[a] = IF row[a] = "running" THEN v ELSE row[a]
           /\ \A b \in Agent \ {a} : CloseRow(a, v)[b] = row[b]
<1> DEFINE x == IF row[a] = "running" THEN v ELSE row[a]
<1>1. CloseRow(a, v) = [row EXCEPT ![a] = x]
  BY DEF CloseRow
<1>2. x \in Statuses
  BY DEF Typed, Statuses, Verdicts
<1> HIDE DEF x
<1>3. [row EXCEPT ![a] = x][a] = x /\ [row EXCEPT ![a] = x] \in [Agent -> Statuses]
      /\ \A b \in Agent \ {a} : [row EXCEPT ![a] = x][b] = row[b]
  BY <1>2 DEF Typed
<1> QED
  BY <1>1, <1>3 DEF x

(* Leaving run_agent: nothing waits in the mailbox, and only the row of a  *)
(* chat run may be new.                                                    *)
LEMMA Left ==
    ASSUME Typed, NEW r \in Run, Who(r) \in Agent, NEW v \in Verdicts,
           NEW rows \in [Agent -> Statuses], Leave(r, v, rows)
    PROVE  /\ row' \in [Agent -> Statuses] /\ info' \in [Agent -> Statuses \ {"interrupted"}]
           /\ mail' \in [Agent -> BOOLEAN]
           /\ info'[Who(r)] = v /\ ~mail'[Who(r)]
           /\ row'[Who(r)] = rows[Who(r)] \/ (run[r].how = "chat" /\ row'[Who(r)] = v)
           /\ \A b \in Agent \ {Who(r)} :
                 row'[b] = rows[b] /\ info'[b] = info[b] /\ mail'[b] = mail[b]
<1> DEFINE a == Who(r)
<1>1. /\ info' = [info EXCEPT ![a] = v] /\ mail' = [mail EXCEPT ![a] = FALSE]
      /\ row' = rows \/ (run[r].how = "chat" /\ row' = [rows EXCEPT ![a] = v])
  BY DEF Leave
<1>2. a \in Agent /\ v \in Statuses \ {"interrupted"}
  BY DEF Verdicts, Statuses
<1> HIDE DEF a
<1>3. /\ info' \in [Agent -> Statuses \ {"interrupted"}] /\ info'[a] = v
      /\ \A b \in Agent \ {a} : info'[b] = info[b]
  BY <1>1, <1>2 DEF Typed
<1>4. mail' \in [Agent -> BOOLEAN] /\ ~mail'[a] /\ \A b \in Agent \ {a} : mail'[b] = mail[b]
  BY <1>1, <1>2 DEF Typed
<1>5. /\ row' \in [Agent -> Statuses] /\ \A b \in Agent \ {a} : row'[b] = rows[b]
      /\ row'[a] = rows[a] \/ (run[r].how = "chat" /\ row'[a] = v)
  BY <1>1, <1>2
<1> QED
  BY <1>3, <1>4, <1>5 DEF a

(* An end of run_agent, whatever closed or left its journal.               *)
LEMMA EndedLocal ==
    ASSUME IInv, NEW r \in Run, NEW place \in {"harvest", "tidy"},
           NEW jrn \in {"none", "open", "closed"}, NEW rows \in [Agent -> Statuses],
           NEW v \in Verdicts, NEW text \in Run \cup {NoRun}, Ended(r, place, jrn, v, text),
           run[r].pc \in Inside, v = "stopped" /\ jrn # "none" => text = r,
           place = "harvest" => v # "stopped",
           place = "tidy" => jrn = JournalEnd(r) /\ rec' = JournalRec(r),
           \/ jrn = JournalEnd(r) /\ rows = JournalRow(r, v)
           \/ jrn = run[r].jrn /\ rows = row,
           rec' = rec \/ rec' = [rec EXCEPT ![Who(r)].report = r],
           IF run[r].iso
           THEN /\ row' = rows /\ UNCHANGED mail
                /\ info' = info \/ info' = [info EXCEPT ![Who(r)] = v]
           ELSE Leave(r, v, rows),
           UNCHANGED <<handle, team>>
    PROVE  Local(r)
<1> DEFINE a == Who(r)
<1>1. Typed /\ Base /\ StagedOf(r) /\ run[r] \in Coroutine
  BY DEF IInv, Base, Staged, Typed
<1>2. /\ Step(r) /\ run'[r].end = v /\ run'[r].jrn = jrn /\ run'[r].iso = run[r].iso
      /\ run'[r].pc = (IF run[r].iso THEN place ELSE Outside(r))
      /\ run'[r].said = run[r].said
      /\ run'[r].agent = run[r].agent /\ run'[r].how = run[r].how
  BY <1>1, EndedStep DEF Step, JournalEnd
<1>3. a \in Agent /\ run[r].how \in {"detached", "resumed", "stream", "chat"} /\ run[r].end = "none"
  BY <1>1 DEF StagedOf, Inside, Coroutine
<1>4. /\ \A b \in Agent \ {a} : rows[b] = row[b]
      /\ rows[a] = row[a] \/ (row[a] = "running" /\ rows[a] = v)
      /\ jrn = "closed" => rows[a] # "running" /\ (row[a] = "running" => rows[a] = v)
                           /\ run[r].jrn = "open"
      /\ jrn = "none" <=> run[r].jrn = "none"
      /\ jrn = "open" => run[r].jrn = "open"
  BY <1>1, <1>3, RowClosed DEF JournalEnd, JournalRow, StagedOf, Inside, Verdicts
<1>5. /\ RecordKept(a, rec, rec') /\ rec'[a].dir = rec[a].dir
      /\ place = "tidy" /\ jrn = "closed" => rec'[a].report = r
  <2>1. rec \in Records /\ r \in Run \cup {NoRun} /\ a \in Agent
    BY <1>1, <1>3 DEF Typed, Records
  <2>2. rec' = rec \/ rec' = [rec EXCEPT ![a].report = r]
    OBVIOUS
  <2> HIDE DEF a
  <2>3. RecordKept(a, rec, rec')
    BY <2>1, <2>2, RecordTyped
  <2>4. rec'[a].dir = rec[a].dir
    BY <1>1, <2>1, <2>2 DEF Typed
  <2>5. place = "tidy" /\ jrn = "closed" => rec' = [rec EXCEPT ![a].report = r]
    BY <1>4 DEF JournalRec, a
  <2>6. place = "tidy" /\ jrn = "closed" => rec'[a].report = r
    BY <1>1, <2>1, <2>5 DEF Typed
  <2> QED
    BY <2>3, <2>4, <2>6
<1>6. /\ row' \in [Agent -> Statuses] /\ info' \in [Agent -> Statuses \ {"interrupted"}]
      /\ mail' \in [Agent -> BOOLEAN]
      /\ row'[a] = rows[a] \/ (run[r].how = "chat" /\ row'[a] = v)
      /\ \A b \in Agent \ {a} : row'[b] = row[b] /\ info'[b] = info[b] /\ mail'[b] = mail[b]
      /\ run[r].iso \/ (info'[a] = v /\ ~mail'[a])
  <2>1. CASE run[r].iso
    <3>1. row' = rows /\ mail' = mail /\ (info' = info \/ info' = [info EXCEPT ![a] = v])
      BY <2>1
    <3>2. v \in Statuses \ {"interrupted"}
      BY DEF Verdicts, Statuses
    <3> HIDE DEF a
    <3>3. info' \in [Agent -> Statuses \ {"interrupted"}] /\ \A b \in Agent \ {a} : info'[b] = info[b]
      BY <1>1, <1>3, <3>1, <3>2 DEF Typed
    <3> QED
      BY <1>1, <1>4, <2>1, <3>1, <3>3 DEF Typed
  <2>2. CASE ~run[r].iso
    BY <1>1, <1>3, <1>4, <2>2, Left
  <2> QED
    BY <2>1, <2>2
<1>7. TablesTyped /\ OthersKept(a)
  BY <1>1, <1>5, <1>6 DEF TablesTyped, OthersKept, Typed, RecordKept, Records
<1>8. RowLocal(r, a)
  BY <1>2, <1>3, <1>4, <1>6
     DEF RowLocal, Pledge, Wrapped, RowFits, Working, Early, Inside, Outside, Who, Verdicts
<1>9. RecordLocal(r, a)
  BY <1>2, <1>4, <1>5 DEF RecordLocal, Outside
<1>10. MailLocal(r, a)
  BY <1>2, <1>6 DEF MailLocal, Reader, Verdicts
<1> QED
  BY <1>2, <1>7, <1>8, <1>9, <1>10 DEF Local

(* A return, a failed serve, an exception and a cancel are such ends.      *)
LEMMA EndsLocal ==
    ASSUME IInv, NEW r \in Run,
           \/ RunEnds(r, "completed") \/ RunEnds(r, "failed") \/ ServeFails(r)
           \/ RunRaises(r) \/ CancelledInside(r)
    PROVE  Local(r)
<1>1. Typed /\ StagedOf(r) /\ run[r] \in Coroutine
  BY DEF IInv, Base, Staged, Typed
<1>2. run[r].pc # "unused" => Who(r) \in Agent
  BY <1>1 DEF StagedOf
<1>3. \A v \in Verdicts : run[r].pc # "unused" => JournalRow(r, v) \in [Agent -> Statuses]
  BY <1>1, <1>2, RowClosed DEF JournalRow, Typed
<1>4. /\ JournalEnd(r) \in {"none", "open", "closed"} /\ run[r].jrn \in {"none", "open", "closed"}
      /\ row \in [Agent -> Statuses] /\ r \in Run \cup {NoRun}
      /\ (run[r].pc # "unused" => rec[Who(r)].report \in Run \cup {NoRun})
  BY <1>1, <1>2 DEF JournalEnd, Coroutine, Typed
<1>5. ASSUME NEW v \in {"completed", "failed"}, RunEnds(r, v) PROVE Local(r)
  <2>1. v \in Verdicts /\ run[r].pc = "work" /\ "harvest" \in {"harvest", "tidy"} /\ v # "stopped"
    BY <1>5 DEF RunEnds, At, Verdicts
  <2>2. rec' = rec \/ rec' = [rec EXCEPT ![Who(r)].report = r]
    BY <1>5 DEF RunEnds, JournalRec
  <2>3. /\ Ended(r, "harvest", JournalEnd(r), v, r) /\ UNCHANGED <<handle, team>>
        /\ IF run[r].iso
           THEN /\ row' = JournalRow(r, v) /\ UNCHANGED mail
                /\ info' = info \/ info' = [info EXCEPT ![Who(r)] = v]
           ELSE Leave(r, v, JournalRow(r, v))
    BY <1>5 DEF RunEnds
  <2>4. run[r].pc \in Inside
    BY <2>1 DEF Inside
  <2> QED
    BY <1>3, <1>4, <2>1, <2>2, <2>3, <2>4, EndedLocal
<1>6. CASE ServeFails(r)
  <2>1. "failed" \in Verdicts /\ run[r].pc = "ready" /\ "harvest" \in {"harvest", "tidy"}
    BY <1>6 DEF ServeFails, At, Verdicts
  <2>2. /\ Ended(r, "harvest", run[r].jrn, "failed", r) /\ UNCHANGED <<rec, handle, team>>
        /\ IF run[r].iso
           THEN /\ row' = row /\ UNCHANGED mail
                /\ info' = info \/ info' = [info EXCEPT ![Who(r)] = "failed"]
           ELSE Leave(r, "failed", row)
    BY <1>6 DEF ServeFails
  <2>3. run[r].pc \in Inside
    BY <2>1 DEF Inside
  <2> QED
    BY <1>4, <2>1, <2>2, <2>3, EndedLocal
<1>7. ASSUME NEW v \in {"failed", "stopped"}, NEW text \in Run \cup {NoRun}, Abort(r, v, text),
             run[r].pc \in Inside, v = "stopped" /\ run[r].jrn # "none" => text = r
      PROVE  Local(r)
  <2>1. v \in Verdicts /\ "tidy" \in {"harvest", "tidy"} /\ run[r].pc # "unused"
    BY <1>7 DEF Verdicts, Inside
  <2>2. rec' = rec \/ rec' = [rec EXCEPT ![Who(r)].report = r]
    BY <1>7 DEF Abort, JournalRec
  <2>3. /\ Ended(r, "tidy", JournalEnd(r), v, text) /\ UNCHANGED <<handle, team>>
        /\ IF run[r].iso
           THEN /\ row' = JournalRow(r, v) /\ UNCHANGED mail
                /\ info' = info \/ info' = [info EXCEPT ![Who(r)] = v]
           ELSE Leave(r, v, JournalRow(r, v))
    BY <1>7 DEF Abort
  <2>4. v = "stopped" /\ JournalEnd(r) # "none" => text = r
    BY <1>7 DEF JournalEnd
  <2>5. "tidy" # "harvest" /\ rec' = JournalRec(r)
    BY <1>7 DEF Abort
  <2> QED
    BY <1>3, <1>4, <1>7, <2>1, <2>2, <2>3, <2>4, <2>5, EndedLocal
<1>8. CASE RunRaises(r)
  BY <1>4, <1>7, <1>8 DEF RunRaises, Inside
<1>9. CASE CancelledInside(r)
  <2> DEFINE text == IF run[r].jrn = "open" THEN r ELSE rec[Who(r)].report
  <2>1. Abort(r, "stopped", text) /\ run[r].pc \in Inside /\ run[r].pc # "unused"
    BY <1>9 DEF CancelledInside, Inside
  <2>2. text \in Run \cup {NoRun} /\ (run[r].jrn # "none" => text = r)
    BY <1>1, <1>4, <2>1 DEF StagedOf, Inside, Coroutine
  <2> HIDE DEF text
  <2> QED
    BY <1>7, <2>1, <2>2
<1> QED
  BY <1>5, <1>6, <1>8, <1>9

-----------------------------------------------------------------------------
(* What is left of a run, its hand-over and its reader going are local.    *)

(* The coroutine moves to d, which its stage allows.                       *)
LEMMA StepOf ==
    ASSUME Base, NEW r \in Run, Live(r), NEW d \in Coroutine, run' = [run EXCEPT ![r] = d],
           d.agent = run[r].agent, d.how = run[r].how, d.alone = run[r].alone, d.pc # "unused",
           StagedOf(r)'
    PROVE  Step(r)
  BY DEF Step, Base, Typed

(* A step that closes the row of its agent. *)
LEMMA ClosedLocal ==
    ASSUME IInv, NEW r \in Run, Step(r), NEW v \in Verdicts, row' = CloseRow(Who(r), v),
           UNCHANGED <<info, mail, rec, handle, team>>,
           RowFits(r) => RowFits(r)',
           ~Working(r)', run'[r].pc = "tidy" => run[r].pc = "tidy",
           run'[r].iso = run[r].iso, run'[r].jrn = run[r].jrn,
           Reader(r) => Reader(r)'
    PROVE  Local(r)
<1>1. Typed /\ StagedOf(r) /\ Who(r) \in Agent
  BY DEF IInv, Base, Staged, StagedOf, Step, Live
<1>2. /\ row' \in [Agent -> Statuses] /\ row'[Who(r)] # "running"
      /\ \A b \in Agent \ {Who(r)} : row'[b] = row[b]
  BY <1>1, RowClosed DEF Verdicts
<1>3. TablesTyped /\ OthersKept(Who(r))
  BY <1>1, <1>2 DEF Typed, TablesTyped, OthersKept
<1>4. RowLocal(r, Who(r)) /\ RecordLocal(r, Who(r)) /\ MailLocal(r, Who(r))
  BY <1>2 DEF RowLocal, RecordLocal, MailLocal
<1> QED
  BY <1>3, <1>4 DEF Local

(* A cancel that comes before the try of run_agent.                        *)
LEMMA CutLocal ==
    ASSUME IInv, NEW r \in Run, CancelledUnborn(r) \/ CancelledAhead(r)
    PROVE  Local(r)
<1> DEFINE c == run[r]
<1>1. Typed /\ Base /\ StagedOf(r) /\ c \in Coroutine
  BY DEF IInv, Base, Staged, Typed
<1>2. /\ Live(r) /\ c.pc \in {"made", "queued", "ahead", "fork"}
      /\ UNCHANGED <<row, info, mail, rec, handle, team>>
  BY DEF CancelledUnborn, CancelledAhead, Live
<1>3. Who(r) \in Agent /\ c.how \in {"detached", "resumed", "stream", "chat"}
  BY <1>1, <1>2 DEF StagedOf, Coroutine
<1>4. PICK p \in {"over", "closing"}, v \in {"none", "stopped"}, text \in Run \cup {NoRun} :
        /\ run' = [run EXCEPT ![r].pc = p, ![r].hit = FALSE, ![r].end = v, ![r].text = text]
        /\ p = "closing" => Wrapped(r) /\ v = "stopped"
        /\ p = "over" => (Wrapped(r) <=> v = "none")
        /\ v = "none" => c.pc = "made"
  <2>1. CASE CancelledUnborn(r)
    <3>1. run' = [run EXCEPT ![r].pc = "over", ![r].hit = FALSE,
                             ![r].end = IF Wrapped(r) THEN "none" ELSE "stopped", ![r].text = c.text]
      BY <1>1, <2>1 DEF CancelledUnborn, Typed, Coroutine
    <3>2. c.text \in Run \cup {NoRun} /\ c.pc = "made"
      BY <1>1, <2>1 DEF CancelledUnborn, Coroutine
    <3>3. CASE Wrapped(r)
      <4>1. run' = [run EXCEPT ![r].pc = "over", ![r].hit = FALSE, ![r].end = "none", ![r].text = c.text]
        BY <3>1, <3>3
      <4> QED
        BY <3>2, <3>3, <4>1
    <3>4. CASE ~Wrapped(r)
      <4>1. run' = [run EXCEPT ![r].pc = "over", ![r].hit = FALSE, ![r].end = "stopped", ![r].text = c.text]
        BY <3>1, <3>4
      <4> QED
        BY <3>2, <3>4, <4>1
    <3> QED
      BY <3>3, <3>4
  <2>2. CASE CancelledAhead(r)
    <3>1. rec[Who(r)].report \in Run \cup {NoRun} /\ Outside(r) \in {"over", "closing"}
          /\ (Outside(r) = "closing" <=> Wrapped(r))
      BY <1>1, <1>3 DEF Typed, Outside
    <3>2. run' = [run EXCEPT ![r].pc = Outside(r), ![r].hit = FALSE, ![r].end = "stopped",
                             ![r].text = rec[Who(r)].report]
      BY <2>2 DEF CancelledAhead
    <3> QED
      BY <3>1, <3>2
  <2> QED
    BY <2>1, <2>2
<1> DEFINE d == [c EXCEPT !.pc = p, !.hit = FALSE, !.end = v, !.text = text]
<1>5. run' = [run EXCEPT ![r] = d]
  BY <1>1, <1>4 DEF Typed
<1>6. d \in Coroutine
  <2>1. p \in Places /\ v \in Verdicts \cup {"none", "lost"}
    BY DEF Places, Verdicts
  <2> QED
    BY <1>1, <2>1 DEF Coroutine
<1>7. /\ d.pc = p /\ d.end = v /\ d.text = text /\ d.agent = c.agent /\ d.how = c.how
      /\ d.alone = c.alone /\ d.jrn = c.jrn /\ d.said = c.said /\ d.iso = c.iso
  BY <1>1 DEF Coroutine
<1>8. run'[r] = d
  BY <1>1, <1>5 DEF Typed
<1> HIDE DEF d, c
<1>9. StagedOf(r)'
  <2>1. c.jrn = "none" \/ (c.jrn = "open" /\ c.iso)
    BY <1>1, <1>2 DEF StagedOf, Early, Inside, Coroutine, c
  <2> QED
    BY <1>1, <1>2, <1>3, <1>4, <1>7, <1>8, <2>1 DEF StagedOf, Who, Wrapped, Early, Inside, Verdicts, c
<1>10. Step(r)
  <2>1. d.agent = run[r].agent /\ d.how = run[r].how /\ d.alone = run[r].alone /\ d.pc # "unused"
    BY <1>7 DEF c
  <2> QED
    BY <1>1, <1>2, <1>5, <1>6, <1>9, <2>1, StepOf
<1>11. Reader(r) => Reader(r)' \/ ~rec[Who(r)].dir
  <2>1. SUFFICES ASSUME Reader(r), ~Reader(r)' PROVE ~rec[Who(r)].dir
    OBVIOUS
  <2>2. c.pc = "fork" /\ c.jrn = "none" /\ c.iso
    BY <1>1, <1>2, <1>4, <1>7, <1>8, <2>1 DEF Reader, CutAtFork, StagedOf, Inside, Early, Coroutine, c
  <2>3. r \in Used
    BY <2>2 DEF Used, c
  <2> QED
    BY <2>2, <2>3 DEF IInv, Isolated, c
<1>12. /\ Pledge(r) => Pledge(r)'
       /\ RowFits(r) => RowFits(r)'
       /\ (Working(r)' => Working(r)) /\ run'[r].pc # "tidy"
       /\ run'[r].iso /\ run'[r].jrn = "none" => run[r].iso /\ run[r].jrn = "none"
  BY <1>1, <1>2, <1>3, <1>4, <1>7, <1>8
     DEF Pledge, Wrapped, RowFits, Working, Early, Inside, Who, StagedOf, c
<1> QED
  BY <1>1, <1>2, <1>10, <1>11, <1>12, QuietLocal DEF Typed

(* The worktree, the hand-over, the done callback and the stream.          *)
LEMMA HandsLocal ==
    ASSUME IInv, NEW r \in Run,
           Brought(r) \/ Finish(r) \/ DoneCallback(r) \/ StreamEnds(r) \/ Disconnect(r)
    PROVE  Local(r)
<1> DEFINE c == run[r]
<1>1. Typed /\ Base /\ StagedOf(r) /\ c \in Coroutine
  BY DEF IInv, Base, Staged, Typed
<1>2. Live(r) /\ Who(r) \in Agent /\ c.how \in {"detached", "resumed", "stream", "chat"}
  <2>1. Live(r)
    BY DEF Brought, Finish, DoneCallback, StreamEnds, Disconnect, Live, Done
  <2> QED
    BY <1>1, <2>1 DEF StagedOf, Coroutine, Live
<1>3. CASE Brought(r)
  <2> DEFINE text == IF c.end = "stopped" THEN rec[Who(r)].report ELSE r
             d == [c EXCEPT !.pc = Outside(r), !.hit = FALSE, !.text = text]
  <2>1. /\ c.pc \in {"harvest", "tidy"} /\ run' = [run EXCEPT ![r] = d]
        /\ Leave(r, c.end, row) /\ UNCHANGED <<rec, handle, team>>
    BY <1>1, <1>3 DEF Brought, Typed
  <2>2. c.iso /\ c.end \in Verdicts /\ Outside(r) \in Places \ {"unused"} /\ text \in Run \cup {NoRun}
    BY <1>1, <1>2, <2>1 DEF StagedOf, Outside, Places, Typed
  <2>3. c.alone /\ c.jrn # "none" => text = r
    <3>1. CASE c.end # "stopped"
      BY <3>1
    <3>2. CASE c.end = "stopped"
      <4>1. c.pc = "tidy" /\ c.jrn \in {"none", "closed"} /\ r \in Used
        BY <1>1, <2>1, <3>2 DEF StagedOf, Coroutine, Used
      <4> QED
        BY <3>2, <4>1 DEF IInv, Salvaged
    <3> QED
      BY <3>1, <3>2
  <2> HIDE DEF text
  <2>4. d \in Coroutine
    BY <1>1, <2>2 DEF Coroutine
  <2>5. /\ d.pc = Outside(r) /\ d.end = c.end /\ d.agent = c.agent /\ d.how = c.how /\ d.text = text
        /\ d.alone = c.alone /\ d.jrn = c.jrn /\ d.said = c.said /\ d.iso = c.iso
    BY <1>1 DEF Coroutine
  <2>6. run'[r] = d
    BY <1>1, <2>1 DEF Typed
  <2> HIDE DEF d
  <2>7. StagedOf(r)'
    BY <1>1, <2>1, <2>2, <2>5, <2>6, <2>3
       DEF StagedOf, Who, Wrapped, Outside, Early, Inside, Verdicts
  <2>8. Step(r)
    BY <1>1, <1>2, <2>1, <2>2, <2>4, <2>5, <2>7, StepOf
  <2>9. /\ row' \in [Agent -> Statuses] /\ info' \in [Agent -> Statuses \ {"interrupted"}]
        /\ mail' \in [Agent -> BOOLEAN]
        /\ info'[Who(r)] = c.end /\ ~mail'[Who(r)]
        /\ row'[Who(r)] = row[Who(r)] \/ (c.how = "chat" /\ row'[Who(r)] = c.end)
        /\ \A b \in Agent \ {Who(r)} :
              row'[b] = row[b] /\ info'[b] = info[b] /\ mail'[b] = mail[b]
    BY <1>1, <1>2, <2>1, <2>2, Left DEF Typed
  <2>10. TablesTyped /\ OthersKept(Who(r))
    BY <1>1, <2>1, <2>9 DEF TablesTyped, OthersKept, Typed
  <2>11. RowLocal(r, Who(r))
    BY <1>1, <1>2, <2>1, <2>2, <2>5, <2>6, <2>9
       DEF RowLocal, Pledge, Wrapped, RowFits, Working, Early, Inside, Outside, Who, Verdicts
  <2>12. RecordLocal(r, Who(r)) /\ MailLocal(r, Who(r))
    BY <2>1, <2>2, <2>5, <2>6, <2>9 DEF RecordLocal, MailLocal, Verdicts, Outside
  <2> QED
    BY <2>8, <2>10, <2>11, <2>12 DEF Local
<1>4. CASE Finish(r)
  <2> DEFINE d == [c EXCEPT !.pc = "over", !.hit = FALSE, !.said = "report"]
  <2>1. /\ c.pc = "closing" /\ run' = [run EXCEPT ![r] = d]
        /\ row' = CloseRow(Who(r), c.end) /\ UNCHANGED <<info, mail, rec, handle, team>>
    BY <1>1, <1>4 DEF Finish, Typed
  <2>2. c.end \in Verdicts /\ Wrapped(r)
    BY <1>1, <2>1 DEF StagedOf
  <2>3. d \in Coroutine
    <3>1. "over" \in Places
      BY DEF Places
    <3> QED
      BY <1>1, <3>1 DEF Coroutine
  <2>4. /\ d.pc = "over" /\ d.end = c.end /\ d.agent = c.agent /\ d.how = c.how /\ d.text = c.text
        /\ d.alone = c.alone /\ d.jrn = c.jrn /\ d.said = "report" /\ d.iso = c.iso
    BY <1>1 DEF Coroutine
  <2>5. run'[r] = d
    BY <1>1, <2>1 DEF Typed
  <2> HIDE DEF d
  <2>6. StagedOf(r)'
    BY <1>1, <2>1, <2>2, <2>4, <2>5 DEF StagedOf, Who, Wrapped, Early, Inside, Verdicts
  <2>7. Step(r)
    BY <1>1, <1>2, <2>1, <2>3, <2>4, <2>6, StepOf
  <2>8. row'[Who(r)] = IF row[Who(r)] = "running" THEN c.end ELSE row[Who(r)]
    BY <1>1, <1>2, <2>1, <2>2, RowClosed
  <2>9. /\ RowFits(r) => RowFits(r)'
        /\ ~Working(r)' /\ run'[r].iso = run[r].iso /\ run'[r].jrn = run[r].jrn
        /\ run'[r].pc = "tidy" => run[r].pc = "tidy"
        /\ Reader(r) => Reader(r)'
    BY <2>1, <2>2, <2>4, <2>5, <2>8
       DEF Wrapped, RowFits, Working, Reader, CutAtFork, Early, Inside, Who
  <2> QED
    BY <2>1, <2>2, <2>7, <2>9, ClosedLocal
<1>5. CASE DoneCallback(r)
  <2>1. PICK p \in {"left", "gone"} : /\ run' = [run EXCEPT ![r].pc = p]
                                      /\ p = "left" <=> c.how = "stream" /\ c.said = "no"
    BY <1>5 DEF DoneCallback
  <2>2. c.pc = "over" /\ UNCHANGED <<row, info, mail, rec, team>>
    BY <1>5 DEF DoneCallback
  <2>3. handle' \in [Agent -> Run \cup {NoRun}]
    BY <1>1, <1>5 DEF DoneCallback, Typed
  <2>4. p \in Places /\ p # "unused"
    BY DEF Places
  <2>5. [c EXCEPT !.pc = p] \in Coroutine /\ run' = [run EXCEPT ![r] = [c EXCEPT !.pc = p]]
    BY <1>1, <2>1, <2>4, FieldTyped DEF Typed
  <2>6. /\ [c EXCEPT !.pc = p].pc = p /\ [c EXCEPT !.pc = p].agent = c.agent
        /\ [c EXCEPT !.pc = p].how = c.how /\ [c EXCEPT !.pc = p].alone = c.alone
    BY <1>1 DEF Coroutine
  <2>7. StagedOf(r)'
    BY <1>1, <2>1, <2>2, PlaceMoved DEF StagedOf, Who, Wrapped, Early, Inside, Verdicts
  <2>8. /\ Pledge(r) => Pledge(r)'
        /\ RowFits(r) => RowFits(r)'
        /\ (Working(r)' => Working(r)) /\ run'[r].pc # "tidy"
        /\ run'[r].iso /\ run'[r].jrn = "none" => run[r].iso /\ run[r].jrn = "none"
        /\ Reader(r) => Reader(r)'
    BY <1>1, <2>1, <2>2, PlaceMoved
       DEF Pledge, Wrapped, RowFits, Working, Reader, CutAtFork, Early, Inside, Who, StagedOf
  <2> HIDE DEF c
  <2>9. Step(r)
    BY <1>1, <1>2, <2>4, <2>5, <2>6, <2>7, StepOf DEF c
  <2> QED
    BY <2>2, <2>3, <2>8, <2>9, QuietLocal
<1>6. CASE StreamEnds(r)
  <2> DEFINE d == [c EXCEPT !.pc = "gone", !.said = "told"]
  <2>1. /\ c.pc = "left" /\ run' = [run EXCEPT ![r] = d]
        /\ row' = CloseRow(Who(r), c.end) /\ UNCHANGED <<info, mail, rec, handle, team>>
    BY <1>1, <1>6 DEF StreamEnds, Typed
  <2>2. c.end \in Verdicts /\ c.how = "stream"
    BY <1>1, <2>1 DEF StagedOf
  <2>3. d \in Coroutine
    <3>1. "gone" \in Places
      BY DEF Places
    <3> QED
      BY <1>1, <3>1 DEF Coroutine
  <2>4. /\ d.pc = "gone" /\ d.end = c.end /\ d.agent = c.agent /\ d.how = c.how /\ d.text = c.text
        /\ d.alone = c.alone /\ d.jrn = c.jrn /\ d.said = "told" /\ d.iso = c.iso
    BY <1>1 DEF Coroutine
  <2>5. run'[r] = d
    BY <1>1, <2>1 DEF Typed
  <2> HIDE DEF d
  <2>6. StagedOf(r)'
    BY <1>1, <2>1, <2>2, <2>4, <2>5 DEF StagedOf, Who, Wrapped, Early, Inside, Verdicts
  <2>7. Step(r)
    BY <1>1, <1>2, <2>1, <2>3, <2>4, <2>6, StepOf
  <2>8. /\ RowFits(r)' /\ ~Working(r)' /\ run'[r].iso = run[r].iso /\ run'[r].jrn = run[r].jrn
        /\ run'[r].pc = "tidy" => run[r].pc = "tidy"
        /\ Reader(r) => Reader(r)'
    BY <2>1, <2>2, <2>4, <2>5 DEF Wrapped, RowFits, Working, Reader, CutAtFork
  <2> QED
    BY <2>1, <2>2, <2>7, <2>8, ClosedLocal
<1>7. CASE Disconnect(r) /\ c.pc = "frame"
  <2>1. /\ run' = [run EXCEPT ![r].pc = "gone"] /\ UNCHANGED <<row, info, mail, rec, handle, team>>
        /\ c.how = "stream"
    BY <1>7 DEF Disconnect
  <2>2. [c EXCEPT !.pc = "gone"] \in Coroutine /\ run' = [run EXCEPT ![r] = [c EXCEPT !.pc = "gone"]]
    BY <1>1, <2>1, FieldTyped DEF Typed, Places
  <2>3. /\ [c EXCEPT !.pc = "gone"].pc = "gone" /\ [c EXCEPT !.pc = "gone"].agent = c.agent
        /\ [c EXCEPT !.pc = "gone"].how = c.how /\ [c EXCEPT !.pc = "gone"].alone = c.alone
    BY <1>1 DEF Coroutine
  <2>4. StagedOf(r)'
    BY <1>1, <1>7, <2>1, PlaceMoved DEF StagedOf, Who, Wrapped, Early, Inside, Verdicts
  <2>5. /\ Pledge(r) => Pledge(r)'
        /\ RowFits(r) => RowFits(r)'
        /\ (Working(r)' => Working(r)) /\ run'[r].pc # "tidy"
        /\ run'[r].iso /\ run'[r].jrn = "none" => run[r].iso /\ run[r].jrn = "none"
        /\ Reader(r) => Reader(r)'
    BY <1>1, <1>7, <2>1, PlaceMoved
       DEF Pledge, Wrapped, RowFits, Working, Reader, CutAtFork, Early, Inside, Who, StagedOf
  <2> HIDE DEF c
  <2>6. Step(r)
    BY <1>1, <1>2, <2>2, <2>3, <2>4, StepOf DEF c
  <2> QED
    BY <1>1, <2>1, <2>5, <2>6, QuietLocal DEF Typed
<1>8. CASE Disconnect(r) /\ c.pc # "frame"
  <2> DEFINE d == [c EXCEPT !.hit = TRUE, !.said = "told"]
  <2>1. /\ c.how = "stream" /\ run' = [run EXCEPT ![r] = d]
        /\ row' = CloseRow(Who(r), "stopped") /\ UNCHANGED <<info, mail, rec, handle, team>>
    BY <1>1, <1>8 DEF Disconnect, Typed
  <2>2. c.pc \notin {"unused", "over", "left", "gone"}
    BY <1>8 DEF Disconnect, Done
  <2>3. d \in Coroutine
    BY <1>1 DEF Coroutine
  <2>4. /\ d.pc = c.pc /\ d.end = c.end /\ d.agent = c.agent /\ d.how = c.how /\ d.text = c.text
        /\ d.alone = c.alone /\ d.jrn = c.jrn /\ d.said = "told" /\ d.iso = c.iso /\ d.hit
    BY <1>1 DEF Coroutine
  <2>5. run'[r] = d
    BY <1>1, <2>1 DEF Typed
  <2> HIDE DEF d
  <2>6. StagedOf(r)'
    BY <1>1, <2>1, <2>2, <2>4, <2>5 DEF StagedOf, Who, Wrapped, Early, Inside, Verdicts
  <2>7. Step(r)
    BY <1>1, <1>2, <2>1, <2>2, <2>3, <2>4, <2>6, StepOf
  <2>8. /\ RowFits(r)' /\ ~Working(r)' /\ run'[r].iso = run[r].iso /\ run'[r].jrn = run[r].jrn
        /\ run'[r].pc = "tidy" => run[r].pc = "tidy"
        /\ Reader(r) => Reader(r)'
    BY <2>1, <2>4, <2>5 DEF Wrapped, RowFits, Working, Reader, CutAtFork
  <2>9. "stopped" \in Verdicts
    BY DEF Verdicts
  <2> QED
    BY <2>1, <2>7, <2>8, <2>9, ClosedLocal
<1> QED
  BY <1>3, <1>4, <1>5, <1>6, <1>7, <1>8

-----------------------------------------------------------------------------
(* The steps that start runs, and those that touch several runs at once.   *)

(* New runs take the next numbers. *)
Brings(new) ==
    /\ run' \in [Run -> Coroutine]
    /\ \A r \in new :
          /\ StagedOf(r)' /\ run'[r].pc \in {"made", "frame"}
          /\ Fresh(Who(r)') \/ (rec[Who(r)'].dir /\ ~run'[r].iso)
          /\ Wrapped(r)' => row'[Who(r)'] = "running"
    /\ \A r, s \in new : Who(r)' = Who(s)' => r = s
    /\ \A r \in Run \ new :
          /\ run'[r].agent = run[r].agent /\ run'[r].how = run[r].how /\ run'[r].pc = run[r].pc
          /\ run'[r].iso = run[r].iso /\ run'[r].jrn = run[r].jrn /\ run'[r].end = run[r].end
          /\ run'[r].hit = run[r].hit /\ run'[r].text = run[r].text /\ run'[r].said = run[r].said
          /\ run'[r].alone => run[r].alone
    /\ \A r \in new, s \in Used : Who(s) = Who(r)' /\ Live(s) => ~run'[r].alone /\ ~run'[s].alone
    /\ \A b \in Agent :
          \/ row'[b] = row[b]
          \/ row'[b] = "running" /\ \E r \in new : Who(r)' = b /\ Pledge(r)'

(* They keep the invariant.                                                *)
LEMMA BringsKept ==
    ASSUME IInv, NEW m \in Run, NextRun \in Run, NextRun <= m, Brings(NextRun..m),
           row' \in [Agent -> Statuses], handle' \in [Agent -> Run \cup {NoRun}],
           team' \in [Team -> [runs : SUBSET Run, asked : BOOLEAN, read : BOOLEAN]],
           Members', UNCHANGED <<info, mail, rec>>
    PROVE  IInv'
<1> DEFINE n == NextRun
           new == n..m
<1> USE Bounds
<1>1. Typed /\ Staged /\ Members /\ Numbered
  BY DEF IInv, Base
<1>2. run[n].pc = "unused" /\ Used = 1..(n - 1) /\ n \in Nat \ {0} /\ \A r \in Used : r < n
  BY <1>1, NextFacts
<1>3. m \in Nat /\ new \subseteq Run /\ Used \subseteq Run /\ n <= m
  BY <1>2 DEF Run, Used
<1>4. Brings(new)
  OBVIOUS
<1> HIDE DEF n, new
<1>5. \A r \in new : r \notin Used
  BY <1>2, <1>3 DEF new
<1>6. Used' = Used \cup new
  <2>1. \A r \in new : run'[r].pc \in {"made", "frame"}
    BY <1>4 DEF Brings
  <2>2. \A r \in Run \ new : run'[r].pc = run[r].pc
    BY <1>4 DEF Brings
  <2> QED
    BY <1>3, <1>5, <2>1, <2>2 DEF Used
<1>7. Used' = 1..m
  BY <1>2, <1>3, <1>6 DEF new
<1>8. \A r \in Used : /\ r \in Run \ new /\ Who(r)' = Who(r) /\ Who(r) \in Agent
                      /\ (Live(r)' <=> Live(r)) /\ (Wrapped(r)' <=> Wrapped(r))
                      /\ (Pledge(r)' <=> Pledge(r)) /\ (Reader(r)' <=> Reader(r))
                      /\ (Working(r)' <=> Working(r)) /\ (run'[r].alone => run[r].alone)
  <2> SUFFICES ASSUME NEW r \in Used
               PROVE  /\ r \in Run \ new /\ Who(r)' = Who(r) /\ Who(r) \in Agent
                      /\ (Live(r)' <=> Live(r)) /\ (Wrapped(r)' <=> Wrapped(r))
                      /\ (Pledge(r)' <=> Pledge(r)) /\ (Reader(r)' <=> Reader(r))
                      /\ (Working(r)' <=> Working(r)) /\ (run'[r].alone => run[r].alone)
    OBVIOUS
  <2>1. r \in Run \ new /\ StagedOf(r) /\ run[r].pc # "unused"
    BY <1>1, <1>3, <1>5 DEF Staged, Used
  <2>2. /\ run'[r].agent = run[r].agent /\ run'[r].how = run[r].how /\ run'[r].pc = run[r].pc
        /\ run'[r].jrn = run[r].jrn /\ run'[r].end = run[r].end
        /\ run'[r].said = run[r].said /\ (run'[r].alone => run[r].alone)
    BY <1>4, <2>1 DEF Brings
  <2> QED
    BY <2>1, <2>2 DEF StagedOf, Who, Live, Wrapped, Pledge, Reader, CutAtFork, Working
<1>9. \A s \in Run : Who(s) \in Agent => s \in Used
  BY <1>1, Names DEF Used, Staged, StagedOf
<1>10. Base'
  <2>1. Typed'
    BY <1>1, <1>4 DEF Typed, Brings
  <2>2. Staged'
    <3> SUFFICES ASSUME NEW r \in Run PROVE StagedOf(r)'
      BY DEF Staged
    <3>1. CASE r \in new
      BY <1>4, <3>1 DEF Brings
    <3>2. CASE r \notin new
      <4>1. StagedOf(r)
        BY <1>1 DEF Staged
      <4>2. /\ run'[r].agent = run[r].agent /\ run'[r].how = run[r].how /\ run'[r].pc = run[r].pc
            /\ run'[r].iso = run[r].iso /\ run'[r].jrn = run[r].jrn /\ run'[r].end = run[r].end
            /\ run'[r].hit = run[r].hit /\ run'[r].text = run[r].text /\ run'[r].said = run[r].said
            /\ run'[r].alone => run[r].alone
        BY <1>4, <3>2 DEF Brings
      <4> QED
        BY <4>1, <4>2 DEF StagedOf, Who, Wrapped
    <3> QED
      BY <3>1, <3>2
  <2>3. m \in 0..MaxRuns
    BY <1>3 DEF Run
  <2> QED
    BY <1>7, <2>1, <2>2, <2>3 DEF Base, Numbered
<1>11. \A r \in new : Who(r)' \in Agent /\ run'[r].jrn = "none" /\ run'[r].end = "none"
  BY <1>4 DEF Brings, StagedOf, Early
<1>12. Marked'
  <2> SUFFICES ASSUME NEW r \in Used', NEW s \in Used', Who(r)' = Who(s)', s < r, Live(s)'
               PROVE  ~run'[r].alone /\ ~run'[s].alone
    BY DEF Marked
  <2>1. CASE r \in Used
    <3>1. s \in Used
      BY <1>2, <1>3, <1>7, <2>1
    <3> QED
      BY <1>8, <2>1, <3>1 DEF IInv, Marked
  <2>2. CASE r \in new
    <3>1. s \in Used
      BY <1>3, <1>4, <1>6, <1>7, <2>2 DEF Brings
    <3> QED
      BY <1>4, <1>8, <2>2, <3>1 DEF Brings
  <2> QED
    BY <1>6, <2>1, <2>2
<1>13. \A r \in new, s \in Used : Who(s) = Who(r)' => rec[Who(s)].dir
  BY <1>4 DEF Brings, Fresh, Who
<1>14. Single'
  <2> SUFFICES ASSUME NEW r \in Used', NEW s \in Used', Who(r)' = Who(s)', r # s
               PROVE  rec[Who(r)'].dir
    BY DEF Single
  <2>1. CASE r \in Used /\ s \in Used
    BY <1>8, <2>1 DEF IInv, Single
  <2>2. CASE r \in new /\ s \in Used
    BY <1>8, <1>13, <2>2
  <2>3. CASE r \in Used /\ s \in new
    BY <1>8, <1>13, <2>3
  <2>4. CASE r \in new /\ s \in new
    BY <1>4, <2>4 DEF Brings
  <2> QED
    BY <1>6, <2>1, <2>2, <2>3, <2>4
<1>15. Isolated'
  <2> SUFFICES ASSUME NEW r \in Used', run'[r].iso, run'[r].jrn = "none" PROVE ~rec[Who(r)'].dir
    BY DEF Isolated
  <2>1. CASE r \in Used
    <3>1. run[r].iso /\ run[r].jrn = "none" /\ Who(r)' = Who(r)
      BY <1>4, <1>8, <2>1 DEF Brings
    <3> QED
      BY <2>1, <3>1 DEF IInv, Isolated
  <2>2. CASE r \in new
    <3>1. Fresh(Who(r)') /\ Who(r)' \in Agent
      BY <1>4, <1>11, <2>2 DEF Brings
    <3> QED
      BY <3>1 DEF IInv, Recorded
  <2> QED
    BY <1>6, <2>1, <2>2
<1>16. Recorded'
  <2> SUFFICES ASSUME NEW b \in Agent, rec[b].dir PROVE ~Fresh(b)'
    BY DEF Recorded
  <2>1. PICK s \in Used : Who(s) = b
    BY DEF IInv, Recorded, Fresh, Who
  <2> QED
    BY <1>6, <1>8, <2>1 DEF Fresh, Who
<1>17. Followed'
  <2> SUFFICES ASSUME NEW s \in Used', Last(s)' PROVE RowFits(s)'
    BY DEF Followed
  <2>1. CASE s \in new
    BY <1>4, <1>11, <2>1 DEF Brings, RowFits, Early
  <2>2. CASE s \in Used
    <3>1. ASSUME NEW r \in new, Who(r)' = Who(s) PROVE FALSE
      <4>1. Who(r)' = Who(s)' /\ r \in Run /\ s \in Run
        BY <1>3, <1>8, <2>2, <3>1
      <4>2. r <= s /\ s < n
        BY <1>2, <2>2, <4>1 DEF Last
      <4>3. n <= r /\ r \in Nat /\ s \in Nat /\ n \in Nat
        BY <1>2, <1>3, <3>1, <4>1 DEF new, Run
      <4> QED
        BY <4>2, <4>3
    <3>2. row'[Who(s)] = row[Who(s)]
      BY <1>4, <1>8, <2>2, <3>1 DEF Brings
    <3>3. Last(s)
      <4>1. run[s].alone /\ Who(s)' = Who(s) /\ Who(s) \in Agent
        BY <1>8, <2>2 DEF Last
      <4>2. ASSUME NEW r \in Run, Who(r) = Who(s) PROVE r <= s
        <5>1. Who(r)' = Who(r)
          BY <1>8, <1>9, <4>1, <4>2
        <5> QED
          BY <4>1, <4>2, <5>1 DEF Last
      <4> QED
        BY <4>1, <4>2 DEF Last
    <3>4. RowFits(s)
      BY <1>8, <2>2, <3>3 DEF IInv, Followed
    <3> QED
      BY <1>4, <1>8, <2>2, <3>2, <3>4 DEF RowFits, Brings, Wrapped
  <2> QED
    BY <1>6, <2>1, <2>2
<1>18. \A s \in Run : Working(s)' => s \in Used
  <2> SUFFICES ASSUME NEW s \in Run, Working(s)', s \notin Used PROVE FALSE
    OBVIOUS
  <2>1. s \notin new
    BY <1>11 DEF Working
  <2>2. run'[s].jrn = run[s].jrn /\ StagedOf(s) /\ run[s].pc = "unused"
    BY <1>1, <1>4, <2>1 DEF Brings, Staged, Used
  <2> QED
    BY <2>2 DEF Working, StagedOf
<1>19. Shown'
  <2> SUFFICES ASSUME NEW s \in Run, Working(s)', run'[s].alone PROVE row'[Who(s)'] = "running"
    BY DEF Shown
  <2>1. s \in Used /\ Working(s) /\ run[s].alone /\ Who(s)' = Who(s) /\ Who(s) \in Agent
    BY <1>8, <1>18
  <2> QED
    BY <1>4, <2>1 DEF IInv, Shown, Brings
<1> QED
  <2>1. Pledged'
    <3> SUFFICES ASSUME NEW b \in Agent, row'[b] = "running"
                 PROVE  \E s \in Run : Who(s)' = b /\ Pledge(s)'
      BY DEF Pledged
    <3>1. CASE row[b] = "running"
      <4>1. PICK s \in Run : Who(s) = b /\ Pledge(s)
        BY <3>1 DEF IInv, Pledged
      <4> QED
        BY <1>8, <1>9, <4>1
    <3>2. CASE row[b] # "running"
      BY <1>3, <1>4, <3>2 DEF Brings
    <3> QED
      BY <3>1, <3>2
  <2>2. Readers'
    <3> SUFFICES ASSUME NEW b \in Agent, info[b] = "running" \/ mail[b], rec[b].dir
                 PROVE  \E s \in Run : Who(s)' = b /\ Reader(s)'
      BY DEF Readers
    <3>1. PICK s \in Run : Who(s) = b /\ Reader(s)
      BY DEF IInv, Readers
    <3> QED
      BY <1>8, <1>9, <3>1
  <2>3. Salvaged'
    <3> SUFFICES ASSUME NEW s \in Used', run'[s].pc = "tidy", run'[s].alone, run'[s].jrn = "closed"
                 PROVE  rec[Who(s)'].report = s
      BY DEF Salvaged
    <3>1. s \in Used
      BY <1>6, <1>11
    <3>2. run[s].pc = "tidy" /\ run[s].alone /\ run[s].jrn = "closed" /\ Who(s)' = Who(s)
      BY <1>4, <1>8, <3>1 DEF Brings
    <3> QED
      BY <3>1, <3>2 DEF IInv, Salvaged
  <2> QED
    BY <1>10, <1>12, <1>14, <1>15, <1>16, <1>17, <1>19, <2>1, <2>2, <2>3 DEF IInv

(* What is known of a run that has just been started. *)
IsNew(d, a, hows) ==
    /\ d \in Coroutine /\ d.pc \in {"made", "frame"} /\ d.agent = a /\ d.how \in hows
    /\ d.pc = "frame" => d.how = "stream"
    /\ d.jrn = "none" /\ d.end = "none" /\ d.said = "no" /\ ~d.hit

(* One of them keeps it, beside runs that it may mark.                     *)
LEMMA OneStarts ==
    ASSUME IInv, NEW a \in Agent, NEW n \in Run, n = NextRun,
           NEW d, IsNew(d, a, {"detached", "resumed", "stream"}),
           run' \in [Run -> Coroutine], run'[n] = d,
           Fresh(a) \/ (rec[a].dir /\ ~d.iso),
           \A r \in Run \ {n} : run'[r] = run[r] \/ run'[r] = [run[r] EXCEPT !.alone = FALSE],
           \A s \in Used : Who(s) = a /\ Live(s) => ~d.alone /\ ~run'[s].alone,
           row' = [row EXCEPT ![a] = "running"],
           handle' \in [Agent -> Run \cup {NoRun}], UNCHANGED <<info, mail, rec, team>>
    PROVE  IInv'
<1> DEFINE new == n..n
<1>1. Typed /\ Staged /\ Members /\ Numbered
  BY DEF IInv, Base
<1>2. run[n].pc = "unused" /\ n \in Nat \ {0} /\ n \in Run
  BY <1>1, NextFacts
<1>3. new = {n}
  BY <1>2
<1>4. d \in Coroutine /\ d.pc \in {"made", "frame"}
  BY DEF IsNew
<1>5. /\ d.agent = a /\ d.how \in {"detached", "resumed", "stream"}
      /\ (d.pc = "frame" => d.how = "stream") /\ d.jrn = "none"
      /\ d.end = "none" /\ ~d.hit /\ d.said = "no"
  BY DEF IsNew
<1>6. run'[n] = d
  OBVIOUS
<1>7. \A r \in Run \ {n} :
          /\ run'[r].agent = run[r].agent /\ run'[r].how = run[r].how /\ run'[r].pc = run[r].pc
          /\ run'[r].iso = run[r].iso /\ run'[r].jrn = run[r].jrn /\ run'[r].end = run[r].end
          /\ run'[r].hit = run[r].hit /\ run'[r].text = run[r].text /\ run'[r].said = run[r].said
          /\ run'[r].alone => run[r].alone
  <2> SUFFICES ASSUME NEW r \in Run \ {n}
               PROVE  /\ run'[r].agent = run[r].agent /\ run'[r].how = run[r].how /\ run'[r].pc = run[r].pc
                      /\ run'[r].iso = run[r].iso /\ run'[r].jrn = run[r].jrn /\ run'[r].end = run[r].end
                      /\ run'[r].hit = run[r].hit /\ run'[r].text = run[r].text
                      /\ run'[r].said = run[r].said /\ (run'[r].alone => run[r].alone)
    OBVIOUS
  <2>1. run[r] \in Coroutine
    BY <1>1 DEF Typed
  <2>2. CASE run'[r] = run[r]
    BY <2>1, <2>2
  <2>3. CASE run'[r] = [run[r] EXCEPT !.alone = FALSE]
    BY <2>1, <2>3 DEF Coroutine
  <2> QED
    BY <2>2, <2>3
<1>8. Members'
  <2> SUFFICES ASSUME NEW t \in Team, NEW r \in team[t].runs
               PROVE  run'[r].how = "chat" /\ run'[r].pc # "unused"
    BY DEF Members
  <2>1. r \in Run /\ run[r].how = "chat" /\ run[r].pc # "unused"
    BY <1>1 DEF Members, Typed
  <2> QED
    BY <1>2, <1>7, <2>1
<1>9. row' \in [Agent -> Statuses] /\ row'[a] = "running" /\ \A b \in Agent \ {a} : row'[b] = row[b]
  BY <1>1 DEF Typed, Statuses
<1>10. StagedOf(n)' /\ Pledge(n)' /\ Who(n)' = a
  BY <1>4, <1>5, <1>6 DEF StagedOf, Pledge, Who, Wrapped, Early, Inside
<1>11. Brings(new)
  <2>1. \A r \in new :
          /\ StagedOf(r)' /\ run'[r].pc \in {"made", "frame"}
          /\ Fresh(Who(r)') \/ (rec[Who(r)'].dir /\ ~run'[r].iso)
          /\ Wrapped(r)' => row'[Who(r)'] = "running"
    BY <1>3, <1>4, <1>5, <1>6, <1>9, <1>10
  <2>2. \A r, s \in new : Who(r)' = Who(s)' => r = s
    BY <1>3
  <2>3. \A r \in new, s \in Used : Who(s) = Who(r)' /\ Live(s) => ~run'[r].alone /\ ~run'[s].alone
    BY <1>3, <1>5, <1>6, <1>10
  <2>4. \A b \in Agent :
          \/ row'[b] = row[b]
          \/ row'[b] = "running" /\ \E r \in new : Who(r)' = b /\ Pledge(r)'
    BY <1>3, <1>9, <1>10
  <2> QED
    BY <1>3, <1>7, <2>1, <2>2, <2>3, <2>4 DEF Brings
<1>12. team' \in [Team -> [runs : SUBSET Run, asked : BOOLEAN, read : BOOLEAN]]
  BY <1>1 DEF Typed
<1>13. n <= n
  BY <1>2
<1> QED
  BY <1>2, <1>8, <1>9, <1>11, <1>12, <1>13, BringsKept

(* A detached run, a stream and a resume are one.                          *)
LEMMA StartsKept ==
    ASSUME IInv, NEW a \in Agent,
           \/ \E iso \in BOOLEAN : start_detached_agent(a, iso)
           \/ subagent_stream(a)
           \/ NextRun \in Run /\ rec[a].dir /\ resume_agent(a) /\ UNCHANGED <<info, mail, rec, team>>
    PROVE  IInv'
<1>1. Typed /\ Numbered
  BY DEF IInv, Base
<1>2. NextRun \in Run
  BY DEF start_detached_agent, subagent_stream
<1>3. PICK n \in Run : n = NextRun /\ run[n].pc = "unused"
  BY <1>1, <1>2, NextFacts
<1>4. ASSUME NEW iso \in BOOLEAN, start_detached_agent(a, iso) PROVE IInv'
  <2> DEFINE d == [Unused EXCEPT !.pc = "made", !.agent = a, !.how = "detached", !.iso = iso]
  <2>1. run' = [run EXCEPT ![n] = d]
    BY <1>3, <1>4 DEF start_detached_agent
  <2>2. IsNew(d, a, {"detached", "resumed", "stream"})
    <3>1. d \in Coroutine
      <4>1. "made" \in Places
        BY DEF Places
      <4> QED
        BY <4>1, UnusedTyped DEF Coroutine
    <3> QED
      BY <3>1, UnusedTyped DEF IsNew, Coroutine, Unused
  <2> HIDE DEF d
  <2>3. /\ run' \in [Run -> Coroutine] /\ run'[n] = d
        /\ \A r \in Run \ {n} : run'[r] = run[r] \/ run'[r] = [run[r] EXCEPT !.alone = FALSE]
    BY <1>1, <2>1, <2>2 DEF Typed, IsNew
  <2>4. /\ Fresh(a) /\ row' = [row EXCEPT ![a] = "running"] /\ UNCHANGED <<info, mail, rec, team>>
        /\ handle' = [handle EXCEPT ![a] = NextRun]
    BY <1>4 DEF start_detached_agent
  <2>5. handle' \in [Agent -> Run \cup {NoRun}]
    BY <1>1, <1>2, <2>4 DEF Typed
  <2>6. \A s \in Used : Who(s) # a
    BY <2>4 DEF Fresh, Who
  <2> QED
    BY <1>3, <2>3, <2>4, <2>5, <2>6, <2>2, OneStarts
<1>5. CASE subagent_stream(a)
  <2> DEFINE d == [Unused EXCEPT !.pc = "frame", !.agent = a, !.how = "stream"]
  <2>1. run' = [run EXCEPT ![n] = d]
    BY <1>3, <1>5 DEF subagent_stream
  <2>2. IsNew(d, a, {"detached", "resumed", "stream"})
    <3>1. d \in Coroutine
      <4>1. "frame" \in Places
        BY DEF Places
      <4> QED
        BY <4>1, UnusedTyped DEF Coroutine
    <3> QED
      BY <3>1, UnusedTyped DEF IsNew, Coroutine, Unused
  <2> HIDE DEF d
  <2>3. /\ run' \in [Run -> Coroutine] /\ run'[n] = d
        /\ \A r \in Run \ {n} : run'[r] = run[r] \/ run'[r] = [run[r] EXCEPT !.alone = FALSE]
    BY <1>1, <2>1, <2>2 DEF Typed, IsNew
  <2>4. /\ Fresh(a) /\ row' = [row EXCEPT ![a] = "running"]
        /\ UNCHANGED <<info, mail, rec, team, handle>>
    BY <1>5 DEF subagent_stream
  <2>5. handle' \in [Agent -> Run \cup {NoRun}]
    BY <1>1, <2>4 DEF Typed
  <2>6. \A s \in Used : Who(s) # a
    BY <2>4 DEF Fresh, Who
  <2> QED
    BY <1>3, <2>3, <2>4, <2>5, <2>6, <2>2, OneStarts
<1>6. CASE rec[a].dir /\ resume_agent(a) /\ UNCHANGED <<info, mail, rec, team>>
  <2> DEFINE alone == ~\E s \in Run : Who(s) = a /\ Live(s)
             d == [Unused EXCEPT !.pc = "made", !.agent = a, !.how = "resumed", !.alone = alone]
  <2>1. run' = [r \in Run |->
                  IF r = n THEN d
                  ELSE IF Who(r) = a /\ Live(r) THEN [run[r] EXCEPT !.alone = FALSE] ELSE run[r]]
    BY <1>3, <1>6 DEF resume_agent
  <2>2. alone \in BOOLEAN /\ \A s \in Run : Who(s) = a /\ Live(s) => ~alone
    OBVIOUS
  <2> HIDE DEF alone
  <2>3. IsNew(d, a, {"detached", "resumed", "stream"}) /\ d.alone = alone /\ d.iso = FALSE
    <3>1. d \in Coroutine
      <4>1. "made" \in Places
        BY DEF Places
      <4> QED
        BY <2>2, <4>1, UnusedTyped DEF Coroutine
    <3>2. d.alone = alone /\ d.iso = FALSE
      BY UnusedTyped DEF Coroutine, Unused
    <3> QED
      BY <3>1, <3>2, UnusedTyped DEF IsNew, Coroutine, Unused
  <2> HIDE DEF d, alone
  <2>4. run' \in [Run -> Coroutine] /\ run'[n] = d
    <3>1. \A r \in Run : run[r] \in Coroutine /\ [run[r] EXCEPT !.alone = FALSE] \in Coroutine
      BY <1>1, FieldTyped DEF Typed
    <3> QED
      BY <2>1, <2>3, <3>1 DEF IsNew
  <2>5. \A r \in Run \ {n} : run'[r] = run[r] \/ run'[r] = [run[r] EXCEPT !.alone = FALSE]
    BY <2>1
  <2>6. /\ row' = [row EXCEPT ![a] = "running"] /\ handle' = [handle EXCEPT ![a] = NextRun]
    BY <1>6 DEF resume_agent
  <2>7. handle' \in [Agent -> Run \cup {NoRun}]
    BY <1>1, <1>2, <2>6 DEF Typed
  <2>8. \A s \in Used : Who(s) = a /\ Live(s) => ~alone /\ ~run'[s].alone
    <3> SUFFICES ASSUME NEW s \in Used, Who(s) = a, Live(s) PROVE ~alone /\ ~run'[s].alone
      OBVIOUS
    <3>1. s \in Run /\ s # n
      BY <1>3 DEF Used
    <3>2. run'[s] = [run[s] EXCEPT !.alone = FALSE] /\ run[s] \in Coroutine
      BY <1>1, <2>1, <3>1 DEF Typed
    <3> QED
      BY <2>2, <3>1, <3>2 DEF Coroutine
  <2> QED
    BY <1>3, <1>6, <2>2, <2>4, <2>5, <2>6, <2>7, <2>8, <2>3, OneStarts
<1> QED
  BY <1>4, <1>5, <1>6

(* As many runs as members, and each member has one: no two runs of a team *)
(* are of one agent.                                                       *)
LEMMA OneEach ==
    ASSUME NEW members \in SUBSET Agent, NEW lo \in Nat, lo # 0,
           NEW who \in [lo..(lo + Cardinality(members) - 1) -> members],
           \A a \in members : \E r \in lo..(lo + Cardinality(members) - 1) : who[r] = a
    PROVE  \A r, s \in lo..(lo + Cardinality(members) - 1) : who[r] = who[s] => r = s
<1> DEFINE k == Cardinality(members)
           new == lo..(lo + k - 1)
<1>1. IsFiniteSet(members) /\ k \in Nat
  BY Agents, FS_Subset, FS_CardinalityType
<1>2. IsFiniteSet(new) /\ Cardinality(new) = k
  <2>1. lo \in Int /\ lo + k - 1 \in Int
    BY <1>1
  <2>2. IsFiniteSet(new) /\ Cardinality(new) = IF lo > lo + k - 1 THEN 0 ELSE (lo + k - 1) - lo + 1
    BY <2>1, FS_Interval
  <2> QED
    BY <1>1, <2>2
<1>3. who \in Surjection(new, members)
  BY DEF Surjection
<1>4. who \in Injection(new, members)
  BY <1>1, <1>2, <1>3, FS_SurjSameCardinalityImpliesInj
<1> QED
  BY <1>4 DEF Injection, IsInjective

(* A team brings one for each member.                                      *)
LEMMA TeamKept ==
    ASSUME IInv, NEW t \in Team, NEW members \in SUBSET Agent, NEW iso \in BOOLEAN,
           create_team(t, members, iso)
    PROVE  IInv'
<1> USE Bounds
<1>1. Typed /\ Staged /\ Members /\ Numbered
  BY DEF IInv, Base
<1> DEFINE k == Cardinality(members)
           new == NextRun..(NextRun + k - 1)
<1>2. PICK who \in [new -> members] :
        /\ \A a \in members : \E r \in new : who[r] = a
        /\ run' = [r \in Run |->
                     IF r \in new
                     THEN [Unused EXCEPT !.pc = "made", !.agent = who[r], !.how = "chat",
                                         !.iso = iso, !.team = t]
                     ELSE run[r]]
  BY DEF create_team
<1>3. /\ members # {} /\ (\A a \in members : Fresh(a)) /\ new \subseteq Run
      /\ team' = [team EXCEPT ![t].runs = new] /\ UNCHANGED <<row, info, mail, rec, handle>>
  BY DEF create_team
<1>4. k \in Nat /\ k # 0
  BY <1>3, Agents, FS_Subset, FS_CardinalityType, FS_EmptySet
<1>5. NextRun \in Nat
  <2>1. PICK n \in 0..MaxRuns : Used = 1..n
    BY <1>1 DEF Numbered
  <2>2. Cardinality(1..n) = n
    BY <2>1, FS_Interval
  <2> QED
    BY <2>1, <2>2 DEF NextRun
<1>6. NextRun \in Run /\ NextRun + k - 1 \in Run /\ NextRun <= NextRun + k - 1
  BY <1>3, <1>4, <1>5
<1>7. PICK n \in Run : n = NextRun /\ run[n].pc = "unused" /\ n # 0 /\ n \in Nat
                        /\ \A r \in Used : r < n
  BY <1>1, <1>6, NextFacts
<1>8. PICK m \in Run : m = n + k - 1 /\ n <= m /\ new = n..m
  BY <1>6, <1>7
<1>9. \A r, s \in n..m : who[r] = who[s] => r = s
  <2>1. NextRun # 0
    BY <1>7
  <2>2. \A r, s \in new : who[r] = who[s] => r = s
    BY <1>2, <1>5, <2>1, OneEach
  <2> QED
    BY <1>8, <2>2
<1> HIDE DEF new, k
<1>10. \A r \in n..m : r \notin Used /\ r \in Run /\ who[r] \in members /\ who[r] \in Agent /\ Fresh(who[r])
  <2> SUFFICES ASSUME NEW r \in n..m
               PROVE  r \notin Used /\ r \in Run /\ who[r] \in members /\ who[r] \in Agent /\ Fresh(who[r])
    OBVIOUS
  <2>1. r \in new /\ r \in Run /\ who[r] \in members
    BY <1>2, <1>3, <1>8
  <2>2. r \notin Used
    <3>1. n <= r /\ r \in Nat /\ n \in Nat
      BY <1>7, <2>1 DEF Run
    <3>2. r \in Used => r < n
      BY <1>7
    <3> QED
      BY <3>1, <3>2
  <2> QED
    BY <1>3, <2>1, <2>2
<1>11. \A r \in n..m :
         /\ IsNew(run'[r], who[r], {"chat"})
         /\ run'[r] \in Coroutine
  <2> SUFFICES ASSUME NEW r \in n..m
               PROVE  IsNew(run'[r], who[r], {"chat"}) /\ run'[r] \in Coroutine
    OBVIOUS
  <2> DEFINE d == [Unused EXCEPT !.pc = "made", !.agent = who[r], !.how = "chat",
                                 !.iso = iso, !.team = t]
  <2>1. run'[r] = d
    BY <1>2, <1>8, <1>10
  <2>2. d \in Coroutine
    <3>1. "made" \in Places /\ who[r] \in Agent
      BY <1>10 DEF Places
    <3> QED
      BY <3>1, UnusedTyped DEF Coroutine
  <2>3. IsNew(d, who[r], {"chat"})
    BY <2>2, UnusedTyped DEF IsNew, Coroutine, Unused
  <2> QED
    BY <2>1, <2>2, <2>3
<1>12. \A r \in Run \ (n..m) : run'[r] = run[r] /\ run'[r] \in Coroutine
  BY <1>1, <1>2, <1>8 DEF Typed
<1>13. run' \in [Run -> Coroutine]
  <2>1. \A r \in Run : run'[r] \in Coroutine
    BY <1>11, <1>12
  <2>2. run' = [r \in Run |-> run'[r]]
    BY <1>2
  <2> QED
    BY <2>1, <2>2
<1>14. \A r \in n..m : /\ Who(r)' = who[r] /\ StagedOf(r)' /\ run'[r].pc \in {"made", "frame"}
                       /\ run'[r].how = "chat"
  BY <1>10, <1>11 DEF IsNew, StagedOf, Who, Wrapped, Early, Inside
<1>15. Brings(n..m)
  <2>1. \A r \in n..m :
          /\ StagedOf(r)' /\ run'[r].pc \in {"made", "frame"}
          /\ Fresh(Who(r)') \/ (rec[Who(r)'].dir /\ ~run'[r].iso)
          /\ Wrapped(r)' => row'[Who(r)'] = "running"
    BY <1>10, <1>14 DEF Wrapped
  <2>2. \A r, s \in n..m : Who(r)' = Who(s)' => r = s
    BY <1>9, <1>14
  <2>3. \A r \in n..m, s \in Used : Who(s) # Who(r)'
    BY <1>10, <1>14 DEF Fresh, Who
  <2>4. \A r \in Run \ (n..m) :
          /\ run'[r].agent = run[r].agent /\ run'[r].how = run[r].how /\ run'[r].pc = run[r].pc
          /\ run'[r].iso = run[r].iso /\ run'[r].jrn = run[r].jrn /\ run'[r].end = run[r].end
          /\ run'[r].hit = run[r].hit /\ run'[r].text = run[r].text /\ run'[r].said = run[r].said
          /\ run'[r].alone => run[r].alone
    BY <1>12
  <2>5. row' = row
    BY <1>3
  <2> QED
    BY <1>13, <2>1, <2>2, <2>3, <2>4, <2>5 DEF Brings
<1>16. team' \in [Team -> [runs : SUBSET Run, asked : BOOLEAN, read : BOOLEAN]]
       /\ team'[t].runs = new /\ \A u \in Team \ {t} : team'[u] = team[u]
  <2> DEFINE T == [runs : SUBSET Run, asked : BOOLEAN, read : BOOLEAN]
             e == [team[t] EXCEPT !.runs = new]
  <2>1. team \in [Team -> T] /\ team' = [team EXCEPT ![t] = e]
    BY <1>1, <1>3 DEF Typed
  <2>2. e \in T /\ e.runs = new
    BY <1>3, <2>1
  <2> HIDE DEF T, e
  <2>3. team' \in [Team -> T] /\ team'[t] = e /\ \A u \in Team \ {t} : team'[u] = team[u]
    BY <2>1, <2>2
  <2> QED
    BY <2>2, <2>3 DEF T
<1>17. Members'
  <2> SUFFICES ASSUME NEW u \in Team, NEW r \in team'[u].runs
               PROVE  run'[r].how = "chat" /\ run'[r].pc # "unused"
    BY DEF Members
  <2>1. CASE u = t
    BY <1>8, <1>14, <1>16, <2>1
  <2>2. CASE u # t
    <3>1. r \in Used /\ run[r].how = "chat" /\ r \in Run
      BY <1>1, <1>16, <2>2 DEF Members, Used, Typed
    <3> QED
      BY <1>10, <1>12, <3>1 DEF Used
  <2> QED
    BY <2>1, <2>2
<1> QED
  BY <1>1, <1>3, <1>7, <1>8, <1>15, <1>16, <1>17, BringsKept DEF Typed

(* A step that throws cancels into runs or reads what a team has done.     *)
Flags ==
    /\ run' \in [Run -> Coroutine]
    /\ \A r \in Run :
          /\ run'[r].agent = run[r].agent /\ run'[r].how = run[r].how /\ run'[r].iso = run[r].iso
          /\ run'[r].jrn = run[r].jrn /\ run'[r].end = run[r].end /\ run'[r].alone = run[r].alone
          /\ run[r].hit => run'[r].hit
          /\ \/ run'[r].pc = run[r].pc /\ run'[r].said = run[r].said /\ run'[r].text = run[r].text
             \/ /\ run[r].how = "chat" /\ run'[r].said # "no"
                /\ run'[r].pc = run[r].pc \/ (run[r].pc \in {"over", "gone"} /\ run'[r].pc = "gone")

(* It keeps the invariant.                                                 *)
LEMMA FlagsKept ==
    ASSUME IInv, Flags, UNCHANGED <<row, info, mail, rec, handle>>,
           team' \in [Team -> [runs : SUBSET Run, asked : BOOLEAN, read : BOOLEAN]],
           \A t \in Team : team'[t].runs = team[t].runs
    PROVE  IInv'
<1>1. Typed /\ Staged /\ Members /\ Numbered
  BY DEF IInv, Base
<1>2. \A r \in Run :
        /\ StagedOf(r)' /\ Who(r)' = Who(r) /\ run'[r].alone = run[r].alone /\ run'[r].iso = run[r].iso
        /\ (Live(r)' => Live(r)) /\ (run'[r].pc = "unused" <=> run[r].pc = "unused")
        /\ (Wrapped(r)' <=> Wrapped(r)) /\ run'[r].how = run[r].how /\ run'[r].jrn = run[r].jrn
        /\ (Pledge(r) => Pledge(r)') /\ (Reader(r) => Reader(r)') /\ (Working(r)' => Working(r))
        /\ Wrapped(r) => run'[r].pc = run[r].pc /\ run'[r].end = run[r].end
  <2> SUFFICES ASSUME NEW r \in Run
      PROVE  /\ StagedOf(r)' /\ Who(r)' = Who(r) /\ run'[r].alone = run[r].alone /\ run'[r].iso = run[r].iso
             /\ (Live(r)' => Live(r)) /\ (run'[r].pc = "unused" <=> run[r].pc = "unused")
             /\ (Wrapped(r)' <=> Wrapped(r)) /\ run'[r].how = run[r].how /\ run'[r].jrn = run[r].jrn
             /\ (Pledge(r) => Pledge(r)') /\ (Reader(r) => Reader(r)') /\ (Working(r)' => Working(r))
             /\ Wrapped(r) => run'[r].pc = run[r].pc /\ run'[r].end = run[r].end
    OBVIOUS
  <2>1. StagedOf(r)
    BY <1>1 DEF Staged
  <2>2. /\ run'[r].agent = run[r].agent /\ run'[r].how = run[r].how /\ run'[r].iso = run[r].iso
        /\ run'[r].jrn = run[r].jrn /\ run'[r].end = run[r].end /\ run'[r].alone = run[r].alone
        /\ (run[r].hit => run'[r].hit)
    BY DEF Flags
  <2>3. CASE run'[r].pc = run[r].pc /\ run'[r].said = run[r].said /\ run'[r].text = run[r].text
    BY <2>1, <2>2, <2>3
       DEF StagedOf, Who, Live, Wrapped, Pledge, Reader, CutAtFork, Working
  <2>4. CASE /\ run[r].how = "chat" /\ run'[r].said # "no"
             /\ run'[r].pc = run[r].pc \/ (run[r].pc \in {"over", "gone"} /\ run'[r].pc = "gone")
    BY <2>1, <2>2, <2>4
       DEF StagedOf, Who, Live, Wrapped, Pledge, Reader, CutAtFork, Working, Early, Inside, Verdicts
  <2> QED
    BY <2>3, <2>4 DEF Flags
<1>3. Used' = Used /\ Used \subseteq Run
  BY <1>2 DEF Used
<1>4. Base'
  <2>1. Typed' /\ Staged'
    BY <1>1, <1>2 DEF Typed, Staged, Flags
  <2>2. Members'
    BY <1>1, <1>2 DEF Members, Typed
  <2> QED
    BY <1>1, <1>3, <2>1, <2>2 DEF Base, Numbered
<1>5. Marked' /\ Single' /\ Isolated'
  BY <1>2, <1>3 DEF IInv, Marked, Single, Isolated
<1>6. Recorded'
  BY <1>2, <1>3 DEF IInv, Recorded, Fresh, Who
<1>7. Followed'
  <2> SUFFICES ASSUME NEW r \in Used, Last(r)' PROVE RowFits(r)'
    BY <1>3 DEF Followed
  <2>1. Last(r)
    BY <1>2, <1>3 DEF Last
  <2>2. RowFits(r) /\ run'[r].end = run[r].end /\ Who(r)' = Who(r)
    BY <1>2, <1>3, <2>1 DEF IInv, Followed, Flags
  <2> QED
    BY <1>2, <1>3, <2>2 DEF RowFits
<1>8. Shown' /\ Pledged' /\ Readers'
  BY <1>2 DEF IInv, Shown, Pledged, Readers
<1>9. Salvaged'
  <2> SUFFICES ASSUME NEW r \in Used, run'[r].pc = "tidy", run'[r].alone, run'[r].jrn = "closed"
               PROVE  rec[Who(r)].report = r
    BY <1>2, <1>3 DEF Salvaged
  <2>1. run[r].pc = "tidy" /\ run[r].alone /\ run[r].jrn = "closed"
    BY <1>2, <1>3 DEF Flags
  <2> QED
    BY <2>1 DEF IInv, Salvaged
<1> QED
  BY <1>4, <1>5, <1>6, <1>7, <1>8, <1>9 DEF IInv

(* A message comes to an agent that runs or has no record, or mail goes.   *)
LEMMA MailKept ==
    ASSUME IInv, mail' \in [Agent -> BOOLEAN], UNCHANGED <<row, info, rec, handle, run, team>>,
           \A a \in Agent : mail'[a] => mail[a] \/ info[a] = "running" \/ ~rec[a].dir
    PROVE  IInv'
<1>1. Typed'
  BY DEF IInv, Base, Typed
<1>2. Staged' /\ Members' /\ Numbered'
  BY DEF IInv, Base, Staged, StagedOf, Who, Wrapped, Members, Numbered, Used
<1>3. Marked' /\ Single' /\ Isolated' /\ Recorded'
  BY DEF IInv, Marked, Single, Isolated, Recorded, Fresh, Used, Who, Live
<1>4. Followed' /\ Shown' /\ Pledged'
  BY DEF IInv, Followed, Shown, Pledged, Used, Who, Wrapped, Last, RowFits, Working, Pledge
<1>5. Readers'
  BY DEF IInv, Readers, Reader, CutAtFork, Who
<1>6. Salvaged'
  BY DEF IInv, Salvaged, Used, Who
<1> QED
  BY <1>1, <1>2, <1>3, <1>4, <1>5, <1>6 DEF IInv, Base

(* The server goes down and boots.                                         *)
LEMMA RestartKept ==
    ASSUME IInv, Restart
    PROVE  IInv'
<1>1. Typed /\ Staged /\ Members /\ Numbered
  BY DEF IInv, Base
<1> DEFINE Lost(r) == [Unused EXCEPT !.pc = "gone", !.agent = Who(r), !.how = run[r].how, !.end = "lost"]
<1>2. /\ run' = [r \in Run |-> IF Live(r) THEN Lost(r) ELSE run[r]]
      /\ row' = [a \in Agent |-> IF row[a] = "running" THEN "interrupted" ELSE row[a]]
      /\ info' = [a \in Agent |-> "none"] /\ mail' = [a \in Agent |-> FALSE]
      /\ handle' = [a \in Agent |-> NoRun] /\ rec' = rec
      /\ team' = [t \in Team |-> [team[t] EXCEPT !.read = team[t].runs # {}]]
  BY DEF Restart
<1>3. ASSUME NEW r \in Run
      PROVE  /\ run'[r] \in Coroutine /\ Who(r)' = Who(r) /\ run'[r].how = run[r].how
             /\ Live(r) => /\ run'[r].pc = "gone" /\ run'[r].end = "lost" /\ run'[r].jrn = "none"
                           /\ run'[r].iso = FALSE
             /\ ~Live(r) => run'[r] = run[r]
  <2>1. run[r] \in Coroutine
    BY <1>1 DEF Typed
  <2>2. CASE Live(r)
    <3>1. run'[r] = Lost(r)
      BY <1>2, <2>2
    <3>2. Lost(r) \in Coroutine
      <4>1. "gone" \in Places
        BY DEF Places
      <4> QED
        <5>1. /\ Who(r) \in Agent \cup {NoAgent}
              /\ run[r].how \in {"none", "detached", "resumed", "stream", "chat"}
          BY <2>1 DEF Coroutine, Who
        <5> QED
          BY <4>1, <5>1, UnusedTyped DEF Coroutine
    <3>3. /\ Lost(r).agent = Who(r) /\ Lost(r).how = run[r].how /\ Lost(r).pc = "gone"
          /\ Lost(r).end = "lost" /\ Lost(r).jrn = "none" /\ Lost(r).iso = FALSE
      BY UnusedTyped DEF Coroutine, Unused
    <3> QED
      BY <2>2, <3>1, <3>2, <3>3 DEF Who
  <2>3. CASE ~Live(r)
    BY <1>2, <2>1, <2>3 DEF Who
  <2> QED
    BY <2>2, <2>3
<1>4. \A r \in Run : ~Live(r)' /\ (run'[r].pc = "unused" <=> run[r].pc = "unused")
  BY <1>3 DEF Live
<1>5. Used' = Used /\ Used \subseteq Run
  BY <1>4 DEF Used
<1>6. Base'
  <2>1. run' \in [Run -> Coroutine]
    BY <1>2, <1>3
  <2>2. team' \in [Team -> [runs : SUBSET Run, asked : BOOLEAN, read : BOOLEAN]]
        /\ \A t \in Team : team'[t].runs = team[t].runs
    <3>1. ASSUME NEW t \in Team
          PROVE  /\ team'[t] \in [runs : SUBSET Run, asked : BOOLEAN, read : BOOLEAN]
                 /\ team'[t].runs = team[t].runs
      <4>1. team'[t] = [team[t] EXCEPT !.read = team[t].runs # {}]
        BY <1>2
      <4>2. team[t] \in [runs : SUBSET Run, asked : BOOLEAN, read : BOOLEAN]
        BY <1>1 DEF Typed
      <4> QED
        BY <4>1, <4>2
    <3> QED
      BY <1>2, <3>1
  <2>3. row' \in [Agent -> Statuses] /\ info' \in [Agent -> Statuses \ {"interrupted"}]
        /\ mail' \in [Agent -> BOOLEAN] /\ handle' \in [Agent -> Run \cup {NoRun}]
    BY <1>1, <1>2 DEF Typed, Statuses
  <2>4. Staged'
    <3> SUFFICES ASSUME NEW r \in Run PROVE StagedOf(r)'
      BY DEF Staged
    <3>1. StagedOf(r)
      BY <1>1 DEF Staged
    <3>2. CASE Live(r)
      BY <1>3, <3>1, <3>2 DEF StagedOf, Live, Who, Wrapped, Early, Inside
    <3>3. CASE ~Live(r)
      BY <1>3, <3>1, <3>3, ZenonT(60) DEF StagedOf, Who, Wrapped
    <3> QED
      BY <3>2, <3>3
  <2>5. Members'
    <3> SUFFICES ASSUME NEW t \in Team, NEW r \in team[t].runs
                 PROVE  run'[r].how = "chat" /\ run'[r].pc # "unused"
      BY <2>2 DEF Members
    <3>1. r \in Run /\ run[r].how = "chat" /\ run[r].pc # "unused"
      BY <1>1 DEF Members, Typed
    <3> QED
      BY <1>3, <1>4, <3>1
  <2> QED
    BY <1>1, <1>2, <1>5, <2>1, <2>2, <2>3, <2>4, <2>5 DEF Base, Typed, Numbered
<1>7. Marked' /\ Single'
  <2>1. Marked'
    BY <1>4, <1>5 DEF Marked
  <2>2. \A r \in Run : Who(r)' = Who(r)
    BY <1>3
  <2>3. Single
    BY DEF IInv
  <2>4. Single'
    BY <1>2, <1>5, <2>2, <2>3 DEF Single
  <2> QED
    BY <2>1, <2>4
<1>8. Isolated'
  BY <1>2, <1>3, <1>5 DEF IInv, Isolated
<1>9. Recorded'
  <2> SUFFICES ASSUME NEW b \in Agent, rec[b].dir PROVE ~Fresh(b)'
    BY <1>2 DEF Recorded
  <2>1. PICK s \in Used : Who(s) = b
    BY DEF IInv, Recorded, Fresh, Who
  <2> QED
    BY <1>3, <1>5, <2>1 DEF Fresh, Who
<1>10. Followed'
  <2> SUFFICES ASSUME NEW r \in Used, Last(r)' PROVE RowFits(r)'
    BY <1>5 DEF Followed
  <2>1. r \in Run /\ run[r].pc # "unused" /\ Who(r) \in Agent /\ StagedOf(r)
    BY <1>1, <1>5 DEF Staged, StagedOf, Used
  <2>2. CASE Live(r)
    BY <1>3, <2>1, <2>2 DEF RowFits, Early, Inside
  <2>3. CASE ~Live(r)
    <3>1. Last(r) /\ run'[r] = run[r] /\ run[r].pc = "gone" /\ Who(r)' = Who(r)
      <4>1. run'[r] = run[r] /\ run[r].pc = "gone" /\ \A s \in Run : Who(s)' = Who(s)
        BY <1>3, <2>1, <2>3 DEF Live
      <4> QED
        BY <2>1, <4>1 DEF Last
    <3>2. RowFits(r)
      BY <3>1 DEF IInv, Followed
    <3>3. run[r].end # "running" /\ ~(run[r].jrn = "open" /\ run[r].end = "none")
      <4>1. run[r] \in Coroutine
        BY <1>1, <2>1 DEF Typed
      <4> QED
        BY <2>1, <3>1, <4>1 DEF Coroutine, Verdicts, StagedOf
    <3>4. row[Who(r)] = run[r].end => row'[Who(r)] = run[r].end
      BY <1>2, <2>1, <3>3
    <3> QED
      BY <3>1, <3>2, <3>3, <3>4 DEF RowFits, Wrapped, Early, Inside
  <2> QED
    BY <2>2, <2>3
<1>11. Shown'
  <2> SUFFICES ASSUME NEW r \in Run, Working(r)' PROVE FALSE
    BY DEF Shown
  <2>1. StagedOf(r) /\ ~Live(r) /\ run'[r] = run[r]
    BY <1>1, <1>3 DEF Staged, Working
  <2> QED
    BY <2>1 DEF StagedOf, Working, Live, Early
<1>12. Pledged' /\ Readers'
  BY <1>2 DEF Pledged, Readers, Statuses
<1>13. Salvaged'
  BY <1>4, <1>5 DEF Salvaged, Live
<1> QED
  BY <1>6, <1>7, <1>8, <1>9, <1>10, <1>11, <1>12, <1>13 DEF IInv

-----------------------------------------------------------------------------
(* The invariant.                                                          *)

(* It holds at the start.                                                  *)
LEMMA InitHolds == Init => IInv
<1> SUFFICES ASSUME Init PROVE IInv
  OBVIOUS
<1> USE Bounds
<1>1. \A r \in Run : /\ run[r] = Unused /\ run[r].pc = "unused" /\ run[r].how = "none"
                     /\ Who(r) = NoAgent /\ run[r].jrn = "none" /\ run[r].end = "none"
  BY DEF Init, Unused, Who
<1>2. Used = {}
  BY <1>1 DEF Used
<1>3. Typed
  BY UnusedTyped DEF Init, Typed, NoRecord, Statuses
<1>4. Staged
  BY <1>1 DEF Staged, StagedOf, Wrapped, Inside
<1>5. Members
  BY DEF Init, Members
<1>6. Numbered
  <2>1. 0 \in 0..MaxRuns /\ 1..0 = {}
    OBVIOUS
  <2> QED
    BY <1>2, <2>1 DEF Numbered
<1>7. Marked /\ Single /\ Isolated /\ Followed /\ Salvaged
  BY <1>2 DEF Marked, Single, Isolated, Followed, Salvaged
<1>8. Shown
  BY <1>1 DEF Shown, Working
<1>9. Recorded /\ Pledged /\ Readers
  BY DEF Init, Recorded, Pledged, Readers, NoRecord
<1> QED
  BY <1>3, <1>4, <1>5, <1>6, <1>7, <1>8, <1>9 DEF IInv, Base

(* A cancel thrown into some of the runs. *)
LEMMA CancelFlags ==
    ASSUME IInv, NEW S \in SUBSET Run,
           run' = [r \in Run |-> IF r \in S THEN [run[r] EXCEPT !.hit = TRUE] ELSE run[r]]
    PROVE  Flags
<1>1. ASSUME NEW r \in Run
      PROVE  /\ run'[r] \in Coroutine
             /\ run'[r].agent = run[r].agent /\ run'[r].how = run[r].how /\ run'[r].iso = run[r].iso
             /\ run'[r].jrn = run[r].jrn /\ run'[r].end = run[r].end /\ run'[r].alone = run[r].alone
             /\ run[r].hit => run'[r].hit
             /\ run'[r].pc = run[r].pc /\ run'[r].said = run[r].said /\ run'[r].text = run[r].text
  <2>1. run[r] \in Coroutine
    BY DEF IInv, Base, Typed
  <2>2. CASE r \in S
    <3>1. run'[r] = [run[r] EXCEPT !.hit = TRUE]
      BY <2>2
    <3>2. run'[r] \in Coroutine
      BY <2>1, <3>1, FieldTyped
    <3> QED
      BY <2>1, <3>1, <3>2 DEF Coroutine
  <2>3. CASE r \notin S
    BY <2>1, <2>3
  <2> QED
    BY <2>2, <2>3
<1>2. run' \in [Run -> Coroutine]
  BY <1>1
<1> QED
  BY <1>1, <1>2 DEF Flags

(* A Stop and a cancelled turn keep the invariant.                         *)
LEMMA CancelsKept ==
    ASSUME IInv, (\E a \in Agent : cancel_task(a)) \/ (\E t \in Team : TurnCancelled(t))
    PROVE  IInv'
<1>1. Typed
  BY DEF IInv, Base
<1>2. /\ UNCHANGED <<row, info, mail, rec, handle>>
      /\ team' = team \/ \E t \in Team : team' = [team EXCEPT ![t].asked = TRUE]
  BY DEF cancel_task, TurnCancelled
<1>3. /\ team' \in [Team -> [runs : SUBSET Run, asked : BOOLEAN, read : BOOLEAN]]
      /\ \A t \in Team : team'[t].runs = team[t].runs
  <2>1. CASE team' = team
    BY <1>1, <2>1 DEF Typed
  <2>2. ASSUME NEW t \in Team, team' = [team EXCEPT ![t].asked = TRUE]
        PROVE  /\ team' \in [Team -> [runs : SUBSET Run, asked : BOOLEAN, read : BOOLEAN]]
               /\ \A u \in Team : team'[u].runs = team[u].runs
    BY <1>1, <2>2 DEF Typed
  <2> QED
    BY <1>2, <2>1, <2>2
<1>4. \/ \E r \in Run : run' = [run EXCEPT ![r].hit = TRUE]
      \/ \E t \in Team : run' = [r \in Run |-> IF r \in team[t].runs /\ ~Done(r)
                                              THEN [run[r] EXCEPT !.hit = TRUE] ELSE run[r]]
  BY DEF cancel_task, TurnCancelled
<1>5. Flags
  <2>1. ASSUME NEW r \in Run, run' = [run EXCEPT ![r].hit = TRUE] PROVE Flags
    <3>1. run' = [s \in Run |-> IF s \in {r} THEN [run[s] EXCEPT !.hit = TRUE] ELSE run[s]]
      BY <1>1, <2>1 DEF Typed
    <3> QED
      BY <3>1, CancelFlags
  <2>2. ASSUME NEW t \in Team,
               run' = [r \in Run |-> IF r \in team[t].runs /\ ~Done(r)
                                    THEN [run[r] EXCEPT !.hit = TRUE] ELSE run[r]]
        PROVE  Flags
    <3> DEFINE S == {r \in Run : r \in team[t].runs /\ ~Done(r)}
    <3>1. run' = [r \in Run |-> IF r \in S THEN [run[r] EXCEPT !.hit = TRUE] ELSE run[r]]
      BY <2>2
    <3>2. S \in SUBSET Run
      OBVIOUS
    <3> HIDE DEF S
    <3> QED
      BY <3>1, <3>2, CancelFlags
  <2> QED
    BY <1>4, <2>1, <2>2
<1> QED
  BY <1>2, <1>3, <1>5, FlagsKept

(* The turn reads what its team has done.                                  *)
LEMMA ReadsKept ==
    ASSUME IInv, NEW t \in Team, NEW late \in BOOLEAN, TeamReads(t, late)
    PROVE  IInv'
<1>1. Typed /\ Staged /\ Members
  BY DEF IInv, Base
<1>2. /\ UNCHANGED <<row, info, mail, rec, handle>> /\ team' = [team EXCEPT ![t].read = TRUE]
  BY DEF TeamReads
<1>3. /\ team' \in [Team -> [runs : SUBSET Run, asked : BOOLEAN, read : BOOLEAN]]
      /\ \A u \in Team : team'[u].runs = team[u].runs
  BY <1>1, <1>2 DEF Typed
<1>4. Flags
  <2> DEFINE stopped == late \/ \E r \in team[t].runs : Done(r) /\ run[r].end = "stopped"
             said == IF stopped /\ ~team[t].asked THEN "report" ELSE "told"
  <2>1. run' = [r \in Run |->
                  IF r \in team[t].runs
                  THEN [run[r] EXCEPT !.pc = IF Done(r) THEN "gone" ELSE run[r].pc,
                                      !.text = IF stopped THEN rec[Who(r)].report ELSE r, !.said = said]
                  ELSE run[r]]
    BY <1>1 DEF TeamReads, Typed, Coroutine
  <2>2. said \in {"report", "told"}
    OBVIOUS
  <2> HIDE DEF said, stopped
  <2>3. ASSUME NEW r \in Run
        PROVE  /\ run'[r] \in Coroutine
               /\ run'[r].agent = run[r].agent /\ run'[r].how = run[r].how /\ run'[r].iso = run[r].iso
               /\ run'[r].jrn = run[r].jrn /\ run'[r].end = run[r].end /\ run'[r].alone = run[r].alone
               /\ run[r].hit => run'[r].hit
               /\ \/ run'[r] = run[r]
                  \/ /\ run[r].how = "chat" /\ run'[r].said # "no"
                     /\ run'[r].pc = run[r].pc \/ (run[r].pc \in {"over", "gone"} /\ run'[r].pc = "gone")
    <3>1. run[r] \in Coroutine /\ StagedOf(r)
      BY <1>1 DEF Typed, Staged
    <3>2. CASE r \notin team[t].runs
      BY <2>1, <3>1, <3>2
    <3>3. CASE r \in team[t].runs
      <4>1. run[r].how = "chat" /\ run[r].pc # "unused" /\ Who(r) \in Agent
        BY <1>1, <3>1, <3>3 DEF Members, StagedOf
      <4>2. rec[Who(r)].report \in Run \cup {NoRun}
        BY <1>1, <4>1 DEF Typed
      <4>3. PICK p \in Places, text \in Run \cup {NoRun} :
              /\ p = (IF Done(r) THEN "gone" ELSE run[r].pc)
              /\ text = (IF stopped THEN rec[Who(r)].report ELSE r)
        <5>1. run[r].pc \in Places /\ "gone" \in Places
          BY <3>1 DEF Coroutine, Places
        <5> QED
          BY <4>2, <5>1
      <4>4. run'[r] = [run[r] EXCEPT !.pc = p, !.text = text, !.said = said]
        BY <2>1, <3>3, <4>3
      <4>5. run'[r] \in Coroutine
        BY <2>2, <3>1, <4>4, ZenonT(60) DEF Coroutine
      <4>6. /\ run'[r].pc = p /\ run'[r].said = said
            /\ run'[r].agent = run[r].agent /\ run'[r].how = run[r].how /\ run'[r].iso = run[r].iso
            /\ run'[r].jrn = run[r].jrn /\ run'[r].end = run[r].end /\ run'[r].alone = run[r].alone
            /\ run'[r].hit = run[r].hit
        BY <3>1, <4>4 DEF Coroutine
      <4>7. p = run[r].pc \/ (run[r].pc \in {"over", "gone"} /\ p = "gone")
        BY <3>1, <4>1, <4>3 DEF Done, StagedOf
      <4> QED
        BY <2>2, <4>1, <4>5, <4>6, <4>7
    <3> QED
      BY <3>2, <3>3
  <2>4. run' \in [Run -> Coroutine]
    BY <2>1, <2>3
  <2> QED
    BY <2>3, <2>4 DEF Flags
<1> QED
  BY <1>2, <1>3, <1>4, FlagsKept

(* A message that is sent or read keeps it.                                *)
LEMMA MessagesKept ==
    ASSUME IInv, (\E a \in Agent : send_message(a)) \/ (\E r \in Run : receive_messages(r))
    PROVE  IInv'
<1>1. Typed /\ Staged
  BY DEF IInv, Base
<1>2. ASSUME NEW a \in Agent, send_message(a) PROVE IInv'
  <2>1. CASE /\ info[a] = "running" \/ (info[a] # "none" /\ ~rec[a].dir)
             /\ mail' = [mail EXCEPT ![a] = TRUE] /\ UNCHANGED <<row, handle, run>>
    <3>1. UNCHANGED <<row, info, rec, handle, run, team>> /\ mail' \in [Agent -> BOOLEAN]
      BY <1>1, <1>2, <2>1 DEF send_message, Typed
    <3>2. \A b \in Agent : mail'[b] => mail[b] \/ info[b] = "running" \/ ~rec[b].dir
      BY <1>1, <2>1 DEF Typed
    <3> QED
      BY <3>1, <3>2, MailKept
  <2>2. CASE NextRun \in Run /\ rec[a].dir /\ resume_agent(a) /\ UNCHANGED mail
    <3>1. UNCHANGED <<info, mail, rec, team>>
      BY <1>2, <2>2 DEF send_message
    <3> QED
      BY <2>2, <3>1, StartsKept
  <2>3. CASE UNCHANGED <<row, handle, run, mail>>
    <3>1. UNCHANGED <<row, info, rec, handle, run, team>> /\ mail' \in [Agent -> BOOLEAN] /\ mail' = mail
      BY <1>1, <1>2, <2>3 DEF send_message, Typed
    <3> QED
      BY <3>1, MailKept
  <2> QED
    BY <1>2, <2>1, <2>2, <2>3 DEF send_message
<1>3. ASSUME NEW r \in Run, receive_messages(r) PROVE IInv'
  <2>1. /\ UNCHANGED <<row, info, rec, handle, run, team>> /\ mail' = [mail EXCEPT ![Who(r)] = FALSE]
    BY <1>3 DEF receive_messages, Read
  <2>2. mail' \in [Agent -> BOOLEAN] /\ \A b \in Agent : mail'[b] => mail[b]
    BY <1>1, <2>1 DEF Typed
  <2> QED
    BY <2>1, <2>2, MailKept
<1> QED
  BY <1>2, <1>3

(* Nothing happens.                                                        *)
LEMMA StutterKept ==
    ASSUME IInv, UNCHANGED vars
    PROVE  IInv'
<1>1. UNCHANGED <<row, info, rec, handle, run, team>> /\ mail' = mail /\ mail' \in [Agent -> BOOLEAN]
  BY DEF vars, IInv, Base, Typed
<1> QED
  BY <1>1, MailKept

(* Every step keeps it.                                                    *)
LEMMA StepKept == IInv /\ [Next]_vars => IInv'
<1> SUFFICES ASSUME IInv, [Next]_vars PROVE IInv'
  OBVIOUS
<1>1. ASSUME NEW r \in Run, run_agent(r) PROVE IInv'
  <2>1. CASE \/ Begin(r) \/ Admit(r) \/ PreflightFails(r) \/ Open(r, "open") \/ Open(r, "none")
             \/ \E made \in BOOLEAN : Forked(r, made)
             \/ Receive(r) \/ RoundStart(r)
    BY <2>1, StartsLocal, LocalKept
  <2>2. CASE \/ ServeFails(r) \/ RunRaises(r) \/ CancelledInside(r)
             \/ \E v \in {"completed", "failed"} : RunEnds(r, v)
    BY <2>2, EndsLocal, LocalKept
  <2>3. CASE CancelledUnborn(r) \/ CancelledAhead(r)
    BY <2>3, CutLocal, LocalKept
  <2>4. CASE Brought(r)
    BY <2>4, HandsLocal, LocalKept
  <2> QED
    BY <1>1, <2>1, <2>2, <2>3, <2>4 DEF run_agent
<1>2. ASSUME NEW r \in Run, HandOn(r) \/ Disconnect(r) PROVE IInv'
  <2>1. CASE stream_run(r)
    BY <2>1, StartsLocal, LocalKept
  <2>2. CASE Finish(r) \/ DoneCallback(r) \/ StreamEnds(r) \/ Disconnect(r)
    BY <2>2, HandsLocal, LocalKept
  <2> QED
    BY <1>2, <2>1, <2>2 DEF HandOn
<1>3. CASE \E r \in Run : run_agent(r) \/ HandOn(r) \/ receive_messages(r) \/ Disconnect(r)
  BY <1>1, <1>2, <1>3, MessagesKept
<1>4. CASE \E a \in Agent :
             \/ \E iso \in BOOLEAN : start_detached_agent(a, iso)
             \/ subagent_stream(a) \/ cancel_task(a)
             \/ send_message(a)
  BY <1>4, StartsKept, CancelsKept, MessagesKept
<1>5. CASE \E t \in Team :
             \/ \E members \in SUBSET Agent, iso \in BOOLEAN : create_team(t, members, iso)
             \/ \E late \in BOOLEAN : TeamReads(t, late)
             \/ TurnCancelled(t)
  BY <1>5, TeamKept, ReadsKept, CancelsKept
<1>6. CASE Restart
  BY <1>6, RestartKept
<1>7. CASE UNCHANGED vars
  BY <1>7, StutterKept
<1> QED
  BY <1>3, <1>4, <1>5, <1>6, <1>7 DEF Next

(* So it always holds.                                                     *)
LEMMA Invariance == Spec => []IInv
<1> QED
  BY InitHolds, StepKept, PTL DEF Spec

-----------------------------------------------------------------------------
(* What follows from it.                                                   *)

(* A row of the task registry that says running has a run behind it, and   *)
(* the row of a run at work says running (server/agents/journal.py and     *)
(* server/tasks/agents.py close and open the rows).                        *)
THEOREM RowsHaveRuns == Spec => []RowHasRun
<1>1. IInv => RowHasRun
  <2> SUFFICES ASSUME IInv PROVE RowHasRun
    OBVIOUS
  <2>1. ASSUME NEW a \in Agent, row[a] = "running"
        PROVE  \E r \in Run : Who(r) = a /\ (Live(r) \/ NeverBegan(r) \/ LeftOpen(r))
    <3>1. PICK r \in Run : Who(r) = a /\ Pledge(r)
      BY <2>1 DEF IInv, Pledged
    <3>2. StagedOf(r)
      BY DEF IInv, Base, Staged
    <3> QED
      BY <3>1, <3>2 DEF Pledge, StagedOf, Wrapped, Live, NeverBegan, LeftOpen, Gone, Early
  <2>2. \A r \in Run :
          run[r].jrn = "open" /\ run[r].end = "none" /\ run[r].alone /\ run[r].said = "no"
             => row[Who(r)] = "running"
    BY DEF IInv, Shown, Working
  <2> QED
    BY <2>1, <2>2 DEF RowHasRun
<1> QED
  BY <1>1, Invariance, PTL

(* A message in a mailbox has a run that still comes to read it, but for   *)
(* the three kinds that are accepted and read by nobody: to an agent cut   *)
(* at the fork, without a record, or settling its worktree (send_message   *)
(* and run_agent).                                                         *)
THEOREM MailHasReaders == Spec => []MailHasReader
<1>1. IInv => MailHasReader
  <2> SUFFICES ASSUME IInv, NEW a \in Agent, mail[a], rec[a].dir
               PROVE  \E r \in Run : /\ Who(r) = a
                                     /\ \/ run[r].pc \in {"fork", "setup", "ready", "work"}
                                        \/ CutAtFork(r) \/ Settling(r)
    BY DEF MailHasReader
  <2>1. PICK r \in Run : Who(r) = a /\ Reader(r)
    BY DEF IInv, Readers
  <2>2. run[r].pc \in {"harvest", "tidy"} => run[r].iso
    BY DEF IInv, Base, Staged, StagedOf
  <2> QED
    BY <2>1, <2>2 DEF Reader, Settling
<1> QED
  BY <1>1, Invariance, PTL

(* A detached or resumed run that began leaves its report whatever met it, *)
(* its row the verdict of that report, and a stopped one its own salvage;  *)
(* a member of a team with a journal its own verdict in its own row        *)
(* (_run_detached and the except clauses of run_agent).                    *)
THEOREM VerdictsKept == Spec => []VerdictKept
<1>1. IInv => VerdictKept
  <2> SUFFICES ASSUME IInv, NEW r \in Run, Gone(r), run[r].end \notin {"none", "lost"}
               PROVE  /\ Wrapped(r) =>
                            /\ run[r].said = "report"
                            /\ Last(r) => row[Who(r)] = run[r].end
                            /\ run[r].alone /\ run[r].end = "stopped" /\ run[r].jrn # "none"
                                    /\ ~CutInWorktree(r)
                                  => run[r].text = r
                      /\ run[r].how = "chat" /\ run[r].jrn = "closed" /\ Last(r)
                            => row[Who(r)] = run[r].end
    BY DEF VerdictKept
  <2>1. StagedOf(r) /\ r \in Used /\ run[r].pc = "gone"
    BY DEF IInv, Base, Staged, Used, Gone
  <2>2. Last(r) => RowFits(r)
    BY <2>1 DEF IInv, Followed
  <2>3. Wrapped(r) => run[r].said = "report"
    BY <2>1 DEF StagedOf
  <2>4. Wrapped(r) /\ Last(r) => row[Who(r)] = run[r].end
    BY <2>1, <2>2 DEF RowFits
  <2>5. Wrapped(r) /\ run[r].alone /\ run[r].end = "stopped" /\ run[r].jrn # "none"
           /\ ~CutInWorktree(r) => run[r].text = r
    BY <2>1 DEF StagedOf, CutInWorktree, CutAtFork
  <2>6. run[r].how = "chat" /\ run[r].jrn = "closed" /\ Last(r) => row[Who(r)] = run[r].end
    BY <2>2 DEF RowFits
  <2> QED
    BY <2>3, <2>4, <2>5, <2>6
<1> QED
  BY <1>1, Invariance, PTL
=============================================================================
