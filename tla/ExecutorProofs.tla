--------------------------- MODULE ExecutorProofs ---------------------------
(***************************************************************************)
(* Proofs about `paclens update` for every plan, tool and schedule: the    *)
(* types, the exclusions, the faithfulness of the report, and that both    *)
(* executors implement PlanRun.                                            *)
(***************************************************************************)
EXTENDS Executor, SequenceTheorems, TLAPS

LEMMA PlanFacts ==
  ASSUME TypeOK
  PROVE  /\ plan \in Seq(Step)
         /\ Steps = 1 .. Len(plan)
         /\ WellPlanned(plan)
         /\ Steps \subseteq Positions
         /\ \A i \in Steps : plan[i] \in Step
  BY PlansAssumption DEF TypeOK, Steps

LEMMA InputsFixed ==
  ASSUME TypeOK, [Next]_vars
  PROVE  /\ UNCHANGED inputs
         /\ Steps' = Steps /\ Outcomes' = Outcomes /\ Line' = Line
         /\ Background' = Background /\ Foreground' = Foreground
<1>1. UNCHANGED inputs
  BY DEF Next, vars, inputs, Check, Prime, OpenSession, SkipStep, StartForeground,
         FinishForeground, FinishBackground, Join, Escalate, StartJoining,
         CloseSession, Expire, Interrupt
<1>2. plan' = plan /\ tool' = tool /\ parallel' = parallel
  BY <1>1 DEF inputs
<1>3. Steps' = Steps
  BY <1>2 DEF Steps
<1>4. Outcomes' = Outcomes /\ Line' = Line
  BY <1>3 DEF Outcomes, Line
<1>5. Background' = Background
  BY <1>2, <1>3 DEF Background
<1>6. Foreground' = Foreground
  BY <1>3, <1>5 DEF Foreground
<1> QED
  BY <1>1, <1>3, <1>4, <1>5, <1>6

\* Collecting every step makes the sorted outcomes a report.
LEMMA SortedType ==
  ASSUME TypeOK, Collected = Steps
  PROVE  Sorted \in [Steps -> Settled]
<1>1. ASSUME NEW i \in Steps
      PROVE  done[CHOOSE k \in DOMAIN done : done[k].step = i].outcome \in Settled
  <2>1. PICK k \in DOMAIN done : done[k].step = i
    BY DEF Collected
  <2>2. (CHOOSE l \in DOMAIN done : done[l].step = i) \in DOMAIN done
    BY <2>1
  <2>3. \A l \in DOMAIN done : done[l].outcome \in Settled
    <3>1. \A l \in DOMAIN done : done[l] \in Outcomes
      BY DEF TypeOK
    <3> QED
      BY <3>1 DEF Outcomes
  <2> QED
    BY <2>2, <2>3
<1> QED
  BY <1>1 DEF Sorted

\* Every variable keeps its type.
THEOREM TypeCorrect == Spec => []TypeOK
<1>1. Init => TypeOK
  BY PlansAssumption DEF Init, TypeOK, Steps, Outcomes, Line, NoReport, Settled
<1>2. TypeOK /\ [Next]_vars => TypeOK'
  <2> SUFFICES ASSUME TypeOK, [Next]_vars PROVE TypeOK'
    OBVIOUS
  <2>0. /\ plan' = plan /\ tool' = tool /\ parallel' = parallel
        /\ Steps' = Steps /\ Outcomes' = Outcomes /\ Line' = Line
    BY InputsFixed DEF inputs
  <2> USE <2>0 DEF TypeOK
  <2>1. CASE Check
    BY <2>1 DEF Check, Stopped
  <2>2. CASE Prime
    BY <2>2 DEF Prime, Stopped
  <2>3. CASE OpenSession
    <3>1. <<"started">> \in Line
      BY DEF Line
    <3>2. << <<"started">> >> \in Seq(Line)
      BY <3>1
    <3>3. CASE flow' = "nolog" /\ UNCHANGED <<status, log>>
      BY <2>3, <3>3 DEF OpenSession, Stopped
    <3>4. CASE /\ flow' = "foreground"
               /\ log' = << <<"started">> >>
               /\ status' = [i \in Steps |-> IF i \in Background THEN "running" ELSE status[i]]
      <4>1. status' \in [Steps -> Settled \cup {"waiting", "running"}]
        BY <3>4
      <4> QED
        BY <2>3, <3>2, <3>4, <4>1 DEF OpenSession, Running
    <3> QED
      BY <2>3, <3>3, <3>4 DEF OpenSession
  <2>4. ASSUME NEW i \in Steps, SkipStep(i) PROVE TypeOK'
    BY <2>4 DEF SkipStep, Outcomes, Settled
  <2>5. ASSUME NEW i \in Steps, StartForeground(i) PROVE TypeOK'
    BY <2>5 DEF StartForeground
  <2>6. ASSUME NEW i \in Steps, FinishForeground(i) PROVE TypeOK'
    BY <2>6 DEF FinishForeground, Outcomes, Settled, Finished
  <2>7. ASSUME NEW i \in Steps, FinishBackground(i) PROVE TypeOK'
    BY <2>7 DEF FinishBackground, Settled, Finished
  <2>8. ASSUME NEW i \in Steps, Join(i) PROVE TypeOK'
    BY <2>8 DEF Join, Outcomes
  <2>9. ASSUME NEW i \in Steps, Escalate(i) PROVE TypeOK'
    BY <2>9 DEF Escalate
  <2>10. CASE StartJoining
    BY <2>10 DEF StartJoining, Running
  <2>11. CASE CloseSession
    <3>1. Sorted \in [Steps -> Settled]
      BY <2>11, SortedType DEF CloseSession
    <3>2. [i \in Steps |-> <<"step", i, Sorted[i]>>] \in Seq(Line)
      <4>1. \A i \in Steps : <<"step", i, Sorted[i]>> \in Line
        BY <3>1 DEF Line
      <4> QED
        BY <4>1, PlanFacts
    <3>3. << <<"summary", session_summary(Sorted)>> >> \in Seq(Line)
      BY DEF Line, session_summary
    <3> QED
      BY <2>11, <3>1, <3>2, <3>3 DEF CloseSession, Stopped
  <2>12. CASE Expire
    BY <2>12 DEF Expire
  <2>13. CASE Interrupt
    BY <2>13 DEF Interrupt, Stopped
  <2>14. CASE UNCHANGED vars
    BY <2>14 DEF vars
  <2> QED
    BY <2>1, <2>2, <2>3, <2>4, <2>5, <2>6, <2>7, <2>8, <2>9, <2>10, <2>11,
       <2>12, <2>13, <2>14 DEF Next
<1> QED
  BY <1>1, <1>2, PTL DEF Spec

-----------------------------------------------------------------------------
(***************************************************************************)
(* The inductive invariant.  The properties talk about the end of a run;   *)
(* what makes them true is what holds all along: what the main thread has  *)
(* collected is what happened, it only moves on once the foreground is     *)
(* settled, and a step is skipped exactly for want of a tool.              *)
(***************************************************************************)
NotBegun == {"planned", "prime", "open", "blocked", "empty", "nothing",
             "unauthenticated", "nolog"}

CollectedIsReal ==
  \A k \in DOMAIN done : status[done[k].step] = done[k].outcome

SkippedForWantOfTool ==
  \A i \in Steps :
    /\ status[i] = "skipped" => Skipped(plan[i], tool)
    /\ Skipped(plan[i], tool) => status[i] \in {"waiting", "skipped"}

IInv ==
  /\ TypeOK
  /\ TerminalInPlanOrder
  /\ CollectedIsReal
  /\ SkippedForWantOfTool
  /\ flow \in NotBegun => \A i \in Steps : status[i] = "waiting"
  /\ flow \in NotBegun => done = <<>>
  /\ flow # "closed" => report = NoReport
  /\ flow = "closed" => report = status
  /\ flow = "closed" => \A i \in Steps : status[i] \in Settled

\* A step with a thread of its own is never one that wants a tool.
LEMMA BackgroundRuns ==
  \A i \in Background : ~Skipped(plan[i], tool)
  BY DEF Background, runs_in_background

\* Once everything is collected, the sorted outcomes are the statuses.
LEMMA SortedIsReal ==
  ASSUME IInv, Collected = Steps
  PROVE  Sorted = status
<1>1. ASSUME NEW i \in Steps
      PROVE  done[CHOOSE k \in DOMAIN done : done[k].step = i].outcome = status[i]
  <2>1. PICK k \in DOMAIN done : done[k].step = i
    BY DEF Collected
  <2>2. /\ (CHOOSE l \in DOMAIN done : done[l].step = i) \in DOMAIN done
        /\ done[CHOOSE l \in DOMAIN done : done[l].step = i].step = i
    BY <2>1
  <2> QED
    BY <2>2 DEF IInv, CollectedIsReal
<1> QED
  BY <1>1 DEF Sorted, IInv, TypeOK

\* Appending an outcome that is the step's status keeps the collection real.
LEMMA AppendReal ==
  ASSUME TypeOK, TypeOK', NEW i \in Steps, NEW o \in Settled,
         CollectedIsReal, Steps' = Steps,
         done' = Append(done, [step |-> i, outcome |-> o]),
         status' = [status EXCEPT ![i] = o],
         status[i] \notin Settled \/ status[i] = o
  PROVE  CollectedIsReal'
<1> SUFFICES ASSUME NEW k \in DOMAIN done' PROVE status'[done'[k].step] = done'[k].outcome
  BY DEF CollectedIsReal
<1>1. done \in Seq(Outcomes) /\ done' \in Seq(Outcomes)
  BY DEF TypeOK, Outcomes
<1>2. CASE k = Len(done) + 1
  BY <1>1, <1>2 DEF TypeOK
<1>3. CASE k \in 1 .. Len(done)
  <2>1. done'[k] = done[k] /\ done[k] \in Outcomes
    BY <1>1, <1>3
  <2>2. done[k].step \in Steps /\ done[k].outcome \in Settled
    BY <2>1 DEF Outcomes
  <2>3. status[done[k].step] = done[k].outcome
    BY <1>1, <1>3 DEF CollectedIsReal
  <2> QED
    BY <2>1, <2>2, <2>3 DEF TypeOK
<1> QED
  BY <1>1, <1>2, <1>3

\* Steps of the flow that leave every status and the collection alone.
LEMMA QuietStep ==
  ASSUME IInv, TypeOK', Steps' = Steps, Foreground' = Foreground,
         plan' = plan, tool' = tool, UNCHANGED <<status, done, report>>,
         flow' \in NotBegun => flow \in NotBegun,
         flow' = "closed" <=> flow = "closed"
  PROVE  IInv'
  BY DEF IInv, TerminalInPlanOrder, CollectedIsReal, SkippedForWantOfTool

THEOREM Inductive == Spec => []IInv
<1>1. Init => IInv
  <2> SUFFICES ASSUME Init PROVE IInv
    OBVIOUS
  <2>1. TypeOK
    BY PlansAssumption DEF Init, TypeOK, Steps, Outcomes, Line, NoReport, Settled
  <2>2. \A i \in Steps : status[i] = "waiting"
    BY DEF Init, Steps
  <2>3. done = <<>> /\ flow = "planned" /\ report = NoReport
    BY DEF Init
  <2> QED
    BY <2>1, <2>2, <2>3 DEF IInv, TerminalInPlanOrder, CollectedIsReal,
       SkippedForWantOfTool, Foreground
<1>2. IInv /\ TypeOK' /\ [Next]_vars => IInv'
  <2> SUFFICES ASSUME IInv, TypeOK', [Next]_vars PROVE IInv'
    OBVIOUS
  <2>0. /\ plan' = plan /\ tool' = tool /\ parallel' = parallel
        /\ Steps' = Steps /\ Outcomes' = Outcomes /\ Line' = Line
        /\ Background' = Background /\ Foreground' = Foreground
    BY InputsFixed DEF inputs, IInv
  <2> USE <2>0
  <2>t. TypeOK /\ Steps = 1 .. Len(plan) /\ Steps \subseteq Nat
    BY PlanFacts DEF IInv
  <2>1. CASE Check
    <3>1. flow = "planned" /\ UNCHANGED <<status, done, report>> /\ flow' # "closed"
      BY <2>1 DEF Check
    <3> QED
      BY <3>1, QuietStep DEF NotBegun
  <2>2. CASE Prime
    <3>1. flow = "prime" /\ UNCHANGED <<status, done, report>> /\ flow' # "closed"
      BY <2>2 DEF Prime
    <3> QED
      BY <3>1, QuietStep DEF NotBegun
  <2>3. CASE OpenSession
    <3>1. /\ flow = "open" /\ UNCHANGED <<done, report>> /\ done = <<>>
          /\ \A i \in Steps : status[i] = "waiting"
      BY <2>3 DEF OpenSession, IInv, NotBegun
    <3>2. CASE flow' = "nolog" /\ UNCHANGED <<status, log>>
      BY <3>1, <3>2, QuietStep DEF NotBegun
    <3>3. CASE /\ flow' = "foreground"
               /\ status' = [i \in Steps |-> IF i \in Background THEN "running" ELSE status[i]]
      <4>1. \A i \in Steps : status'[i] = (IF i \in Background THEN "running" ELSE "waiting")
        BY <3>1, <3>3
      <4>2. TerminalInPlanOrder'
        BY <4>1 DEF TerminalInPlanOrder, Foreground
      <4>3. SkippedForWantOfTool'
        BY <4>1, BackgroundRuns DEF SkippedForWantOfTool
      <4>4. CollectedIsReal'
        BY <3>1 DEF CollectedIsReal
      <4> QED
        BY <3>1, <3>3, <4>2, <4>3, <4>4 DEF IInv, NotBegun
    <3> QED
      BY <2>3, <3>2, <3>3 DEF OpenSession
  <2>4. ASSUME NEW i \in Steps, SkipStep(i) PROVE IInv'
    <3>1. /\ i \in Foreground /\ status[i] = "waiting" /\ Skipped(plan[i], tool)
          /\ flow = "foreground" /\ UNCHANGED <<flow, report>>
          /\ \A j \in Foreground : j < i => status[j] \in Settled
      BY <2>4 DEF SkipStep, AtForeground
    <3>2. status' = [status EXCEPT ![i] = "skipped"]
      BY <2>4 DEF SkipStep
    <3>3. CollectedIsReal'
      BY <2>4, <2>t, <3>1, <3>2, AppendReal DEF SkipStep, IInv, Settled
    <3>4. TerminalInPlanOrder'
      BY <2>t, <3>1, <3>2 DEF TerminalInPlanOrder, IInv, Foreground, TypeOK, Settled
    <3>5. SkippedForWantOfTool'
      BY <2>t, <3>1, <3>2 DEF SkippedForWantOfTool, IInv, TypeOK
    <3> QED
      BY <3>1, <3>3, <3>4, <3>5 DEF IInv, NotBegun
  <2>5. ASSUME NEW i \in Steps, StartForeground(i) PROVE IInv'
    <3>1. /\ i \in Foreground /\ status[i] = "waiting" /\ ~Skipped(plan[i], tool)
          /\ flow = "foreground" /\ UNCHANGED <<flow, report>>
          /\ \A j \in Foreground : j < i => status[j] \in Settled
      BY <2>5 DEF StartForeground, AtForeground
    <3>2. status' = [status EXCEPT ![i] = "running"] /\ done' = done
      BY <2>5 DEF StartForeground
    <3>3. CollectedIsReal'
      <4> SUFFICES ASSUME NEW k \in DOMAIN done PROVE status'[done[k].step] = done[k].outcome
        BY <3>2 DEF CollectedIsReal
      <4>1. done[k] \in Outcomes
        BY <2>t DEF TypeOK
      <4>2. done[k].step \in Steps /\ done[k].outcome \in Settled
        BY <4>1 DEF Outcomes
      <4> QED
        BY <2>t, <3>1, <3>2, <4>2 DEF CollectedIsReal, IInv, TypeOK, Settled
    <3>4. TerminalInPlanOrder'
      BY <2>t, <3>1, <3>2 DEF TerminalInPlanOrder, IInv, Foreground, TypeOK, Settled
    <3>5. SkippedForWantOfTool'
      BY <2>t, <3>1, <3>2 DEF SkippedForWantOfTool, IInv, TypeOK
    <3> QED
      BY <3>1, <3>3, <3>4, <3>5 DEF IInv, NotBegun
  <2>6. ASSUME NEW i \in Steps, FinishForeground(i) PROVE IInv'
    <3>1. /\ i \in Foreground /\ status[i] = "running"
          /\ flow = "foreground" /\ UNCHANGED <<flow, report>>
          /\ \A j \in Foreground : j < i => status[j] \in Settled
      BY <2>6 DEF FinishForeground, AtForeground
    <3>2. PICK o \in Finished : /\ status' = [status EXCEPT ![i] = o]
                                /\ done' = Append(done, [step |-> i, outcome |-> o])
      BY <2>6 DEF FinishForeground
    <3>3. CollectedIsReal'
      BY <2>t, <3>1, <3>2, AppendReal DEF IInv, Settled, Finished
    <3>4. TerminalInPlanOrder'
      BY <2>t, <3>1, <3>2 DEF TerminalInPlanOrder, IInv, Foreground, TypeOK, Settled, Finished
    <3>5. SkippedForWantOfTool'
      BY <2>t, <3>1, <3>2 DEF SkippedForWantOfTool, IInv, TypeOK, Finished
    <3> QED
      BY <3>1, <3>3, <3>4, <3>5 DEF IInv, NotBegun
  <2>7. ASSUME NEW i \in Steps, FinishBackground(i) PROVE IInv'
    <3>1. /\ i \in Background /\ status[i] = "running"
          /\ flow \in Running /\ UNCHANGED <<flow, report, done>>
      BY <2>7 DEF FinishBackground
    <3>2. PICK o \in Finished : status' = [status EXCEPT ![i] = o]
      BY <2>7 DEF FinishBackground
    <3>3. CollectedIsReal'
      <4> SUFFICES ASSUME NEW k \in DOMAIN done PROVE status'[done[k].step] = done[k].outcome
        BY <3>1 DEF CollectedIsReal
      <4>1. done[k] \in Outcomes
        BY <2>t DEF TypeOK
      <4>2. done[k].step \in Steps /\ done[k].outcome \in Settled
        BY <4>1 DEF Outcomes
      <4> QED
        BY <2>t, <3>1, <3>2, <4>2 DEF CollectedIsReal, IInv, TypeOK, Settled
    <3>4. TerminalInPlanOrder'
      BY <2>t, <3>1, <3>2 DEF TerminalInPlanOrder, IInv, Foreground, TypeOK, Settled, Finished
    <3>5. SkippedForWantOfTool'
      BY <2>t, <3>1, <3>2 DEF SkippedForWantOfTool, IInv, TypeOK, Finished
    <3> QED
      BY <3>1, <3>3, <3>4, <3>5 DEF IInv, NotBegun, Running
  <2>8. ASSUME NEW i \in Steps, Join(i) PROVE IInv'
    <3>1. /\ status[i] \in Settled /\ flow = "join" /\ UNCHANGED <<flow, report, status>>
          /\ done' = Append(done, [step |-> i, outcome |-> status[i]])
      BY <2>8 DEF Join
    <3>2. CollectedIsReal'
      <4>1. status' = [status EXCEPT ![i] = status[i]]
        BY <2>t, <3>1 DEF TypeOK
      <4> QED
        BY <2>t, <3>1, <4>1, AppendReal DEF IInv
    <3> QED
      BY <3>1, <3>2 DEF IInv, NotBegun, TerminalInPlanOrder, SkippedForWantOfTool
  <2>9. ASSUME NEW i \in Steps, Escalate(i) PROVE IInv'
    BY <2>9, QuietStep DEF Escalate
  <2>10. CASE StartJoining
    <3>1. flow = "foreground" /\ flow' = "join" /\ UNCHANGED <<status, done, report>>
      BY <2>10 DEF StartJoining
    <3> QED
      BY <3>1, QuietStep DEF NotBegun
  <2>11. CASE CloseSession
    <3>1. /\ flow = "join" /\ flow' = "closed" /\ report' = Sorted
          /\ Collected = Steps /\ UNCHANGED <<status, done>>
      BY <2>11 DEF CloseSession
    <3>2. Sorted = status /\ Sorted \in [Steps -> Settled]
      BY <2>t, <3>1, SortedIsReal, SortedType
    <3>3. report' = status' /\ \A i \in Steps : status'[i] \in Settled
      BY <3>1, <3>2
    <3> QED
      BY <3>1, <3>3 DEF IInv, NotBegun, TerminalInPlanOrder, SkippedForWantOfTool,
         CollectedIsReal
  <2>12. CASE Expire
    BY <2>12, QuietStep DEF Expire
  <2>13. CASE Interrupt
    <3>1. /\ flow # "closed" /\ flow' = "interrupted"
          /\ UNCHANGED <<status, done, report>>
      BY <2>13 DEF Interrupt, Running
    <3> QED
      BY <3>1, QuietStep DEF NotBegun
  <2>14. CASE UNCHANGED vars
    BY <2>14, QuietStep DEF vars
  <2> QED
    BY <2>1, <2>2, <2>3, <2>4, <2>5, <2>6, <2>7, <2>8, <2>9, <2>10, <2>11,
       <2>12, <2>13, <2>14 DEF Next
<1> QED
  BY <1>1, <1>2, TypeCorrect, PTL DEF Spec

-----------------------------------------------------------------------------
\* Two steps that take pacman's lock never run at once, for any plan the
\* planner may build: they are foreground steps, and those take turns.
THEOREM PacmanDbTakesTurns == Spec => []PacmanDbExclusive
<1>1. IInv => PacmanDbExclusive
  <2> SUFFICES ASSUME IInv, NEW i \in Steps, NEW j \in Steps, i < j,
                      plan[i].pacman_db, status[i] = "running",
                      plan[j].pacman_db, status[j] = "running"
               PROVE  FALSE
    BY PlanFacts DEF PacmanDbExclusive, IInv
  <2>1. WellPlanned(plan)
    BY PlanFacts DEF IInv
  <2>2. i \in Foreground /\ j \in Foreground
    BY <2>1 DEF WellPlanned, Steps, Foreground, Background, runs_in_background
  <2> QED
    BY <2>2 DEF IInv, TerminalInPlanOrder, Settled
<1> QED
  BY <1>1, Inductive, PTL

\* The terminal is handed on in plan order.
THEOREM TerminalTakesTurns == Spec => []TerminalInPlanOrder
<1>1. IInv => TerminalInPlanOrder
  BY DEF IInv
<1> QED
  BY <1>1, Inductive, PTL

\* The report of a closed session is what happened to every step, and a step is
\* reported skipped exactly when it wanted a tool there was none of.
THEOREM ReportIsFaithful == Spec => []EveryStepAccounted
<1>1. IInv => EveryStepAccounted
  <2> SUFFICES ASSUME IInv, flow = "closed", NEW i \in Steps
               PROVE  /\ DOMAIN report = Steps
                      /\ report[i] = status[i]
                      /\ report[i] = "skipped" <=> Skipped(plan[i], tool)
    BY DEF EveryStepAccounted, IInv, TypeOK
  <2>1. report = status /\ status[i] \in Settled
    BY DEF IInv
  <2> QED
    BY <2>1 DEF IInv, TypeOK, SkippedForWantOfTool, Settled
<1> QED
  BY <1>1, Inductive, PTL

\* Nothing that must not meet ever meets: the two together.
THEOREM TurnsAreTaken == Spec => []StepsTakeTurns
  BY TerminalTakesTurns, PacmanDbTakesTurns, PTL DEF StepsTakeTurns

\* What the log and the prompts are at each place of the flow.
Header == << <<"started">> >>
Entries(outcomes) == [i \in Steps |-> <<"step", i, outcomes[i]>>]
Summary(outcomes) == << <<"summary", session_summary(outcomes)>> >>

LogIsOfTheFlow ==
  /\ flow \in Running => log = Header
  /\ flow = "closed" => log = Header \o Entries(status) \o Summary(status)
  /\ flow \in {"planned", "blocked", "empty", "nothing"} => prompted = {}

LEMMA LogFollows == Spec => []LogIsOfTheFlow
<1>1. Init => LogIsOfTheFlow
  BY DEF Init, LogIsOfTheFlow, Running
<1>2. IInv /\ LogIsOfTheFlow /\ [Next]_vars => LogIsOfTheFlow'
  <2> SUFFICES ASSUME IInv, LogIsOfTheFlow, [Next]_vars PROVE LogIsOfTheFlow'
    OBVIOUS
  <2>0. Steps' = Steps
    BY InputsFixed DEF IInv
  <2> USE <2>0 DEF LogIsOfTheFlow, Running
  <2>1. CASE Check
    BY <2>1 DEF Check
  <2>2. CASE Prime
    BY <2>2 DEF Prime
  <2>3. CASE OpenSession
    BY <2>3 DEF OpenSession, Header
  <2>4. ASSUME NEW i \in Steps,
               SkipStep(i) \/ StartForeground(i) \/ FinishForeground(i)
        PROVE  LogIsOfTheFlow'
    BY <2>4 DEF SkipStep, StartForeground, FinishForeground, AtForeground
  <2>5. ASSUME NEW i \in Steps, FinishBackground(i) \/ Join(i) \/ Escalate(i)
        PROVE  LogIsOfTheFlow'
    BY <2>5 DEF FinishBackground, Join, Escalate
  <2>6. CASE StartJoining
    BY <2>6 DEF StartJoining
  <2>7. CASE CloseSession
    <3>1. Sorted = status
      BY <2>7, SortedIsReal DEF CloseSession
    <3>2. status' = status /\ flow' = "closed" /\ log = Header
      BY <2>7 DEF CloseSession
    <3>3. log' = Header \o Entries(status) \o Summary(status)
      BY <2>7, <3>1, <3>2 DEF CloseSession, Entries, Summary
    <3>4. Entries(status)' = Entries(status) /\ Summary(status)' = Summary(status)
      BY <3>2 DEF Entries, Summary, session_summary
    <3> QED
      BY <3>2, <3>3, <3>4 DEF Header
  <2>8. CASE Expire
    BY <2>8 DEF Expire
  <2>9. CASE Interrupt
    BY <2>9 DEF Interrupt
  <2>10. CASE UNCHANGED vars
    BY <2>10 DEF vars, Header, Entries, Summary, session_summary
  <2> QED
    BY <2>1, <2>2, <2>3, <2>4, <2>5, <2>6, <2>7, <2>8, <2>9, <2>10 DEF Next
<1> QED
  BY <1>1, <1>2, Inductive, PTL DEF Spec

\* A sequence between two of one element each.
LEMMA Between ==
  ASSUME NEW T, NEW A \in Seq(T), NEW E \in Seq(T), NEW Z \in Seq(T), Len(A) = 1, Len(Z) = 1
  PROVE  /\ Len((A \o E) \o Z) = Len(E) + 2
         /\ ((A \o E) \o Z)[Len(E) + 2] = Z[1]
         /\ \A i \in 1 .. Len(E) : ((A \o E) \o Z)[i + 1] = E[i]
<1> DEFINE AE == A \o E
<1>a. Len(A) \in Nat /\ Len(E) \in Nat /\ Len(Z) \in Nat
  OBVIOUS
<1>b. /\ AE \in Seq(T) /\ Len(AE) = Len(A) + Len(E)
      /\ \A i \in 1 .. Len(A) + Len(E) : AE[i] = IF i <= Len(A) THEN A[i] ELSE E[i - Len(A)]
  BY ConcatProperties
<1>1. /\ AE \in Seq(T) /\ Len(AE) = Len(E) + 1
      /\ \A i \in 1 .. Len(E) : AE[i + 1] = E[i]
  BY <1>a, <1>b
<1> HIDE DEF AE
<1>c. /\ Len(AE \o Z) = Len(AE) + Len(Z)
      /\ \A i \in 1 .. Len(AE) + Len(Z) :
           (AE \o Z)[i] = IF i <= Len(AE) THEN AE[i] ELSE Z[i - Len(AE)]
  BY <1>1, ConcatProperties
<1>2. /\ Len(AE \o Z) = Len(E) + 2
      /\ (AE \o Z)[Len(E) + 2] = Z[1]
  BY <1>a, <1>1, <1>c
<1>3. \A i \in 1 .. Len(E) : (AE \o Z)[i + 1] = AE[i + 1]
  BY <1>a, <1>1, <1>c
<1> QED
  BY <1>1, <1>2, <1>3 DEF AE

\* A closed session's log tells the same run as its report.
THEOREM LogIsFaithful == Spec => []LogInPlanOrder
<1>1. IInv /\ LogIsOfTheFlow => LogInPlanOrder
  <2> SUFFICES ASSUME IInv, LogIsOfTheFlow, flow = "closed" PROVE LogInPlanOrder
    BY DEF LogInPlanOrder
  <2> DEFINE E == Entries(status)
             L == session_summary(status)
             S == << <<"summary", L>> >>
  <2>0. TypeOK /\ plan \in Seq(Step) /\ Steps = 1 .. Len(plan) /\ Len(plan) \in Nat
    BY PlanFacts DEF IInv
  <2>1. log = Header \o E \o S
    BY DEF LogIsOfTheFlow, Summary
  <2>2. E \in Seq(Line) /\ Len(E) = Len(plan)
    <3>1. \A i \in Steps : <<"step", i, status[i]>> \in Line
      BY DEF Line, IInv
    <3> QED
      BY <2>0, <3>1 DEF Entries
  <2>3. \A i \in Steps : E[i] = <<"step", i, status[i]>>
    BY DEF Entries
  <2>4. Header \in Seq(Line) /\ Len(Header) = 1
    BY DEF Header, Line
  <2>5. <<"summary", L>> \in Line
    BY DEF Line, session_summary
  <2>6. S \in Seq(Line) /\ Len(S) = 1 /\ S[1] = <<"summary", L>>
    BY <2>5
  <2> HIDE DEF E, L, S
  <2>b. /\ Len(log) = Len(E) + 2 /\ log[Len(E) + 2] = S[1]
        /\ \A i \in 1 .. Len(E) : log[i + 1] = E[i]
    <3>1. /\ Len((Header \o E) \o S) = Len(E) + 2
          /\ ((Header \o E) \o S)[Len(E) + 2] = S[1]
          /\ \A i \in 1 .. Len(E) : ((Header \o E) \o S)[i + 1] = E[i]
      <4>1. E \in Seq(Line) /\ Header \in Seq(Line) /\ S \in Seq(Line)
        BY <2>2, <2>4, <2>6
      <4>2. Len(Header) = 1
        BY <2>4
      <4>3. Len(S) = 1
        BY <2>6
      <4> DEFINE H == Header
      <4> HIDE DEF H
      <4>4. /\ Len((H \o E) \o S) = Len(E) + 2
            /\ ((H \o E) \o S)[Len(E) + 2] = S[1]
            /\ \A i \in 1 .. Len(E) : ((H \o E) \o S)[i + 1] = E[i]
        <5>1. H \in Seq(Line) /\ Len(H) = 1
          BY <4>1, <4>2 DEF H
        <5>2. \A A \in Seq(Line) : \A F \in Seq(Line) : \A Z \in Seq(Line) :
                Len(A) = 1 /\ Len(Z) = 1 =>
                  /\ Len((A \o F) \o Z) = Len(F) + 2
                  /\ ((A \o F) \o Z)[Len(F) + 2] = Z[1]
                  /\ \A i \in 1 .. Len(F) : ((A \o F) \o Z)[i + 1] = F[i]
          BY Between
        <5> QED
          BY <4>1, <4>3, <5>1, <5>2
      <4> QED
        BY <4>4 DEF H
    <3> QED
      BY <2>1, <3>1
  <2>7. Len(log) = Len(plan) + 2 /\ log[Len(log)] = <<"summary", L>>
    BY <2>b, <2>2, <2>6
  <2>8. \A i \in Steps : log[i + 1] = <<"step", i, status[i]>>
    <3> SUFFICES ASSUME NEW i \in Steps PROVE log[i + 1] = E[i]
      BY <2>3
    <3> QED
      BY <2>0, <2>b, <2>2
  <2>9. L = "succeeded" => /\ \A i \in Steps : status[i] # "failed"
                           /\ \E i \in Steps : status[i] = "succeeded"
    <3>1. DOMAIN status = Steps /\ \A i \in Steps : status[i] \in Settled
      BY <2>0 DEF IInv, TypeOK
    <3> QED
      BY <3>1 DEF L, session_summary, Settled
  <2>10. <<"summary", L>> = <<"summary", "succeeded">> => L = "succeeded"
    OBVIOUS
  <2> QED
    BY <2>7, <2>8, <2>9, <2>10 DEF LogInPlanOrder
<1> QED
  BY <1>1, Inductive, LogFollows, PTL

\* Every early exit that says nothing ran is right, and the lock's asks nothing.
THEOREM NothingRanIsTrue == Spec => []SaysNothingRan
<1>1. IInv /\ LogIsOfTheFlow => SaysNothingRan
  BY DEF IInv, LogIsOfTheFlow, SaysNothingRan, Stopped, NotBegun
<1> QED
  BY <1>1, Inductive, LogFollows, PTL

\* What a run tells of itself is what happened: the three together.
THEOREM WhatIsToldHappened == Spec => []ToldAsItHappened
  BY ReportIsFaithful, LogIsFaithful, NothingRanIsTrue, PTL DEF ToldAsItHappened

\* A password is asked for by the step that holds the terminal: one that may
\* escalate is never given a thread, and the other foreground steps are settled
\* or wait.
THEOREM PromptsTakeTheTerminal == Spec => PromptsFromTheTerminal
<1>1. IInv /\ [Next]_vars =>
        [\A i \in (prompted' \ prompted) \ {0} :
           /\ i \in Foreground
           /\ \A j \in Foreground \ {i} : status[j] # "running"]_vars
  <2> SUFFICES ASSUME IInv, Next, NEW i \in (prompted' \ prompted) \ {0}
               PROVE  /\ i \in Foreground
                      /\ \A j \in Foreground \ {i} : status[j] # "running"
    OBVIOUS
  <2>1. i \in Steps /\ Escalate(i)
    <3>1. CASE Check \/ OpenSession \/ StartJoining \/ CloseSession \/ Expire \/ Interrupt
      BY <3>1 DEF Check, OpenSession, StartJoining, CloseSession, Expire, Interrupt
    <3>2. CASE Prime
      BY <3>2 DEF Prime
    <3>3. ASSUME NEW j \in Steps, \/ SkipStep(j) \/ StartForeground(j) \/ FinishForeground(j)
                                 \/ FinishBackground(j) \/ Join(j)
          PROVE  FALSE
      BY <3>3 DEF SkipStep, StartForeground, FinishForeground, FinishBackground, Join
    <3>4. ASSUME NEW j \in Steps, Escalate(j) PROVE j = i
      BY <3>4 DEF Escalate
    <3> QED
      BY <3>1, <3>2, <3>3, <3>4 DEF Next
  <2>2. MayEscalate(plan[i]) /\ status[i] = "running" /\ WellPlanned(plan)
    BY <2>1, PlanFacts DEF Escalate, IInv
  <2>3. i \in Foreground
    BY <2>1, <2>2 DEF WellPlanned, MayEscalate, Steps, Foreground, Background, runs_in_background
  <2>4. ASSUME NEW j \in Foreground, j # i PROVE status[j] # "running"
    <3>1. i \in Nat /\ j \in Nat
      BY <2>1, PlanFacts DEF IInv, Foreground
    <3> QED
      BY <2>2, <2>3, <2>4, <3>1 DEF IInv, TerminalInPlanOrder, Settled
  <2> QED
    BY <2>3, <2>4
<1> QED
  BY <1>1, Inductive, PTL DEF PromptsFromTheTerminal, Spec

\* No step's outcome is ever rewritten.
THEOREM OutcomesAreFinal == Spec => SettledIsFinal
<1>1. IInv /\ [Next]_vars =>
        [\A i \in Steps : status[i] \in Settled => status'[i] = status[i]]_vars
  <2> SUFFICES ASSUME IInv, Next, NEW i \in Steps, status[i] \in Settled
               PROVE  status'[i] = status[i]
    OBVIOUS
  <2>0. TypeOK
    BY DEF IInv
  <2> USE <2>0 DEF TypeOK, Settled
  <2>1. CASE Check \/ Prime \/ StartJoining \/ CloseSession \/ Expire \/ Interrupt
    BY <2>1 DEF Check, Prime, StartJoining, CloseSession, Expire, Interrupt
  <2>2. CASE OpenSession
    BY <2>2 DEF OpenSession, IInv, NotBegun
  <2>3. ASSUME NEW j \in Steps,
               SkipStep(j) \/ StartForeground(j) \/ FinishForeground(j) \/ FinishBackground(j)
        PROVE  status'[i] = status[i]
    BY <2>3 DEF SkipStep, StartForeground, FinishForeground, FinishBackground
  <2>4. ASSUME NEW j \in Steps, Join(j) \/ Escalate(j)
        PROVE  status'[i] = status[i]
    BY <2>4 DEF Join, Escalate
  <2> QED
    BY <2>1, <2>2, <2>3, <2>4 DEF Next
<1> QED
  BY <1>1, Inductive, PTL DEF SettledIsFinal, Spec

-----------------------------------------------------------------------------
\* Both executors implement PlanRun.
Terminal == {i \in Foreground : status[i] = "running"}

\* A step of the flow that touches neither a status nor the report stutters.
LEMMA Stutters ==
  ASSUME Foreground' = Foreground, UNCHANGED <<status, report>>
  PROVE  [PR!Next]_PR!vars
  BY DEF PR!vars

THEOREM Refinement == Spec => RunsThePlan
<1>1. Init => PR!Init
  <2> SUFFICES ASSUME Init PROVE PR!Init
    OBVIOUS
  <2>1. DOMAIN plan \in SUBSET Positions
    BY PlansAssumption DEF Init
  <2>2. status = [i \in DOMAIN plan |-> "waiting"] /\ report = <<>>
    BY DEF Init, NoReport
  <2>3. Terminal = {}
    BY <2>2 DEF Terminal, Foreground, Steps
  <2> QED
    BY <2>1, <2>2, <2>3 DEF PR!Init, PR!NoReport, Terminal
<1>2. IInv /\ [Next]_vars => [PR!Next]_PR!vars
  <2> SUFFICES ASSUME IInv, [Next]_vars PROVE [PR!Next]_PR!vars
    OBVIOUS
  <2>0. /\ plan' = plan /\ Steps' = Steps /\ Background' = Background
        /\ Foreground' = Foreground
    BY InputsFixed DEF IInv, inputs
  <2>t. TypeOK /\ Steps \subseteq Nat /\ DOMAIN status = Steps
    BY PlanFacts DEF IInv, TypeOK
  <2> USE <2>0
  <2>1. CASE \/ Check \/ Prime \/ StartJoining \/ Expire \/ Interrupt
             \/ \E i \in Steps : Join(i) \/ Escalate(i)
    <3>1. UNCHANGED <<status, report>>
      BY <2>1 DEF Check, Prime, StartJoining, Expire, Interrupt, Join, Escalate
    <3> QED
      BY <3>1, Stutters
  <2>2. CASE OpenSession
    <3>1. \A i \in Steps : status[i] = "waiting"
      BY <2>2 DEF OpenSession, IInv, NotBegun
    <3>2. CASE flow' = "nolog" /\ UNCHANGED <<status, log>>
      BY <2>2, <3>2, Stutters DEF OpenSession
    <3>3. CASE status' = [i \in Steps |-> IF i \in Background THEN "running" ELSE status[i]]
      <4>1. Background \in SUBSET DOMAIN status
        BY <2>t DEF Background
      <4>2. Terminal = {} /\ Terminal' = {}
        BY <3>1, <3>3 DEF Terminal, Foreground
      <4>3. PR!BeginDetached(Background)
        BY <2>2, <2>t, <3>1, <3>3, <4>1, <4>2
           DEF PR!BeginDetached, OpenSession, Terminal
      <4> QED
        BY <4>1, <4>3 DEF PR!Next
    <3> QED
      BY <2>2, <3>2, <3>3 DEF OpenSession
  <2>3. ASSUME NEW i \in Steps, SkipStep(i) PROVE [PR!Next]_PR!vars
    <3>1. /\ status[i] = "waiting" /\ status' = [status EXCEPT ![i] = "skipped"]
          /\ report' = report
      BY <2>3 DEF SkipStep
    <3>2. Terminal' = Terminal
      BY <2>t, <3>1 DEF Terminal, Foreground, TypeOK
    <3>3. PR!Skip(i)
      BY <3>1, <3>2 DEF PR!Skip, Terminal
    <3> QED
      BY <2>t, <3>3 DEF PR!Next
  <2>4. ASSUME NEW i \in Steps, StartForeground(i) PROVE [PR!Next]_PR!vars
    <3>1. /\ status[i] = "waiting" /\ status' = [status EXCEPT ![i] = "running"]
          /\ report' = report /\ i \in Foreground
          /\ \A j \in Foreground : j < i => status[j] \in Settled
      BY <2>4 DEF StartForeground, AtForeground
    <3>2. Terminal = {}
      <4> SUFFICES ASSUME NEW j \in Foreground, status[j] = "running" PROVE FALSE
        BY DEF Terminal
      <4>1. j \in Steps /\ i # j
        BY <3>1 DEF Foreground
      <4>2. CASE j < i
        BY <3>1, <4>2 DEF Settled
      <4>3. CASE i < j
        BY <3>1, <4>3 DEF IInv, TerminalInPlanOrder, Settled
      <4> QED
        BY <2>t, <4>1, <4>2, <4>3
    <3>3. Terminal' = {i}
      BY <2>t, <3>1, <3>2 DEF Terminal, Foreground, TypeOK
    <3>4. PR!BeginOnTerminal(i)
      BY <3>1, <3>2, <3>3 DEF PR!BeginOnTerminal, Terminal
    <3> QED
      BY <2>t, <3>4 DEF PR!Next
  <2>5. ASSUME NEW i \in Steps, FinishForeground(i) \/ FinishBackground(i)
        PROVE  [PR!Next]_PR!vars
    <3>1. /\ status[i] = "running" /\ report' = report
          /\ \E o \in Finished : status' = [status EXCEPT ![i] = o]
      BY <2>5 DEF FinishForeground, FinishBackground
    <3>2. Terminal' = Terminal \ {i}
      BY <2>t, <3>1 DEF Terminal, Foreground, TypeOK, Finished
    <3>3. PR!End(i)
      BY <3>1, <3>2 DEF PR!End, Terminal, Finished
    <3> QED
      BY <2>t, <3>3 DEF PR!Next
  <2>6. CASE CloseSession
    <3>1. /\ report' = Sorted /\ status' = status /\ Collected = Steps /\ flow = "join"
      BY <2>6 DEF CloseSession
    <3>2. Sorted = status /\ \A i \in Steps : status[i] \in Settled
      BY <2>t, <3>1, SortedIsReal, SortedType
    <3>3. CASE report = NoReport
      <4>1. PR!Publish
        BY <2>t, <3>1, <3>2, <3>3 DEF PR!Publish, PR!NoReport, NoReport, PR!Settled, Settled
      <4> QED
        BY <4>1 DEF PR!Next
    <3> QED
      BY <3>3, <2>6 DEF IInv, CloseSession
  <2>7. CASE UNCHANGED vars
    BY <2>7, Stutters DEF vars
  <2> QED
    BY <2>1, <2>2, <2>3, <2>4, <2>5, <2>6, <2>7 DEF Next
<1> QED
  BY <1>1, <1>2, Inductive, PTL DEF RunsThePlan, PR!Spec, Spec
=============================================================================
