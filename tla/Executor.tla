------------------------------ MODULE Executor ------------------------------
(***************************************************************************)
(* `paclens update`: the lock check, the one password prompt, then the     *)
(* executor, sequential (`execute`) or with the steps that ask nothing     *)
(* running beside the foreground ones (`execute_concurrent`).              *)
(*                                                                         *)
(* One action per observable step of the flow.  The threads of the scoped  *)
(* executor are the indices of the plan: a background step's thread owns   *)
(* its status until it is joined, the main thread owns the foreground.     *)
(* The terminal, the user's Ctrl-C and the commands' exits are the         *)
(* environment.                                                            *)
(***************************************************************************)
EXTENDS ActionPlans, FiniteSets

CONSTANTS
  Plans,       \* the plans the planner may hand over
  Positions    \* the step positions those plans have

ASSUME PlansAssumption ==
  \A p \in Plans : /\ p \in Seq(Step)
                   /\ WellPlanned(p)
                   /\ DOMAIN p \subseteq Positions

VARIABLES
  plan, tool, parallel,  \* the run's inputs, fixed from the start
  flow,      \* where the main thread is
  status,    \* what has really happened to each step
  done,      \* the outcomes in the order the main thread collected them
  report,    \* the report, one outcome per step, once the session is closed
  log,       \* the lines of this session in the update log
  stamp,     \* sudo's timestamp: is the next sudo silent?
  prompted   \* the steps that asked for a password (0 is the prompt up front)

inputs == <<plan, tool, parallel>>
vars == <<plan, tool, parallel, flow, status, done, report, log, stamp, prompted>>

Steps == DOMAIN plan
Settled == {"succeeded", "failed", "skipped"}
Finished == {"succeeded", "failed"}

\* The steps given a thread of their own: none in `execute`.
Background == {i \in Steps : parallel /\ runs_in_background(plan[i], tool)}
Foreground == Steps \ Background

Outcomes == [step : Steps, outcome : Settled]

\* The entries of one session: its header, a step's lines (announcement and
\* outcome are written together), and the summary.
Line == {<<"started">>} \cup ({"step"} \X Steps \X Settled)
          \cup ({"summary"} \X {"nothing", "failures", "succeeded"})

NoReport == <<>>
Stopped == {"blocked", "empty", "nothing", "unauthenticated", "nolog", "closed", "interrupted"}
Running == {"foreground", "join"}

-----------------------------------------------------------------------------
Init ==
  /\ plan \in Plans
  /\ tool \in Tools
  /\ parallel \in BOOLEAN
  /\ flow = "planned"
  /\ status = [i \in DOMAIN plan |-> "waiting"]
  /\ done = <<>>
  /\ report = NoReport
  /\ log = <<>>
  /\ stamp \in {"cold", "warm"}
  /\ prompted = {}

\* The checks before anything asks for a password, in the code's order: an
\* empty plan, then pacman's lock read live, then a plan nothing of which can
\* run.
Check ==
  /\ flow = "planned"
  /\ \E locked \in BOOLEAN :
       flow' = IF plan = <<>> THEN "empty"
               ELSE IF blocks(locked, plan) THEN "blocked"
               ELSE IF Executable(plan, tool) = {} THEN "nothing"
               ELSE "prime"
  /\ UNCHANGED <<inputs, status, done, report, log, stamp, prompted>>

\* `sudo -v`, when some step would ask: silent on a warm timestamp, one prompt
\* on a cold one, and no run at all when it is refused.
Prime ==
  /\ flow = "prime"
  /\ IF worth_priming(plan, tool)
     THEN \/ /\ stamp' = "warm"
             /\ flow' = "open"
             /\ prompted' = IF stamp = "cold" THEN {0} ELSE {}
          \/ /\ stamp = "cold"
             /\ flow' = "unauthenticated"
             /\ prompted' = {0}
             /\ UNCHANGED stamp
     ELSE flow' = "open" /\ UNCHANGED <<stamp, prompted>>
  /\ UNCHANGED <<inputs, status, done, report, log>>

\* Mutant of OpenSession: starts the threads before the log is open.
SpawnBeforeTheLog ==
  /\ flow = "open"
  /\ status' = [i \in Steps |-> IF i \in Background THEN "running" ELSE status[i]]
  /\ \/ flow' = "nolog" /\ UNCHANGED log
     \/ flow' = "foreground" /\ log' = << <<"started">> >>
  /\ UNCHANGED <<inputs, done, report, stamp, prompted>>

\* The update log is opened, the session header is written, and every
\* background step gets its thread before the foreground starts.
OpenSession ==
  /\ flow = "open"
  /\ \/ flow' = "nolog" /\ UNCHANGED <<status, log>>
     \/ /\ flow' = "foreground"
        /\ log' = << <<"started">> >>
        /\ status' = [i \in Steps |-> IF i \in Background THEN "running" ELSE status[i]]
  /\ UNCHANGED <<inputs, done, report, stamp, prompted>>

\* Mutant of AtForeground: forgets the plan's order.
AtAnyForeground(i) == flow = "foreground" /\ i \in Foreground

\* Mutant of AtForeground: waits for a skipped step to finish.
AtForegroundUnlessSkipped(i) ==
  /\ flow = "foreground"
  /\ i \in Foreground
  /\ \A j \in Foreground : j < i => status[j] \in Finished

\* The foreground iterator is at its first step that has not been dealt with.
AtForeground(i) ==
  /\ flow = "foreground"
  /\ i \in Foreground
  /\ \A j \in Foreground : j < i => status[j] \in Settled

SkipStep(i) ==
  /\ AtForeground(i)
  /\ status[i] = "waiting"
  /\ Skipped(plan[i], tool)
  /\ status' = [status EXCEPT ![i] = "skipped"]
  /\ done' = Append(done, [step |-> i, outcome |-> "skipped"])
  /\ UNCHANGED <<inputs, flow, report, log, stamp, prompted>>

StartForeground(i) ==
  /\ AtForeground(i)
  /\ status[i] = "waiting"
  /\ ~Skipped(plan[i], tool)
  /\ status' = [status EXCEPT ![i] = "running"]
  /\ UNCHANGED <<inputs, flow, done, report, log, stamp, prompted>>

\* Exit 0 is the only success; another code, a signal and a failed launch are
\* failures, and none of them keeps the next step from running.
FinishForeground(i) ==
  /\ AtForeground(i)
  /\ status[i] = "running"
  /\ \E o \in Finished :
       /\ status' = [status EXCEPT ![i] = o]
       /\ done' = Append(done, [step |-> i, outcome |-> o])
  /\ UNCHANGED <<inputs, flow, report, log, stamp, prompted>>

\* A background thread's command exits, or the thread panics (a failure).
FinishBackground(i) ==
  /\ flow \in Running
  /\ i \in Background
  /\ status[i] = "running"
  /\ \E o \in Finished : status' = [status EXCEPT ![i] = o]
  /\ UNCHANGED <<inputs, flow, done, report, log, stamp, prompted>>

\* Mutant of StartJoining: closes without joining the threads.
CloseOverRunningThreads ==
  /\ flow = "foreground"
  /\ \A i \in Foreground : status[i] \in Settled
  /\ flow' = "closed"
  /\ report' = [i \in Steps |-> IF status[i] \in Settled THEN status[i] ELSE "failed"]
  /\ UNCHANGED <<inputs, status, done, log, stamp, prompted>>

StartJoining ==
  /\ flow = "foreground"
  /\ \A i \in Foreground : status[i] \in Settled
  /\ flow' = "join"
  /\ UNCHANGED <<inputs, status, done, report, log, stamp, prompted>>

Collected == {done[k].step : k \in DOMAIN done}

\* Mutant of Join: takes the outcome of a thread that has not ended.
JoinWithoutWaiting(i) ==
  /\ flow = "join"
  /\ i \in Background \ Collected
  /\ \A j \in Background : j < i => j \in Collected
  /\ done' = Append(done, [step |-> i, outcome |-> status[i]])
  /\ UNCHANGED <<inputs, flow, status, report, log, stamp, prompted>>

\* The handles are joined in plan order; the join waits for the thread.
Join(i) ==
  /\ flow = "join"
  /\ i \in Background \ Collected
  /\ \A j \in Background : j < i => j \in Collected
  /\ status[i] \in Settled
  /\ done' = Append(done, [step |-> i, outcome |-> status[i]])
  /\ UNCHANGED <<inputs, flow, status, report, log, stamp, prompted>>

-----------------------------------------------------------------------------
\* Mutant of Sorted: forgets the sort.
InCollectionOrder == [i \in Steps |-> done[i].outcome]

\* The outcomes brought back into plan order.
Sorted ==
  [i \in Steps |-> done[CHOOSE k \in DOMAIN done : done[k].step = i].outcome]

session_summary(r) ==
  IF \A i \in DOMAIN r : r[i] = "skipped" THEN "nothing"
  ELSE IF \E i \in DOMAIN r : r[i] = "failed" THEN "failures"
  ELSE "succeeded"

\* Mutant of CloseSession: writes the log as the steps were collected.
CloseInFinishingOrder ==
  /\ flow = "join"
  /\ Collected = Steps
  /\ flow' = "closed"
  /\ report' = Sorted
  /\ log' = log \o [k \in DOMAIN done |-> <<"step", done[k].step, done[k].outcome>>]
                \o << <<"summary", session_summary(Sorted)>> >>
  /\ UNCHANGED <<inputs, status, done, stamp, prompted>>

\* Sort, write every step's lines in plan order, and the summary.
CloseSession ==
  /\ flow = "join"
  /\ Collected = Steps
  /\ flow' = "closed"
  /\ report' = Sorted
  /\ log' = log \o [i \in Steps |-> <<"step", i, Sorted[i]>>]
                \o << <<"summary", session_summary(Sorted)>> >>
  /\ UNCHANGED <<inputs, status, done, stamp, prompted>>

-----------------------------------------------------------------------------
(* The environment. *)

\* A running command escalates: silent while the timestamp is warm, a prompt
\* otherwise (and always under doas and pkexec, which keep none for us).
Escalate(i) ==
  /\ flow \in Running
  /\ status[i] = "running"
  /\ MayEscalate(plan[i])
  /\ i \notin prompted
  /\ tool # "sudo" \/ stamp = "cold"
  /\ prompted' = prompted \cup {i}
  /\ stamp' = IF tool = "sudo" THEN "warm" ELSE stamp
  /\ UNCHANGED <<inputs, flow, status, done, report, log>>

\* sudo's timestamp runs out.
Expire ==
  /\ flow \in Running
  /\ stamp = "warm"
  /\ stamp' = "cold"
  /\ UNCHANGED <<inputs, flow, status, done, report, log, prompted>>

\* paclens is killed: Ctrl-C at a command that shares its terminal reaches the
\* whole foreground process group, and so does the terminal's closing.
Interrupt ==
  /\ flow \in {"prime", "open"} \cup Running
  /\ flow' = "interrupted"
  /\ UNCHANGED <<inputs, status, done, report, log, stamp, prompted>>

Next ==
  \/ Check \/ Prime \/ OpenSession
  \/ \E i \in Steps :
       \/ SkipStep(i) \/ StartForeground(i) \/ FinishForeground(i)
       \/ FinishBackground(i) \/ Join(i) \/ Escalate(i)
  \/ StartJoining \/ CloseSession
  \/ Expire \/ Interrupt

Spec == Init /\ [][Next]_vars

\* paclens's own steps are taken as soon as they can be; a command exits
\* eventually, which is what a run waits for.  Nobody has to press Ctrl-C, and
\* a password prompt is part of the command that asks.
Fairness ==
  /\ WF_vars(Check) /\ WF_vars(Prime) /\ WF_vars(OpenSession)
  /\ WF_vars(StartJoining) /\ WF_vars(CloseSession)
  /\ \A i \in Positions :
      /\ WF_vars(i \in Steps /\ SkipStep(i))
      /\ WF_vars(i \in Steps /\ StartForeground(i))
      /\ WF_vars(i \in Steps /\ FinishForeground(i))
      /\ WF_vars(i \in Steps /\ FinishBackground(i))
      /\ WF_vars(i \in Steps /\ Join(i))

FairSpec == Spec /\ Fairness
-----------------------------------------------------------------------------
(* What the run promises. *)

TypeOK ==
  /\ plan \in Plans /\ tool \in Tools /\ parallel \in BOOLEAN
  /\ flow \in {"planned", "prime", "open"} \cup Running \cup Stopped
  /\ status \in [Steps -> Settled \cup {"waiting", "running"}]
  /\ done \in Seq(Outcomes)
  /\ report = NoReport \/ report \in [Steps -> Settled]
  /\ log \in Seq(Line)
  /\ stamp \in {"cold", "warm"}
  /\ prompted \subseteq {0} \cup Steps

\* The terminal belongs to one step at a time, and they take it in plan order:
\* a foreground step is only ever begun once every earlier one is settled.
TerminalInPlanOrder ==
  \A i, j \in Foreground :
    i < j /\ status[j] # "waiting" => status[i] \in Settled

\* Two steps that take pacman's database lock are never running at once,
\* however many threads the run has.
PacmanDbExclusive ==
  \A i, j \in Steps :
    /\ plan[i].pacman_db /\ status[i] = "running"
    /\ plan[j].pacman_db /\ status[j] = "running"
    => i = j

\* The report is what really happened to every step, whatever order the
\* threads finished in: nothing is dropped, a step is "skipped" exactly when
\* it needed a tool there was none of, and no failure kept another from
\* running.
EveryStepAccounted ==
  flow = "closed" =>
    /\ DOMAIN report = Steps
    /\ \A i \in Steps :
         /\ report[i] = status[i]
         /\ report[i] = "skipped" <=> Skipped(plan[i], tool)

\* The log of a finished session tells the same run: between the header and
\* the summary one entry per step, in plan order, with the outcome that
\* happened; and the summary says "succeeded" only if nothing failed.
LogInPlanOrder ==
  flow = "closed" =>
    /\ Len(log) = Len(plan) + 2
    /\ \A i \in Steps : log[i + 1] = <<"step", i, status[i]>>
    /\ log[Len(log)] = <<"summary", "succeeded">>
         => /\ \A i \in Steps : status[i] # "failed"
            /\ \E i \in Steps : status[i] = "succeeded"

\* Every early exit that says nothing ran is right about it, and a run blocked
\* by pacman's lock never asked for a password.
SaysNothingRan ==
  flow \in Stopped \ {"closed", "interrupted"} =>
    /\ \A i \in Steps : status[i] = "waiting"
    /\ flow \in {"blocked", "empty", "nothing"} => prompted = {}

\* Steps that must not meet do not: the terminal's take turns in plan order,
\* and so do those that take pacman's lock.
StepsTakeTurns == TerminalInPlanOrder /\ PacmanDbExclusive

\* Whatever the run tells of itself is what happened: the report, the log, and
\* the early exits.
ToldAsItHappened == EveryStepAccounted /\ LogInPlanOrder /\ SaysNothingRan

\* A password is only ever asked for by the step that holds the terminal, so
\* two prompts never meet on it and none is hidden behind another's output.
PromptsFromTheTerminal ==
  [][\A i \in (prompted' \ prompted) \ {0} :
       /\ i \in Foreground
       /\ \A j \in Foreground \ {i} : status[j] # "running"]_vars

\* What happened to a step is settled once.
SettledIsFinal ==
  [][\A i \in Steps : status[i] \in Settled => status'[i] = status[i]]_vars

\* Sequential or concurrent, it is a run of the plan.
PR == INSTANCE PlanRun
        WITH Steps <- Positions,
             outcome <- status,
             terminal <- {i \in Foreground : status[i] = "running"},
             report <- report
RunsThePlan == PR!Spec

\* As long as commands exit, the run comes to an end.
Terminates == <>(flow \in Stopped)
=============================================================================
