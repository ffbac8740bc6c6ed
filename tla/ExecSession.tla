---------------------------- MODULE ExecSession ----------------------------
(***************************************************************************)
(* The TUI's execution sessions: a worker thread runs a whole plan as one  *)
(* `sh` script on one pty, the script appends "<index> <code>" to a status *)
(* file as each step ends, and the thread turns the file into the report   *)
(* once the shell is gone.                                                 *)
(*                                                                         *)
(* A session's actions are those of its thread and of its shell, read off  *)
(* the script; the event loop starts sessions and forwards Ctrl-C.  The    *)
(* status file is named after the process, so all the sessions of one      *)
(* paclens share it: a migration or a removal started while an update runs *)
(* hidden leaves two of them alive.                                        *)
(***************************************************************************)
EXTENDS ActionPlans, FiniteSets

CONSTANTS
  Sessions,    \* the sessions the event loop may start
  Runs         \* what it may start: the arguments of `start`, and their kind

RunKinds == {"update", "migrate", "removal"}
NoSession == 0

ASSUME SessionAssumption ==
  /\ Sessions \subseteq Nat \ {NoSession}
  /\ Runs \subseteq [kind : RunKinds, plan : Seq(Step), tool : Tools, sudo_loop : BOOLEAN]

VARIABLES
  attached,   \* the session the event loop holds the channels of
  phase,      \* where each session is: its thread, then its shell
  run,        \* what each session runs
  at,         \* the last step the script has come to
  pending,    \* a SIGINT the shell has not acted on yet
  keepalive,  \* the background `sudo -n -v` loop of the script
  truth,      \* what really happened to each step
  cancelled,  \* the user has pressed Ctrl-C in this session
  file,       \* the lines of the status file; none when it is absent
  reports      \* the report of each session that has sent one

shell == <<at, pending, keepalive, truth>>
sessionvars == <<attached, phase, run, shell, cancelled, file, reports>>

StepsIn(s) == DOMAIN run[s].plan
Runnable(s) == Executable(run[s].plan, run[s].tool)
Ahead(s) == {i \in Runnable(s) : i > at[s]}

InShell == {"auth", "ready", "running", "ended"}
Alive == {"thread", "stalled", "exited"} \cup InShell
Over == {"reported", "failed"}

Exits == {"zero", "nonzero"}
Truths == {"never", "running"} \cup Exits
Results == {"succeeded", "failed", "skipped", "cancelled"}
Unreported == <<>>
NoRun == [kind |-> "update", plan |-> <<>>, tool |-> "none", sudo_loop |-> FALSE]

-----------------------------------------------------------------------------
SessionInit ==
  /\ attached = NoSession
  /\ phase = [s \in Sessions |-> "idle"]
  /\ run = [s \in Sessions |-> NoRun]
  /\ at = [s \in Sessions |-> 0]
  /\ pending = [s \in Sessions |-> FALSE]
  /\ keepalive = [s \in Sessions |-> FALSE]
  /\ truth = [s \in Sessions |-> <<>>]
  /\ cancelled = [s \in Sessions |-> FALSE]
  /\ file = <<>>
  /\ reports = [s \in Sessions |-> Unreported]

\* The event loop starts a session.  `u` shows a hidden run instead of
\* starting an update beside it; `x` and `R` ask no such question, and the
\* session they replace loses its channels.
Start(s, r) ==
  /\ phase[s] = "idle"
  /\ attached # NoSession => r.kind # "update"
  /\ attached' = s
  /\ phase' = [phase EXCEPT ![s] = "thread"]
  /\ run' = [run EXCEPT ![s] = r]
  /\ truth' = [truth EXCEPT ![s] = [i \in DOMAIN r.plan |-> "never"]]
  /\ UNCHANGED <<at, pending, keepalive, cancelled, file, reports>>

\* The update log could not be opened: the session is over before it began.
OpenLogFails(s) ==
  /\ phase[s] = "thread"
  /\ phase' = [phase EXCEPT ![s] = "failed"]
  /\ attached' = IF attached = s THEN NoSession ELSE attached
  /\ UNCHANGED <<run, shell, cancelled, file, reports>>

\* The status file of an earlier run is removed and the script is spawned on
\* a pty.  A spawn that fails is ignored: the thread goes on to the statuses.
Spawn(s) ==
  /\ phase[s] = "thread"
  /\ file' = <<>>
  /\ \E up \in BOOLEAN :
       phase' = [phase EXCEPT ![s] =
                   IF ~up THEN "exited"
                   ELSE IF worth_priming(run[s].plan, run[s].tool) THEN "auth" ELSE "ready"]
  /\ UNCHANGED <<attached, run, shell, cancelled, reports>>

\* `sudo -v || exit 1`, and the keepalive loop once there is a timestamp.
Authenticate(s) ==
  /\ phase[s] = "auth"
  /\ ~pending[s]
  /\ \E ok \in BOOLEAN :
       /\ phase' = [phase EXCEPT ![s] = IF ok THEN "ready" ELSE "exited"]
       /\ keepalive' = [keepalive EXCEPT ![s] = ok /\ run[s].sudo_loop]
  /\ UNCHANGED <<attached, run, at, pending, truth, cancelled, file, reports>>

\* Mutant of BeginStep: takes the steps in any order.
BeginAnyStep(s) ==
  /\ phase[s] = "ready"
  /\ ~pending[s]
  /\ \E i \in Ahead(s) : /\ at' = [at EXCEPT ![s] = i]
                         /\ truth' = [truth EXCEPT ![s][i] = "running"]
  /\ phase' = [phase EXCEPT ![s] = "running"]
  /\ UNCHANGED <<attached, run, pending, keepalive, cancelled, file, reports>>

BeginStep(s) ==
  /\ phase[s] = "ready"
  /\ ~pending[s]
  /\ \E i \in Ahead(s) :
       /\ \A j \in Ahead(s) : i <= j
       /\ at' = [at EXCEPT ![s] = i]
       /\ truth' = [truth EXCEPT ![s][i] = "running"]
  /\ phase' = [phase EXCEPT ![s] = "running"]
  /\ UNCHANGED <<attached, run, pending, keepalive, cancelled, file, reports>>

EndStep(s) ==
  /\ phase[s] = "running"
  /\ \E x \in Exits : truth' = [truth EXCEPT ![s][at[s]] = x]
  /\ phase' = [phase EXCEPT ![s] = "ended"]
  /\ UNCHANGED <<attached, run, at, pending, keepalive, cancelled, file, reports>>

\* Mutant of Record: numbers the steps that run instead of the steps of the
\* plan.
RecordByRank(s) ==
  /\ phase[s] = "ended"
  /\ ~pending[s]
  /\ LET rank == Cardinality({i \in Runnable(s) : i <= at[s]})
     IN  file' = Append(file, <<rank, truth[s][at[s]]>>)
  /\ phase' = [phase EXCEPT ![s] = "ready"]
  /\ UNCHANGED <<attached, run, shell, cancelled, reports>>

\* `echo "<i> $?" >> file`, then the next step: a failure does not stop it.
Record(s) ==
  /\ phase[s] = "ended"
  /\ ~pending[s]
  /\ file' = Append(file, <<at[s], truth[s][at[s]]>>)
  /\ phase' = [phase EXCEPT ![s] = "ready"]
  /\ UNCHANGED <<attached, run, shell, cancelled, reports>>

\* Mutant of ScriptEnds: no EXIT trap.
ScriptEndsWithoutTrap(s) ==
  /\ phase[s] = "ready"
  /\ ~pending[s]
  /\ Ahead(s) = {}
  /\ phase' = [phase EXCEPT ![s] = "exited"]
  /\ UNCHANGED <<attached, run, at, pending, keepalive, truth, cancelled, file, reports>>

\* The script runs out; its EXIT trap takes the keepalive along.
ScriptEnds(s) ==
  /\ phase[s] = "ready"
  /\ ~pending[s]
  /\ Ahead(s) = {}
  /\ phase' = [phase EXCEPT ![s] = "exited"]
  /\ keepalive' = [keepalive EXCEPT ![s] = FALSE]
  /\ UNCHANGED <<attached, run, at, pending, truth, cancelled, file, reports>>

\* Ctrl-C typed into the console reaches the shell and its command.
CtrlC(s) ==
  /\ attached = s
  /\ phase[s] \in InShell
  /\ pending' = [pending EXCEPT ![s] = TRUE]
  /\ cancelled' = [cancelled EXCEPT ![s] = TRUE]
  /\ UNCHANGED <<attached, phase, run, at, keepalive, truth, file, reports>>

\* Mutant of TrapInt: the signal only kills the step it lands in.
TrapIntAndGoOn(s) ==
  /\ pending[s]
  /\ phase[s] \in InShell \ {"running"}
  /\ pending' = [pending EXCEPT ![s] = FALSE]
  /\ phase' = [phase EXCEPT ![s] = IF @ = "auth" THEN "exited" ELSE @]
  /\ keepalive' = [keepalive EXCEPT ![s] = FALSE]
  /\ UNCHANGED <<attached, run, at, truth, cancelled, file, reports>>

\* The shell runs its INT trap once its command is gone: `exit 130`, unless
\* the keepalive was started, whose own INT trap only kills the keepalive.
TrapInt(s) ==
  /\ pending[s]
  /\ phase[s] \in InShell \ {"running"}
  /\ pending' = [pending EXCEPT ![s] = FALSE]
  /\ phase' = [phase EXCEPT ![s] =
                 IF phase[s] # "auth" /\ run[s].sudo_loop /\ worth_priming(run[s].plan, run[s].tool)
                 THEN @ ELSE "exited"]
  /\ keepalive' = [keepalive EXCEPT ![s] = FALSE]
  /\ UNCHANGED <<attached, run, at, truth, cancelled, file, reports>>

\* Nobody reads the pty of a session whose channels are gone: its command may
\* block on a full terminal for good.
Stall(s) ==
  /\ attached # s
  /\ phase[s] = "running"
  /\ phase' = [phase EXCEPT ![s] = "stalled"]
  /\ UNCHANGED <<attached, run, shell, cancelled, file, reports>>

\* The lines of the file, the last one of a step deciding.
parse_statuses(s) ==
  LET lines(i) == {k \in DOMAIN file : file[k][1] = i}
      last(i)  == CHOOSE k \in lines(i) : \A l \in lines(i) : l <= k
  IN  [i \in StepsIn(s) |->
         IF lines(i) # {}
         THEN IF file[last(i)][2] = "zero" THEN "succeeded" ELSE "failed"
         ELSE IF Skipped(run[s].plan[i], run[s].tool) THEN "skipped" ELSE "cancelled"]

\* Mutant of SendReport: leaves the skipped steps out of the report.
ReportRunnableOnly(s) ==
  /\ phase[s] = "exited"
  /\ reports' = [reports EXCEPT ![s] = [i \in Runnable(s) |-> parse_statuses(s)[i]]]
  /\ file' = <<>>
  /\ phase' = [phase EXCEPT ![s] = "reported"]
  /\ attached' = IF attached = s THEN NoSession ELSE attached
  /\ UNCHANGED <<run, shell, cancelled>>

\* Mutant of SendReport: waits for a line of the status file.
ReportRecorded(s) ==
  /\ phase[s] = "exited"
  /\ file # <<>>
  /\ reports' = [reports EXCEPT ![s] = parse_statuses(s)]
  /\ file' = <<>>
  /\ phase' = [phase EXCEPT ![s] = "reported"]
  /\ attached' = IF attached = s THEN NoSession ELSE attached
  /\ UNCHANGED <<run, shell, cancelled>>

\* The shell is gone: read the file, remove it, send the report.
SendReport(s) ==
  /\ phase[s] = "exited"
  /\ reports' = [reports EXCEPT ![s] = parse_statuses(s)]
  /\ file' = <<>>
  /\ phase' = [phase EXCEPT ![s] = "reported"]
  /\ attached' = IF attached = s THEN NoSession ELSE attached
  /\ UNCHANGED <<run, shell, cancelled>>

SessionNext ==
  \E s \in Sessions :
    \/ \E r \in Runs : Start(s, r)
    \/ OpenLogFails(s) \/ Spawn(s)
    \/ Authenticate(s) \/ BeginStep(s) \/ EndStep(s) \/ Record(s) \/ ScriptEnds(s)
    \/ CtrlC(s) \/ TrapInt(s) \/ Stall(s)
    \/ SendReport(s)

SessionSpec == SessionInit /\ [][SessionNext]_sessionvars

\* The thread and the shell go on when they can and a command ends eventually;
\* the user need not start anything nor press Ctrl-C.  A Ctrl-C disables the
\* shell's next instruction until the trap has run, so strong fairness for
\* those says that the user does not press it before each of them for ever.
SessionFairness ==
  \A s \in Sessions :
    /\ WF_sessionvars(OpenLogFails(s) \/ Spawn(s))
    /\ WF_sessionvars(EndStep(s) \/ TrapInt(s))
    /\ SF_sessionvars(Authenticate(s) \/ BeginStep(s) \/ Record(s) \/ ScriptEnds(s))
    /\ WF_sessionvars(SendReport(s))

SessionFairSpec == SessionSpec /\ SessionFairness

-----------------------------------------------------------------------------
(* What a session promises. *)

SessionTypeOK ==
  /\ attached \in Sessions \cup {NoSession}
  /\ phase \in [Sessions -> {"idle"} \cup Alive \cup Over]
  /\ run \in [Sessions -> Runs \cup {NoRun}]
  /\ at \in [Sessions -> Nat]
  /\ pending \in [Sessions -> BOOLEAN]
  /\ keepalive \in [Sessions -> BOOLEAN]
  /\ cancelled \in [Sessions -> BOOLEAN]
  /\ file \in Seq(Nat \X Truths)
  /\ \A s \in Sessions :
       /\ truth[s] \in [StepsIn(s) -> Truths]
       /\ reports[s] = Unreported \/ reports[s] \in [StepsIn(s) -> Results]

OnlyUpdates == \A s \in Sessions : run[s].kind = "update"

\* While every session is an update, of which one is alive at a time (sessions
\* of another kind share the status file with it), the report never credits a
\* step with an exit it did not have: "succeeded" is a command that exited 0,
\* "failed" one that exited otherwise, "skipped" exactly a step that wanted a
\* tool; and nothing is left out of the report of a run the user let finish.
ReportIsTrue ==
  OnlyUpdates =>
    \A s \in Sessions : phase[s] = "reported" =>
      \A i \in StepsIn(s) :
        /\ reports[s][i] = "succeeded" => truth[s][i] = "zero"
        /\ reports[s][i] = "failed" => truth[s][i] = "nonzero"
        /\ reports[s][i] = "skipped" <=> Skipped(run[s].plan[i], run[s].tool)
        /\ truth[s][i] \in Exits /\ ~cancelled[s] => reports[s][i] # "cancelled"

\* The script takes the steps in plan order, one at a time, and stops between
\* them: behind a step that has begun there is none that was left out.
BegunInPlanOrder ==
  \A s \in Sessions : \A i, j \in Runnable(s) :
    i < j /\ truth[s][j] # "never" => truth[s][i] \in Exits

\* Without the keepalive, whose trap replaces the one this rests on, no step
\* begins once the user has pressed Ctrl-C, whatever else is alive.
CancelStopsTheRun ==
  [][\A s \in Sessions : \A i \in StepsIn(s) :
       cancelled[s] /\ ~run[s].sudo_loop /\ truth[s][i] = "never" => truth'[s][i] = "never"]_sessionvars

\* exec.rs: "Ctrl-C anywhere stops the run, not just the step it lands in."
CancelStopsEveryRun ==
  [][\A s \in Sessions : \A i \in StepsIn(s) :
       cancelled[s] /\ truth[s][i] = "never" => truth'[s][i] = "never"]_sessionvars

\* exec.rs: the keepalive loop "dies with the script".
KeepaliveDiesWithScript ==
  \A s \in Sessions : keepalive[s] => phase[s] \in InShell \cup {"stalled"}

\* A session whose channels the event loop holds is heard of again: a report,
\* or the reason there is none.
SessionEnds ==
  \A s \in Sessions :
    phase[s] = "thread" ~> phase[s] \in Over \/ attached # s
=============================================================================
