--------------------------- MODULE CommandRunner ---------------------------
(***************************************************************************)
(* One command of a scan: the program, the two threads that drain what it  *)
(* prints, and the caller, which polls for its end and stops it at the     *)
(* timeout.  A program prints on either pipe, blocks on a full one, may    *)
(* leave a process behind that keeps the pipes open, and may hang.         *)
(***************************************************************************)
EXTENDS Naturals, Sequences, FiniteSets

CONSTANTS
  Programs,   \* what programs do: sequences of "out", "err", "fork" and "hang"
  Timeouts,   \* the timeouts configured; 0 is none
  Room        \* what a pipe holds, in lines

Pipes == {"out", "err"}
Steps == Pipes \cup {"fork", "hang"}

ConstantsOK == Programs \subseteq Seq(Steps) /\ Timeouts \subseteq Nat /\ Room \in Nat

VARIABLES
  program, timeout,
  does,       \* what the program still has to do
  process,    \* "alive", "exited" and not yet waited for, "reaped"
  heir,       \* a process it left behind has the pipes open
  pipe,       \* the lines in each pipe
  drained,    \* the lines each thread has read
  reading,    \* the threads that have not seen the end
  elapsed, caller, result

programvars == <<does, process, heir>>
callvars == <<program, timeout>>
commandvars == <<callvars, programvars, pipe, drained, reading, elapsed, caller, result>>

Count(s) == [p \in Pipes |-> Cardinality({i \in DOMAIN s : s[i] = p})]

CommandTypeOK ==
  /\ program \in Programs /\ timeout \in Timeouts
  /\ process \in {"none", "alive", "exited", "reaped"} /\ heir \in BOOLEAN
  /\ pipe \in [Pipes -> 0..Room]
  /\ drained \in [Pipes -> Nat]
  /\ reading \subseteq Pipes
  /\ elapsed \in 0..(timeout + 1)
  /\ caller \in {"spawning", "polling", "joining", "returned"}
  /\ result \in {"none", "not run", "timed out", "output"}

CommandInit ==
  /\ program \in Programs /\ timeout \in Timeouts
  /\ does = program /\ process = "none" /\ heir = FALSE
  /\ pipe = [p \in Pipes |-> 0] /\ drained = [p \in Pipes |-> 0] /\ reading = Pipes
  /\ elapsed = 0 /\ caller = "spawning" /\ result = "none"

-----------------------------------------------------------------------------
(* The program.                                                            *)

Write ==
  /\ process = "alive" /\ does # <<>> /\ Head(does) \in Pipes
  /\ pipe[Head(does)] < Room
  /\ pipe' = [pipe EXCEPT ![Head(does)] = @ + 1]
  /\ does' = Tail(does)
  /\ UNCHANGED <<callvars, process, heir, drained, reading, elapsed, caller, result>>

Fork ==
  /\ process = "alive" /\ does # <<>> /\ Head(does) = "fork"
  /\ heir' = TRUE /\ does' = Tail(does)
  /\ UNCHANGED <<callvars, process, pipe, drained, reading, elapsed, caller, result>>

Exit ==
  /\ process = "alive" /\ does = <<>>
  /\ process' = "exited"
  /\ UNCHANGED <<callvars, does, heir, pipe, drained, reading, elapsed, caller, result>>

HeirEnds ==
  /\ heir
  /\ heir' = FALSE
  /\ UNCHANGED <<callvars, does, process, pipe, drained, reading, elapsed, caller, result>>

-----------------------------------------------------------------------------
(* The threads.                                                            *)

\* Mutant of DrainPipe: one thread reads both pipes, one after the other.
DrainInTurn(p) ==
  /\ p \in reading /\ pipe[p] > 0
  /\ p = "err" => "out" \notin reading
  /\ pipe' = [pipe EXCEPT ![p] = @ - 1]
  /\ drained' = [drained EXCEPT ![p] = @ + 1]
  /\ UNCHANGED <<callvars, programvars, reading, elapsed, caller, result>>

DrainPipe(p) ==
  /\ p \in reading /\ pipe[p] > 0
  /\ pipe' = [pipe EXCEPT ![p] = @ - 1]
  /\ drained' = [drained EXCEPT ![p] = @ + 1]
  /\ UNCHANGED <<callvars, programvars, reading, elapsed, caller, result>>

\* A pipe ends when it is empty and nothing that could write to it is left.
ReachEnd(p) ==
  /\ p \in reading /\ pipe[p] = 0
  /\ process \in {"exited", "reaped"} /\ ~heir
  /\ reading' = reading \ {p}
  /\ UNCHANGED <<callvars, programvars, pipe, drained, elapsed, caller, result>>

-----------------------------------------------------------------------------
(* The caller.                                                             *)

Spawn ==
  /\ caller = "spawning"
  /\ process' = "alive" /\ caller' = "polling"
  /\ UNCHANGED <<callvars, does, heir, pipe, drained, reading, elapsed, result>>

SpawnFails ==
  /\ caller = "spawning"
  /\ caller' = "returned" /\ result' = "not run" /\ reading' = {}
  /\ UNCHANGED <<callvars, programvars, pipe, drained, elapsed>>

SeeExit ==
  /\ caller = "polling" /\ process = "exited"
  /\ process' = "reaped" /\ caller' = "joining"
  /\ UNCHANGED <<callvars, does, heir, pipe, drained, reading, elapsed, result>>

\* The threads are left to themselves.
Stop ==
  /\ caller = "polling" /\ process = "alive"
  /\ timeout # 0 /\ elapsed > timeout
  /\ process' = "reaped" /\ caller' = "returned" /\ result' = "timed out"
  /\ UNCHANGED <<callvars, does, heir, pipe, drained, reading, elapsed>>

\* Mutant of Join: takes what there is.
JoinNothing ==
  /\ caller = "joining"
  /\ caller' = "returned" /\ result' = "output"
  /\ UNCHANGED <<callvars, programvars, pipe, drained, reading, elapsed>>

Join ==
  /\ caller = "joining" /\ reading = {}
  /\ caller' = "returned" /\ result' = "output"
  /\ UNCHANGED <<callvars, programvars, pipe, drained, reading, elapsed>>

Tick ==
  /\ process = "alive" /\ elapsed <= timeout
  /\ elapsed' = elapsed + 1
  /\ UNCHANGED <<callvars, programvars, pipe, drained, reading, caller, result>>

Threads == \E p \in Pipes : DrainPipe(p) \/ ReachEnd(p)
Caller == Spawn \/ SpawnFails \/ SeeExit \/ Stop \/ Join
CommandNext == Write \/ Fork \/ Exit \/ HeirEnds \/ Threads \/ Caller \/ Tick

\* A program that does not hang goes on, the threads and the caller run, and
\* time passes.  Nothing says that a process left behind ends.
CommandFairness ==
  /\ WF_commandvars(Write \/ Fork \/ Exit)
  /\ \A p \in Pipes : WF_commandvars(DrainPipe(p) \/ ReachEnd(p))
  /\ WF_commandvars(Caller) /\ WF_commandvars(Tick)
CommandSpec == CommandInit /\ [][CommandNext]_commandvars /\ CommandFairness
-----------------------------------------------------------------------------
Hangs == \E i \in DOMAIN program : program[i] = "hang"
Forks == \E i \in DOMAIN program : program[i] = "fork"

\* An output is the whole of what the program printed, whatever the pipes hold;
\* a program is called too slow only when it was, and none is left unreaped.
AnswerIsWhole ==
  caller = "returned" =>
    /\ result = "output" => does = <<>> /\ drained = Count(program)
    /\ result = "timed out" => timeout # 0 /\ elapsed > timeout /\ process = "reaped"
    /\ result # "not run" => process = "reaped"

\* A command returns, one that hangs too when there is a timeout, unless it
\* leaves a process behind.
RunReturns == (~Forks /\ (Hangs => timeout # 0)) ~> caller = "returned"

\* "killing anything that runs past the timeout ... must never hang paclens"
\* (providers/mod.rs:39).
TimeoutHolds == (timeout # 0) ~> caller = "returned"
=============================================================================
