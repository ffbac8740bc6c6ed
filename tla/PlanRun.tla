------------------------------ MODULE PlanRun ------------------------------
(***************************************************************************)
(* What running a plan promises, whoever runs it and on however many       *)
(* threads: every step is run at most once or skipped for a reason, the    *)
(* terminal has one user at a time, and a report, when there is one, is    *)
(* what really happened to every step, in plan order, and is final.        *)
(***************************************************************************)
EXTENDS Naturals

CONSTANT Steps     \* the set of all step positions a plan may have

VARIABLES outcome,   \* what has happened to each step of the plan
          terminal,  \* the steps the terminal belongs to
          report     \* one outcome per step, or nothing yet

vars == <<outcome, terminal, report>>

Settled == {"succeeded", "failed", "skipped"}
Outcome == Settled \cup {"waiting", "running"}

NoReport == <<>>

Init ==
  /\ \E S \in SUBSET Steps : outcome = [i \in S |-> "waiting"]
  /\ terminal = {}
  /\ report = NoReport

\* Steps may be skipped, and any number of them begun off the terminal, in
\* one go; the ones that take the terminal do so one at a time.
Skip(i) ==
  /\ outcome[i] = "waiting"
  /\ outcome' = [outcome EXCEPT ![i] = "skipped"]
  /\ UNCHANGED <<terminal, report>>

BeginDetached(S) ==
  /\ \A i \in S : outcome[i] = "waiting"
  /\ outcome' = [i \in DOMAIN outcome |-> IF i \in S THEN "running" ELSE outcome[i]]
  /\ UNCHANGED <<terminal, report>>

BeginOnTerminal(i) ==
  /\ outcome[i] = "waiting"
  /\ terminal = {}
  /\ outcome' = [outcome EXCEPT ![i] = "running"]
  /\ terminal' = {i}
  /\ UNCHANGED report

End(i) ==
  /\ outcome[i] = "running"
  /\ outcome' \in {[outcome EXCEPT ![i] = o] : o \in {"succeeded", "failed"}}
  /\ terminal' = terminal \ {i}
  /\ UNCHANGED report

Publish ==
  /\ report = NoReport
  /\ \A i \in DOMAIN outcome : outcome[i] \in Settled
  /\ report' = outcome
  /\ UNCHANGED <<outcome, terminal>>

Next ==
  \/ \E i \in DOMAIN outcome : Skip(i) \/ BeginOnTerminal(i) \/ End(i)
  \/ \E S \in SUBSET DOMAIN outcome : BeginDetached(S)
  \/ Publish

Spec == Init /\ [][Next]_vars
=============================================================================
