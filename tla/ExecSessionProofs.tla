------------------------- MODULE ExecSessionProofs -------------------------
(***************************************************************************)
(* Proofs about the TUI's execution sessions, for every plan and any       *)
(* number of sessions: the types, the order of the steps, that a keepalive *)
(* dies with its script and that the report of an update is true; and,     *)
(* under the assumption without which a run shows it false, that a Ctrl-C  *)
(* stops the run.                                                          *)
(***************************************************************************)
EXTENDS ExecSession, WellFoundedInduction, TLAPS

Shape ==
  /\ DOMAIN truth = Sessions /\ DOMAIN reports = Sessions
  /\ \A s \in Sessions : phase[s] \in {"running", "stalled", "ended"} => at[s] \in StepsIn(s)
  /\ \A s \in Sessions : phase[s] # "reported" => reports[s] = Unreported

LEMMA RunFacts ==
  ASSUME NEW r \in Runs \cup {NoRun}
  PROVE  /\ r.plan \in Seq(Step)
         /\ DOMAIN r.plan = 1 .. Len(r.plan) /\ Len(r.plan) \in Nat
         /\ DOMAIN r.plan \subseteq Nat \ {0}
<1>1. CASE r \in Runs
  BY <1>1, SessionAssumption
<1>2. CASE r = NoRun
  <2>1. r.plan = <<>>
    BY <1>2 DEF NoRun
  <2> QED
    BY <2>1
<1> QED
  BY <1>1, <1>2

\* The values parse_statuses returns.
LEMMA StatusesType ==
  ASSUME NEW s \in Sessions
  PROVE  parse_statuses(s) \in [StepsIn(s) -> Results]
  BY DEF parse_statuses, Results

LEMMA TypesKept ==
  ASSUME SessionTypeOK, Shape, [SessionNext]_sessionvars
  PROVE  SessionTypeOK' /\ Shape'
<1> USE DEF SessionTypeOK, Shape, Alive, InShell, Over, StepsIn
<1>1. ASSUME NEW s \in Sessions, NEW r \in Runs, Start(s, r) PROVE SessionTypeOK' /\ Shape'
  <2>1. [i \in DOMAIN r.plan |-> "never"] \in [DOMAIN r.plan -> Truths]
    BY DEF Truths
  <2>2. run' \in [Sessions -> Runs \cup {NoRun}]
    BY <1>1 DEF Start
  <2>3. \A t \in Sessions : truth'[t] \in [StepsIn(t)' -> Truths]
    BY <1>1, <2>1 DEF Start
  <2> QED
    BY <1>1, <2>2, <2>3 DEF Start
<1>2. ASSUME NEW s \in Sessions, OpenLogFails(s) PROVE SessionTypeOK' /\ Shape'
  <2>1. attached' \in Sessions \cup {NoSession}
    BY <1>2 DEF OpenLogFails
  <2> QED
    BY <1>2, <2>1 DEF OpenLogFails, shell
<1>3. ASSUME NEW s \in Sessions, Spawn(s) PROVE SessionTypeOK' /\ Shape'
  <2>1. <<>> \in Seq(Nat \X Truths)
    OBVIOUS
  <2> QED
    BY <1>3, <2>1 DEF Spawn, shell
<1>4. ASSUME NEW s \in Sessions, Authenticate(s) PROVE SessionTypeOK' /\ Shape'
  <2>1. \A r \in Runs \cup {NoRun} : r.sudo_loop \in BOOLEAN
    <3>1. \A r \in Runs : r.sudo_loop \in BOOLEAN
      BY SessionAssumption
    <3>2. NoRun.sudo_loop = FALSE
      BY DEF NoRun
    <3> QED
      BY <3>1, <3>2
  <2> QED
    BY <1>4, <2>1 DEF Authenticate
<1>5. ASSUME NEW s \in Sessions, BeginStep(s) PROVE SessionTypeOK' /\ Shape'
  <2>1. PICK i \in Ahead(s) :
          at' = [at EXCEPT ![s] = i] /\ truth' = [truth EXCEPT ![s][i] = "running"]
    BY <1>5 DEF BeginStep
  <2>2. i \in StepsIn(s) /\ i \in Nat
    BY <2>1, RunFacts DEF Ahead, Runnable, Executable
  <2> QED
    BY <1>5, <2>1, <2>2 DEF BeginStep, Truths
<1>6. ASSUME NEW s \in Sessions, EndStep(s) PROVE SessionTypeOK' /\ Shape'
  BY <1>6 DEF EndStep, Truths
<1>7. ASSUME NEW s \in Sessions, Record(s) PROVE SessionTypeOK' /\ Shape'
  <2>1. at[s] \in StepsIn(s) /\ truth[s][at[s]] \in Truths
    BY <1>7 DEF Record
  <2>2. <<at[s], truth[s][at[s]]>> \in Nat \X Truths
    BY <2>1
  <2> QED
    BY <1>7, <2>2 DEF Record, shell
<1>8. ASSUME NEW s \in Sessions, ScriptEnds(s) PROVE SessionTypeOK' /\ Shape'
  BY <1>8 DEF ScriptEnds
<1>9. ASSUME NEW s \in Sessions, CtrlC(s) PROVE SessionTypeOK' /\ Shape'
  BY <1>9 DEF CtrlC
<1>10. ASSUME NEW s \in Sessions, TrapInt(s) PROVE SessionTypeOK' /\ Shape'
  BY <1>10 DEF TrapInt
<1>11. ASSUME NEW s \in Sessions, Stall(s) PROVE SessionTypeOK' /\ Shape'
  BY <1>11 DEF Stall, shell
<1>12. ASSUME NEW s \in Sessions, SendReport(s) PROVE SessionTypeOK' /\ Shape'
  <2>1. <<>> \in Seq(Nat \X Truths)
    OBVIOUS
  <2>2. attached' \in Sessions \cup {NoSession}
    BY <1>12 DEF SendReport
  <2> QED
    BY <1>12, <2>1, <2>2, StatusesType DEF SendReport, shell
<1>13. CASE UNCHANGED sessionvars
  BY <1>13 DEF sessionvars, shell
<1> QED
  BY <1>1, <1>2, <1>3, <1>4, <1>5, <1>6, <1>7, <1>8, <1>9, <1>10, <1>11, <1>12, <1>13
  DEF SessionNext

LEMMA InitTyped == SessionInit => SessionTypeOK /\ Shape
<1> SUFFICES ASSUME SessionInit PROVE SessionTypeOK /\ Shape
  OBVIOUS
<1>1. \A s \in Sessions : StepsIn(s) = {} /\ truth[s] \in [StepsIn(s) -> Truths]
  BY DEF SessionInit, StepsIn, NoRun
<1>2. file \in Seq(Nat \X Truths)
  BY DEF SessionInit
<1> QED
  BY <1>1, <1>2 DEF SessionInit, SessionTypeOK, Shape, Alive, Over

LEMMA Typed == SessionSpec => [](SessionTypeOK /\ Shape)
  BY InitTyped, TypesKept, PTL DEF SessionSpec

\* Every variable keeps its type.
THEOREM TypeCorrect == SessionSpec => []SessionTypeOK
  BY Typed, PTL

-----------------------------------------------------------------------------
(* The order of the steps.  Behind the step the script has come to, every  *)
(* step that can run has ended; ahead of it none has begun.                *)

Ordered(s) ==
  /\ phase[s] \in {"idle", "thread", "auth"} => at[s] = 0
  /\ at[s] \in StepsIn(s) => at[s] \in Runnable(s)
  /\ phase[s] = "running" => truth[s][at[s]] = "running"
  /\ phase[s] \in {"ready", "ended"} /\ at[s] \in StepsIn(s) => truth[s][at[s]] \in Exits
  /\ \A i \in Runnable(s) : i < at[s] => truth[s][i] \in Exits
  /\ \A i \in StepsIn(s) : i > at[s] => truth[s][i] = "never"
  /\ \A i \in StepsIn(s) : truth[s][i] # "never" => i \in Runnable(s)

AllOrdered == \A s \in Sessions : Ordered(s)

\* What the steps that move neither the script nor its steps leave alone.
LEMMA OrderedUntouched ==
  ASSUME SessionTypeOK, NEW t \in Sessions, Ordered(t),
         run'[t] = run[t], at'[t] = at[t], truth'[t] = truth[t],
         phase'[t] = phase[t] \/ phase'[t] \in Over \cup {"exited", "stalled"}
  PROVE  Ordered(t)'
  BY DEF Ordered, StepsIn, Runnable, Over

LEMMA OrderKept ==
  ASSUME SessionTypeOK, Shape, AllOrdered, [SessionNext]_sessionvars
  PROVE  AllOrdered'
<1> SUFFICES ASSUME NEW t \in Sessions PROVE Ordered(t)'
  BY DEF AllOrdered
<1>0. /\ Ordered(t) /\ StepsIn(t) \subseteq Nat \ {0} /\ at[t] \in Nat
      /\ Runnable(t) \subseteq StepsIn(t)
  BY RunFacts DEF AllOrdered, SessionTypeOK, StepsIn, Runnable, Executable
<1>1. ASSUME NEW s \in Sessions, NEW r \in Runs, Start(s, r) PROVE Ordered(t)'
  <2>1. CASE s = t
    <3>1. /\ run'[t] = r /\ truth'[t] = [i \in DOMAIN r.plan |-> "never"]
          /\ phase'[t] = "thread" /\ at'[t] = 0
      BY <1>0, <1>1, <2>1 DEF Start, SessionTypeOK, Shape, Ordered
    <3>2. DOMAIN r.plan \subseteq Nat \ {0}
      BY RunFacts
    <3>3. StepsIn(t)' = DOMAIN r.plan /\ Runnable(t)' \subseteq DOMAIN r.plan
      BY <3>1 DEF StepsIn, Runnable, Executable
    <3> QED
      BY <3>1, <3>2, <3>3 DEF Ordered
  <2>2. CASE s # t
    BY <1>0, <1>1, <2>2, OrderedUntouched DEF Start, SessionTypeOK, Shape
  <2> QED
    BY <2>1, <2>2
<1>2. ASSUME NEW s \in Sessions, OpenLogFails(s) PROVE Ordered(t)'
  BY <1>0, <1>2, OrderedUntouched DEF OpenLogFails, SessionTypeOK, Over, shell
<1>3. ASSUME NEW s \in Sessions, Spawn(s) PROVE Ordered(t)'
  <2>1. CASE s = t
    <3>1. run' = run /\ at' = at /\ truth' = truth /\ at[t] = 0
      BY <1>0, <1>3, <2>1 DEF Spawn, shell, Ordered
    <3>2. phase'[t] \in {"exited", "auth", "ready"}
      BY <1>3, <2>1 DEF Spawn, SessionTypeOK
    <3> QED
      BY <1>0, <3>1, <3>2 DEF Ordered, StepsIn, Runnable
  <2>2. CASE s # t
    BY <1>0, <1>3, <2>2, OrderedUntouched DEF Spawn, SessionTypeOK, shell
  <2> QED
    BY <2>1, <2>2
<1>4. ASSUME NEW s \in Sessions, Authenticate(s) PROVE Ordered(t)'
  <2>1. CASE s = t
    <3>1. run' = run /\ at' = at /\ truth' = truth /\ at[t] = 0
      BY <1>0, <1>4, <2>1 DEF Authenticate, Ordered
    <3>2. phase'[t] \in {"exited", "ready"}
      BY <1>4, <2>1 DEF Authenticate, SessionTypeOK
    <3> QED
      BY <1>0, <3>1, <3>2 DEF Ordered, StepsIn, Runnable
  <2>2. CASE s # t
    BY <1>0, <1>4, <2>2, OrderedUntouched DEF Authenticate, SessionTypeOK
  <2> QED
    BY <2>1, <2>2
<1>5. ASSUME NEW s \in Sessions, BeginStep(s) PROVE Ordered(t)'
  <2>1. CASE s = t
    <3>1. PICK i \in Ahead(t) :
            /\ \A j \in Ahead(t) : i <= j
            /\ at' = [at EXCEPT ![t] = i] /\ truth' = [truth EXCEPT ![t][i] = "running"]
      BY <1>5, <2>1 DEF BeginStep
    <3>2. /\ phase[t] = "ready" /\ phase'[t] = "running" /\ run' = run
          /\ StepsIn(t)' = StepsIn(t) /\ Runnable(t)' = Runnable(t)
      BY <1>5, <2>1 DEF BeginStep, SessionTypeOK, StepsIn, Runnable
    <3>3. i \in Runnable(t) /\ i > at[t] /\ i \in StepsIn(t) /\ i \in Nat
      BY <1>0, <3>1 DEF Ahead
    <3>4. at'[t] = i /\ truth'[t] = [truth[t] EXCEPT ![i] = "running"]
      BY <3>1 DEF SessionTypeOK, Shape
    <3>5. /\ truth'[t][i] = "running"
          /\ \A j \in StepsIn(t) : j # i => truth'[t][j] = truth[t][j]
      BY <3>3, <3>4 DEF SessionTypeOK
    <3>6. \A j \in Runnable(t) : j < i => truth[t][j] \in Exits
      <4> SUFFICES ASSUME NEW j \in Runnable(t), j < i PROVE truth[t][j] \in Exits
        OBVIOUS
      <4>1. j \in Nat /\ j <= at[t]
        BY <1>0, <3>1, <3>3 DEF Ahead
      <4> QED
        BY <1>0, <3>2, <4>1 DEF Ordered
    <3>7. \A j \in StepsIn(t) : j > i => truth[t][j] = "never"
      BY <1>0, <3>3 DEF Ordered
    <3>8. \A j \in Runnable(t) : j < i => truth'[t][j] \in Exits
      BY <1>0, <3>5, <3>6
    <3>9. \A j \in StepsIn(t) : j > i => truth'[t][j] = "never"
      BY <1>0, <3>5, <3>7, <3>3
    <3>10. \A j \in StepsIn(t) : truth'[t][j] # "never" => j \in Runnable(t)
      BY <1>0, <3>3, <3>5 DEF Ordered
    <3> QED
      BY <3>2, <3>3, <3>4, <3>5, <3>8, <3>9, <3>10 DEF Ordered
  <2>2. CASE s # t
    BY <1>0, <1>5, <2>2, OrderedUntouched DEF BeginStep, SessionTypeOK, Shape
  <2> QED
    BY <2>1, <2>2
<1>6. ASSUME NEW s \in Sessions, EndStep(s) PROVE Ordered(t)'
  <2>1. CASE s = t
    <3>1. PICK x \in Exits : truth' = [truth EXCEPT ![t][at[t]] = x]
      BY <1>6, <2>1 DEF EndStep
    <3>2. /\ phase[t] = "running" /\ phase'[t] = "ended" /\ run' = run /\ at' = at
          /\ StepsIn(t)' = StepsIn(t) /\ Runnable(t)' = Runnable(t)
      BY <1>6, <2>1 DEF EndStep, SessionTypeOK, StepsIn, Runnable
    <3>3. at[t] \in StepsIn(t)
      BY <3>2 DEF Shape
    <3>4. truth'[t][at[t]] = x /\ \A j \in StepsIn(t) : j # at[t] => truth'[t][j] = truth[t][j]
      BY <3>1, <3>3 DEF SessionTypeOK, Shape
    <3>5. \A j \in Runnable(t) : j < at[t] => truth'[t][j] \in Exits
      BY <1>0, <3>4 DEF Ordered
    <3>6. \A j \in StepsIn(t) : j > at[t] => truth'[t][j] = "never"
      BY <1>0, <3>4 DEF Ordered
    <3>7. \A j \in StepsIn(t) : truth'[t][j] # "never" => j \in Runnable(t)
      BY <1>0, <3>3, <3>4 DEF Ordered
    <3> QED
      BY <1>0, <3>2, <3>3, <3>4, <3>5, <3>6, <3>7 DEF Ordered
  <2>2. CASE s # t
    BY <1>0, <1>6, <2>2, OrderedUntouched DEF EndStep, SessionTypeOK, Shape
  <2> QED
    BY <2>1, <2>2
<1>7. ASSUME NEW s \in Sessions, Record(s) PROVE Ordered(t)'
  <2>1. CASE s = t
    <3>1. run' = run /\ at' = at /\ truth' = truth
      BY <1>7 DEF Record, shell
    <3>2. phase[t] = "ended" /\ phase'[t] = "ready"
      BY <1>7, <2>1 DEF Record, SessionTypeOK
    <3> QED
      BY <1>0, <3>1, <3>2 DEF Ordered, StepsIn, Runnable
  <2>2. CASE s # t
    BY <1>0, <1>7, <2>2, OrderedUntouched DEF Record, SessionTypeOK, shell
  <2> QED
    BY <2>1, <2>2
<1>8. ASSUME NEW s \in Sessions, ScriptEnds(s) PROVE Ordered(t)'
  BY <1>0, <1>8, OrderedUntouched DEF ScriptEnds, SessionTypeOK
<1>9. ASSUME NEW s \in Sessions, CtrlC(s) PROVE Ordered(t)'
  BY <1>0, <1>9, OrderedUntouched DEF CtrlC, SessionTypeOK
<1>10. ASSUME NEW s \in Sessions, TrapInt(s) PROVE Ordered(t)'
  BY <1>0, <1>10, OrderedUntouched DEF TrapInt, SessionTypeOK
<1>11. ASSUME NEW s \in Sessions, Stall(s) PROVE Ordered(t)'
  BY <1>0, <1>11, OrderedUntouched DEF Stall, SessionTypeOK, shell
<1>12. ASSUME NEW s \in Sessions, SendReport(s) PROVE Ordered(t)'
  BY <1>0, <1>12, OrderedUntouched DEF SendReport, SessionTypeOK, shell, Over
<1>13. CASE UNCHANGED sessionvars
  BY <1>0, <1>13, OrderedUntouched DEF sessionvars, shell
<1> QED
  BY <1>1, <1>2, <1>3, <1>4, <1>5, <1>6, <1>7, <1>8, <1>9, <1>10, <1>11, <1>12, <1>13
  DEF SessionNext

LEMMA OrderHolds == SessionSpec => []AllOrdered
<1>1. SessionInit => AllOrdered
  <2> SUFFICES ASSUME SessionInit, NEW s \in Sessions PROVE Ordered(s)
    BY DEF AllOrdered
  <2>1. StepsIn(s) = {} /\ Runnable(s) = {} /\ phase[s] = "idle" /\ at[s] = 0
    BY DEF SessionInit, StepsIn, Runnable, Executable, NoRun
  <2> QED
    BY <2>1 DEF Ordered
<1> QED
  BY <1>1, OrderKept, Typed, PTL DEF SessionSpec

\* Behind a step that has begun every runnable step has ended.
THEOREM StepsKeepTheirOrder == SessionSpec => []BegunInPlanOrder
<1>1. SessionTypeOK /\ AllOrdered => BegunInPlanOrder
  <2> SUFFICES ASSUME SessionTypeOK, AllOrdered, NEW s \in Sessions,
                      NEW i \in Runnable(s), NEW j \in Runnable(s),
                      i < j, truth[s][j] # "never"
               PROVE  truth[s][i] \in Exits
    BY DEF BegunInPlanOrder
  <2>1. Ordered(s) /\ i \in Nat /\ j \in Nat /\ at[s] \in Nat /\ j \in StepsIn(s)
    BY RunFacts DEF AllOrdered, SessionTypeOK, Runnable, Executable, StepsIn
  <2>2. j <= at[s]
    BY <2>1 DEF Ordered
  <2> QED
    BY <2>1, <2>2 DEF Ordered
<1> QED
  BY <1>1, Typed, OrderHolds, PTL

-----------------------------------------------------------------------------
(* The keepalive.  It runs once the shell has a timestamp, and every way   *)
(* out of the shell runs the trap that ends it, whatever signals come when. *)

LEMMA KeepaliveKept ==
  ASSUME SessionTypeOK, KeepaliveDiesWithScript, [SessionNext]_sessionvars
  PROVE  KeepaliveDiesWithScript'
<1> SUFFICES ASSUME NEW t \in Sessions, keepalive'[t]
             PROVE  phase'[t] \in InShell \cup {"stalled"}
  BY DEF KeepaliveDiesWithScript
<1> USE DEF SessionTypeOK, KeepaliveDiesWithScript, InShell
<1>1. ASSUME NEW s \in Sessions, NEW r \in Runs, Start(s, r)
      PROVE  phase'[t] \in InShell \cup {"stalled"}
  BY <1>1 DEF Start
<1>2. ASSUME NEW s \in Sessions, OpenLogFails(s) PROVE phase'[t] \in InShell \cup {"stalled"}
  BY <1>2 DEF OpenLogFails, shell
<1>3. ASSUME NEW s \in Sessions, Spawn(s) PROVE phase'[t] \in InShell \cup {"stalled"}
  BY <1>3 DEF Spawn, shell
<1>4. ASSUME NEW s \in Sessions, Authenticate(s) PROVE phase'[t] \in InShell \cup {"stalled"}
  \* a login that fails starts no keepalive
  BY <1>4 DEF Authenticate
<1>5. ASSUME NEW s \in Sessions, BeginStep(s) PROVE phase'[t] \in InShell \cup {"stalled"}
  BY <1>5 DEF BeginStep
<1>6. ASSUME NEW s \in Sessions, EndStep(s) PROVE phase'[t] \in InShell \cup {"stalled"}
  BY <1>6 DEF EndStep
<1>7. ASSUME NEW s \in Sessions, Record(s) PROVE phase'[t] \in InShell \cup {"stalled"}
  BY <1>7 DEF Record, shell
<1>8. ASSUME NEW s \in Sessions, ScriptEnds(s) PROVE phase'[t] \in InShell \cup {"stalled"}
  BY <1>8 DEF ScriptEnds
<1>9. ASSUME NEW s \in Sessions, CtrlC(s) PROVE phase'[t] \in InShell \cup {"stalled"}
  BY <1>9 DEF CtrlC
<1>10. ASSUME NEW s \in Sessions, TrapInt(s) PROVE phase'[t] \in InShell \cup {"stalled"}
  BY <1>10 DEF TrapInt
<1>11. ASSUME NEW s \in Sessions, Stall(s) PROVE phase'[t] \in InShell \cup {"stalled"}
  BY <1>11 DEF Stall, shell
<1>12. ASSUME NEW s \in Sessions, SendReport(s) PROVE phase'[t] \in InShell \cup {"stalled"}
  BY <1>12 DEF SendReport, shell
<1>13. CASE UNCHANGED sessionvars
  BY <1>13 DEF sessionvars, shell
<1> QED
  BY <1>1, <1>2, <1>3, <1>4, <1>5, <1>6, <1>7, <1>8, <1>9, <1>10, <1>11, <1>12, <1>13
  DEF SessionNext

\* The keepalive loop "dies with the script", whether it runs out, is
\* interrupted anywhere or never gets its timestamp: it is there only while a
\* shell is.
THEOREM KeepaliveDies == SessionSpec => []KeepaliveDiesWithScript
<1>1. SessionInit => KeepaliveDiesWithScript
  BY DEF SessionInit, KeepaliveDiesWithScript
<1> QED
  BY <1>1, KeepaliveKept, TypeCorrect, PTL DEF SessionSpec

-----------------------------------------------------------------------------
(* Ctrl-C.  Without the keepalive the shell's INT trap is `exit 130`: in   *)
(* such a session, once the user has cancelled it, the shell has the       *)
(* signal pending or is gone.                                              *)

CancelPending(s) ==
  /\ phase[s] \in {"idle", "thread"} => ~cancelled[s]
  /\ phase[s] \in InShell /\ cancelled[s] /\ ~run[s].sudo_loop => pending[s]

AllCancelPending == \A s \in Sessions : CancelPending(s)

LEMMA CancelUntouched ==
  ASSUME NEW t \in Sessions, CancelPending(t),
         cancelled'[t] = cancelled[t], pending'[t] = pending[t],
         run'[t] = run[t] \/ ~cancelled[t],
         phase'[t] = phase[t] \/ ~cancelled[t]
           \/ phase'[t] \in Over \cup {"exited", "stalled"}
  PROVE  CancelPending(t)'
  BY DEF CancelPending, InShell, Over

LEMMA CancelKept ==
  ASSUME SessionTypeOK, AllCancelPending, [SessionNext]_sessionvars
  PROVE  AllCancelPending'
<1> SUFFICES ASSUME NEW t \in Sessions PROVE CancelPending(t)'
  BY DEF AllCancelPending
<1>0. CancelPending(t)
  BY DEF AllCancelPending
<1> USE DEF SessionTypeOK, InShell
<1>1. ASSUME NEW s \in Sessions, NEW r \in Runs, Start(s, r) PROVE CancelPending(t)'
  BY <1>0, <1>1, CancelUntouched DEF Start, CancelPending
<1>2. ASSUME NEW s \in Sessions, OpenLogFails(s) PROVE CancelPending(t)'
  BY <1>0, <1>2, CancelUntouched DEF OpenLogFails, shell, CancelPending
<1>3. ASSUME NEW s \in Sessions, Spawn(s) PROVE CancelPending(t)'
  BY <1>0, <1>3, CancelUntouched DEF Spawn, shell, CancelPending
<1>4. ASSUME NEW s \in Sessions, Authenticate(s) PROVE CancelPending(t)'
  BY <1>0, <1>4, CancelUntouched DEF Authenticate, CancelPending
<1>5. ASSUME NEW s \in Sessions, BeginStep(s) PROVE CancelPending(t)'
  BY <1>0, <1>5, CancelUntouched DEF BeginStep, CancelPending
<1>6. ASSUME NEW s \in Sessions, EndStep(s) PROVE CancelPending(t)'
  BY <1>0, <1>6 DEF EndStep, CancelPending
<1>7. ASSUME NEW s \in Sessions, Record(s) PROVE CancelPending(t)'
  BY <1>0, <1>7, CancelUntouched DEF Record, shell, CancelPending
<1>8. ASSUME NEW s \in Sessions, ScriptEnds(s) PROVE CancelPending(t)'
  BY <1>0, <1>8, CancelUntouched DEF ScriptEnds, CancelPending
<1>9. ASSUME NEW s \in Sessions, CtrlC(s) PROVE CancelPending(t)'
  BY <1>0, <1>9 DEF CtrlC, CancelPending
<1>10. ASSUME NEW s \in Sessions, TrapInt(s) PROVE CancelPending(t)'
  <2>2. CASE s = t
    BY <1>0, <1>10, <2>2 DEF TrapInt, CancelPending
  <2>3. CASE s # t
    BY <1>0, <1>10, <2>3, CancelUntouched DEF TrapInt
  <2> QED
    BY <2>2, <2>3
<1>11. ASSUME NEW s \in Sessions, Stall(s) PROVE CancelPending(t)'
  BY <1>0, <1>11, CancelUntouched DEF Stall, shell, CancelPending
<1>12. ASSUME NEW s \in Sessions, SendReport(s) PROVE CancelPending(t)'
  BY <1>0, <1>12, CancelUntouched DEF SendReport, shell, Over
<1>13. CASE UNCHANGED sessionvars
  BY <1>0, <1>13, CancelUntouched DEF sessionvars, shell
<1> QED
  BY <1>1, <1>2, <1>3, <1>4, <1>5, <1>6, <1>7, <1>8, <1>9, <1>10, <1>11, <1>12, <1>13
  DEF SessionNext

LEMMA CancelStep ==
  ASSUME SessionTypeOK, Shape, AllOrdered, AllCancelPending, [SessionNext]_sessionvars,
         NEW t \in Sessions, NEW i \in StepsIn(t),
         cancelled[t], ~run[t].sudo_loop, truth[t][i] = "never"
  PROVE  truth'[t][i] = "never"
<1>0. CancelPending(t)
  BY DEF AllCancelPending
<1>1. ASSUME NEW s \in Sessions, NEW r \in Runs, Start(s, r) PROVE s # t
  BY <1>0, <1>1 DEF Start, CancelPending
<1>2. ASSUME NEW s \in Sessions, BeginStep(s) PROVE s # t
  BY <1>0, <1>2 DEF BeginStep, CancelPending, InShell
<1>3. ASSUME NEW s \in Sessions, EndStep(s) PROVE truth'[t][i] = "never"
  <2>1. at[s] \in StepsIn(s) /\ truth[s][at[s]] = "running"
    BY <1>3 DEF EndStep, Shape, AllOrdered, Ordered
  <2>2. PICK x \in Exits : truth' = [truth EXCEPT ![s][at[s]] = x]
    BY <1>3 DEF EndStep
  <2>3. CASE s = t
    <3>1. truth'[t] = [truth[t] EXCEPT ![at[t]] = x]
      BY <2>2, <2>3 DEF Shape
    <3> QED
      BY <2>1, <2>3, <3>1 DEF SessionTypeOK
  <2>4. CASE s # t
    BY <2>2, <2>4 DEF Shape
  <2> QED
    BY <2>3, <2>4
<1> QED
  BY <1>1, <1>2, <1>3 DEF SessionNext, sessionvars, shell, Start, OpenLogFails, Spawn, Authenticate,
     BeginStep, Record, ScriptEnds, CtrlC, TrapInt, Stall, SendReport, SessionTypeOK, Shape

\* In a session without the keepalive no step begins after a Ctrl-C, whatever
\* other sessions are alive.
THEOREM CancelStops == SessionSpec => CancelStopsTheRun
<1>1. SessionInit => AllCancelPending
  BY DEF SessionInit, AllCancelPending, CancelPending, InShell
<1>2. SessionTypeOK /\ AllCancelPending /\ [SessionNext]_sessionvars => AllCancelPending'
  BY CancelKept
<1>3. SessionTypeOK /\ Shape /\ AllOrdered /\ AllCancelPending /\ [SessionNext]_sessionvars =>
        [\A s \in Sessions : \A i \in StepsIn(s) :
           cancelled[s] /\ ~run[s].sudo_loop /\ truth[s][i] = "never" => truth'[s][i] = "never"]_sessionvars
  BY CancelStep
<1> QED
  BY <1>1, <1>2, <1>3, Typed, OrderHolds, PTL DEF SessionSpec, CancelStopsTheRun

-----------------------------------------------------------------------------
(* The report.  When only updates are started, at most one session is      *)
(* alive: the one whose channels the event loop holds.  The status file is *)
(* then that session's own, its lines are exits of its steps, and until    *)
(* the user cancels it has a line for every step that has ended.           *)

OneLive == \A s \in Sessions : phase[s] \in Alive => attached = s

\* The phases in which the status file is that of session s.
Owner(s) == phase[s] \in InShell \cup {"exited", "stalled"}

Unrecorded(s) == IF phase[s] = "ended" THEN {at[s]} ELSE {}

FileIsTrue(s) ==
  Owner(s) =>
    /\ \A k \in DOMAIN file :
         LET i == file[k][1] IN
           i \in Runnable(s) /\ truth[s][i] \in Exits /\ file[k][2] = truth[s][i]
    /\ ~cancelled[s] =>
         \A i \in StepsIn(s) \ Unrecorded(s) :
           truth[s][i] \in Exits => \E k \in DOMAIN file : file[k][1] = i

PendingCancelled == \A s \in Sessions : pending[s] => cancelled[s]

Truthful(s) ==
  phase[s] = "reported" =>
    \A i \in StepsIn(s) :
      /\ reports[s][i] = "succeeded" => truth[s][i] = "zero"
      /\ reports[s][i] = "failed" => truth[s][i] = "nonzero"
      /\ reports[s][i] = "skipped" <=> Skipped(run[s].plan[i], run[s].tool)
      /\ truth[s][i] \in Exits /\ ~cancelled[s] => reports[s][i] # "cancelled"

ReportInv ==
  /\ OneLive /\ PendingCancelled
  /\ \A s \in Sessions : FileIsTrue(s) /\ Truthful(s)

\* A nonempty set of positions has a last one.
LEMMA LargestLine ==
  ASSUME NEW n \in Nat, NEW S \in SUBSET (1 .. n), S # {}
  PROVE  \E k \in S : \A l \in S : l <= k
<1> DEFINE behind == {n - k : k \in S}
           less   == OpToRel(<, Nat)
<1>1. \A k \in S : k \in Nat /\ k <= n
  OBVIOUS
<1>2. behind \subseteq Nat /\ behind # {}
  <2>1. PICK k \in S : TRUE
    OBVIOUS
  <2>2. n - k \in behind
    BY <2>1
  <2>3. \A l \in S : n - l \in Nat
    BY <1>1
  <2> QED
    BY <2>2, <2>3
<1>3. PICK d \in behind : \A e \in behind : ~(<<e, d>> \in less)
  <2> HIDE DEF behind, less
  <2>1. IsWellFoundedOn(less, Nat)
    BY NatLessThanWellFounded DEF less
  <2> QED
    BY <1>2, <2>1, WFMin
<1>4. \A e \in behind : d <= e
  <2> SUFFICES ASSUME NEW e \in behind, e < d PROVE FALSE
    BY <1>2
  <2>1. <<e, d>> \in less
    BY <1>2 DEF OpToRel
  <2> QED
    BY <1>3, <2>1
<1>5. PICK k \in S : d = n - k
  BY <1>3
<1>6. \A l \in S : d <= n - l
  BY <1>4
<1>7. \A l \in S : l <= k
  BY <1>1, <1>5, <1>6
<1> QED
  BY <1>7

\* What a true file makes of the report.
LEMMA StatusesTrue ==
  ASSUME SessionTypeOK, NEW s \in Sessions, phase[s] = "exited", FileIsTrue(s),
         NEW i \in StepsIn(s)
  PROVE  LET out == parse_statuses(s)[i] IN
           /\ out = "succeeded" => truth[s][i] = "zero"
           /\ out = "failed" => truth[s][i] = "nonzero"
           /\ out = "skipped" <=> Skipped(run[s].plan[i], run[s].tool)
           /\ truth[s][i] \in Exits /\ ~cancelled[s] => out # "cancelled"
<1> DEFINE lines == {k \in DOMAIN file : file[k][1] = i}
           last  == CHOOSE k \in lines : \A l \in lines : l <= k
           out   == parse_statuses(s)[i]
<1>1. out = IF lines # {}
            THEN IF file[last][2] = "zero" THEN "succeeded" ELSE "failed"
            ELSE IF Skipped(run[s].plan[i], run[s].tool) THEN "skipped" ELSE "cancelled"
  BY DEF parse_statuses
<1>2. lines # {} => last \in lines
  <2> SUFFICES ASSUME lines # {} PROVE \E k \in lines : \A l \in lines : l <= k
    OBVIOUS
  <2>1. lines \subseteq 1 .. Len(file) /\ Len(file) \in Nat
    BY DEF SessionTypeOK
  <2> QED
    BY <2>1, LargestLine
<1>3. CASE lines # {}
  <2>1. i \in Runnable(s) /\ truth[s][i] \in Exits /\ file[last][2] = truth[s][i]
    BY <1>2, <1>3 DEF FileIsTrue, Owner
  <2>2. ~Skipped(run[s].plan[i], run[s].tool)
    BY <2>1 DEF Runnable, Executable
  <2> QED
    BY <1>1, <1>3, <2>1, <2>2 DEF Exits
<1>4. CASE lines = {}
  <2>1. ~cancelled[s] => truth[s][i] \notin Exits
    BY <1>4 DEF FileIsTrue, Owner, Unrecorded
  <2> QED
    BY <1>1, <1>4, <2>1
<1> QED
  BY <1>3, <1>4

\* What the steps of other sessions leave alone.
LEMMA TruthfulUntouched ==
  ASSUME NEW t \in Sessions, Truthful(t),
         run'[t] = run[t], truth'[t] = truth[t], reports'[t] = reports[t],
         cancelled'[t] = cancelled[t],
         phase'[t] = phase[t] \/ phase'[t] # "reported"
  PROVE  Truthful(t)'
  BY DEF Truthful, StepsIn

\* With one session alive, a step of s finds every other session over.
LEMMA OthersRest ==
  ASSUME OneLive, NEW s \in Sessions, NEW t \in Sessions, s # t, phase[s] \in Alive
  PROVE  phase[t] \notin Alive
  BY DEF OneLive

LEMMA OneLiveKept ==
  ASSUME OnlyUpdates', SessionTypeOK, OneLive, [SessionNext]_sessionvars
  PROVE  OneLive'
<1> USE DEF SessionTypeOK, OneLive, Alive, InShell, Over
<1>1. ASSUME NEW s \in Sessions, NEW r \in Runs, Start(s, r) PROVE OneLive'
  <2>3. run'[s] = r
    BY <1>1 DEF Start
  <2>4. r.kind = "update"
    BY <2>3 DEF OnlyUpdates
  <2>1. attached = NoSession /\ attached' = s
    BY <1>1, <2>4 DEF Start
  <2>2. \A t \in Sessions : t # s => phase'[t] \notin Alive
    BY <1>1, <2>1, SessionAssumption DEF Start
  <2> QED
    BY <2>1, <2>2
<1>2. ASSUME NEW s \in Sessions, OpenLogFails(s) PROVE OneLive'
  BY <1>2 DEF OpenLogFails
<1>3. ASSUME NEW s \in Sessions, Spawn(s) PROVE OneLive'
  BY <1>3 DEF Spawn
<1>4. ASSUME NEW s \in Sessions, Authenticate(s) PROVE OneLive'
  BY <1>4 DEF Authenticate
<1>5. ASSUME NEW s \in Sessions, BeginStep(s) PROVE OneLive'
  BY <1>5 DEF BeginStep
<1>6. ASSUME NEW s \in Sessions, EndStep(s) PROVE OneLive'
  BY <1>6 DEF EndStep
<1>7. ASSUME NEW s \in Sessions, Record(s) PROVE OneLive'
  BY <1>7 DEF Record
<1>8. ASSUME NEW s \in Sessions, ScriptEnds(s) PROVE OneLive'
  BY <1>8 DEF ScriptEnds
<1>9. ASSUME NEW s \in Sessions, CtrlC(s) PROVE OneLive'
  BY <1>9 DEF CtrlC
<1>10. ASSUME NEW s \in Sessions, TrapInt(s) PROVE OneLive'
  BY <1>10 DEF TrapInt
<1>11. ASSUME NEW s \in Sessions, Stall(s) PROVE OneLive'
  BY <1>11 DEF Stall
<1>12. ASSUME NEW s \in Sessions, SendReport(s) PROVE OneLive'
  BY <1>12 DEF SendReport
<1>13. CASE UNCHANGED sessionvars
  BY <1>13 DEF sessionvars
<1> QED
  BY <1>1, <1>2, <1>3, <1>4, <1>5, <1>6, <1>7, <1>8, <1>9, <1>10, <1>11, <1>12, <1>13
  DEF SessionNext

LEMMA FileUntouched ==
  ASSUME NEW t \in Sessions, FileIsTrue(t),
         run'[t] = run[t], truth'[t] = truth[t], file' = file, at'[t] = at[t],
         cancelled[t] => cancelled'[t],
         Owner(t)' => Owner(t),
         phase[t] # "ended" \/ phase'[t] = "ended" \/ cancelled[t]
  PROVE  FileIsTrue(t)'
  BY DEF FileIsTrue, Unrecorded, StepsIn, Runnable

LEMMA FileKept ==
  ASSUME OnlyUpdates',
         SessionTypeOK, Shape, AllOrdered, ReportInv, [SessionNext]_sessionvars, NEW t \in Sessions
  PROVE  FileIsTrue(t)'
<1>0. /\ Ordered(t) /\ FileIsTrue(t) /\ OneLive /\ PendingCancelled /\ OneLive'
      /\ StepsIn(t) \subseteq Nat \ {0} /\ at[t] \in Nat /\ Runnable(t) \subseteq StepsIn(t)
  BY OneLiveKept, RunFacts DEF AllOrdered, ReportInv, SessionTypeOK, StepsIn, Runnable, Executable
<1>A. ASSUME NEW s \in Sessions, s # t, phase[s] \in Alive, phase'[t] = phase[t]
      PROVE  FileIsTrue(t)'
  BY <1>0, <1>A, OthersRest DEF FileIsTrue, Owner, Alive
<1> USE DEF SessionTypeOK, Owner, InShell, Alive
<1>1. ASSUME NEW s \in Sessions, NEW r \in Runs, Start(s, r) PROVE FileIsTrue(t)'
  <2>1. CASE s = t
    BY <1>1, <2>1 DEF Start, FileIsTrue
  <2>2. CASE s # t
    <3>1. phase'[t] \notin Alive
      BY <1>0, <1>1, <2>2 DEF Start, OneLive
    <3> QED
      BY <3>1 DEF FileIsTrue
  <2> QED
    BY <2>1, <2>2
<1>2. ASSUME NEW s \in Sessions, OpenLogFails(s) PROVE FileIsTrue(t)'
  <2>1. CASE s = t
    BY <1>2, <2>1 DEF OpenLogFails, FileIsTrue
  <2> QED
    BY <1>2, <1>A, <2>1 DEF OpenLogFails
<1>3. ASSUME NEW s \in Sessions, Spawn(s) PROVE FileIsTrue(t)'
  <2>1. CASE s = t
    <3>1. /\ file' = <<>> /\ truth' = truth /\ StepsIn(t)' = StepsIn(t)
          /\ \A i \in StepsIn(t) : truth[t][i] = "never"
      BY <1>0, <1>3, <2>1 DEF Spawn, Ordered, shell, StepsIn
    <3>2. \A i \in StepsIn(t)' : truth'[t][i] \notin Exits
      BY <3>1 DEF Exits
    <3> QED
      BY <3>1, <3>2 DEF FileIsTrue
  <2> QED
    BY <1>3, <1>A, <2>1 DEF Spawn
<1>4. ASSUME NEW s \in Sessions, Authenticate(s) PROVE FileIsTrue(t)'
  <2>1. CASE s = t
    BY <1>0, <1>4, <2>1, FileUntouched DEF Authenticate
  <2> QED
    BY <1>4, <1>A, <2>1 DEF Authenticate
<1>5. ASSUME NEW s \in Sessions, BeginStep(s) PROVE FileIsTrue(t)'
  <2>1. CASE s = t
    <3>1. PICK i \in Ahead(t) : truth' = [truth EXCEPT ![t][i] = "running"]
      BY <1>5, <2>1 DEF BeginStep
    <3>2. i \in StepsIn(t) /\ truth[t][i] = "never"
      BY <1>0, <3>1 DEF Ahead, Ordered
    <3>3. truth'[t][i] = "running" /\ \A j \in StepsIn(t) : j # i => truth'[t][j] = truth[t][j]
      BY <3>1, <3>2 DEF Shape
    <3>4. /\ file' = file /\ StepsIn(t)' = StepsIn(t) /\ Runnable(t)' = Runnable(t)
          /\ cancelled' = cancelled /\ phase[t] = "ready" /\ phase'[t] = "running"
      BY <1>5, <2>1 DEF BeginStep, StepsIn, Runnable
    <3>5. \A k \in DOMAIN file :
            /\ file[k][1] \in Runnable(t) /\ truth[t][file[k][1]] \in Exits
            /\ file[k][2] = truth[t][file[k][1]] /\ file[k][1] # i
      BY <1>0, <3>2, <3>4 DEF FileIsTrue, Exits
    <3>6. \A j \in StepsIn(t) : truth'[t][j] \in Exits => truth[t][j] \in Exits
      BY <3>3 DEF Exits
    <3>7. Unrecorded(t) = {} /\ Unrecorded(t)' = {}
      BY <3>4 DEF Unrecorded
    <3>8. ~cancelled[t] => \A j \in StepsIn(t) :
            truth'[t][j] \in Exits => \E k \in DOMAIN file : file[k][1] = j
      BY <1>0, <3>4, <3>6, <3>7 DEF FileIsTrue
    <3>9. \A k \in DOMAIN file : truth'[t][file[k][1]] = truth[t][file[k][1]]
      BY <1>0, <3>3, <3>5
    <3> QED
      BY <3>4, <3>5, <3>7, <3>8, <3>9 DEF FileIsTrue
  <2> QED
    BY <1>5, <1>A, <2>1 DEF BeginStep
<1>6. ASSUME NEW s \in Sessions, EndStep(s) PROVE FileIsTrue(t)'
  <2>1. CASE s = t
    <3>1. PICK x \in Exits : truth' = [truth EXCEPT ![t][at[t]] = x]
      BY <1>6, <2>1 DEF EndStep
    <3>2. /\ file' = file /\ StepsIn(t)' = StepsIn(t) /\ Runnable(t)' = Runnable(t)
          /\ cancelled' = cancelled /\ at' = at /\ phase[t] = "running" /\ phase'[t] = "ended"
      BY <1>6, <2>1 DEF EndStep, StepsIn, Runnable
    <3>3. truth[t][at[t]] = "running" /\ \A j \in StepsIn(t) : j # at[t] => truth'[t][j] = truth[t][j]
      BY <1>0, <3>1, <3>2 DEF Shape, Ordered
    <3>4. \A k \in DOMAIN file :
            /\ file[k][1] \in Runnable(t) /\ truth[t][file[k][1]] \in Exits
            /\ file[k][2] = truth[t][file[k][1]] /\ file[k][1] # at[t]
      BY <1>0, <3>2, <3>3 DEF FileIsTrue, Exits
    <3>5. \A k \in DOMAIN file : truth'[t][file[k][1]] = truth[t][file[k][1]]
      BY <1>0, <3>3, <3>4
    <3>6. Unrecorded(t) = {} /\ Unrecorded(t)' = {at[t]}
      BY <3>2 DEF Unrecorded
    <3>7. ~cancelled[t] => \A j \in StepsIn(t) \ {at[t]} :
            truth'[t][j] \in Exits => \E k \in DOMAIN file : file[k][1] = j
      BY <1>0, <3>2, <3>3, <3>6 DEF FileIsTrue
    <3> QED
      BY <3>2, <3>4, <3>5, <3>6, <3>7 DEF FileIsTrue
  <2> QED
    BY <1>6, <1>A, <2>1 DEF EndStep
<1>7. ASSUME NEW s \in Sessions, Record(s) PROVE FileIsTrue(t)'
  <2>1. CASE s = t
    <3> DEFINE line == <<at[t], truth[t][at[t]]>>
    <3>1. /\ file' = Append(file, line) /\ truth' = truth /\ at' = at
          /\ StepsIn(t)' = StepsIn(t) /\ Runnable(t)' = Runnable(t)
          /\ cancelled' = cancelled /\ phase[t] = "ended" /\ phase'[t] = "ready"
      BY <1>7, <2>1 DEF Record, shell, StepsIn, Runnable
    <3>2. at[t] \in Runnable(t) /\ truth[t][at[t]] \in Exits /\ at[t] \in StepsIn(t)
      BY <1>0, <3>1 DEF Shape, Ordered
    <3>3. /\ DOMAIN file' = 1 .. Len(file) + 1 /\ Len(file) \in Nat
          /\ DOMAIN file = 1 .. Len(file)
          /\ file'[Len(file) + 1] = line
          /\ \A k \in 1 .. Len(file) : file'[k] = file[k]
      BY <3>1
    <3>4. \A k \in DOMAIN file' :
            /\ file'[k][1] \in Runnable(t) /\ truth[t][file'[k][1]] \in Exits
            /\ file'[k][2] = truth[t][file'[k][1]]
      <4> SUFFICES ASSUME NEW k \in DOMAIN file'
                   PROVE  /\ file'[k][1] \in Runnable(t) /\ truth[t][file'[k][1]] \in Exits
                          /\ file'[k][2] = truth[t][file'[k][1]]
        OBVIOUS
      <4>1. CASE k = Len(file) + 1
        BY <3>2, <3>3, <4>1
      <4>2. CASE k \in DOMAIN file /\ file'[k] = file[k]
        BY <1>0, <3>1, <4>2 DEF FileIsTrue
      <4> QED
        BY <3>3, <4>1, <4>2
    <3>5. ~cancelled[t] => \A j \in StepsIn(t) :
            truth[t][j] \in Exits => \E k \in DOMAIN file' : file'[k][1] = j
      <4> SUFFICES ASSUME ~cancelled[t], NEW j \in StepsIn(t), truth[t][j] \in Exits
                   PROVE  \E k \in DOMAIN file' : file'[k][1] = j
        OBVIOUS
      <4>1. CASE j = at[t]
        <5>1. Len(file) + 1 \in DOMAIN file' /\ line[1] = j
          BY <3>3, <4>1
        <5> QED
          BY <3>3, <5>1
      <4>2. CASE j # at[t]
        <5>1. PICK k \in DOMAIN file : file[k][1] = j
          BY <1>0, <3>1, <4>2 DEF FileIsTrue, Unrecorded
        <5> QED
          BY <3>3, <5>1
      <4> QED
        BY <4>1, <4>2
    <3>6. Unrecorded(t)' = {}
      BY <3>1 DEF Unrecorded
    <3> QED
      BY <3>1, <3>4, <3>5, <3>6 DEF FileIsTrue
  <2> QED
    BY <1>7, <1>A, <2>1 DEF Record
<1>8. ASSUME NEW s \in Sessions, ScriptEnds(s) PROVE FileIsTrue(t)'
  <2>1. CASE s = t
    BY <1>0, <1>8, <2>1, FileUntouched DEF ScriptEnds
  <2> QED
    BY <1>8, <1>A, <2>1 DEF ScriptEnds
<1>9. ASSUME NEW s \in Sessions, CtrlC(s) PROVE FileIsTrue(t)'
  BY <1>0, <1>9, FileUntouched DEF CtrlC
<1>10. ASSUME NEW s \in Sessions, TrapInt(s) PROVE FileIsTrue(t)'
  <2>1. CASE s = t
    BY <1>0, <1>10, <2>1, FileUntouched DEF TrapInt, PendingCancelled
  <2> QED
    BY <1>10, <1>A, <2>1 DEF TrapInt
<1>11. ASSUME NEW s \in Sessions, Stall(s) PROVE FileIsTrue(t)'
  BY <1>0, <1>11, FileUntouched DEF Stall, shell
<1>12. ASSUME NEW s \in Sessions, SendReport(s) PROVE FileIsTrue(t)'
  <2>1. CASE s = t
    BY <1>12, <2>1 DEF SendReport, FileIsTrue
  <2> QED
    BY <1>12, <1>A, <2>1 DEF SendReport
<1>13. CASE UNCHANGED sessionvars
  BY <1>0, <1>13, FileUntouched DEF sessionvars, shell
<1> QED
  BY <1>1, <1>2, <1>3, <1>4, <1>5, <1>6, <1>7, <1>8, <1>9, <1>10, <1>11, <1>12, <1>13
  DEF SessionNext

LEMMA TruthKept ==
  ASSUME SessionTypeOK, Shape, ReportInv, [SessionNext]_sessionvars, NEW t \in Sessions
  PROVE  Truthful(t)'
<1>0. Truthful(t) /\ FileIsTrue(t)
  BY DEF ReportInv
<1> USE DEF SessionTypeOK, Shape
<1>1. ASSUME NEW s \in Sessions, NEW r \in Runs, Start(s, r) PROVE Truthful(t)'
  <2>1. CASE s = t
    BY <1>1, <2>1 DEF Start, Truthful
  <2> QED
    BY <1>0, <1>1, <2>1, TruthfulUntouched DEF Start
<1>2. ASSUME NEW s \in Sessions, OpenLogFails(s) PROVE Truthful(t)'
  BY <1>0, <1>2, TruthfulUntouched DEF OpenLogFails, shell
<1>3. ASSUME NEW s \in Sessions, Spawn(s) PROVE Truthful(t)'
  BY <1>0, <1>3, TruthfulUntouched DEF Spawn, shell
<1>4. ASSUME NEW s \in Sessions, Authenticate(s) PROVE Truthful(t)'
  BY <1>0, <1>4, TruthfulUntouched DEF Authenticate
<1>5. ASSUME NEW s \in Sessions, BeginStep(s) PROVE Truthful(t)'
  <2>1. CASE s = t
    BY <1>5, <2>1 DEF BeginStep, Truthful
  <2> QED
    BY <1>0, <1>5, <2>1, TruthfulUntouched DEF BeginStep
<1>6. ASSUME NEW s \in Sessions, EndStep(s) PROVE Truthful(t)'
  <2>1. CASE s = t
    BY <1>6, <2>1 DEF EndStep, Truthful
  <2> QED
    BY <1>0, <1>6, <2>1, TruthfulUntouched DEF EndStep
<1>7. ASSUME NEW s \in Sessions, Record(s) PROVE Truthful(t)'
  BY <1>0, <1>7, TruthfulUntouched DEF Record, shell
<1>8. ASSUME NEW s \in Sessions, ScriptEnds(s) PROVE Truthful(t)'
  BY <1>0, <1>8, TruthfulUntouched DEF ScriptEnds
<1>9. ASSUME NEW s \in Sessions, CtrlC(s) PROVE Truthful(t)'
  <2>1. CASE s = t
    BY <1>9, <2>1 DEF CtrlC, Truthful, InShell
  <2> QED
    BY <1>0, <1>9, <2>1, TruthfulUntouched DEF CtrlC
<1>10. ASSUME NEW s \in Sessions, TrapInt(s) PROVE Truthful(t)'
  BY <1>0, <1>10, TruthfulUntouched DEF TrapInt
<1>11. ASSUME NEW s \in Sessions, Stall(s) PROVE Truthful(t)'
  BY <1>0, <1>11, TruthfulUntouched DEF Stall, shell
<1>12. ASSUME NEW s \in Sessions, SendReport(s) PROVE Truthful(t)'
  <2>1. CASE s = t
    <3>1. /\ reports'[t] = parse_statuses(t) /\ truth' = truth /\ run' = run
          /\ cancelled' = cancelled /\ phase[t] = "exited"
      BY <1>12, <2>1 DEF SendReport, shell
    <3> QED
      BY <1>0, <3>1, StatusesTrue DEF Truthful, StepsIn
  <2> QED
    BY <1>0, <1>12, <2>1, TruthfulUntouched DEF SendReport, shell
<1>13. CASE UNCHANGED sessionvars
  BY <1>0, <1>13, TruthfulUntouched DEF sessionvars, shell
<1> QED
  BY <1>1, <1>2, <1>3, <1>4, <1>5, <1>6, <1>7, <1>8, <1>9, <1>10, <1>11, <1>12, <1>13
  DEF SessionNext

LEMMA PendingKept ==
  ASSUME SessionTypeOK, PendingCancelled, [SessionNext]_sessionvars
  PROVE  PendingCancelled'
  BY DEF SessionTypeOK, PendingCancelled, SessionNext, sessionvars, shell, Start, OpenLogFails, Spawn,
     Authenticate, BeginStep, EndStep, Record, ScriptEnds, CtrlC, TrapInt, Stall, SendReport

\* Only a session that is started gets a run, so while all the runs are updates
\* they have always been.
IdleHasNoRun == \A s \in Sessions : phase[s] = "idle" => run[s] = NoRun

LEMMA IdleKept ==
  ASSUME SessionTypeOK, IdleHasNoRun, [SessionNext]_sessionvars
  PROVE  IdleHasNoRun' /\ (OnlyUpdates' => OnlyUpdates)
<1> USE DEF SessionTypeOK, IdleHasNoRun
<1>1. ASSUME NEW s \in Sessions, NEW r \in Runs, Start(s, r)
      PROVE  IdleHasNoRun' /\ (OnlyUpdates' => OnlyUpdates)
  <2>1. run[s].kind = "update"
    BY <1>1 DEF Start, NoRun
  <2>2. \A t \in Sessions : t # s => run'[t] = run[t]
    BY <1>1 DEF Start
  <2>3. OnlyUpdates' => OnlyUpdates
    BY <2>1, <2>2 DEF OnlyUpdates
  <2>4. IdleHasNoRun'
    BY <1>1, <2>2 DEF Start
  <2> QED
    BY <2>3, <2>4
<1>2. ASSUME run' = run,
             \A t \in Sessions : phase'[t] = "idle" => phase[t] = "idle"
      PROVE  IdleHasNoRun' /\ (OnlyUpdates' => OnlyUpdates)
  BY <1>2 DEF OnlyUpdates
<1>3. ASSUME NEW s \in Sessions,
             OpenLogFails(s) \/ Spawn(s) \/ Authenticate(s) \/ BeginStep(s) \/ EndStep(s) \/ Record(s)
             \/ ScriptEnds(s) \/ CtrlC(s) \/ TrapInt(s) \/ Stall(s) \/ SendReport(s)
      PROVE  run' = run /\ \A t \in Sessions : phase'[t] = "idle" => phase[t] = "idle"
  BY <1>3 DEF OpenLogFails, Spawn, Authenticate, BeginStep, EndStep, Record, ScriptEnds, CtrlC,
              TrapInt, Stall, SendReport
<1>4. CASE UNCHANGED sessionvars
  BY <1>2, <1>4 DEF sessionvars
<1> QED
  BY <1>1, <1>2, <1>3, <1>4 DEF SessionNext

\* While only updates have been started, so that no session replaces another,
\* the report never credits a step with an exit it did not have, and leaves no
\* ended step out of a run the user let finish.
THEOREM ReportIsHonest == SessionSpec => []ReportIsTrue
<1>1. SessionInit => IdleHasNoRun /\ ReportInv
  <2> SUFFICES ASSUME SessionInit PROVE IdleHasNoRun /\ ReportInv
    OBVIOUS
  <2>1. \A s \in Sessions : phase[s] = "idle" /\ ~pending[s]
    BY DEF SessionInit
  <2>2. ReportInv
    BY <2>1 DEF ReportInv, OneLive, PendingCancelled, FileIsTrue, Truthful, Owner,
                Alive, InShell
  <2> QED
    BY <2>2 DEF SessionInit, IdleHasNoRun
<1>2. SessionTypeOK /\ Shape /\ AllOrdered /\ IdleHasNoRun /\ (OnlyUpdates => ReportInv) /\ [SessionNext]_sessionvars =>
        IdleHasNoRun' /\ (OnlyUpdates' => ReportInv')
  <2> SUFFICES ASSUME SessionTypeOK, Shape, AllOrdered, IdleHasNoRun, OnlyUpdates => ReportInv, [SessionNext]_sessionvars
               PROVE  IdleHasNoRun' /\ (OnlyUpdates' => ReportInv')
    OBVIOUS
  <2>1. IdleHasNoRun' /\ (OnlyUpdates' => OnlyUpdates)
    BY IdleKept
  <2>2. ASSUME OnlyUpdates' PROVE ReportInv'
    <3>0. ReportInv
      BY <2>1, <2>2
    <3>1. OneLive' /\ PendingCancelled'
      BY <2>2, <3>0, OneLiveKept, PendingKept DEF ReportInv
    <3>2. \A t \in Sessions : FileIsTrue(t)' /\ Truthful(t)'
      BY <2>2, <3>0, FileKept, TruthKept
    <3> QED
      BY <3>1, <3>2 DEF ReportInv
  <2> QED
    BY <2>1, <2>2
<1>3. (OnlyUpdates => ReportInv) => ReportIsTrue
  BY DEF ReportInv, Truthful, ReportIsTrue
<1> QED
  BY <1>1, <1>2, <1>3, Typed, OrderHolds, PTL DEF SessionSpec
=============================================================================
