------------------------------- MODULE DbLock -------------------------------
(***************************************************************************)
(* Pacman's database lock, and what the dashboard says of it.  Package     *)
(* managers come and go, take the lock file, release it or die with it;    *)
(* the user removes a file nobody holds.  The dashboard stats the file on  *)
(* every tick and, when that tells it something changed, looks for the     *)
(* holder one process at a time, in the order /proc lists them.            *)
(*                                                                         *)
(* External: libalpm creates the file when a transaction begins, keeps it  *)
(* open and removes it at the end; only the programs the code lists take   *)
(* it.  A pid is used once.                                                *)
(***************************************************************************)
EXTENDS Integers, SequencesExt

CONSTANT MaxPid    \* processes a behaviour may have, at least one

LockConstantsOK == MaxPid \in Nat

Pids == 1..MaxPid

\* Programs that exit when their transaction does, daemons that stay up idle,
\* and everything else, an AUR helper among it.
RUNS == {"pacman"}
DAEMONS == {"packagekitd"}
ProgramNames == RUNS \cup DAEMONS \cup {"paru"}

Nobody == 0
Free == [is |-> "free"]
Stale == [is |-> "stale"]
Unknown == [is |-> "unknown"]
Held(p, confidence) == [is |-> "held", pid |-> p, confidence |-> confidence]
Verdicts == {Free, Stale, Unknown} \cup
              {Held(p, c) : p \in Pids, c \in {"confirmed", "inferred"}}

VARIABLES
  hidden,    \* /proc shows the caller's own processes only
  proc,      \* each process: not born, gone, or its name and whether it is the caller's
  locked, holder,   \* the file exists; the process that has it open
  says,      \* what the dashboard says
  look,      \* the look under way, at the processes after `at`
  since      \* the process that has held the lock since the look began

system == <<hidden, proc, locked, holder>>
lockvars == <<system, says, look, since>>

Unborn == [comm |-> "unborn"]
Gone == [comm |-> "gone"]
Lives(p) == proc[p] \notin {Unborn, Gone}
LockProcs == [pid : Pids, comm : ProgramNames, holds : BOOLEAN]
NoLook == [at |-> -1, visible |-> FALSE, procs |-> <<>>]
Looking == look # NoLook

is_locked == says # Free

-----------------------------------------------------------------------------
\* The processes, and the user.
Start(p) ==
  /\ proc[p] = Unborn
  /\ proc' \in {[proc EXCEPT ![p] = [comm |-> n, own |-> o]] : n \in ProgramNames, o \in BOOLEAN}
  /\ UNCHANGED <<hidden, locked, holder, says, look, since>>

Take(p) ==
  /\ Lives(p) /\ proc[p].comm \in RUNS \cup DAEMONS
  /\ ~locked
  /\ locked' = TRUE /\ holder' = p
  /\ UNCHANGED <<hidden, proc, says, look, since>>

\* A transaction ends: the file goes.  A process may exit or crash without.
Release(p) ==
  /\ holder = p
  /\ locked' = FALSE /\ holder' = Nobody
  /\ since' = Nobody
  /\ UNCHANGED <<hidden, proc, says, look>>

\* Mutant of Quits: the lock stays held by a process that is gone.
QuitsHolding(p) ==
  /\ Lives(p)
  /\ proc' = [proc EXCEPT ![p] = Gone]
  /\ UNCHANGED <<hidden, locked, holder, says, look, since>>

Quits(p) ==
  /\ Lives(p)
  /\ proc' = [proc EXCEPT ![p] = Gone]
  /\ holder' = IF holder = p THEN Nobody ELSE holder
  /\ since' = IF since = p THEN Nobody ELSE since
  /\ UNCHANGED <<hidden, locked, says, look>>

RemoveStale ==
  /\ locked /\ holder = Nobody
  /\ locked' = FALSE
  /\ UNCHANGED <<hidden, proc, holder, says, look, since>>

-----------------------------------------------------------------------------
verdict(exists, visible, procs) ==
  LET holds == {i \in DOMAIN procs : procs[i].holds}
      runs == {i \in DOMAIN procs : procs[i].comm \in RUNS}
      daemon == {i \in DOMAIN procs : procs[i].comm \in DAEMONS}
  IN  IF ~exists THEN Free
      ELSE IF holds # {} THEN Held(procs[Min(holds)].pid, "confirmed")
      ELSE IF runs # {} THEN Held(procs[Min(runs)].pid, "inferred")
      ELSE IF daemon # {} THEN Held(procs[Min(daemon)].pid, "inferred")
      ELSE IF visible THEN Stale
      ELSE Unknown

\* A look begins with a stat of the file, and with whether the process table
\* is that of the whole machine.
Probe ==
  /\ locked
  /\ look' = [at |-> 0, visible |-> ~hidden, procs |-> <<>>]
  /\ since' = holder
  /\ UNCHANGED <<system, says>>

Says(v) == says' = v /\ UNCHANGED <<system, look, since>>

\* Mutant of recheck_db_lock: watches the lock file only, not the process
\* named as its holder.
RecheckByFile ==
  /\ ~Looking
  /\ IF ~is_locked THEN Probe ELSE ~locked /\ Says(Free)

\* Mutant of recheck_db_lock: does not look for a lock that appears.
RecheckNamed ==
  /\ ~Looking /\ is_locked
  /\ IF ~locked THEN Says(Free)
     ELSE says.is = "held" /\ ~Lives(says.pid) /\ Probe

\* Mutant of recheck_db_lock: asks only whether the holder is alive, not
\* whether the file is there.
RecheckTheHolder ==
  /\ ~Looking
  /\ IF ~is_locked THEN Probe
     ELSE says.is = "held" /\ ~Lives(says.pid) /\ (IF locked THEN Probe ELSE Says(Free))

\* Every tick: a look when a lock appeared, or when the process named as its
\* holder is gone; nothing more than the stat otherwise.
recheck_db_lock ==
  /\ ~Looking
  /\ IF ~is_locked THEN Probe
     ELSE IF ~locked THEN Says(Free)
     ELSE says.is = "held" /\ ~Lives(says.pid) /\ Probe

\* The other looks: at start, when a scan is done, and before an update runs.
probe_db_lock ==
  /\ ~Looking
  /\ IF locked THEN Probe ELSE Says(Free)

\* A stat or a listing that fails is not an answer.
ProbeFails ==
  /\ ~Looking /\ locked
  /\ Says(Unknown)

\* Mutant of NextProcess: takes a process that could not be read for one that
\* is gone.
PastFailures ==
  /\ Looking /\ look.at < MaxPid
  /\ LET p == look.at + 1
         seen == Lives(p) /\ (proc[p].own \/ ~hidden)
         found == [pid |-> p, comm |-> proc[p].comm,
                   holds |-> proc[p].own /\ holder = p]
     IN  \/ look' = [look EXCEPT !.at = p]
         \/ seen /\ look' = [look EXCEPT !.at = p, !.procs = Append(@, found)]
  /\ UNCHANGED <<system, says, since>>

\* The next process: it may be gone by now; its name is for everyone to read
\* unless it is hidden, its descriptors for its owner only.  A read may fail.
NextProcess ==
  /\ Looking /\ look.at < MaxPid
  /\ LET p == look.at + 1
         seen == Lives(p) /\ (proc[p].own \/ ~hidden)
         found == [pid |-> p, comm |-> proc[p].comm,
                   holds |-> proc[p].own /\ holder = p]
     IN  \/ /\ ~seen
            /\ look' = [look EXCEPT !.at = p]
         \/ /\ seen
            /\ look' = [look EXCEPT !.at = p, !.procs = Append(@, found)]
         \/ /\ seen
            /\ look' = [look EXCEPT !.at = p, !.visible = FALSE]
  /\ UNCHANGED <<system, says, since>>

\* The file once more: released meanwhile is free.
Conclude ==
  /\ Looking /\ look.at = MaxPid
  /\ says' = verdict(locked, look.visible, look.procs)
  /\ look' = NoLook
  /\ since' = Nobody
  /\ UNCHANGED system

-----------------------------------------------------------------------------
LockInit ==
  /\ hidden \in BOOLEAN
  /\ proc = [p \in Pids |-> Unborn]
  /\ locked = FALSE /\ holder = Nobody
  /\ says = Free
  /\ look = NoLook
  /\ since = Nobody

LockNext ==
  \/ \E p \in Pids : Start(p) \/ Take(p) \/ Release(p) \/ Quits(p)
  \/ RemoveStale
  \/ recheck_db_lock \/ probe_db_lock \/ ProbeFails \/ NextProcess \/ Conclude

LockSpec == LockInit /\ [][LockNext]_lockvars

\* The event loop ticks, and a look is a loop over what /proc lists.  Nothing
\* makes a package manager end, or the user act.
LockFairness == WF_lockvars(recheck_db_lock) /\ WF_lockvars(NextProcess) /\ WF_lockvars(Conclude)
LockFairSpec == LockSpec /\ LockFairness

-----------------------------------------------------------------------------
LockTypeOK ==
  /\ hidden \in BOOLEAN /\ locked \in BOOLEAN
  /\ \A p \in Pids : Lives(p) => proc[p] \in [comm : ProgramNames, own : BOOLEAN]
  /\ holder \in Pids \cup {Nobody} /\ (holder # Nobody => locked /\ Lives(holder))
  /\ since \in {Nobody, holder}
  /\ says \in Verdicts
  /\ Looking => look \in [at : 0..MaxPid, visible : BOOLEAN, procs : Seq(LockProcs)]

\* "A failed look must not come out as likely stale": a lock that one process
\* held from the first stat to the last is not called stale, whatever of /proc
\* is hidden, unreadable or gone meanwhile.
LockIsTrue ==
  [][Conclude /\ since # Nobody => says'.is \in {"held", "unknown"}]_lockvars

\* "A crashed pacman must not leave wait for it on screen": a holder that is
\* gone does not stay named.
HolderGoneIsSeen ==
  \A p \in Pids :
    (says.is = "held" /\ says.pid = p /\ ~Lives(p))
      ~> ~(says.is = "held" /\ says.pid = p)

\* A lock that stays is shown, one that is gone for good is not.
LockIsShown == <>[]locked => <>[]is_locked
GoneIsShown == <>[]~locked => <>[]~is_locked

\* What is said of the lock follows the lock, in the end.
LockIsFollowed == HolderGoneIsSeen /\ LockIsShown /\ GoneIsShown
=============================================================================
