--------------------------- MODULE ConsoleProofs ---------------------------
(***************************************************************************)
(* Proofs about the screens around an execution, for any applications and  *)
(* whatever overlaps the scans derive: the types, that the removal a user  *)
(* arms and runs is of the last copy started, whose report holds no        *)
(* failure, and that quitting never ends the run the event loop listens to.*)
(*                                                                         *)
(* What is staged alone says nothing of how the copy went: `R` is armed    *)
(* through the report of the console that closed, so Earned ties the       *)
(* console, the session and the staged removal to the last copy.           *)
(***************************************************************************)
EXTENDS Console, SequenceTheorems, TLAPS

Earned ==
  /\ staged # NoCopy => last.copy = staged
  /\ armed => last.fate \in Unfailed
  /\ exec.kind = "migrate" => ~armed
  /\ exec.kind = "migrate" /\ exec_is_done => last.fate = exec.report
  /\ attached.kind = "migrate" => last.copy = attached.copy
  /\ attached.kind = "removal" => last.copy = attached.copy /\ last.fate \in Unfailed

\* The overlap under the cursor is one, and the direction shown is too.
LEMMA SelectedType ==
  ASSUME TypeOK, HasSelected
  PROVE  /\ selected.app \in Apps /\ selected.toward \in Directions
         /\ Direction \in Directions /\ Flipped(Direction) \in Directions
<1>1. overlaps \in Seq(Overlap) /\ cursor \in 1..Len(overlaps)
  BY ListsAssumption DEF TypeOK, HasSelected
<1>2. selected \in Overlap
  BY <1>1, ElementOfSeq DEF selected
<1>3. Direction \in Directions
  BY <1>2 DEF TypeOK, Direction, Overlap
<1>4. \A d \in Directions : \E e \in Directions : e # d
  BY DEF Directions
<1>5. Flipped(Direction) \in Directions
  BY <1>3, <1>4 DEF Flipped
<1> QED
  BY <1>2, <1>3, <1>5 DEF Overlap

LEMMA ClampInside ==
  ASSUME NEW c \in Nat \ {0}, NEW l \in Lists
  PROVE  /\ Clamp(c, l) \in Nat \ {0}
         /\ l # <<>> => Clamp(c, l) <= Len(l)
<1>1. l \in Seq(Overlap) /\ Len(l) \in Nat /\ (l # <<>> => Len(l) # 0)
  BY ListsAssumption, EmptySeq
<1> QED
  BY <1>1 DEF Clamp

LEMMA RunType ==
  ASSUME TypeOK, attached # None
  PROVE  /\ attached.kind \in Kinds
         /\ attached.kind # "update" => attached.copy \in Copies
<1>1. CASE attached = Update
  BY <1>1 DEF Update, Kinds
<1>2. CASE attached \in [kind : {"migrate", "removal"}, copy : Copies]
  BY <1>2 DEF Kinds
<1> QED
  BY <1>1, <1>2 DEF TypeOK, Run

LEMMA NotListening == None.kind = "none" /\ NoExec.kind = "none" /\ NoExec.report = "none"
  BY DEF None, NoExec

-----------------------------------------------------------------------------
(* The types, the session's console and what is armed. *)
LEMMA InitTyped == Init => TypeOK
<1> SUFFICES ASSUME Init PROVE TypeOK
  OBVIOUS
<1>1. HasSelected => cursor <= Len(overlaps)
  BY ListsAssumption, EmptySeq DEF Init, HasSelected
<1>2. /\ screen \in {"dashboard", "overlaps"}
      /\ overlaps \in Lists /\ cursor \in Nat \ {0}
      /\ override \in Directions \cup {"none"}
  BY ListsAssumption DEF Init
<1>3. /\ migrate_open \in BOOLEAN /\ hidden \in BOOLEAN
      /\ rescanning \in BOOLEAN /\ measured \in BOOLEAN /\ quit \in BOOLEAN
  BY DEF Init
<1>4. armed \in BOOLEAN /\ ~armed
  BY DEF Init
<1>5. /\ exec = NoExec /\ attached = None /\ staged = NoCopy /\ last = NeverCopied
  BY DEF Init
<1> QED
  BY <1>1, <1>2, <1>3, <1>4, <1>5 DEF TypeOK

\* A console that closes leaves a screen, and a removal armed only if staged.
LEMMA FinishTyped ==
  ASSUME TypeOK, exec.kind = "migrate" => ~armed, NEW outcome \in Outcomes, finish_exec(outcome)
  PROVE  /\ exec' = NoExec /\ rescanning' = TRUE
         /\ screen' \in {"dashboard", "overlaps"}
         /\ staged' \in {NoCopy} \cup Copies
         /\ armed' \in BOOLEAN /\ (armed' => staged' # NoCopy)
<1>1. CASE exec.kind = "update" /\ screen' = "dashboard" /\ UNCHANGED removal
  BY <1>1 DEF finish_exec, removal, TypeOK
<1>2. CASE exec.kind = "migrate" /\ finish_migration(outcome)
  BY <1>2 DEF finish_exec, finish_migration, TypeOK
<1>3. CASE exec.kind = "removal" /\ finish_removal
  BY <1>3 DEF finish_exec, finish_removal, TypeOK
<1> QED
  BY <1>1, <1>2, <1>3 DEF finish_exec

\* A session that starts gets the console, empty.
LEMMA StartTyped ==
  ASSUME NEW r \in Run, r.kind \in Kinds, start_exec(r)
  PROVE  /\ exec' \in {NoExec} \cup [kind : Kinds, report : {"none"} \cup Outcomes]
         /\ hidden' \in BOOLEAN /\ attached' = r
         /\ exec' = [kind |-> r.kind, report |-> "none"]
  BY DEF start_exec

LEMMA TypesKept == ASSUME TypeOK, Earned, [Next]_vars PROVE TypeOK'
<1> USE DEF TypeOK
<1>1. CASE OpenOverlaps
  BY <1>1, ClampInside DEF OpenOverlaps, removal, console, rescan, HasSelected
<1>2. CASE Move
  <2>1. /\ cursor' \in Nat \ {0} /\ overlaps' = overlaps
        /\ HasSelected => cursor' <= Len(overlaps)
    <3>1. Len(overlaps) \in Nat
      BY ListsAssumption
    <3> QED
      BY <1>2, <3>1 DEF Move, HasSelected
  <2>2. /\ staged' \in {NoCopy} \cup Copies
        /\ armed' \in BOOLEAN /\ (armed' => staged' # NoCopy)
    BY <1>2 DEF Move, disarm_removal, removal
  <2> QED
    BY <1>2, <2>1, <2>2 DEF Move, console, rescan, HasSelected
<1>3. CASE ToggleWhy
  BY <1>3 DEF ToggleWhy, list, removal, console, rescan, HasSelected
<1>4. CASE flip_migrate_direction
  BY <1>4, SelectedType DEF flip_migrate_direction, list, removal, console, rescan, HasSelected
<1>5. CASE close_overlaps
  <2>1. /\ screen' \in {"dashboard", "overlaps"}
        /\ migrate_open' \in BOOLEAN /\ override' \in Directions \cup {"none"}
    BY <1>5 DEF close_overlaps, pane
  <2>2. /\ staged' \in {NoCopy} \cup Copies
        /\ armed' \in BOOLEAN /\ (armed' => staged' # NoCopy)
    BY <1>5 DEF close_overlaps, disarm_removal, removal
  <2> QED
    BY <1>5, <2>1, <2>2 DEF close_overlaps, list, console, rescan, HasSelected
<1>6. CASE Refresh
  BY <1>6 DEF Refresh, list, pane, removal, console, rescan, HasSelected
<1>7. CASE Execute
  <2>1. CASE exec_hidden /\ hidden' = FALSE /\ UNCHANGED <<exec, attached>>
    <3>1. UNCHANGED <<screen, list, pane, removal, rescan, quit, last>>
      BY <1>7 DEF Execute
    <3>2. hidden' \in BOOLEAN /\ exec' = exec /\ attached' = attached
      BY <2>1
    <3>3. rescanning' \in BOOLEAN /\ measured' \in BOOLEAN /\ quit' \in BOOLEAN
      BY <3>1 DEF rescan
    <3> QED
      BY <3>1, <3>2, <3>3 DEF list, pane, removal, HasSelected
  <2>2. CASE start_exec(Update)
    <3>1. Update \in Run /\ Update.kind \in Kinds
      BY DEF Run, Update, Kinds
    <3> QED
      BY <1>7, <2>2, <3>1, StartTyped DEF Execute, list, pane, removal, rescan, HasSelected
  <2> QED
    BY <1>7, <2>1, <2>2 DEF Execute
<1>8. CASE RunMigration
  <2> DEFINE c == [app |-> selected.app, direction |-> Direction]
             r == [kind |-> "migrate", copy |-> c]
  <2>1. c \in Copies /\ r \in Run /\ r.kind \in Kinds
    BY <1>8, SelectedType DEF RunMigration, Copies, Run, Kinds
  <2>2. /\ staged' \in {c, NoCopy} /\ armed' = FALSE
        /\ start_exec(r) /\ last' = [copy |-> c, fate |-> "running"]
    BY <1>8 DEF RunMigration
  <2> HIDE DEF c, r
  <2>3. /\ exec' \in {NoExec} \cup [kind : Kinds, report : {"none"} \cup Outcomes]
        /\ hidden' \in BOOLEAN /\ attached' = r
        /\ exec' = [kind |-> r.kind, report |-> "none"]
    BY <2>1, <2>2, StartTyped
  <2>4. /\ staged' \in {NoCopy} \cup Copies
        /\ armed' \in BOOLEAN /\ ~armed'
        /\ last' \in {NeverCopied} \cup [copy : Copies, fate : {"running"} \cup Outcomes]
    BY <2>1, <2>2
  <2> QED
    BY <1>8, <2>1, <2>3, <2>4 DEF RunMigration, list, pane, rescan, HasSelected
<1>9. CASE RemoveSource
  <2> DEFINE r == [kind |-> "removal", copy |-> staged]
  <2>1. r \in Run /\ r.kind \in Kinds /\ start_exec(r)
    BY <1>9 DEF RemoveSource, Run, Kinds
  <2> HIDE DEF r
  <2> QED
    BY <1>9, <2>1, StartTyped DEF RemoveSource, list, pane, removal, rescan, HasSelected
<1>10. CASE hide_exec
  BY <1>10 DEF hide_exec, list, pane, removal, rescan, HasSelected
<1>11. CASE SessionDone
  <2>1. PICK outcome \in Outcomes :
          /\ IF exec_hidden \/ outcome = "nothing"
             THEN finish_exec(outcome)
             ELSE /\ exec' = [exec EXCEPT !.report = outcome]
                  /\ UNCHANGED <<screen, removal, rescanning>>
          /\ last' = IF attached.kind = "migrate"
                     THEN [copy |-> attached.copy, fate |-> outcome] ELSE last
    BY <1>11 DEF SessionDone
  <2>2. last' \in {NeverCopied} \cup [copy : Copies, fate : {"running"} \cup Outcomes]
    BY <1>11, <2>1, RunType DEF SessionDone
  <2>3. attached' = None /\ UNCHANGED <<list, pane, hidden, measured, quit>>
    BY <1>11 DEF SessionDone
  <2>4. CASE finish_exec(outcome)
    BY <2>2, <2>3, <2>4, FinishTyped DEF Earned, list, pane, rescan, HasSelected
  <2>5. CASE exec' = [exec EXCEPT !.report = outcome] /\ UNCHANGED <<screen, removal, rescanning>>
    <3>1. exec = [kind |-> attached.kind, report |-> "none"] /\ attached.kind \in Kinds
      BY <1>11, RunType DEF SessionDone
    <3>2. exec' \in [kind : Kinds, report : {"none"} \cup Outcomes]
      BY <2>5, <3>1
    <3> QED
      BY <2>2, <2>3, <2>5, <3>2 DEF list, pane, removal, rescan, HasSelected
  <2> QED
    BY <2>1, <2>4, <2>5
<1>12. CASE SessionFailed
  BY <1>12 DEF SessionFailed, list, pane, removal, rescan, HasSelected
<1>13. CASE SessionVanished
  BY <1>13 DEF SessionVanished, list, pane, removal, rescan, HasSelected
<1>14. CASE ExecDismiss
  <2>1. exec.report \in Outcomes /\ finish_exec(exec.report) /\ attached = None
    <3>1. exec \in [kind : Kinds, report : {"none"} \cup Outcomes]
      BY <1>14 DEF ExecDismiss
    <3>2. exec.report # "none" /\ finish_exec(exec.report)
      BY <1>14 DEF ExecDismiss, exec_is_done
    <3> QED
      BY <3>1, <3>2
  <2> QED
    BY <1>14, <2>1, FinishTyped DEF ExecDismiss, Earned, list, pane, rescan, HasSelected
<1>15. CASE ScanLands
  <2>1. /\ cursor' \in Nat \ {0} /\ (overlaps' # <<>> => cursor' <= Len(overlaps'))
    BY <1>15, ClampInside DEF ScanLands
  <2> QED
    BY <1>15, <2>1 DEF ScanLands, pane, removal, console, rescan, HasSelected
<1>16. CASE ScanDies
  <2>1. rescanning' \in BOOLEAN /\ measured' \in BOOLEAN
    BY <1>16 DEF ScanDies
  <2>2. UNCHANGED <<screen, list, pane, console, removal, quit, last>>
    BY <1>16 DEF ScanDies
  <2> QED
    BY <2>1, <2>2 DEF list, pane, removal, console, HasSelected
<1>17. CASE Quit
  BY <1>17 DEF Quit, list, pane, removal, console, rescan, HasSelected
<1>18. CASE UNCHANGED vars
  BY <1>18 DEF vars, list, pane, removal, console, rescan, HasSelected
<1> QED
  BY <1>1, <1>2, <1>3, <1>4, <1>5, <1>6, <1>7, <1>8, <1>9, <1>10, <1>11, <1>12,
     <1>13, <1>14, <1>15, <1>16, <1>17, <1>18 DEF Next

-----------------------------------------------------------------------------
(* The staged removal and the console are about the last copy started. *)
LEMMA InitEarned == Init => Earned
  BY NotListening DEF Init, Earned, exec_is_done

\* A console that closes stages nothing new, and arms after a report without a
\* failure only.
LEMMA FinishEarned ==
  ASSUME TypeOK, Earned, NEW outcome \in Outcomes, finish_exec(outcome),
         attached' = None, last'.copy = last.copy,
         exec.kind = "migrate" => last'.fate = outcome,
         exec.kind # "migrate" => last' = last
  PROVE  Earned'
<1>1. exec' = NoExec
  BY DEF finish_exec
<1>2. CASE exec.kind = "update" /\ UNCHANGED removal
  BY <1>1, <1>2, NotListening DEF Earned, removal
<1>3. CASE exec.kind = "migrate" /\ finish_migration(outcome)
  BY <1>1, <1>3, NotListening DEF Earned, finish_migration, Unfailed
<1>4. CASE exec.kind = "removal" /\ finish_removal
  BY <1>1, <1>4, NotListening DEF Earned, finish_removal
<1> QED
  BY <1>2, <1>3, <1>4 DEF finish_exec

\* What leaves the console and the copies alone may disarm, and nothing else.
LEMMA QuietStep ==
  ASSUME Earned, UNCHANGED <<exec, attached, last>>, UNCHANGED removal \/ disarm_removal
  PROVE  Earned'
  BY DEF Earned, removal, disarm_removal, exec_is_done

LEMMA EarnedKept == ASSUME TypeOK, Earned, [Next]_vars PROVE Earned'
<1>1. CASE OpenOverlaps \/ ToggleWhy \/ flip_migrate_direction \/ Refresh \/ hide_exec
  BY <1>1, QuietStep DEF OpenOverlaps, ToggleWhy, flip_migrate_direction, Refresh, hide_exec, console
<1>2. CASE Move \/ close_overlaps
  BY <1>2, QuietStep DEF Move, close_overlaps, console, removal
<1>3. CASE Execute
  <2>1. CASE UNCHANGED <<exec, attached>>
    BY <1>3, <2>1, QuietStep DEF Execute
  <2>2. CASE start_exec(Update)
    <3>1. exec' = [kind |-> "update", report |-> "none"] /\ attached' = [kind |-> "update"]
      BY <2>2 DEF start_exec, Update
    <3> QED
      BY <1>3, <3>1 DEF Execute, Earned, removal
  <2> QED
    BY <1>3, <2>1, <2>2 DEF Execute
<1>4. CASE RunMigration
  <2> DEFINE c == [app |-> selected.app, direction |-> Direction]
  <2>1. /\ staged' \in {c, NoCopy} /\ armed' = FALSE
        /\ attached' = [kind |-> "migrate", copy |-> c]
        /\ exec' = [kind |-> "migrate", report |-> "none"]
        /\ last' = [copy |-> c, fate |-> "running"]
    BY <1>4 DEF RunMigration, start_exec
  <2> HIDE DEF c
  <2> QED
    BY <2>1 DEF Earned, exec_is_done
<1>5. CASE RemoveSource
  <2>1. /\ attached' = [kind |-> "removal", copy |-> staged]
        /\ exec' = [kind |-> "removal", report |-> "none"]
        /\ UNCHANGED <<removal, last>>
    BY <1>5 DEF RemoveSource, start_exec
  <2> QED
    BY <1>5, <2>1 DEF RemoveSource, Earned, removal
<1>6. CASE SessionDone
  <2>1. PICK outcome \in Outcomes :
          /\ IF exec_hidden \/ outcome = "nothing"
             THEN finish_exec(outcome)
             ELSE /\ exec' = [exec EXCEPT !.report = outcome]
                  /\ UNCHANGED <<screen, removal, rescanning>>
          /\ last' = IF attached.kind = "migrate"
                     THEN [copy |-> attached.copy, fate |-> outcome] ELSE last
    BY <1>6 DEF SessionDone
  <2>2. /\ exec = [kind |-> attached.kind, report |-> "none"]
        /\ attached' = None
    BY <1>6 DEF SessionDone, TypeOK
  <2>3. /\ last'.copy = last.copy
        /\ exec.kind = "migrate" => last'.fate = outcome
        /\ exec.kind # "migrate" => last' = last
    BY <2>1, <2>2 DEF Earned
  <2>4. CASE finish_exec(outcome)
    BY <2>2, <2>3, <2>4, FinishEarned
  <2>5. CASE exec' = [exec EXCEPT !.report = outcome] /\ UNCHANGED removal
    <3>1. exec' = [kind |-> exec.kind, report |-> outcome]
      BY <2>2, <2>5
    <3>2. staged' = staged /\ armed' = armed
      BY <2>5 DEF removal
    <3> QED
      BY <2>2, <2>3, <3>1, <3>2, NotListening DEF Earned
  <2> QED
    BY <2>1, <2>4, <2>5
<1>7. CASE SessionFailed
  BY <1>7, NotListening DEF SessionFailed, Earned, removal
<1>8. CASE SessionVanished
  BY <1>8, NotListening DEF SessionVanished, Earned, removal, exec_is_done
<1>9. CASE ExecDismiss
  <2>1. exec.report \in Outcomes /\ finish_exec(exec.report) /\ attached = None
    <3>1. exec \in [kind : Kinds, report : {"none"} \cup Outcomes]
      BY <1>9 DEF ExecDismiss, TypeOK
    <3>2. exec.report # "none" /\ finish_exec(exec.report)
      BY <1>9 DEF ExecDismiss, exec_is_done
    <3> QED
      BY <3>1, <3>2 DEF TypeOK
  <2>2. exec.kind = "migrate" => last.fate = exec.report
    BY <1>9 DEF ExecDismiss, Earned
  <2> QED
    BY <1>9, <2>1, <2>2, FinishEarned DEF ExecDismiss
<1>10. CASE ScanLands \/ ScanDies \/ Quit
  BY <1>10, QuietStep DEF ScanLands, ScanDies, Quit, console
<1>11. CASE UNCHANGED vars
  BY <1>11, QuietStep DEF vars, console
<1> QED
  BY <1>1, <1>2, <1>3, <1>4, <1>5, <1>6, <1>7, <1>8, <1>9, <1>10, <1>11 DEF Next

LEMMA Inductive == Spec => [](TypeOK /\ Earned)
  BY InitTyped, InitEarned, TypesKept, EarnedKept, PTL DEF Spec

\* Every variable keeps its type; a session the event loop listens to has its
\* console, without a report; and what is armed is staged.
THEOREM TypeCorrect == Spec => []TypeOK
  BY Inductive, PTL

\* What is armed, and the removal that runs, is of the last copy started, whose
\* report is in and holds no failure.
THEOREM RemovalsFollowTheirCopy == Spec => []RemovalFollowsItsCopy
<1>1. TypeOK /\ Earned => RemovalFollowsItsCopy
  BY DEF TypeOK, Earned, RemovalFollowsItsCopy, Removing
<1> QED
  BY <1>1, Inductive, PTL

\* Quitting is refused, or leaves no session behind that the loop listens to.
THEOREM QuittingSparesTheRun == Spec => []QuitSparesTheRun
<1>1. Init => QuitSparesTheRun
  BY DEF Init, QuitSparesTheRun
<1>2. TypeOK /\ QuitSparesTheRun /\ [Next]_vars => QuitSparesTheRun'
  <2> SUFFICES ASSUME TypeOK, QuitSparesTheRun, [Next]_vars, quit' PROVE attached' = None
    BY DEF QuitSparesTheRun
  <2>1. CASE Quit
    <3>1. attached = None
      <4>1. exec = NoExec \/ exec.report # "none"
        BY <2>1 DEF Quit, exec_is_done
      <4>2. ASSUME attached # None PROVE exec.report = "none" /\ exec.kind \in Kinds
        BY <4>2, RunType DEF TypeOK
      <4>3. NoExec.kind \notin Kinds
        BY DEF NoExec, Kinds
      <4> QED
        BY <4>1, <4>2, <4>3
    <3> QED
      BY <2>1, <3>1 DEF Quit, console
  <2>2. CASE UNCHANGED vars
    BY <2>2 DEF vars, console, QuitSparesTheRun
  <2>3. CASE Next /\ ~Quit
    <3>1. ~quit /\ quit' = quit
      BY <2>3 DEF Next, Keys, OpenOverlaps, Move, ToggleWhy, flip_migrate_direction,
         close_overlaps, Refresh, Execute, RunMigration, RemoveSource, hide_exec,
         SessionDone, SessionFailed, SessionVanished, ExecDismiss, ScanLands, ScanDies
    <3> QED
      BY <3>1
  <2> QED
    BY <2>1, <2>2, <2>3
<1> QED
  BY <1>1, <1>2, Inductive, PTL DEF Spec
=============================================================================
