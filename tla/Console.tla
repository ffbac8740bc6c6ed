------------------------------ MODULE Console ------------------------------
(***************************************************************************)
(* The TUI's screens around an execution: the console that shows a run, or *)
(* hides it; the overlap screen, its migration report and the removal a    *)
(* copy stages and arms; and the rescans that land meanwhile.              *)
(*                                                                         *)
(* One action per key of the screens involved and per event the loop       *)
(* lands.  The package, cleanup and history screens and the overlays only  *)
(* come back to the screen they opened on, and are left out.  A scan is    *)
(* reduced to what it does here: it is under way or not, and a result that *)
(* lands derives the overlaps anew.                                        *)
(***************************************************************************)
EXTENDS Naturals, Sequences

CONSTANTS
  Apps,      \* the applications installed from two sources
  Lists      \* the lists of overlaps a scan may derive

Directions == {"to_flatpak", "to_native"}

\* An overlap, and the direction its report proposes.
Overlap == [app : Apps, toward : Directions]

ASSUME ListsAssumption == Lists \subseteq Seq(Overlap) /\ <<>> \in Lists

\* Copying an application's data one way; the removal that follows is of the
\* side it came from.
Copies == [app : Apps, direction : Directions]

VARIABLES
  screen,        \* "dashboard" or "overlaps"
  overlaps, cursor, migrate_open, override,   \* the overlap screen
  exec,          \* the console: the kind of its run, and its report
  hidden,        \* it is behind the dashboard
  attached,      \* the session the event loop listens to
  staged, armed, \* the removal of the last copy started; `R` runs it
  rescanning,
  measured,      \* the scan on screen has measured what there is to copy
  quit,
  last           \* the last copy started, and what is known of it

pane == <<migrate_open, override>>
list == <<overlaps, cursor>>
removal == <<staged, armed>>
console == <<exec, hidden, attached>>
rescan == <<rescanning, measured>>
vars == <<screen, list, pane, console, removal, rescan, quit, last>>

\* A report with a failure; with none and every step run; with none because
\* the run was cancelled after or before anything ended.
Outcomes == {"failed", "clean", "cut", "nothing"}

None == [kind |-> "none"]
NoCopy == [app |-> "none"]
NeverCopied == [copy |-> NoCopy, fate |-> "never"]
NoExec == [kind |-> "none", report |-> "none"]
Kinds == {"update", "migrate", "removal"}

\* A session: an update, or the copy or the removal of some data.
Update == [kind |-> "update"]
Run == {Update} \cup [kind : {"migrate", "removal"}, copy : Copies]

-----------------------------------------------------------------------------
exec_hidden == exec # NoExec /\ hidden
exec_is_done == exec.report # "none"

\* The keys go to the screen, and not to the console.
Keys == ~quit /\ (exec = NoExec \/ hidden)

selected == overlaps[cursor]
HasSelected == overlaps # <<>>

Flipped(d) == CHOOSE e \in Directions : e # d
Direction == IF override = "none" THEN selected.toward ELSE override

\* A cursor over a list, kept inside it; on an empty one it stays first.
Clamp(c, l) == IF c <= Len(l) THEN c ELSE IF l = <<>> THEN 1 ELSE Len(l)

\* Mutant of disarm_removal: drops the plan and leaves the key armed.
DisarmTheStagedOnly ==
  /\ staged' = NoCopy
  /\ UNCHANGED armed

disarm_removal ==
  /\ staged' = NoCopy
  /\ armed' = FALSE

start_exec(r) ==
  /\ exec' = [kind |-> r.kind, report |-> "none"]
  /\ hidden' = FALSE
  /\ attached' = r

-----------------------------------------------------------------------------
\* A warm cache opens on its scan; a cold one on nothing and a scan.
Init ==
  /\ screen = "dashboard"
  /\ cursor = 1
  /\ migrate_open = FALSE /\ override = "none"
  /\ exec = NoExec /\ hidden = FALSE /\ attached = None
  /\ staged = NoCopy /\ armed = FALSE
  /\ \/ overlaps \in Lists /\ rescanning = FALSE /\ measured = TRUE
     \/ overlaps = <<>> /\ rescanning = TRUE /\ measured = FALSE
  /\ quit = FALSE
  /\ last = NeverCopied

OpenOverlaps ==
  /\ Keys /\ screen = "dashboard"
  /\ ~rescanning
  /\ screen' = "overlaps"
  /\ cursor' = Clamp(cursor, overlaps)
  /\ migrate_open' = FALSE /\ override' = "none"
  /\ UNCHANGED <<overlaps, console, removal, rescan, quit, last>>

\* Next and Prev, stopping at the ends of the list.
Move ==
  /\ Keys /\ screen = "overlaps"
  /\ cursor' \in {IF cursor < Len(overlaps) THEN cursor + 1 ELSE cursor,
                  IF cursor > 1 THEN cursor - 1 ELSE cursor}
  /\ override' = "none"
  /\ IF armed THEN disarm_removal ELSE UNCHANGED removal
  /\ UNCHANGED <<screen, overlaps, migrate_open, console, rescan, quit, last>>

ToggleWhy ==
  /\ Keys /\ screen = "overlaps"
  /\ migrate_open' = ~migrate_open
  /\ override' = "none"
  /\ UNCHANGED <<screen, list, console, removal, rescan, quit, last>>

flip_migrate_direction ==
  /\ Keys /\ screen = "overlaps"
  /\ migrate_open /\ HasSelected
  /\ override' = Flipped(Direction)
  /\ UNCHANGED <<screen, list, migrate_open, console, removal, rescan, quit, last>>

\* Esc: the armed removal first, then the report, then the screen.
close_overlaps ==
  /\ Keys /\ screen = "overlaps"
  /\ IF armed THEN disarm_removal /\ UNCHANGED <<screen, pane>>
     ELSE IF migrate_open
     THEN migrate_open' = FALSE /\ override' = "none" /\ UNCHANGED <<screen, removal>>
     ELSE screen' = "dashboard" /\ UNCHANGED <<pane, removal>>
  /\ UNCHANGED <<list, console, rescan, quit, last>>

Refresh ==
  /\ Keys /\ screen = "dashboard"
  /\ ~rescanning
  /\ rescanning' = TRUE
  /\ UNCHANGED <<screen, list, pane, console, removal, measured, quit, last>>

\* `u`: back to a hidden run, or an update when the scan has settled.
Execute ==
  /\ Keys /\ screen = "dashboard"
  /\ IF exec_hidden THEN hidden' = FALSE /\ UNCHANGED <<exec, attached>>
     ELSE ~rescanning /\ start_exec(Update)
  /\ UNCHANGED <<screen, list, pane, removal, rescan, quit, last>>

\* `x`, on an open report with something to copy, which only a scan that has
\* ended knows of; the removal that would follow is staged, if there is one.
RunMigration ==
  /\ Keys /\ screen = "overlaps"
  /\ migrate_open /\ HasSelected /\ measured
  /\ LET c == [app |-> selected.app, direction |-> Direction]
     IN  /\ staged' \in {c, NoCopy}
         /\ armed' = FALSE
         /\ start_exec([kind |-> "migrate", copy |-> c])
         /\ last' = [copy |-> c, fate |-> "running"]
  /\ UNCHANGED <<screen, list, pane, rescan, quit>>

\* `R`, once armed.
RemoveSource ==
  /\ Keys /\ screen = "overlaps"
  /\ armed /\ staged # NoCopy
  /\ start_exec([kind |-> "removal", copy |-> staged])
  /\ UNCHANGED <<screen, list, pane, removal, rescan, quit, last>>

\* Esc in a running console.
hide_exec ==
  /\ ~quit /\ exec # NoExec /\ ~hidden /\ ~exec_is_done
  /\ hidden' = TRUE
  /\ screen' = "dashboard"
  /\ UNCHANGED <<list, pane, exec, attached, removal, rescan, quit, last>>

-----------------------------------------------------------------------------
\* Mutant of finish_migration: arms the removal without reading the report.
FinishWhateverHappened(outcome) ==
  /\ screen' = "overlaps"
  /\ armed' = (staged # NoCopy)
  /\ UNCHANGED staged

finish_migration(outcome) ==
  /\ screen' = "overlaps"
  /\ IF outcome = "failed" THEN staged' = NoCopy /\ UNCHANGED armed
     ELSE armed' = (staged # NoCopy \/ armed) /\ UNCHANGED staged

finish_removal ==
  /\ screen' = "overlaps"
  /\ staged' = NoCopy
  /\ armed' = FALSE

\* Closing a finished console: a rescan, and the screen of its kind.
finish_exec(outcome) ==
  /\ exec' = NoExec
  /\ rescanning' = TRUE
  /\ \/ exec.kind = "update" /\ screen' = "dashboard" /\ UNCHANGED removal
     \/ exec.kind = "migrate" /\ finish_migration(outcome)
     \/ exec.kind = "removal" /\ finish_removal

\* The session's report: it waits in the console for a key, or lands at once
\* when nobody is looking or nothing ran.
SessionDone ==
  /\ ~quit /\ attached # None
  /\ \E outcome \in Outcomes :
       /\ IF exec_hidden \/ outcome = "nothing"
          THEN finish_exec(outcome)
          ELSE /\ exec' = [exec EXCEPT !.report = outcome]
               /\ UNCHANGED <<screen, removal, rescanning>>
       /\ last' = IF attached.kind = "migrate"
                  THEN [copy |-> attached.copy, fate |-> outcome] ELSE last
  /\ attached' = None
  /\ UNCHANGED <<list, pane, hidden, measured, quit>>

\* A session that could not start.
SessionFailed ==
  /\ ~quit /\ attached # None
  /\ exec' = NoExec
  /\ attached' = None
  /\ UNCHANGED <<screen, list, pane, hidden, removal, rescan, quit, last>>

\* A session whose thread is gone: the console stays as it is.
SessionVanished ==
  /\ ~quit /\ attached # None
  /\ attached' = None
  /\ UNCHANGED <<screen, list, pane, exec, hidden, removal, rescan, quit, last>>

\* Any key in a finished console.
ExecDismiss ==
  /\ ~quit /\ exec # NoExec /\ ~hidden /\ exec_is_done
  /\ finish_exec(exec.report)
  /\ UNCHANGED <<list, pane, hidden, attached, measured, quit, last>>

\* A result lands, partial or final: the overlaps are derived anew.
ScanLands ==
  /\ ~quit /\ rescanning
  /\ overlaps' \in Lists
  /\ cursor' = Clamp(cursor, overlaps')
  /\ rescanning' \in BOOLEAN
  /\ measured' = ~rescanning'
  /\ UNCHANGED <<screen, pane, console, removal, quit, last>>

\* A scan that ended without one.
ScanDies ==
  /\ ~quit /\ rescanning
  /\ rescanning' = FALSE
  /\ UNCHANGED <<screen, list, pane, console, removal, measured, quit, last>>

\* Mutant of Quit: forgets the run behind the dashboard.
QuitFromAnyScreen ==
  /\ ~quit
  /\ exec = NoExec \/ hidden \/ exec_is_done
  /\ quit' = TRUE
  /\ UNCHANGED <<screen, list, pane, console, removal, rescan, last>>

\* `q` on a screen, refused while a run is hidden; Ctrl-C in a finished console.
Quit ==
  /\ ~quit
  /\ exec = NoExec \/ (~hidden /\ exec_is_done)
  /\ quit' = TRUE
  /\ UNCHANGED <<screen, list, pane, console, removal, rescan, last>>

Next ==
  \/ OpenOverlaps \/ Move \/ ToggleWhy \/ flip_migrate_direction \/ close_overlaps
  \/ Refresh \/ Execute \/ RunMigration \/ RemoveSource \/ hide_exec
  \/ SessionDone \/ SessionFailed \/ SessionVanished \/ ExecDismiss
  \/ ScanLands \/ ScanDies \/ Quit

Spec == Init /\ [][Next]_vars

-----------------------------------------------------------------------------
\* The types; the session listened to has its console, without a report; and
\* what is armed is staged.
TypeOK ==
  /\ screen \in {"dashboard", "overlaps"}
  /\ overlaps \in Lists
  /\ cursor \in Nat \ {0} /\ (HasSelected => cursor <= Len(overlaps))
  /\ migrate_open \in BOOLEAN /\ override \in Directions \cup {"none"}
  /\ exec \in {NoExec} \cup [kind : Kinds, report : {"none"} \cup Outcomes]
  /\ hidden \in BOOLEAN /\ rescanning \in BOOLEAN /\ measured \in BOOLEAN
  /\ quit \in BOOLEAN
  /\ attached \in {None} \cup Run
  /\ attached # None => exec = [kind |-> attached.kind, report |-> "none"]
  /\ staged \in {NoCopy} \cup Copies
  /\ armed \in BOOLEAN /\ (armed => staged # NoCopy)
  /\ last \in {NeverCopied} \cup [copy : Copies, fate : {"running"} \cup Outcomes]

\* A report without a failure: of a copy that ran to its end, or of one that
\* was cancelled.
Unfailed == Outcomes \ {"failed"}

Removing == attached.kind = "removal"

\* "A failed copy never arms removal": what `R` removes, once armed and while
\* it runs, is the source of the last copy started, whose report is in and
\* holds no failure (App::stage_removal, App::finish_migration).  A cancelled
\* copy's holds none either: that only a clean one arms it is the next.
RemovalFollowsItsCopy ==
  /\ armed => last.copy = staged /\ last.fate \in Unfailed
  /\ Removing => last.copy = attached.copy /\ last.fate \in Unfailed

\* "Remove the source side - armed only after a clean copy": a copy every step
\* of which ran and succeeded, and none that was cut short or never began.
OnlyACleanCopyArms == armed \/ Removing => last.fate = "clean"

\* "Quitting would kill a run going on in the background": it never does.
QuitSparesTheRun == quit => attached = None

\* "The removal was per-candidate": what R removes is of the overlap selected.
RemovesWhatIsSelected ==
  [][attached' # attached /\ attached' # None /\ attached'.kind = "removal"
       => HasSelected /\ attached'.copy.app = selected.app]_vars
=============================================================================
