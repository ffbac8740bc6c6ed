--------------------------- MODULE DashboardView ---------------------------
(***************************************************************************)
(* What the dashboard says of the scan it shows (src/tui/draw.rs, App):    *)
(* the cells of each row, the summary, the pane of pending updates and the *)
(* attention pane; and how they share the terminal.                        *)
(*                                                                         *)
(* A board is what App holds: [sources, installed, updates, scanning,      *)
(* carried, enabled, selected, locked, findings, hidden, last_run, note].  A     *)
(* source is its row in the scan: [id, available, last_scanned, scan_error,*)
(* warned, reason], the reason "" when there is none to give.              *)
(***************************************************************************)
EXTENDS Integers, Sequences, FiniteSets, SequencesExt

AtLeast0(n) == IF n < 0 THEN 0 ELSE n
Larger(a, b) == IF a > b THEN a ELSE b
Smaller(a, b) == IF a < b THEN a ELSE b
Maximum(S, default) == IF S = {} THEN default ELSE CHOOSE n \in S : \A o \in S : o <= n
Total(counts, ids) == FoldLeft(LAMBDA n, id : n + counts[id], 0, ids)

-----------------------------------------------------------------------------
(* The rows.                                                               *)

\* Mutant of source_counted: a source that still carries old numbers counts as
\* settled.
CountedOnceSettled(b, s) == ~b.scanning \/ s.last_scanned

source_counted(b, s) == s.id \notin b.carried /\ (~b.scanning \/ s.last_scanned)
\* Mutant of updates_unknown: a source that cannot check is taken to have
\* none.
UnknownIfFailed(s) == s.scan_error

updates_unknown(s) == s.scan_error \/ (s.last_scanned /\ ~s.available)

\* A count that is not known, and a box that is not drawn, are <<>>.
row(b, s) ==
  LET counted == source_counted(b, s)
      stale == ~counted /\ s.id \in b.carried
      Known(n, cond) == IF (counted \/ stale) /\ cond THEN <<n>> ELSE <<>>
  IN  [installed |-> Known(b.installed[s.id], ~s.scan_error),
       updates |-> Known(b.updates[s.id], s.available /\ ~updates_unknown(s)),
       stale |-> stale,
       enabled |-> IF s.available /\ ~s.scan_error /\ counted THEN <<s.id \in b.enabled>> ELSE <<>>]

count_cell(s, count, stale) ==
  IF s.scan_error THEN "no count"
  ELSE IF count = <<>> THEN "empty" ELSE IF stale THEN "dim number" ELSE "number"

settled_status(s) ==
  IF s.available THEN (IF s.warned THEN "warned ok" ELSE "ok")
  ELSE IF s.reason = "" THEN "not found" ELSE s.reason

\* Mutant of status_cell: a scan that gave up leaves its rows well.
StatusOfScan(b, s, r) ==
  IF s.scan_error THEN "scan failed" ELSE IF b.scanning /\ s.available THEN "scanning" ELSE settled_status(s)

status_cell(b, s, r) ==
  LET unfinished == r.updates = <<>> \/ r.stale
  IN  IF s.scan_error THEN "scan failed"
      ELSE IF ~(s.available /\ unfinished) THEN settled_status(s)
      ELSE IF b.scanning THEN "scanning" ELSE "unchecked"

\* Mutant of marker: the compact table says nothing of a row that was not
\* checked.
MarkerOfFailure(b, s, r) ==
  IF s.scan_error THEN "warning"
  ELSE IF r.enabled # <<>> THEN (IF r.enabled[1] THEN "[x]" ELSE "[ ]")
  ELSE IF s.available THEN "available" ELSE "unavailable"

\* The compact table has no status column and says it before the name.
marker(b, s, r) ==
  IF s.scan_error \/ (~b.scanning /\ (r.updates = <<>> \/ r.stale)) THEN "warning"
  ELSE IF r.enabled # <<>> THEN (IF r.enabled[1] THEN "[x]" ELSE "[ ]")
  ELSE IF s.available THEN "available" ELSE "unavailable"

\* One row as it is drawn, in the full table and in the compact one.
render_row(b, s, r) ==
  [box |-> r.enabled, marker |-> marker(b, s, r), status |-> status_cell(b, s, r),
   installed |-> count_cell(s, r.installed, r.stale), updates |-> count_cell(s, r.updates, r.stale)]

-----------------------------------------------------------------------------
(* The summary and the panes.                                              *)

Ids(b) == [i \in DOMAIN b.sources |-> b.sources[i].id]
total_updates(b) == Total(b.updates, Ids(b))

summary_line(b) ==
  LET Some(P(_)) == \E i \in DOMAIN b.sources : P(b.sources[i])
  IN  CASE b.scanning -> "checking"
        [] ~b.scanning /\ Some(LAMBDA s : s.scan_error) -> "scans failed"
        [] ~b.scanning /\ ~Some(LAMBDA s : s.scan_error) ->
             IF Some(updates_unknown) THEN "unchecked"
             ELSE IF total_updates(b) = 0 THEN "up to date" ELSE "available"

scanned_line(b) == IF b.scanning THEN "scanning" ELSE "age"

\* The pane follows the selected source: its updates, or why there are none.
render_updates_pane(b) ==
  LET s == b.sources[b.selected]
  IN  CASE total_updates(b) = 0 -> summary_line(b)
        [] total_updates(b) > 0 /\ b.updates[s.id] > 0 -> "list"
        [] total_updates(b) > 0 /\ b.updates[s.id] = 0 ->
             IF s.scan_error THEN "scan failed"
             ELSE IF updates_unknown(s) THEN "check unavailable"
             ELSE IF source_counted(b, s) THEN "up to date" ELSE "checking"

update_plan(b) == {s \in ToSet(b.sources) : s.available /\ s.id \in b.enabled}
\* Mutant of plan_line: offers what the lock would refuse.
PlanBeforeLock(b) ==
  IF b.scanning THEN "still checking"
  ELSE IF update_plan(b) = {} THEN "nothing to run" ELSE "sources"

plan_line(b) ==
  IF b.scanning THEN "still checking"
  ELSE IF update_plan(b) = {} THEN "nothing to run"
  ELSE IF b.locked /\ \E s \in update_plan(b) : s.id \in {"pacman", "aur"} THEN "blocked"
  ELSE "sources"

Findings == <<"pacman db", "news", "core mirror", "duplicates", "update blocked", "reboot", "services",
              "stranded", "no repository", "config files", "orphans", "cache", "overlaps">>
found_rows(b) ==
  SelectSeq(Findings, LAMBDA f : f \in b.findings \/ (f = "pacman db" /\ b.locked))

\* The attention pane, top to bottom: what `u` does comes first.
render_system_pane(b) ==
  <<"plan">> \o (IF b.hidden THEN <<"update">> ELSE <<>>) \o (IF b.last_run THEN <<"last run">> ELSE <<>>)
    \o (IF found_rows(b) = <<>> /\ ~b.scanning THEN <<"nothing else">> ELSE found_rows(b))
    \o (IF b.note THEN <<"note">> ELSE <<>>) \o <<"scanned">>

\* What rides the bottom border: an answer to a key, or else the lock.
border_note(flash, locked) == IF flash THEN "flash" ELSE IF locked THEN "lock" ELSE "none"

-----------------------------------------------------------------------------
(* The terminal's rows and columns.                                        *)

\* Mutant of draw_dashboard: gives the table all its rows first.
TableFirst(width, height, sources) ==
  IF width < 56 \/ height < 14 THEN [flat |-> TRUE, table |-> height - 3, attention |-> 0]
  ELSE [flat |-> FALSE, table |-> sources + 1, attention |-> height - sources - 6]

\* Heights of the sources table and of the attention pane under it, without
\* their borders, in an inner area; small ones get the table alone.
draw_dashboard(width, height, sources) ==
  LET left == height - 1
      table == Larger(sources + 3, 5)
      half == left \div 2
      upper == IF half >= table THEN half ELSE Smaller(table, left - 5)
  IN  IF width < 56 \/ height < 14 THEN [flat |-> TRUE, table |-> height - 3, attention |-> 0]
      ELSE [flat |-> FALSE, table |-> upper - 2, attention |-> left - upper - 2]

\* Where a number would be squeezed the table first gives up its wider columns,
\* then the names, then itself.
full_width(installed, updates) == 3 + 13 + Larger(installed, 5) + Larger(updates, 4) + 13 + 6

\* Mutant of table_widths: sized for four digits.
WidthsOfFewDigits(width, installed, updates, longest) ==
  LET names == Smaller(Larger(longest + 4, 8), AtLeast0(width - 11))
  IN  IF width < 12 THEN <<>>
      ELSE IF width < 44 THEN <<names, 4, 3>> ELSE <<3, width - 31, 5, 4, 13>>

table_widths(width, installed, updates, longest) ==
  LET i == Larger(installed, 4)
      u == Larger(updates, 3)
      names == Smaller(Larger(longest + 4, 8), AtLeast0(width - (i + u + 4)))
  IN  IF width < i + u + 5 THEN <<>>
      ELSE IF width < full_width(i, u) THEN <<names, i, u>>
      ELSE <<3, 13 + width - full_width(i, u), Larger(i, 5), Larger(u, 4), 13>>

\* Mutant of update_columns: keeps the old version and cuts the new.
ColumnsWithOld(width, name, old, new) ==
  [show_old |-> TRUE, name |-> Larger(Smaller(name, AtLeast0(width - (old + 5 + new))), 1)]

\* A line of the updates pane: its name's width, and whether it has room for
\* the old version.
update_columns(width, name, old, new) ==
  LET show_old == name + 2 + old + 3 + new <= width
  IN  [show_old |-> show_old,
       name |-> IF show_old THEN name ELSE Larger(Smaller(name, AtLeast0(width - (new + 4))), 1)]

DrawnColumns(c, old, arrow, new) ==
  c.name + 2 + (IF c.show_old THEN old + 1 ELSE 0) + arrow + 1 + new

\* Mutant of updates_window: counts what is below from the top.
WindowFromTop(lines, height, scroll) ==
  [first |-> scroll, last |-> Smaller(lines, scroll + height), below |-> AtLeast0(lines - height)]

\* The lines it shows, and how many it says are below.
updates_window(lines, height, scroll) ==
  [first |-> scroll, last |-> Smaller(lines, scroll + height), below |-> AtLeast0(lines - (scroll + height))]

-----------------------------------------------------------------------------
(* Properties.                                                             *)

\* The scan on screen runs, or was not given up before every source it asked
\* had answered.
NotGivenUp(b) ==
  b.scanning \/ \A i \in DOMAIN b.sources : b.sources[i].id \in b.lanes => b.sources[i].last_scanned

Well == {"ok", "warned ok"}

\* "Not counted yet" and "zero" do not look alike, in either table: a row that
\* failed says so, one with a previous scan's numbers that a check is out or
\* never came, and one is well only if its source answered; it has a box only
\* if it can be toggled.  Of a scan that was given up the answer is
\* OnlyTheCheckedAreWell's matter.
RowIsHonest(b, s, r, c) ==
  /\ c.status \in Well => s.available /\ ~s.scan_error /\ s.id \notin b.carried
  /\ c.updates = "number" => s.available /\ ~s.scan_error
  /\ NotGivenUp(b) /\ (c.status \in Well \/ c.updates = "number") => s.last_scanned
  /\ s.scan_error => c.status = "scan failed" /\ c.marker = "warning" /\ c.box = <<>>
  /\ s.id \in b.carried /\ s.available /\ ~s.scan_error =>
       /\ c.status = IF b.scanning THEN "scanning" ELSE "unchecked"
       /\ c.updates = "dim number" /\ c.box = <<>> /\ (~b.scanning => c.marker = "warning")
  /\ c.box # <<>> => s.available /\ source_counted(b, s) /\ (c.box[1] <=> s \in update_plan(b))

RowsAreHonest(b) ==
  \A i \in DOMAIN b.sources :
    LET s == b.sources[i] IN RowIsHonest(b, s, row(b, s), render_row(b, s, row(b, s)))

\* "Up to date" is said only where every source the scan asked answered that it
\* has nothing, of the selected source and of them all; what is listed is what
\* the row counts; and while a scan runs nothing is settled.
SummaryIsHonest(b) ==
  LET s == b.sources[b.selected]
      Clean(t) == ~t.scan_error /\ b.updates[t.id] = 0 /\ t.id \notin b.carried
                    /\ (t.id \in b.lanes => t.available /\ t.last_scanned)
  IN  /\ summary_line(b) = "up to date" =>
           /\ ~b.scanning /\ \A t \in ToSet(b.sources) : ~t.scan_error /\ b.updates[t.id] = 0
           /\ NotGivenUp(b) => \A t \in ToSet(b.sources) : Clean(t)
      /\ total_updates(b) > 0 /\ render_updates_pane(b) = "up to date" =>
           /\ ~s.scan_error /\ s.id \notin b.carried /\ (NotGivenUp(b) => Clean(s))
      /\ render_updates_pane(b) = "list" => b.updates[s.id] > 0
      /\ b.scanning => /\ summary_line(b) = "checking" /\ plan_line(b) = "still checking"
                       /\ scanned_line(b) = "scanning"
                       /\ "nothing else" \notin ToSet(render_system_pane(b))
      /\ plan_line(b) = "nothing to run" => \A t \in ToSet(b.sources) : row(b, t).enabled # <<TRUE>>
      /\ b.locked /\ ~b.scanning /\ "pacman" \in {t.id : t \in update_plan(b)} =>
           plan_line(b) = "blocked" /\ border_note(FALSE, b.locked) = "lock"

\* "A source whose update check has not come back is not up to date; it is
\* unchecked, and the pane says which", however the scan ended: no row is well,
\* and no source that can be updated up to date, that did not answer; nor does
\* the pane call the selected one so.
OnlyTheCheckedAreWell(b) ==
  LET s == b.sources[b.selected]
  IN  /\ \A t \in ToSet(b.sources) : render_row(b, t, row(b, t)).status \in Well => t.last_scanned
      /\ summary_line(b) = "up to date" =>
           \A t \in ToSet(b.sources) : t.available => t.last_scanned
      /\ total_updates(b) > 0 /\ render_updates_pane(b) = "up to date" => s.last_scanned

\* A number is drawn whole or not at all: the table's columns, their gaps and
\* the pointer fit the pane ("before ratatui can squeeze a number into a
\* misleading partial value").
NumbersAreWhole(width, installed, updates, longest) ==
  LET w == table_widths(width, installed, updates, longest)
      Sum == FoldLeft(LAMBDA n, c : n + c, 0, w)
  IN  w # <<>> => /\ Sum + (Len(w) - 1) + 2 <= width
                  /\ w[Len(w) - (IF Len(w) = 3 THEN 1 ELSE 2)] >= installed
                  /\ w[Len(w) - (IF Len(w) = 3 THEN 0 ELSE 1)] >= updates
                  /\ w[IF Len(w) = 3 THEN 1 ELSE 2] >= 1

\* The new version is drawn whole where a column of the name is left; the
\* arrow of the ASCII glyphs is a column wider than the one counted.
VersionIsWhole(width, name, old, new, arrow) ==
  LET c == update_columns(width, name, old, new)
  IN  /\ width >= new + 5 => DrawnColumns(c, old, arrow, new) <= width + (arrow - 1)
      /\ c.show_old => c.name = name

\* Every pending update can be scrolled to, and the pane says how many it hides.
UpdatesCanBeRead(lines, height) ==
  \A scroll \in 0..AtLeast0(lines - 1) :
    LET w == updates_window(lines, height, scroll)
    IN  w.last + w.below = lines /\ (w.below = 0 => w.last = lines) /\ w.first < Larger(lines, 1)

\* The plan, the run behind the screen and the outcome of the last are drawn
\* whatever the size, and the table has as many rows as there are sources
\* while there is room for both.
AttentionIsSeen(width, height, sources, b) ==
  LET d == draw_dashboard(width, height, sources)
      lines == render_system_pane(b)
  IN  /\ d.flat \/ d.attention >= 3
      /\ ~d.flat => {"plan", "update", "last run"} \cap ToSet(lines) \subseteq ToSet(SubSeq(lines, 1, Smaller(d.attention, Len(lines))))
      /\ ~d.flat /\ height >= sources + 9 => d.table >= sources + 1
=============================================================================
