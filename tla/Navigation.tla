----------------------------- MODULE Navigation -----------------------------
(***************************************************************************)
(* The keys of the TUI (src/tui/input.rs, run_loop, App): which screen and *)
(* which overlay a key goes to, and what it does there.                    *)
(*                                                                         *)
(* The state is the one a frame was drawn from.  The reader's next key is  *)
(* meant for that frame; the results that arrive meanwhile are landed      *)
(* before it is read, so a step is: a scan's result, a session's, the key. *)
(***************************************************************************)
EXTENDS Integers, Sequences, FiniteSets, SequencesExt, TLC

CONSTANTS
  Machines,     \* what scans may find: [updates of each source, overlaps, orphans]
  Runs,         \* the rows of each run in the pacman log
  LogLines,     \* of the last update's log
  Hands         \* the keys a reader uses: one set of them per behaviour

VARIABLE ui

Get(f, k, default) == IF k \in DOMAIN f THEN f[k] ELSE default
AtMost(n, max) == IF n > max THEN max ELSE n
AtLeast0(n) == IF n < 0 THEN 0 ELSE n
Clamp(n, max) == AtLeast0(AtMost(n, max))

-----------------------------------------------------------------------------
(* The key maps.                                                           *)

Bind(keys, action) == [k \in keys |-> action]

Letters == {"q", "j", "k", "h", "l", "r", "u", "i", "o", "c", "w", "d", "x", "s", "H", "L", "R"}
Chars == Letters \cup {"space", "?", "/", "[", "]"}

map_global_key == Bind({"?"}, "ToggleHelp") @@ Bind({"L"}, "OpenLog")
Quits == Bind({"q", "ctrl-c"}, "Quit")
Moves == Bind({"down", "j"}, "Next") @@ Bind({"up", "k"}, "Prev")
Pages == Bind({"pgdn"}, "NextPage") @@ Bind({"pgup"}, "PrevPage")

map_dashboard_key ==
  Quits @@ Moves @@ Bind({"left", "h"}, "FocusLeft") @@ Bind({"right", "l"}, "FocusRight")
  @@ Bind({"space"}, "Toggle") @@ Bind({"r"}, "Refresh") @@ Bind({"u"}, "Execute")
  @@ Bind({"enter", "i"}, "OpenPackages") @@ Bind({"o"}, "OpenOverlaps")
  @@ Bind({"c"}, "OpenCleanup") @@ Bind({"H"}, "OpenHistory")

map_overlaps_key ==
  Quits @@ Moves @@ Bind({"enter", "w"}, "ToggleWhy") @@ Bind({"d"}, "FlipDirection")
  @@ Bind({"x"}, "RunMigration") @@ Bind({"R"}, "RemoveSource") @@ Bind({"esc"}, "Back")

map_cleanup_key == Quits @@ Moves @@ Bind({"enter", "w"}, "ToggleWhy") @@ Bind({"esc"}, "Back")

map_history_key ==
  Quits @@ Moves @@ Bind({"left", "h"}, "FocusLeft") @@ Bind({"right", "l", "enter"}, "FocusRight")
  @@ Bind({"esc"}, "Back")

map_packages_key ==
  Quits @@ Moves @@ Pages @@ Bind({"/"}, "StartFilter") @@ Bind({"s"}, "CycleSort")
  @@ Bind({"[", "]"}, "ResizePane") @@ Bind({"esc"}, "Back")

\* Mutant of map_filter_key: q quits while a name is typed.
FilterKeepsQuit ==
  Quits @@ Bind({"esc"}, "FilterCancel") @@ Bind({"enter"}, "FilterAccept")
  @@ Bind({"backspace"}, "FilterBackspace") @@ Bind(Chars, "FilterChar")

map_filter_key ==
  Bind({"ctrl-c"}, "Quit") @@ Bind({"esc"}, "FilterCancel") @@ Bind({"enter"}, "FilterAccept")
  @@ Bind({"backspace"}, "FilterBackspace") @@ Bind(Chars, "FilterChar")

map_log_key ==
  Bind({"ctrl-c"}, "Quit") @@ Moves @@ Pages @@ Bind({"esc", "q"}, "CloseLog")

\* Mutant of map_exec_key: nothing leads back from a running command.
EscGoesToTheRun(key, done) ==
  IF done THEN (IF key = "ctrl-c" THEN "Quit" ELSE "ExecDismiss") ELSE "ExecKey"

map_exec_key(key, done) ==
  CASE done -> IF key = "ctrl-c" THEN "Quit" ELSE "ExecDismiss"
    [] ~done /\ key = "esc" -> "HideExec"
    [] ~done /\ key # "esc" -> "ExecKey"

\* Mutant of input_mode: a run behind the dashboard still takes the keys.
HiddenRunHasTheKeys(v) ==
  IF v.exec # "none" THEN "exec" ELSE IF v.log THEN "log" ELSE IF v.help THEN "help"
  ELSE IF v.screen = "packages" /\ v.typing THEN "filter" ELSE v.screen

\* The console, then the log, then the key reference, then the screen.
input_mode(v) ==
  IF v.exec # "none" /\ ~v.hidden THEN "exec" ELSE IF v.log THEN "log" ELSE IF v.help THEN "help"
  ELSE IF v.screen = "packages" /\ v.typing THEN "filter" ELSE v.screen

read_action(v, key) ==
  LET mode == input_mode(v)
      Or(map) == Get(map_global_key @@ map, key, "Ignore")
  IN  CASE mode = "exec" -> map_exec_key(key, v.exec = "done")
        [] mode = "log" -> Get(map_log_key, key, "Ignore")
        [] mode = "help" -> "ToggleHelp"
        [] mode = "filter" -> Get(map_filter_key, key, "Ignore")
        [] mode = "dashboard" -> Or(map_dashboard_key)
        [] mode = "packages" -> Or(map_packages_key)
        [] mode = "overlaps" -> Or(map_overlaps_key)
        [] mode = "cleanup" -> Or(map_cleanup_key)
        [] mode = "history" -> Or(map_history_key)

\* What a frame shows on top.
draw(v) ==
  IF v.exec # "none" /\ ~(v.exec # "none" /\ v.hidden) THEN "exec"
  ELSE IF v.log THEN "log" ELSE IF v.help THEN "help" ELSE v.screen

-----------------------------------------------------------------------------
(* What the actions do.                                                    *)

Sources(v) == Len(v.machine.updates)
updates_pane_rows(v) == IF v.dash < Sources(v) THEN v.machine.updates[v.dash + 1] ELSE 0
history_detail_rows(v) == IF v.run < Len(Runs) THEN Runs[v.run + 1] ELSE 0
Hidden(v) == v.exec # "none" /\ v.hidden

disarm_removal(v) == IF v.staged THEN [v EXCEPT !.staged = FALSE, !.armed = FALSE] ELSE v

\* Another source shows another list.
Select(v, to) == [v EXCEPT !.dash = to, !.updates_scroll = 0]
\* Mutant of SelectRun: opens the next run where the last was left.
SelectRunOnly(v, to) == [v EXCEPT !.run = to]

\* And so does another run.
SelectRun(v, to) == [v EXCEPT !.run = to, !.detail = 0]

MoveBy(v, by) ==
  CASE v.screen = "dashboard" /\ v.dash_focus = "sources" ->
         IF Sources(v) = 0 THEN v ELSE Select(v, Clamp(v.dash + by, Sources(v) - 1))
    [] v.screen = "dashboard" /\ v.dash_focus = "updates" ->
         [v EXCEPT !.updates_scroll = Clamp(@ + by, updates_pane_rows(v) - 1)]
    [] v.screen = "packages" -> v
    [] v.screen = "overlaps" ->
         LET w == [v EXCEPT !.overlap = Clamp(@ + by, v.machine.overlaps - 1)]
         IN  IF v.armed THEN disarm_removal(w) ELSE w
    [] v.screen = "cleanup" -> [v EXCEPT !.orphan = Clamp(@ + by, v.machine.orphans - 1)]
    [] v.screen = "history" /\ v.history_focus = "runs" -> SelectRun(v, Clamp(v.run + by, Len(Runs) - 1))
    [] v.screen = "history" /\ v.history_focus = "packages" ->
         [v EXCEPT !.detail = Clamp(@ + by, history_detail_rows(v) - 1)]

log_scroll(v, by) == [v EXCEPT !.log_scroll = Clamp(@ - by, LogLines - 1)]
Step(v, by) == IF v.log THEN log_scroll(v, by) ELSE MoveBy(v, by)
Page(v, by) == IF v.log THEN log_scroll(v, by) ELSE v

Focus(v, left) ==
  IF v.screen = "history"
  THEN [v EXCEPT !.history_focus = IF left THEN "runs" ELSE "packages"]
  ELSE [v EXCEPT !.dash_focus = IF left THEN "sources" ELSE "updates"]

\* A source that has not reported yet has no list to open.
open_packages(v) ==
  IF Sources(v) = 0 \/ ~v.reported THEN v ELSE [v EXCEPT !.screen = "packages", !.query = FALSE, !.typing = FALSE]
open_overlaps(v) ==
  IF v.scanning THEN v
  ELSE [v EXCEPT !.screen = "overlaps", !.overlap = Clamp(@, v.machine.overlaps - 1), !.migrate = FALSE]
open_cleanup(v) ==
  IF v.scanning THEN v
  ELSE [v EXCEPT !.screen = "cleanup", !.orphan = Clamp(@, v.machine.orphans - 1), !.why = FALSE]
open_history(v) ==
  [v EXCEPT !.screen = "history", !.run = Clamp(@, Len(Runs) - 1), !.history_focus = "runs", !.detail = 0]
open_log(v) == [v EXCEPT !.log = TRUE, !.log_scroll = 0]

toggle_why(v) ==
  CASE v.screen = "cleanup" -> [v EXCEPT !.why = ~@]
    [] v.screen = "overlaps" -> [v EXCEPT !.migrate = ~@]
    [] OTHER -> v

Home(v) == [v EXCEPT !.screen = "dashboard"]

Back(v) ==
  CASE v.screen = "overlaps" ->
         IF v.armed THEN disarm_removal(v) ELSE IF v.migrate THEN [v EXCEPT !.migrate = FALSE] ELSE Home(v)
    [] v.screen = "cleanup" -> IF v.why THEN [v EXCEPT !.why = FALSE] ELSE Home(v)
    [] v.screen = "history" ->
         IF v.history_focus = "packages" THEN [v EXCEPT !.history_focus = "runs"] ELSE Home(v)
    [] v.screen \in {"dashboard", "packages"} -> IF v.query THEN [v EXCEPT !.query = FALSE] ELSE Home(v)

start_exec(v, kind) == [v EXCEPT !.exec = "running", !.hidden = FALSE, !.kind = kind]

Execute(v) ==
  IF Hidden(v) THEN [v EXCEPT !.hidden = FALSE]
  ELSE IF v.scanning \/ \A i \in DOMAIN v.machine.updates : v.machine.updates[i] = 0 THEN v
  ELSE start_exec(v, "update")

RunMigration(v) ==
  IF v.migrate /\ v.machine.overlaps > 0
  THEN [start_exec(v, "migrate") EXCEPT !.staged = TRUE, !.armed = FALSE] ELSE v
RemoveSource(v) == IF v.armed /\ v.staged THEN start_exec(v, "removal") ELSE v

\* A report with a failure drops the staged removal.
finish_exec(v, failed) ==
  LET closed == [v EXCEPT !.exec = "none", !.kind = "update", !.failed = FALSE, !.scanning = TRUE]
  IN  CASE v.kind = "update" -> Home(closed)
        [] v.kind = "migrate" ->
             [closed EXCEPT !.screen = "overlaps", !.staged = @ /\ ~failed, !.armed = v.staged /\ ~failed]
        [] v.kind = "removal" -> [closed EXCEPT !.screen = "overlaps", !.staged = FALSE, !.armed = FALSE]

Quit(v) == IF Hidden(v) THEN v ELSE [v EXCEPT !.quit = TRUE]

Perform(v, action) ==
  CASE action = "Quit" -> Quit(v)
    [] action = "Next" -> Step(v, 1)
    [] action = "Prev" -> Step(v, -1)
    [] action = "NextPage" -> Page(v, 20)
    [] action = "PrevPage" -> Page(v, -20)
    [] action = "Refresh" -> [v EXCEPT !.scanning = TRUE]
    [] action = "OpenPackages" -> open_packages(v)
    [] action = "OpenOverlaps" -> open_overlaps(v)
    [] action = "OpenCleanup" -> open_cleanup(v)
    [] action = "OpenHistory" -> open_history(v)
    [] action = "OpenLog" -> open_log(v)
    [] action = "CloseLog" -> [v EXCEPT !.log = FALSE, !.log_scroll = 0]
    [] action = "ToggleHelp" -> [v EXCEPT !.help = ~@]
    [] action = "Back" -> Back(v)
    [] action = "StartFilter" -> [v EXCEPT !.typing = TRUE]
    [] action = "FilterChar" -> [v EXCEPT !.query = TRUE]
    [] action = "FilterBackspace" -> [v EXCEPT !.query = FALSE]
    [] action = "FilterAccept" -> [v EXCEPT !.typing = FALSE]
    [] action = "FilterCancel" -> [v EXCEPT !.typing = FALSE, !.query = FALSE]
    [] action = "ToggleWhy" -> toggle_why(v)
    [] action = "FocusLeft" -> Focus(v, TRUE)
    [] action = "FocusRight" -> Focus(v, FALSE)
    [] action = "Execute" -> Execute(v)
    [] action = "RunMigration" -> RunMigration(v)
    [] action = "RemoveSource" -> RemoveSource(v)
    [] action = "HideExec" -> [Home(v) EXCEPT !.hidden = TRUE]
    [] action = "ExecDismiss" -> finish_exec(v, v.failed)
    [] action \in {"Toggle", "CycleSort", "ResizePane", "FlipDirection", "ExecKey", "Ignore"} -> v

Press(v, key) == Perform(v, read_action(v, key))

-----------------------------------------------------------------------------
(* What lands between the frame and the key: first the scan, then the run. *)

\* Mutant of replace_scan: keeps the scroll of the pane the new scan
\* shortened.
ReplaceLists(v, machine, settled) ==
  [v EXCEPT !.machine = machine, !.scanning = ~settled, !.reported = settled,
            !.dash = Clamp(@, Len(machine.updates) - 1), !.orphan = Clamp(@, machine.orphans - 1),
            !.overlap = Clamp(@, machine.overlaps - 1)]

replace_scan(v, machine, settled) ==
  [v EXCEPT !.machine = machine, !.scanning = ~settled, !.reported = settled, !.updates_scroll = 0,
            !.dash = Clamp(@, Len(machine.updates) - 1), !.orphan = Clamp(@, machine.orphans - 1),
            !.overlap = Clamp(@, machine.overlaps - 1)]

ScanEvents == [kind : {"none", "vanished"}, machine : {ui.machine}]
              \cup [kind : {"partial", "done"}, machine : Machines]
LandScan(v, ev) ==
  IF ~v.scanning \/ ev.kind = "none" THEN v
  ELSE IF ev.kind = "vanished" THEN [v EXCEPT !.scanning = FALSE]
  ELSE replace_scan(v, ev.machine, ev.kind = "done")

ExecEvents == {"none", "failed to start", "nothing ran", "clean", "failures"}
LandExec(v, ev) ==
  IF v.exec # "running" \/ ev = "none" THEN v
  ELSE IF ev = "failed to start" THEN [v EXCEPT !.exec = "none", !.kind = "update"]
  ELSE IF v.hidden \/ ev = "nothing ran" THEN finish_exec(v, ev = "failures")
  ELSE [v EXCEPT !.exec = "done", !.failed = ev = "failures"]

\* Mutant of Land: a scan that ends with the run settles the screen after it.
RunLandsFirst(v, scan, exec) == LandScan(LandExec(v, exec), scan)

Land(v, scan, exec) == LandExec(LandScan(v, scan), exec)

Start(machine, hands) ==
  [machine |-> machine, scanning |-> FALSE, reported |-> TRUE, screen |-> "dashboard", typing |-> FALSE,
   query |-> FALSE, log |-> FALSE, log_scroll |-> 0, help |-> FALSE, exec |-> "none", hidden |-> FALSE,
   kind |-> "update", failed |-> FALSE, why |-> FALSE, migrate |-> FALSE, staged |-> FALSE, armed |-> FALSE,
   history_focus |-> "runs", dash_focus |-> "sources", dash |-> 0, updates_scroll |-> 0, overlap |-> 0,
   orphan |-> 0, run |-> 0, detail |-> 0, quit |-> FALSE, hands |-> hands]

\* A warm cache opens on its numbers, a cold one on a scan.
Init == \E machine \in Machines, hands \in Hands, cold \in BOOLEAN :
          ui = [Start(machine, hands) EXCEPT !.scanning = cold, !.reported = ~cold]

Tick == \/ \E scan \in ScanEvents : ui' = LandScan(ui, scan)
        \/ \E exec \in ExecEvents : ui' = LandExec(ui, exec)
Key == \E key \in ui.hands : ui' = Press(ui, key)
Next == ~ui.quit /\ (Tick \/ Key)

-----------------------------------------------------------------------------
(* What a running command hears, and what the footers and the log show.    *)

\* A key is [ctrl, char, name]: a character by its number, or a named key.
Named ==
  "enter" :> <<13>> @@ "backspace" :> <<127>> @@ "tab" :> <<9>> @@ "esc" :> <<27>>
  @@ "up" :> <<27, 91, 65>> @@ "down" :> <<27, 91, 66>> @@ "right" :> <<27, 91, 67>> @@ "left" :> <<27, 91, 68>>
  @@ "home" :> <<27, 91, 72>> @@ "end" :> <<27, 91, 70>> @@ "delete" :> <<27, 91, 51, 126>>
  @@ "pageup" :> <<27, 91, 53, 126>> @@ "pagedown" :> <<27, 91, 54, 126>>

\* Crossterm reads the bytes 28 to 31 as Ctrl-4 to Ctrl-7.
High == (52 :> 28) @@ (92 :> 28) @@ (53 :> 29) @@ (93 :> 29) @@ (54 :> 30) @@ (94 :> 30) @@ (55 :> 31) @@ (95 :> 31)
to_lower(c) == IF c \in 65..90 THEN c + 32 ELSE c
Control(c) == IF c \in 97..122 THEN <<c - 96>> ELSE IF c \in DOMAIN High THEN <<High[c]>> ELSE <<>>
encode_utf8(c) == IF c < 128 THEN <<c>> ELSE <<192 + c \div 64, 128 + (c % 64)>>

\* Mutant of encode_key: Ctrl and an arrow moves as the arrow alone.
CtrlForgotten(key) ==
  IF key.name # "" THEN Get(Named, key.name, <<>>)
  ELSE IF key.ctrl THEN Control(to_lower(key.char)) ELSE encode_utf8(key.char)

encode_key(key) ==
  IF key.name # "" THEN (IF key.ctrl THEN <<>> ELSE Get(Named, key.name, <<>>))
  ELSE IF key.ctrl THEN Control(to_lower(key.char)) ELSE encode_utf8(key.char)

\* The dashboard's hints in display order: the rank they drop by, the width.
dashboard_hints ==
  LET Hint(rank, width) == [rank |-> rank, width |-> width]
  IN  <<Hint(5, 8), Hint(7, 8), Hint(4, 14), Hint(3, 12), Hint(0, 8), Hint(6, 9),
        Hint(8, 10), Hint(9, 9), Hint(10, 9), Hint(11, 5), Hint(1, 6), Hint(2, 6)>>
HINT_SEP == 5
Drawn(row) == FoldLeft(LAMBDA n, h : n + h.width, HINT_SEP * AtLeast0(Len(row) - 1), row)

\* Mutant of wrap_hints: counts the hints and not the bullets between them.
WrapWithoutBullets(hints, width) ==
  LET Used(row) == FoldLeft(LAMBDA n, h : n + h.width, 0, row)
      Add(rows, hint) ==
        IF hint.width > width THEN rows
        ELSE IF rows # <<>> /\ Used(Append(Last(rows), hint)) <= width
             THEN Append(Front(rows), Append(Last(rows), hint))
             ELSE Append(rows, <<hint>>)
  IN  FoldLeft(Add, <<>>, hints)

wrap_hints(hints, width) ==
  LET Add(rows, hint) ==
        IF hint.width > width THEN rows
        ELSE IF rows # <<>> /\ Drawn(Append(Last(rows), hint)) <= width
             THEN Append(Front(rows), Append(Last(rows), hint))
             ELSE Append(rows, <<hint>>)
  IN  FoldLeft(Add, <<>>, hints)

\* The best ranked hints, as many as there are rows for.
fit_hints(ranked, width, max_rows) ==
  LET Best(n) == wrap_hints(SelectSeq(ranked, LAMBDA h : h.rank < n), width)
      Fits == {n \in 0..Len(ranked) : Len(Best(n)) <= max_rows}
  IN  Best(CHOOSE n \in Fits : \A m \in Fits : m <= n)

\* The console's screen inside its panel, and the size its pty is given.
exec_pty_size(width, height) ==
  [rows |-> IF height - 3 < 2 THEN 2 ELSE height - 3, cols |-> IF width - 4 < 20 THEN 20 ELSE width - 4]
draw_exec(width, height) ==
  LET inner == [rows |-> height - 2, cols |-> width - 2 - 2] IN [inner EXCEPT !.rows = @ - 1]

\* Mutant of draw_log: subtracts the window from what is below it.
LogFromTheStart(total, height, scroll) ==
  LET top == AtLeast0(total - height - scroll)
  IN  [top |-> top, below |-> AtLeast0(total - top) - height]

\* The first line the log viewer shows, and how many it says are below.
draw_log(total, height, scroll) ==
  LET top == AtLeast0(AtLeast0(total - height) - scroll)
  IN  [top |-> top, below |-> AtLeast0(total - (top + height))]

-----------------------------------------------------------------------------
(* Properties.                                                             *)

\* A key is read for the screen the reader sees, whatever landed since it was
\* drawn, unless what landed is the end of the run (draw, input_mode).
KeysMeetTheirScreen ==
  /\ draw(ui) = IF input_mode(ui) = "filter" THEN "packages" ELSE input_mode(ui)
  /\ \A scan \in ScanEvents, exec \in ExecEvents :
       input_mode(Land(ui, scan, exec)) = input_mode(ui) \/ (ui.exec = "running" /\ exec # "none")

\* How far a screen is from the dashboard: the layers over it, and its own.
Depth(v) ==
  LET Deep(there) == IF there THEN 1 ELSE 0
      Own == CASE v.screen = "dashboard" -> 0
               [] v.screen = "packages" -> 1 + Deep(v.query) + Deep(v.typing)
               [] v.screen = "overlaps" -> 1 + Deep(v.armed) + Deep(v.migrate)
               [] v.screen = "cleanup" -> 1 + Deep(v.why)
               [] v.screen = "history" -> 1 + Deep(v.history_focus = "packages")
  IN  Own + 10 * Deep(v.help) + 20 * Deep(v.log) + 40 * Deep(v.exec # "none" /\ ~v.hidden)

\* Esc goes one layer back from wherever the reader is, and never leaves the
\* program or starts or ends a run; on the dashboard it does nothing.
EscLeadsHome ==
  LET after == Press(ui, "esc")
      Back1 == /\ IF Depth(ui) = 0 THEN after = ui ELSE Depth(after) < Depth(ui)
               /\ after.quit = ui.quit /\ after.exec = ui.exec
  IN  ui.exec # "done" /\ ~ui.quit => Back1

\* What is typed into the filter changes the filter and nothing else.
TypingOnlyFilters ==
  input_mode(ui) = "filter" =>
    \A key \in Chars : Press(ui, key) = [ui EXCEPT !.query = TRUE]

\* Every cursor is on a row its list has, after any rescan.
CursorsAreOnRows ==
  LET On(cursor, rows) == cursor = 0 \/ cursor \in 1..rows - 1
  IN  /\ On(ui.dash, Sources(ui)) /\ On(ui.updates_scroll, updates_pane_rows(ui))
      /\ On(ui.overlap, ui.machine.overlaps) /\ On(ui.orphan, ui.machine.orphans)
      /\ On(ui.run, Len(Runs)) /\ On(ui.detail, history_detail_rows(ui)) /\ On(ui.log_scroll, LogLines)

\* The `u` that is to show a hidden run never starts another: not when the run
\* ends just before it is read (a run that failed to start left nothing to show).
ShowNeverStarts ==
  Hidden(ui) =>
    \A scan \in ScanEvents, exec \in ExecEvents \ {"failed to start"} :
      input_mode(ui) = "dashboard" =>
        LET landed == Land(ui, scan, exec)
        IN  ~(landed.exec = "none" /\ Press(landed, "u").exec = "running")

KeysDoWhatIsSeen ==
  KeysMeetTheirScreen /\ EscLeadsHome /\ TypingOnlyFilters /\ CursorsAreOnRows /\ ShowNeverStarts

\* What is typed at a running command reaches it as a terminal would send it:
\* two keys are told apart unless a terminal cannot, and only Ctrl and a letter
\* or its like sends a control byte that is no key of its own (encode_key).
KeysAreToldApart(k1, k2) ==
  LET Sent(k) == encode_key(k)
      Aliases == \/ k1.ctrl /\ k2.ctrl
                 \/ {Sent(k1), Sent(k2)} \in {{<<9>>}, {<<13>>}}
  IN  /\ k1 # k2 /\ Sent(k1) # <<>> /\ Sent(k1) = Sent(k2) => Aliases
      /\ Sent(k1) = <<3>> => k1.ctrl /\ to_lower(k1.char) = 99
      /\ Sent(k1) = <<28>> => k1.ctrl /\ k1.char \in {52, 92}
      /\ IsStrictPrefix(Sent(k1), Sent(k2)) => Sent(k1) \in {<<>>, <<27>>}

\* The footer shows the best hints there is room for, whole and in one order; a
\* wider one shows no fewer (once the widest fits), and `u` and `?` go last
\* (dashboard_key_rows).
HintsFit(width, max_rows) ==
  LET rows == fit_hints(dashboard_hints, width, max_rows)
      Shown(rs) == UNION {ToSet(rs[i]) : i \in DOMAIN rs}
      Lost == ToSet(dashboard_hints) \ Shown(rows)
  IN  /\ Len(rows) <= max_rows /\ \A i \in DOMAIN rows : rows[i] # <<>> /\ Drawn(rows[i]) <= width
      /\ FlattenSeq(rows) = SelectSeq(dashboard_hints, LAMBDA h : h \in Shown(rows))
      /\ \A gone \in Lost, kept \in Shown(rows) : gone.width <= width => kept.rank < gone.rank
      /\ width >= 14 => Shown(rows) \subseteq Shown(fit_hints(dashboard_hints, width + 1, max_rows))
      /\ width >= 19 /\ max_rows >= 1 => {0, 1} \subseteq {h.rank : h \in Shown(rows)}

\* Nothing of the log is out of reach: it opens at its end, scrolls to its
\* first line, and says how much is below; the console's screen is as large as
\* the room it is drawn in (draw_log, exec_pty_size).
PanesShowAll(width, height, total) ==
  LET At(scroll) == draw_log(total, height, scroll)
  IN  /\ At(0).below = 0 /\ At(AtLeast0(total - 1)).top = 0
      /\ \A s \in 0..AtLeast0(total - 1) :
           /\ At(s).top <= At(s + 1).top + 1
           /\ At(s).top + AtMost(height, total - At(s).top) + At(s).below = total
      /\ width >= 40 /\ height >= 10 => exec_pty_size(width, height) = draw_exec(width, height)
=============================================================================
