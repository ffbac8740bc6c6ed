----------------------------- MODULE MCScreens -----------------------------
(***************************************************************************)
(* From the command line to the screens.  A behaviour is of one part, and  *)
(* the others are idle:                                                    *)
(*  - the board: two scans that land on the dashboard of machines of the   *)
(*    sizes that differ, with and without the aur source, and with an aur  *)
(*    source that lists packages but has no helper to update them;         *)
(*  - the console: two applications are installed twice; a scan may find   *)
(*    either, both in any order, or none, and change its mind about the    *)
(*    side to keep;                                                        *)
(*  - the package list of a machine whose scans find the few packages of   *)
(*    one source or the six of another, on terminals of three sizes;       *)
(*  - the keys of a reader;                                                *)
(*  - or one command line, configuration, start, directory of logs,        *)
(*    filter, width, pair of keys, footer or pane.                         *)
(***************************************************************************)
EXTENDS Console, Dashboard, Integers, FiniteSets

CONSTANT Parts  \* the parts to check

MCApps == {"firefox", "steam"}

Twice(a, d) == [app |-> a, toward |-> d]

MCLists ==
  {<<>>, <<Twice("steam", "to_native")>>,
   <<Twice("firefox", "to_flatpak"), Twice("steam", "to_native")>>,
   <<Twice("steam", "to_flatpak"), Twice("firefox", "to_flatpak")>>}

\* A source that is configured and has no lane is not installed.
MCSimple == {"flatpak"}
LOCAL Installed(lanes_, available_) == [lanes |-> lanes_, available |-> available_]
MCMachines ==
  { Installed({"pacman", "flatpak"}, {"pacman", "flatpak"}),
    Installed({"pacman", "aur"}, {"pacman", "aur"}),
    Installed({"pacman", "aur"}, {"pacman"}) }
MCEverything == { Installed(Sources, Sources) }

VARIABLES part, input, view, ui

Pacman == INSTANCE PassThrough
Begin == INSTANCE StartUp
Board == INSTANCE DashboardView

LOCAL Pkg(name, reason, size) ==
  [name |-> name, source |-> "pacman", scope |-> "None", runtime |-> FALSE, reason |-> reason, size |-> size,
   version |-> <<1, 2>>, letters |-> <<2, 2, 1>>, description |-> <<>>]
LOCAL F(name, scope, runtime) ==
  [Pkg(name, "unknown", 1) EXCEPT !.source = "flatpak", !.letters = <<1, 1, 1>>, !.scope = scope, !.runtime = runtime]

LOCAL FewPackages ==
  [packages |-> <<Pkg(<<1>>, "explicit", 2), F(<<1>>, "user", FALSE), F(<<1>>, "system", FALSE), F(<<2, 0, 1>>, "user", TRUE)>>,
   updates |-> {<<"flatpak", <<1>>>>}]
LOCAL ManyPackages ==
  [packages |-> <<Pkg(<<2, 2>>, "explicit", 1), Pkg(<<1>>, "unknown", 2), Pkg(<<2, 0, 1>>, "dependencies", 2),
                  [Pkg(<<2>>, "dependencies", 0) EXCEPT !.description = <<2, 1, 1>>, !.runtime = TRUE],
                  Pkg(<<1, 1>>, "explicit", 0), Pkg(<<1, 2>>, "unknown", 3)>>,
   updates |-> {<<"pacman", <<2>>>>, <<"pacman", <<1>>>>}]

\* The code keeps a margin of 4 rows, pages by 20, and gives the pane 7.
List ==
  INSTANCE PackageList
    WITH Scans <- {FewPackages, ManyPackages}, Chars <- {1, 2}, MaxQuery <- 3,
         Sizes <- {[height |-> 8, wide |-> TRUE], [height |-> 9, wide |-> TRUE], [height |-> 12, wide |-> FALSE]},
         SCROLL_MARGIN <- 1, PAGE <- 3, PANE <- 2

LOCAL Machine(updates, overlapping, orphaned) ==
  [updates |-> updates, overlaps |-> overlapping, orphans |-> orphaned]

\* One reader opens and closes everything, one moves on the dashboard, one in
\* the other screens.
Screens ==
  INSTANCE Navigation
    WITH Machines <- {Machine(<<>>, 0, 0), Machine(<<2, 0>>, 1, 1), Machine(<<3, 1>>, 2, 2)},
         Runs <- <<2, 3>>, LogLines <- 4,
         Hands <- {{"esc", "enter", "L", "?", "/", "u", "R", "x", "q", "o", "c", "H"},
                   {"down", "up", "right", "enter", "esc", "r", "o", "H"},
                   {"down", "up", "right", "pgdn", "esc", "c", "H", "L", "r"}}

LOCAL Typed ==
  [ctrl : BOOLEAN, char : {51, 52, 55, 67, 91, 92, 95, 97, 99, 104, 105, 109, 122, 233}, name : {""}]
  \cup [ctrl : BOOLEAN, char : {0},
        name : {"enter", "tab", "esc", "up", "delete", "backspace", "pageup", "home", "f1"}]
Bytes == Typed \X Typed
Footers == (0..140) \X (0..3)
Panes == {30, 40, 41, 80} \X (1..14) \X {0, 1, 5, 9, 10, 11, 30}

LOCAL Words(chars, min, max) == UNION {[1..n -> chars] : n \in min..max}
Filters == [query : Words({1, 2}, 0, 3), candidate : Words(0..2, 1, 4), other : Words({1, 2}, 1, 2)]
LOCAL Tables(available, beside, bias) ==
  [available : available, pane : {beside}, bias : bias,
   longest : {8, 12, 30, 70}, kind : BOOLEAN, pointer : 1..2, pane_max : {64}]
\* A pane is beside the table from 90 columns on, and only there moves.
Widths == Tables(90..100 \cup {120, 200}, TRUE, {-30, -6, 0, 6, 60}) \cup Tables(30..89, FALSE, {0})

Numbers == (20..80) \X (1..5) \X (1..3) \X {3, 7, 9}
LOCAL VersionsDrawn == (10..45) \X {1, 5, 12, 30} \X {3, 8, 20} \X {1, 3, 8, 20} \X {1, 2}
Scrolled == (0..6) \X (0..4)
LOCAL Attending(findings, busy, running) ==
  [sources |-> <<>>, scanning |-> busy, enabled |-> {}, locked |-> busy, findings |-> findings,
   hidden |-> running, last_run |-> running, note |-> running]
Attended ==
  {30, 55, 56, 100} \X (8..40) \X (0..10)
    \X {Attending(f, s, r) : f \in {{}, {"news", "orphans", "cache"}}, s \in BOOLEAN, r \in BOOLEAN}

InputsOf(p) ==
  CASE p = "pacman" -> Pacman!Lines [] p = "arguments" -> Begin!Lines
    [] p = "configuration" -> Begin!Texts [] p = "start" -> Begin!Starts
    [] p = "logs" -> Begin!Directories
    [] p = "filter" -> Filters [] p = "widths" -> Widths
    [] p = "bytes" -> Bytes [] p = "footer" -> Footers [] p = "panes" -> Panes
    [] p = "numbers" -> Numbers [] p = "versions" -> VersionsDrawn
    [] p = "updates" -> Scrolled [] p = "attention" -> Attended
Commands == {"pacman", "arguments", "configuration", "start", "logs", "filter", "widths", "bytes", "footer", "panes",
             "numbers", "versions", "updates", "attention"}

MCParts == {"board", "console", "list", "keys"} \cup Commands

LOCAL BoardIdle ==
  /\ BoardInit /\ job = "none" /\ owned = {} /\ machine = CHOOSE m \in Machines : TRUE

LOCAL ConsoleIdle == Init /\ overlaps = <<>> /\ ~rescanning

MCInit ==
  /\ part \in Parts
  /\ IF part = "board" THEN BoardInit ELSE BoardIdle
  /\ IF part = "console" THEN Init ELSE ConsoleIdle
  /\ IF part = "list" THEN List!Init ELSE view = <<>>
  /\ IF part = "keys" THEN Screens!Init ELSE ui = <<>>
  /\ IF part \in Commands THEN input \in InputsOf(part) ELSE input = <<>>

MCNext ==
  \/ part = "board" /\ BoardNext /\ UNCHANGED <<vars, part, input, view, ui>>
  \/ part = "console" /\ Next /\ UNCHANGED <<boardvars, part, input, view, ui>>
  \/ part = "list" /\ List!Next /\ UNCHANGED <<vars, boardvars, part, input, ui>>
  \/ part = "keys" /\ Screens!Next /\ UNCHANGED <<vars, boardvars, part, input, view>>

MCSpec == MCInit /\ [][MCNext]_<<vars, boardvars, part, input, view, ui>>
MCFairSpec == MCSpec /\ WF_boardvars(Land)

(***************************************************************************)
(* The board is what the screen is drawn from in each state.  A lane that  *)
(* fails says so before it reports; one of Simple then finds nothing.      *)
(***************************************************************************)
LOCAL MayFail ==
  {s \in lanes : s \in Simple \cap scan.last_scanned => scan.packages[s] = <<>> /\ scan.updates[s] = <<>>}
LOCAL OnScreen(failing) ==
  Board!SelectSeq(
    [i \in 1..3 |-> LET id == <<"pacman", "aur", "flatpak">>[i]
                    IN  [id |-> id, available |-> id \in machine.available, last_scanned |-> id \in scan.last_scanned,
                         scan_error |-> id \in failing, warned |-> id = "aur" /\ id \in enabled,
                         reason |-> IF id = "aur" THEN "no helper" ELSE ""]],
    LAMBDA row : row.id \in scan.sources)
LOCAL BoardOf(sources, chosen, locked) ==
  [sources |-> sources, installed |-> [s \in Sources |-> Len(scan.packages[s])],
   updates |-> [s \in Sources |-> Len(scan.updates[s])], scanning |-> scanning, carried |-> carried,
   enabled |-> enabled, selected |-> chosen, locked |-> locked, lanes |-> lanes,
   findings |-> IF owned = {} THEN {} ELSE {"orphans"}, hidden |-> locked, last_run |-> parts = {},
   note |-> sources[chosen].warned]

\* The screen says of each source, and of all of them, only what the scan on it
\* knows (draw::render_table, summary_line, render_updates_pane,
\* render_system_pane, App::rows).
BoardIsHonest ==
  part = "board" /\ scan.sources # {} =>
    \A failing \in SUBSET MayFail :
      LET sources == OnScreen(failing)
      IN  /\ Board!RowsAreHonest(BoardOf(sources, 1, FALSE))
          /\ \A chosen \in DOMAIN sources, locked \in BOOLEAN :
               Board!SummaryIsHonest(BoardOf(sources, chosen, locked))

\* What is called well or up to date was asked ("A source whose update check
\* has not come back is not up to date", draw.rs:775), however the scan ended.
OnlyTheCheckedAreWell ==
  part = "board" =>
    \A chosen \in DOMAIN OnScreen({}) :
      Board!OnlyTheCheckedAreWell(BoardOf(OnScreen({}), chosen, FALSE))

\* A command line is run as it was meant: what reaches pacman only installs or
\* upgrades, however pacman reads it; a configuration is used as far as it can
\* be; a start that fails changed nothing (cli::run, pacman::check,
\* config::load, logging::init).
CommandIsHeeded ==
  /\ part = "pacman" => Pacman!PassThroughIsSafe(input)
  /\ part = "arguments" => Begin!PacmanGetsItsOwn(input)
  /\ part = "configuration" => Begin!ConfigIsForgiving(input)
  /\ part = "start" => Begin!StartIsClean(input)
  /\ part = "logs" => Begin!RotationKeepsTheNewest(input)

\* The package list shows the source's packages around the selected one, where
\* the pane is beside it; the filter finds what is asked for; the table and the
\* pane share the width (App::grouped, scrolloff, fuzzy, draw::pkg_geometry).
\* A key does on each screen what that screen says, and a running command hears
\* it as typed (run_loop, read_action, input, draw).  No number or version is
\* cut where it could be misread, and what is below can be reached.
ScreensAreTrue ==
  /\ part = "list" => List!ListIsShown
  /\ part = "filter" => List!FilterFinds(input)
  /\ part = "widths" => List!WidthIsShared(input)
  /\ part = "keys" => Screens!KeysDoWhatIsSeen
  /\ part = "bytes" => Screens!KeysAreToldApart(input[1], input[2])
  /\ part = "footer" => Screens!HintsFit(input[1], input[2])
  /\ part = "panes" => Screens!PanesShowAll(input[1], input[2], input[3])
  /\ part = "numbers" => Board!NumbersAreWhole(input[1], input[2], input[3], input[4])
  /\ part = "versions" => Board!VersionIsWhole(input[1], input[2], input[3], input[4], input[5])
  /\ part = "updates" => Board!UpdatesCanBeRead(input[1], input[2])
  /\ part = "attention" => Board!AttentionIsSeen(input[1], input[2], input[3], input[4])

\* draw.rs: "the selected row is always inside that window".
SelectedRowInWindow == part = "list" => List!SelectedRowInWindow
=============================================================================
