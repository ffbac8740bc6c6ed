----------------------------- MODULE UpdateRun -----------------------------
(***************************************************************************)
(* One picture of a pacman run, folded from two streams that are read at   *)
(* different times: the lines pacman settles on its screen (the pty) and   *)
(* the lines it appends to pacman.log (src/update_view/model.rs).  Each    *)
(* stream keeps its own order; between them any interleaving can be read,  *)
(* since live.rs drains the pty, then reads the log, every 50 ms.  The run *)
(* is a record, and a method that takes `&mut self` is an operator from    *)
(* the run before to the run after.                                        *)
(***************************************************************************)
EXTENDS Integers, Sequences, FiniteSets, SequencesExt

CONSTANTS
    Feeds,      \* what pacman may write: [screen, log, exit, facts]
    Rebuilds    \* the hook files and descriptions that say they rebuild

None == "None"
NoTotal == -1

\* The kinds of phase, in the order pacman goes through them.
PHASES == <<"Sync", "Plan", "Download", "Checks", "PreHooks", "Packages", "PostHooks">>
PhaseKind == ToSet(PHASES)
HookKind == {"PreHooks", "PostHooks"}
idx(k) == CHOOSE i \in DOMAIN PHASES : PHASES[i] = k

-----------------------------------------------------------------------------
(* What pacman writes.  A line on the screen is what the classifier made of *)
(* it; one that no classifier knew is its text, "" of a blank one.  A row   *)
(* of the plan names its package, and its sizes and versions are left out, *)
(* as those of its totals are.                                              *)

Names == {n \in SUBSET STRING : IsFiniteSet(n)}
Text == [word : STRING, means : STRING, names : Names, indented : BOOLEAN]

ScreenEvent ==
    [type : {"SyncStart", "UpgradeStart", "NothingToDo", "PlanTotal", "RetrieveStart", "Processing"}
              \cup HookKind]
    \cup [type : {"Warning", "Error", "Pacnew", "Other"}, text : Text]
    \cup [type : {"Db"}, name : STRING, text : Text]
    \cup [type : {"PlanHeader"}, count : Nat]
    \cup [type : {"PlanNames", "PlanRow"}, names : Names]
    \cup [type : {"Prompt"}, text : STRING]
    \cup [type : {"DownloadTotal"}, done : Nat, total : Nat]
    \cup [type : {"Check", "Optdepends"}, name : STRING]
    \cup [type : {"Hook"}, index : Nat, total : Nat, desc : STRING]
    \cup [type : {"Package"}, index : Nat, total : Nat, name : STRING, full : BOOLEAN]

LogEvent ==
    [type : {"RunStart", "TxStarted", "TxCompleted", "Other"}]
    \cup [type : {"HookRunning"}, file : STRING]
    \cup [type : {"Package"}, name : STRING]

\* A hook as pacman runs it, and what it prints beside pacman's own lines.
Hook == [file : STRING, desc : STRING, prints : Seq(Text)]

\* What a run writes, and what is true of it: its hooks, the words they print,
\* and whether it changed the system.
Feed ==
    [ screen : Seq(ScreenEvent), log : Seq(LogEvent), exit : STRING,
      facts : [PreHooks : Seq(Hook), PostHooks : Seq(Hook), words : SUBSET STRING,
               changed : BOOLEAN] ]

\* Line i of the screen is in the section that k opened.
InSection(screen, i, k) ==
    \E h \in 1..(i - 1) :
        /\ screen[h].type = k
        /\ \A j \in (h + 1)..(i - 1) : screen[j].type \notin HookKind \cup {"Processing"}

Shows(events, types) == \E i \in DOMAIN events : events[i].type \in types
ShownBefore(events, i, types) == \E j \in 1..(i - 1) : events[j].type \in types

\* Line h begins a hook of section k, and line i comes before the next one.
Begins(screen, h, k) == screen[h].type = "Hook" /\ InSection(screen, h, k)
Under(screen, i, h) ==
    h < i /\ \A j \in (h + 1)..i : screen[j].type \notin HookKind \cup {"Processing", "Hook"}

\* A line no classifier knew, that is not one pacman prints itself.
Prints(ev) == ev.type \in {"Other", "Db"} /\ ev.text.means # "quiet"

\* Line i of the log names a hook of section k: one that runs before the
\* transaction or after it.
NamesHook(log, i, k) ==
    /\ log[i].type = "HookRunning"
    /\ IF k = "PostHooks" THEN ShownBefore(log, i, {"TxCompleted"})
       ELSE ~ShownBefore(log, i, {"TxStarted", "TxCompleted"})

\* pacman downloads forward, logs a run that it logs from its start, and changes
\* nothing outside a transaction.
RunOK(f) ==
    /\ \A i, j \in DOMAIN f.screen :
          i < j /\ {f.screen[i].type, f.screen[j].type} = {"DownloadTotal"}
              => f.screen[i].done <= f.screen[j].done
    /\ Shows(f.screen, {"Package"}) \/ Shows(f.log, {"TxStarted"}) => f.facts.changed
    /\ f.facts.changed /\ f.log # <<>> => Shows(f.log, {"TxStarted"})
    /\ f.log # <<>> => Shows(f.log, {"RunStart", "TxStarted", "TxCompleted"})

\* pacman runs the hooks of a section in order and numbers them on the screen;
\* what one prints comes before the next begins, with no list of pacman's own
\* in it, and its words are printed by nothing else.
ScreenOK(f) ==
    /\ \A k \in HookKind : \A h \in DOMAIN f.screen : Begins(f.screen, h, k) =>
          LET begun == f.screen[h]
              hook == f.facts[k][begun.index]
              upto(i) == Cardinality({j \in (h + 1)..i : Prints(f.screen[j])})
          IN  /\ begun.index \in 1..begun.total /\ begun.total = Len(f.facts[k])
              /\ begun.desc = hook.desc
              /\ \A g \in 1..(h - 1) : Begins(f.screen, g, k) => f.screen[g].index < begun.index
              /\ \A i \in DOMAIN f.screen : Under(f.screen, i, h) =>
                    /\ f.screen[i].type \notin {"PlanNames", "Optdepends"}
                    /\ Prints(f.screen[i]) => /\ upto(i) \in DOMAIN hook.prints
                                              /\ f.screen[i].text = hook.prints[upto(i)]
    /\ \A i \in DOMAIN f.screen :
          f.screen[i].type \in {"Other", "Db"} /\ f.screen[i].text.word \in f.facts.words =>
              /\ Prints(f.screen[i])
              /\ \E k \in HookKind : \E h \in 1..i :
                    Begins(f.screen, h, k) /\ Under(f.screen, i, h)

\* The log names the hooks of a section in order, each by a file of its own.
LogOK(f) ==
    \A k \in HookKind :
        /\ \A i \in DOMAIN f.log : NamesHook(f.log, i, k) =>
              LET n == Cardinality({j \in 1..i : NamesHook(f.log, j, k)})
              IN  n \in DOMAIN f.facts[k] /\ f.log[i].file = f.facts[k][n].file
        /\ \A i, j \in DOMAIN f.facts[k] :
              /\ f.facts[k][i].file # None
              /\ i # j => f.facts[k][i].file # f.facts[k][j].file

FeedsOK ==
    /\ Feeds \subseteq Feed /\ None \notin Rebuilds
    /\ \A f \in Feeds : RunOK(f) /\ ScreenOK(f) /\ LogOK(f)

-----------------------------------------------------------------------------
VARIABLES
    feed,       \* what pacman writes in this run
    screen_read, log_read,  \* how much of each has been applied
    run         \* the folded picture

runvars == <<feed, screen_read, log_read, run>>

Larger(a, b) == IF a >= b THEN a ELSE b

NoHook == [desc |-> None, file |-> None, started |-> FALSE, ended |-> FALSE, notes |-> <<>>]

New ==
    [ phases |-> [k \in PhaseKind |-> [state |-> "Pending", done |-> 0, total |-> NoTotal,
                                       detail |-> None]],
      dbs |-> {}, packages |-> {}, done |-> {}, prompt |-> None,
      hooks |-> [k \in HookKind |-> <<>>], named |-> [k \in HookKind |-> 0],
      notes |-> <<>>, lines |-> <<>>, unknown |-> {}, warning_at |-> {},
      log_seen |-> FALSE, tx_started |-> FALSE, tx_completed |-> FALSE,
      finished |-> FALSE, exit |-> None, saw_package |-> FALSE,
      screen_hook |-> 0, screen_section |-> None, optdeps_for |-> None, in_names |-> FALSE ]

----------------------------------------------------------------------------
\* Phases.

current(r) ==
    LET running == {i \in DOMAIN PHASES : r.phases[PHASES[i]].state = "Running"}
    IN  IF running = {} THEN None ELSE PHASES[CHOOSE i \in running : \A j \in running : j <= i]

Started(hooks) == Cardinality({i \in DOMAIN hooks : hooks[i].started})

\* Every hook of the sequence the screen began is over.
Closed(hooks) == [i \in DOMAIN hooks |-> [hooks[i] EXCEPT !.ended = @ \/ hooks[i].started]]

\* Mutant of end_running: forgets the counts of the phases it ends.
EndAtTheStarted(r, upto) ==
    LET ending == {k \in PhaseKind : idx(k) < upto /\ r.phases[k].state = "Running"}
    IN  [r EXCEPT
          !.hooks = [k \in HookKind |-> IF k \in ending THEN Closed(r.hooks[k]) ELSE r.hooks[k]],
          !.phases = [k \in PhaseKind |->
              IF k \notin ending THEN r.phases[k]
              ELSE [r.phases[k] EXCEPT !.state = "Done",
                                       !.done = IF k \in HookKind THEN Started(r.hooks[k]) ELSE 0]]]

\* The phases before place `upto` that still run are done, with their hooks.
end_running(r, upto) ==
    LET ending == {k \in PhaseKind : idx(k) < upto /\ r.phases[k].state = "Running"}
        counted(k) == Larger(Larger(r.phases[k].done, Started(r.hooks[k])), r.phases[k].total)
    IN  [r EXCEPT
          !.hooks = [k \in HookKind |-> IF k \in ending THEN Closed(r.hooks[k]) ELSE r.hooks[k]],
          !.phases = [k \in PhaseKind |->
              IF k \notin ending THEN r.phases[k]
              ELSE [r.phases[k] EXCEPT !.state = "Done",
                                       !.done = IF k \in HookKind THEN counted(k) ELSE @]]]

\* Mutant of enter: asks only whether this phase was reached, not whether a
\* later one was.
EnterAnyway(r, kind) ==
    IF r.phases[kind].state # "Pending" THEN r
    ELSE [end_running(r, idx(kind)) EXCEPT !.phases[kind].state = "Running"]

\* A phase already reached, or passed, is left alone.
enter(r, kind) ==
    IF \E i \in idx(kind)..Len(PHASES) : r.phases[PHASES[i]].state # "Pending" THEN r
    ELSE [end_running(r, idx(kind)) EXCEPT !.phases[kind].state = "Running"]

----------------------------------------------------------------------------
\* Hooks and what they print.  A text is [word, means, names, indented].

hook_note_kind(t, h) ==
    CASE t.means = "snapshot" -> "Snapshot"
      [] t.means = "reboot" -> "Reboot"
      [] t.means \notin {"snapshot", "reboot"} /\ {h.file, h.desc} \cap Rebuilds # {} -> "Rebuild"
      [] OTHER -> "Plain"

note(r, kind, text) == [r EXCEPT !.notes = Append(@, [kind |-> kind, text |-> text])]

\* Mutant of unclaimed: takes every line with the text, not one for each note.
UnclaimedByAny(unknown, notes, again) ==
    LET claims(w) == {n \in DOMAIN notes :
                        /\ notes[n].text.word = w
                        /\ notes[n].kind = "Plain" /\ again[n].kind # "Plain"}
    IN  {u \in unknown : claims(u.text.word) = {}}

\* The unknown lines without those whose note is no longer Plain: each note
\* takes the last line left with its text.
unclaimed(unknown, notes, again) ==
    LET claims(w) == {n \in DOMAIN notes :
                        /\ notes[n].text.word = w
                        /\ notes[n].kind = "Plain" /\ again[n].kind # "Plain"}
        behind(u) == {v \in unknown : v.text.word = u.text.word /\ v.at >= u.at}
    IN  {u \in unknown : Cardinality(behind(u)) > Cardinality(claims(u.text.word))}

\* Hook i of the list learned its file or its description: its notes are read
\* again, and one no longer Plain leaves `unknown`.
reclassify(r, kind, i) ==
    LET h == r.hooks[kind][i]
        again == [n \in DOMAIN h.notes |->
                    [h.notes[n] EXCEPT !.kind = hook_note_kind(h.notes[n].text, h)]]
    IN  [r EXCEPT !.hooks[kind][i].notes = again, !.unknown = unclaimed(@, h.notes, again)]

\* The list with at least i hooks.
hook_at(list, i) == [n \in 1..Larger(i, Len(list)) |-> IF n <= Len(list) THEN list[n] ELSE NoHook]

screen_hook_line(r, index, total, desc) ==
    LET kind == r.screen_section
        list == hook_at([j \in DOMAIN r.hooks[kind] |->
                            IF j < index /\ r.hooks[kind][j].started
                            THEN [r.hooks[kind][j] EXCEPT !.ended = TRUE] ELSE r.hooks[kind][j]],
                        index)
        seen == reclassify([r EXCEPT !.hooks[kind] =
                              [list EXCEPT ![index].desc = desc, ![index].started = TRUE]],
                           kind, index)
    IN  IF index = 0 \/ kind = None THEN r
        ELSE [seen EXCEPT !.screen_hook = index,
                          !.phases[kind].done = Larger(@, index - 1),
                          !.phases[kind].total = total]

add_names(r, names) ==
    LET all == r.packages \cup names
    IN  [r EXCEPT !.packages = all, !.phases["Plan"].done = Cardinality(all)]

\* A file row of a planned package, while the download runs.
download_row(r, t) ==
    current(r) = "Download" /\ t.means = "file" /\ t.names # {} /\ t.names \subseteq r.packages

unknown_line(r, t) == [r EXCEPT !.unknown = @ \cup {[text |-> t, at |-> Len(r.lines)]}]

\* A line no classifier knew: a piece of what came before it (a blank one is of
\* a list of names, without any), quiet, what the hook the screen is in prints,
\* or unknown.
other(r, t) ==
    LET kind == r.screen_section
        i == r.screen_hook
        shut == [r EXCEPT !.optdeps_for = None]
        told == [shut EXCEPT !.in_names = FALSE]
        dependency == r.optdeps_for # None /\ t.indented
        listed == r.in_names /\ (t.means = "names" \/ t.word = "")
        quiet == t.means = "quiet" \/ download_row(told, t)
        hooked == kind # None /\ i \in 1..Len(r.hooks[kind])
        k == hook_note_kind(t, r.hooks[kind][i])
        noted == [told EXCEPT !.hooks[kind][i].notes = Append(@, [kind |-> k, text |-> t])]
    IN  CASE dependency -> note(r, "Optdepends", t)
          [] ~dependency /\ listed -> add_names(shut, t.names)
          [] ~dependency /\ ~listed /\ quiet -> told
          [] ~dependency /\ ~listed /\ ~quiet /\ ~hooked -> unknown_line(told, t)
          [] OTHER -> IF k = "Plain" THEN unknown_line(noted, t) ELSE noted

----------------------------------------------------------------------------
\* One settled screen line, and one pacman.log line.

\* Mutant of apply_check: counts a check each time its row is looked at.
CheckCounted(r, name) ==
    LET in == enter(r, "Checks")
    IN  [in EXCEPT !.phases["Checks"].done = @ + 1, !.phases["Checks"].detail = name]

apply_check(r, name) ==
    LET in == enter(r, "Checks")
    IN  [in EXCEPT !.phases["Checks"].done = IF in.phases["Checks"].detail = name THEN @ ELSE @ + 1,
                   !.phases["Checks"].detail = name]

\* PreHooks, PostHooks and Processing open a section of the screen.
apply_section(r, kind) ==
    [enter(r, kind) EXCEPT !.screen_section = IF kind \in HookKind THEN kind ELSE None,
                           !.screen_hook = 0]

apply_package(r, ev) ==
    [enter(r, "Packages") EXCEPT
        !.saw_package = TRUE, !.packages = @ \cup {ev.name},
        !.done = IF ev.full THEN @ \cup {ev.name} ELSE @,
        !.phases["Packages"].done = Larger(@, ev.index),
        !.phases["Packages"].total = ev.total]

apply_screen(r0, ev) ==
    LET r == IF ev.type = "Other" THEN r0
             ELSE [r0 EXCEPT !.optdeps_for = None, !.in_names = ev.type = "PlanNames"]
    IN  CASE ev.type = "SyncStart" -> enter(r, "Sync")
          [] ev.type = "Db" -> [r EXCEPT !.dbs = @ \cup {ev.name},
                                         !.phases["Sync"].done = Cardinality(r.dbs \cup {ev.name})]
          [] ev.type \in {"UpgradeStart", "NothingToDo"} -> enter(r, "Plan")
          [] ev.type = "Warning" -> [note(r, "Warning", ev.text) EXCEPT
                                        !.warning_at = @ \cup {Len(r.lines)}]
          [] ev.type = "Error" -> note(r, "Error", ev.text)
          [] ev.type = "Pacnew" -> note(r, "Pacnew", ev.text)
          [] ev.type = "PlanHeader" -> [enter(r, "Plan") EXCEPT !.phases["Plan"].total = ev.count]
          [] ev.type \in {"PlanNames", "PlanRow"} -> add_names(r, ev.names)
          [] ev.type = "PlanTotal" -> r
          [] ev.type = "Prompt" -> [r EXCEPT !.prompt = ev.text]
          [] ev.type = "RetrieveStart" ->
                [enter(r, "Download") EXCEPT !.phases["Download"].total =
                    IF r.packages = {} THEN NoTotal ELSE Cardinality(r.packages)]
          [] ev.type = "DownloadTotal" ->
                [enter(r, "Download") EXCEPT !.phases["Download"].done = ev.done,
                                             !.phases["Download"].total = ev.total]
          [] ev.type = "Check" -> apply_check(r, ev.name)
          [] ev.type \in HookKind -> apply_section(r, ev.type)
          [] ev.type = "Processing" -> apply_section(r, "Packages")
          [] ev.type = "Hook" -> screen_hook_line(r, ev.index, ev.total, ev.desc)
          [] ev.type = "Package" -> apply_package(r, ev)
          [] ev.type = "Optdepends" -> [r EXCEPT !.optdeps_for = ev.name]
          [] ev.type = "Other" -> other(r, ev.text)

\* A database line is one only while the databases are synchronised: read
\* after the log moved the run on, it is a line like any other.
apply_line(r, ev) ==
    apply_screen([r EXCEPT !.lines = Append(@, ev)],
                 IF ev.type = "Db" /\ current(r) # "Sync" THEN [ev EXCEPT !.type = "Other"] ELSE ev)

\* Mutant of log_hook: adds a hook instead of naming the one the screen began.
LogHookNext(r, file) ==
    LET kind == IF r.tx_completed THEN "PostHooks" ELSE "PreHooks"
        i == r.named[kind] + 1
    IN  IF \E j \in DOMAIN r.hooks[kind] : r.hooks[kind][j].file = file
        THEN r
        ELSE reclassify([r EXCEPT !.named[kind] = i,
                                  !.hooks[kind] = Append(@, [NoHook EXCEPT !.file = file])],
                        kind, Len(r.hooks[kind]) + 1)

\* Mutant of log_hook: names a hook without reading its notes again.
LogHookUnread(r, file) ==
    LET kind == IF r.tx_completed THEN "PostHooks" ELSE "PreHooks"
        i == r.named[kind] + 1
    IN  IF \/ r.tx_started /\ ~r.tx_completed
           \/ \E j \in DOMAIN r.hooks[kind] : r.hooks[kind][j].file = file
        THEN r
        ELSE [r EXCEPT !.named[kind] = i,
                       !.hooks[kind] = [hook_at(@, i) EXCEPT ![i].file = file]]

\* The log names the hooks in the order they run, each file once per list;
\* between the transaction's start and its end it names none that counts.
log_hook(r, file) ==
    LET kind == IF r.tx_completed THEN "PostHooks" ELSE "PreHooks"
        i == r.named[kind] + 1
    IN  IF \/ r.tx_started /\ ~r.tx_completed
           \/ \E j \in DOMAIN r.hooks[kind] : r.hooks[kind][j].file = file
        THEN r
        ELSE reclassify([r EXCEPT !.named[kind] = i,
                                  !.hooks[kind] = [hook_at(@, i) EXCEPT ![i].file = file]],
                        kind, i)

apply_log(r0, ev) ==
    LET r == [r0 EXCEPT !.log_seen = @ \/ ev.type \in {"RunStart", "TxStarted", "TxCompleted"}]
    IN  CASE ev.type = "TxStarted" -> enter([r EXCEPT !.tx_started = TRUE], "Packages")
          [] ev.type = "TxCompleted" -> enter([r EXCEPT !.tx_completed = TRUE], "PostHooks")
          [] ev.type = "HookRunning" -> log_hook(r, ev.file)
          [] ev.type = "Package" -> [r EXCEPT !.packages = @ \cup {ev.name},
                                              !.done = @ \cup {ev.name}]
          [] ev.type \in {"RunStart", "Other"} -> r

\* Mutant of finish: ends the phases that run, and not the hooks of those
\* already passed.
FinishWithoutHooks(r, exit) ==
    [end_running(r, Len(PHASES) + 1) EXCEPT !.finished = TRUE, !.exit = exit]

\* pacman is gone and both streams are read to their ends.
finish(r, exit) ==
    LET over == end_running(r, Len(PHASES) + 1)
        settled(n) == IF n.kind \in {"Error", "ErrorRecovered"}
                      THEN [n EXCEPT !.kind = IF exit = "0" THEN "ErrorRecovered" ELSE "Error"]
                      ELSE n
    IN  [over EXCEPT
          !.finished = TRUE, !.exit = exit,
          !.hooks = [k \in HookKind |-> Closed(over.hooks[k])],
          !.phases = [k \in PhaseKind |->
              IF k \in HookKind
              THEN [over.phases[k] EXCEPT !.done = Larger(@, Started(over.hooks[k]))]
              ELSE over.phases[k]],
          !.notes = [i \in DOMAIN over.notes |-> settled(over.notes[i])]]

\* Mutant of outcome: takes a run that showed no package for one that changed
\* nothing.
OutcomeByPackages(r) ==
    CASE ~r.finished -> "Running"
      [] r.finished /\ r.exit = "0" /\ ~r.saw_package -> "NothingChanged"
      [] r.finished /\ r.exit = "0" /\ r.saw_package -> "Succeeded"
      [] OTHER -> "Failed"

outcome(r) ==
    CASE ~r.finished -> "Running"
      [] r.finished /\ r.exit = "0" /\ r.log_seen /\ ~r.tx_started -> "NothingChanged"
      [] r.finished /\ r.exit = "0" /\ (r.log_seen => r.tx_started)
            /\ (r.log_seen \/ r.saw_package) -> "Succeeded"
      [] r.finished /\ r.exit = "0" /\ ~r.log_seen /\ ~r.saw_package -> "Unknown"
      [] OTHER -> "Failed"

\* The place of every note a hook made, and the note there.
HookNotes(r) ==
    UNION {UNION {{<<k, i, n>> : n \in DOMAIN r.hooks[k][i].notes} : i \in DOMAIN r.hooks[k]} :
             k \in HookKind}
NoteAt(r, x) == r.hooks[x[1]][x[2]].notes[x[3]]

----------------------------------------------------------------------------
RunInit ==
    /\ feed \in Feeds
    /\ screen_read = 0 /\ log_read = 0
    /\ run = New

Settle ==
    /\ ~run.finished /\ screen_read < Len(feed.screen)
    /\ run' = apply_line(run, feed.screen[screen_read + 1])
    /\ screen_read' = screen_read + 1
    /\ UNCHANGED <<feed, log_read>>

\* A check pacman is still drawing is seen on its live row, before its line
\* settles; only where a check can be.
Observe ==
    /\ ~run.finished /\ screen_read < Len(feed.screen)
    /\ feed.screen[screen_read + 1].type = "Check"
    /\ current(run) \in {None, "Download", "Plan", "Checks"}
    /\ run' = apply_screen(run, feed.screen[screen_read + 1])
    /\ UNCHANGED <<feed, screen_read, log_read>>

ReadLog ==
    /\ ~run.finished /\ log_read < Len(feed.log)
    /\ run' = apply_log(run, feed.log[log_read + 1])
    /\ log_read' = log_read + 1
    /\ UNCHANGED <<feed, screen_read>>

RunEnds ==
    /\ ~run.finished /\ screen_read = Len(feed.screen) /\ log_read = Len(feed.log)
    /\ run' = finish(run, feed.exit)
    /\ UNCHANGED <<feed, screen_read, log_read>>

RunNext == Settle \/ Observe \/ ReadLog \/ RunEnds

RunSpec == RunInit /\ [][RunNext]_runvars
----------------------------------------------------------------------------
(* What the picture owes the run. *)

Place(r, k) == r.phases[k].state

\* A hook of the picture; its texts are left open.
HookShape(h) ==
    /\ DOMAIN h = {"desc", "file", "started", "ended", "notes"}
    /\ h.started \in BOOLEAN /\ h.ended \in BOOLEAN

HooksShape(hooks) ==
    /\ DOMAIN hooks = HookKind
    /\ \A k \in HookKind :
          /\ Len(hooks[k]) \in Nat /\ DOMAIN hooks[k] = 1..Len(hooks[k])
          /\ \A i \in DOMAIN hooks[k] : HookShape(hooks[k][i])

PictureShape(r) ==
    /\ DOMAIN r = DOMAIN New
    /\ r.phases \in [PhaseKind -> [state : {"Pending", "Running", "Done"}, done : Nat,
                                   total : Nat \cup {NoTotal}, detail : STRING \cup {None}]]
    /\ IsFiniteSet(r.dbs) /\ IsFiniteSet(r.packages)
    /\ HooksShape(r.hooks) /\ r.named \in [HookKind -> Nat]
    /\ {r.tx_started, r.log_seen, r.finished, r.saw_package} \subseteq BOOLEAN

RunTypeOK ==
    /\ feed \in Feeds /\ screen_read \in 0..Len(feed.screen) /\ log_read \in 0..Len(feed.log)
    /\ PictureShape(run)

ChecksUpTo(n) == Cardinality({i \in 1..n : feed.screen[i].type = "Check"})

\* At most one phase runs, and nothing after the running one was reached:
\* whichever stream gets ahead, the phases are taken in pacman's order.
PhasesInOrder ==
    \A i \in DOMAIN PHASES : Place(run, PHASES[i]) = "Running" =>
        \A j \in DOMAIN PHASES : i < j => Place(run, PHASES[j]) = "Pending"

\* A phase never goes back, and what it counted is never taken off again.
GoesForward ==
    \A k \in PhaseKind :
        /\ Place(run, k) = "Done" => Place(run', k) = "Done"
        /\ Place(run, k) = "Running" => Place(run', k) # "Pending"
        /\ run'.phases[k].done >= run.phases[k].done

\* The file the log gave a hook and the description the screen gave it are of
\* one hook of pacman's, whichever came first.
HooksPaired ==
    \A k \in HookKind : \A i \in DOMAIN run.hooks[k] :
        /\ i \in DOMAIN feed.facts[k]
        /\ run.hooks[k][i].file \in {None, feed.facts[k][i].file}
        /\ run.hooks[k][i].desc \in {None, feed.facts[k][i].desc}

\* A line a hook printed is kept under that hook and under no other, in order.
OutputUnderItsHook ==
    \A k \in HookKind : \A i \in DOMAIN run.hooks[k] :
        /\ i \in DOMAIN feed.facts[k]
        /\ IsPrefix([n \in DOMAIN run.hooks[k][i].notes |-> run.hooks[k][i].notes[n].text],
                    feed.facts[k][i].prints)

\* When the run is over what a hook printed is read with its file and its
\* description, even if either was learned after the line.
ReadAsWhatItIs ==
    run.finished =>
        \A k \in HookKind : \A i \in DOMAIN run.hooks[k] : \A n \in DOMAIN run.hooks[k][i].notes :
            run.hooks[k][i].notes[n].kind = hook_note_kind(run.hooks[k][i].notes[n].text,
                                                           run.hooks[k][i])

\* No line vanishes: of each text hooks print, the view lists as unknown as many
\* lines as came that nothing else shows, each at the place of such a line.
NothingVanishes ==
    LET said(w) == {i \in DOMAIN run.lines :
                      run.lines[i].type \in {"Other", "Db"} /\ run.lines[i].text.word = w}
        listed(w) == {u \in run.unknown : u.text.word = w}
        kept(w) == {x \in HookNotes(run) : /\ NoteAt(run, x).text.word = w
                                           /\ NoteAt(run, x).kind # "Plain"}
    IN  /\ \A u \in run.unknown : u.at \in said(u.text.word)
        /\ \A u, v \in run.unknown : u # v => u.at # v.at
        /\ \A w \in feed.facts.words :
              Cardinality(said(w)) = Cardinality(listed(w)) + Cardinality(kept(w))

\* The verdict is what pacman did: a success changed the system, "nothing
\* changed" did not, and a failure is a failure.
OutcomeIsTrue ==
    /\ outcome(run) = "Succeeded" => feed.exit = "0" /\ feed.facts.changed
    /\ outcome(run) = "NothingChanged" => feed.exit = "0" /\ ~feed.facts.changed
    /\ outcome(run) = "Unknown" => feed.exit = "0" /\ feed.log = <<>>
    /\ run.finished => (outcome(run) = "Failed" <=> feed.exit # "0")

\* A hook phase that was entered and is over counted every hook that ran,
\* and a phase that counts never claims more than its total.
HooksCounted ==
    \A k \in HookKind :
        /\ run.phases[k].total # NoTotal => run.phases[k].done <= run.phases[k].total
        /\ run.finished => run.phases[k].done >= Started(run.hooks[k])
        /\ run.finished => \A i \in DOMAIN run.hooks[k] :
              run.hooks[k][i].started => run.hooks[k][i].ended

\* Each check is counted once, however often its row was looked at before its
\* line settled.
ChecksCountedOnce == run.phases["Checks"].done <= ChecksUpTo(Len(feed.screen))

\* Every line a hook printed is in the picture as often as it came, and where it
\* belongs.
RunLinesAreKept == HooksPaired /\ OutputUnderItsHook /\ ReadAsWhatItIs /\ NothingVanishes

\* The phases, their counts and the verdict tell how the run went.
PictureIsTrue == PhasesInOrder /\ OutcomeIsTrue /\ HooksCounted /\ ChecksCountedOnce

\* The picture is true of the run, and no step takes back what it told.
RunIsTrue == []PictureIsTrue /\ [][GoesForward]_runvars
=============================================================================
