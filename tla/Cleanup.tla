------------------------------ MODULE Cleanup -------------------------------
(***************************************************************************)
(* `paclens cleanup`: what a machine could do without, and the command for *)
(* each finding, as one line per finding and as the whole list.  None of a *)
(* number is -1, which sorts below every number as Rust's None does.       *)
(***************************************************************************)
EXTENDS DepGraph

CONSTANTS STALE_SHOWN, FILES_SHOWN   \* how many of a list the screen names

None == -1
Known(n) == n # None

\* Sorted by the greater first; names, or the order found, break a tie.
Largest(S, Figure(_), Name(_)) ==
  SetToSortSeq(S, LAMBDA x, y : \/ Figure(x) > Figure(y)
                                \/ Figure(x) = Figure(y) /\ Name(x) < Name(y))

-----------------------------------------------------------------------------
(* Packages in no repository, and who made them. *)

built_here(p) == ~p.signed \/ p.packager = "unknown"
unowned(packages) == {p \in ToSet(packages) : p.foreign /\ ~built_here(p)}

by_packager(ps) ==
  LET Of(who) == {p \in ps : p.packager = who}
  IN  {[who |-> who, n |-> Cardinality(Of(who))] : who \in {p.packager : p \in ps}}

-----------------------------------------------------------------------------
(* Processes that run files an upgrade replaced.  A unit is a number, for   *)
(* its name, with what its name says: a service, a scope or neither, and    *)
(* whether the session ends with it.                                        *)

\* The code of a package that the process can still run.
mapping_matters(mapping) == mapping.executable /\ mapping.under = "/usr"

\* Those of the processes whose maps can be read that have such a mapping of a
\* file that is gone; the first names the reason.
find_stale_processes(entries) ==
  LET Gone(e) == {i \in DOMAIN e.maps : e.maps[i].deleted /\ mapping_matters(e.maps[i])}
      stale == SelectSeq(entries, LAMBDA e : e.readable /\ Gone(e) # {})
  IN  [i \in DOMAIN stale |-> [comm |-> stale[i].comm, unit |-> stale[i].unit,
                               file |-> stale[i].maps[Min(Gone(stale[i]))].file]]

\* The unit in the last part of a control group's path, and whose manager
\* runs it.
NoUnit == [name |-> 0]
unit_from_cgroup(cgroup) ==
  IF cgroup.leaf.ending \notin {"service", "scope"} THEN NoUnit
  ELSE [name |-> cgroup.leaf.name, ending |-> cgroup.leaf.ending,
        session_critical |-> cgroup.leaf.session_critical,
        scope |-> IF cgroup.under_user_manager THEN "user" ELSE "system"]

\* Mutant of restart_command: offers to restart what the session hangs on.
restartAnything(u) ==
  IF u.ending # "service" THEN "none"
  ELSE IF u.scope = "user" THEN "systemctl --user restart" ELSE "sudo systemctl restart"

restart_command(u) ==
  IF u.session_critical \/ u.ending # "service" THEN "none"
  ELSE IF u.scope = "user" THEN "systemctl --user restart" ELSE "sudo systemctl restart"

\* One entry per unit, with the names of its processes; those that end the
\* session last, then those of most processes.
stale_units(processes) ==
  LET found == SelectSeq(processes, LAMBDA p : p.unit # NoUnit)
      Units == {found[i].unit.name : i \in DOMAIN found}
      First(u) == found[SelectInSeq(found, LAMBDA p : p.unit.name = u)].unit
      Of(u) == {i \in DOMAIN found : found[i].unit.name = u}
      All == {[unit |-> First(u),
               processes |-> {found[i].comm : i \in Of(u)},
               files |-> {found[i].file : i \in Of(u)} \ {"unnamed"}] : u \in Units}
  IN  SetToSortSeq(All, LAMBDA x, y :
        \/ ~x.unit.session_critical /\ y.unit.session_critical
        \/ /\ x.unit.session_critical = y.unit.session_critical
           /\ \/ Cardinality(x.processes) > Cardinality(y.processes)
              \/ /\ Cardinality(x.processes) = Cardinality(y.processes)
                 /\ x.unit.name < y.unit.name)

-----------------------------------------------------------------------------
(* Configuration files left beside the user's. *)

review_order(files) == Largest(files, LAMBDA f : f.modified, LAMBDA f : f.path)

diff_program(configured, env) ==
  CASE configured # "" -> configured [] env # "" -> env [] OTHER -> "vimdiff"

-----------------------------------------------------------------------------
(* The report.  A block is a finding with what it lists and what to run.    *)

RECURSIVE Total(_)
Total(figures) ==
  IF figures = <<>> THEN 0
  ELSE Total(Tail(figures)) + (IF Known(Head(figures)) THEN Head(figures) ELSE 0)

SizeOf(packages, name) ==
  packages[SelectInSeq(packages, LAMBDA p : p.name = name)].size_bytes

Orphans(scan) ==
  LET names == orphans_ignoring(build(scan.packages), scan.packages, scan.orphan_ignore)
  IN  Largest({[name |-> n, bytes |-> SizeOf(scan.packages, n)] : n \in names},
              LAMBDA o : o.bytes, LAMBDA o : o.name)
Unused(scan) ==
  Largest({[name |-> p.name, bytes |-> p.size_bytes] :
             p \in unused_runtimes(build(scan.packages), scan.packages)},
          LAMBDA o : o.bytes, LAMBDA o : o.name)

Block(label, listed, bytes, commands) ==
  [label |-> label, listed |-> listed, bytes |-> bytes, commands |-> commands, finding |-> listed # <<>>]

Bytes(list) == Total([i \in DOMAIN list |-> list[i].bytes])
Reclaims(scan) == Known(scan.reclaimable) /\ scan.reclaimable > 0
HasAurCache(scan) == Known(scan.aur_cache) /\ scan.helper # "none"

pacman_cache_value(scan) ==
  CASE ~Known(scan.cache) -> "-"
    [] scan.reclaimable = 0 -> "nothing to reclaim"
    [] Known(scan.reclaimable) -> "reclaimable"
    [] OTHER -> "total"

render_cleanup(scan) ==
  LET stale == stale_units(scan.processes)
      Command(u) == restart_command(u.unit)
      restarts == SelectSeq(stale, LAMBDA u : Command(u) # "none")
      nobody == unowned(scan.packages)
  IN  << [Block("pacman cache", <<>>, scan.cache,
                IF Reclaims(scan) THEN <<"paccache -rk3">> ELSE <<>>) EXCEPT !.finding = Reclaims(scan)] >>
      \o (IF HasAurCache(scan)
          THEN <<[Block("aur cache", <<>>, scan.aur_cache, <<"clean">>) EXCEPT !.finding = TRUE]>> ELSE <<>>)
      \o << Block("orphans", Orphans(scan), Bytes(Orphans(scan)),
                  IF Orphans(scan) = <<>> THEN <<>> ELSE <<"paclens why">>),
            Block("unused runtimes", Unused(scan), Bytes(Unused(scan)),
                  IF Unused(scan) = <<>> THEN <<>> ELSE <<"flatpak uninstall --unused">>),
            Block("config files", review_order(scan.pacfiles), None,
                  IF scan.pacfiles = {} THEN <<>> ELSE <<diff_program(scan.diff_prog, scan.env)>>),
            [Block("stale services", stale, None, [i \in DOMAIN restarts |-> Command(restarts[i])])
               EXCEPT !.commands = IF Len(restarts) = Len(stale) THEN @ ELSE Append(@, "log out")],
            Block("no repository", SetToSeq(by_packager(nobody)), None, <<>>) >>

Findings(blocks) == {b \in blocks : b.finding}

\* A row of the short report: its command is what makes it a finding.
Row(holds, label, command) ==
  IF holds THEN {[label |-> label, command |-> command]} ELSE {}

compact_report(scan) ==
  LET stale == stale_units(scan.processes)
      restartable == {u \in ToSet(stale) : restart_command(u.unit) # "none"}
  IN  UNION {
        Row(Known(scan.cache), "pacman cache", IF Reclaims(scan) THEN "paccache -rk3" ELSE ""),
        Row(HasAurCache(scan), "aur cache", "clean"),
        Row(Orphans(scan) # <<>>, "orphans", "paclens why"),
        Row(Unused(scan) # <<>>, "unused runtimes", "flatpak uninstall --unused"),
        Row(scan.pacfiles # {}, "config files", diff_program(scan.diff_prog, scan.env)),
        Row(stale # <<>>, "stale services",
            IF restartable = {} THEN "log out" ELSE "restarts in --all"),
        Row(unowned(scan.packages) # {}, "no repository", "")}

CompactFindings(scan) == {r \in compact_report(scan) : r.command # ""}

-----------------------------------------------------------------------------
(* The cleanup screen's pane: a figure for each thing, then what to run.    *)

unused_runtime_summary(scan) ==
  [n |-> Len(Unused(scan)), bytes |-> Bytes(Unused(scan))]

Line(says, command, n) == [says |-> says, command |-> command, n |-> n]
When(holds, lines) == IF holds THEN lines ELSE <<>>

\* Mutant of Cut: counts what it named among what it left out.
CutCountsAll(lines, most) ==
  LET more == Len(lines) - most
  IN  SubSeq(lines, 1, Min({Len(lines), most})) \o When(more > 0, <<Line("more", "", Len(lines))>>)

\* The first of a list, and how many it has besides.
Cut(lines, most) ==
  LET more == Len(lines) - most
  IN  SubSeq(lines, 1, Min({Len(lines), most})) \o When(more > 0, <<Line("more", "", more)>>)

\* Mutant of stale_line: shows a restart for whatever is a service.
restartsServices(u) ==
  IF u.unit.ending = "service"
  THEN Line("restart", IF u.unit.scope = "user" THEN "systemctl --user restart" ELSE "sudo systemctl restart", u.unit.name)
  ELSE Line("log out", "", 0)

\* What to do about a unit.
stale_line(u) ==
  CASE restart_command(u.unit) # "none" -> Line("restart", restart_command(u.unit), u.unit.name)
    [] u.unit.ending = "scope" -> Line("log out", "", 0)
    [] OTHER -> Line("ends the session", "", u.unit.name)

cache_figures(scan) ==
  <<Line("pacman cache", pacman_cache_value(scan), scan.cache)>>
  \o When(HasAurCache(scan), <<Line("aur cache", "", scan.aur_cache)>>)
  \o <<Line("unused runtimes", "", unused_runtime_summary(scan).n),
       Line("no repository", "", Cardinality(unowned(scan.packages))),
       Line("stale services", "", Len(stale_units(scan.processes))),
       Line("config files", "", Cardinality(scan.pacfiles)),
       Line("orphans", "", Len(Orphans(scan)))>>

cache_suggestions(scan) ==
  LET stale == stale_units(scan.processes)
      files == review_order(scan.pacfiles)
      makers == SetToSeq(by_packager(unowned(scan.packages)))
  IN  When(scan.reclaimable # 0, <<Line("pacman cache", "paccache -rk3", 0)>>)
      \o When(unused_runtime_summary(scan).n > 0, <<Line("unused runtimes", "flatpak uninstall --unused", 0)>>)
      \o When(HasAurCache(scan), <<Line("aur cache", "clean", 0)>>)
      \o [i \in DOMAIN makers |-> Line("no repository", "", makers[i].n)]
      \o Cut([i \in DOMAIN stale |-> stale_line(stale[i])], STALE_SHOWN)
      \o When(files # <<>>, <<Line("config files", diff_program(scan.diff_prog, scan.env), 0)>>)
      \o Cut([i \in DOMAIN files |-> Line("file", "", files[i].path)], FILES_SHOWN)
      \o When(Orphans(scan) # <<>>, <<Line("orphans", "", 0)>>)

-----------------------------------------------------------------------------
(* Machines with a few packages, processes and leftovers, and what the     *)
(* report of `paclens cleanup` must say of them.                           *)

\* Two packages that may be orphans, a runtime and one no repository has.
Installable(n, r, size, needs) ==
  [name |-> n, source |-> "pacman", install_reason |-> r, depends_on |-> needs, provides |-> {},
   runtime |-> FALSE, foreign |-> FALSE, signed |-> TRUE, packager |-> "arch", size_bytes |-> size]
Foreign(n, signed, packager) ==
  [Installable(n, "Explicit", 1, {}) EXCEPT !.foreign = TRUE, !.signed = signed, !.packager = packager]
Runtime(n) == [Installable(n, "Unknown", None, {}) EXCEPT !.source = "flatpak", !.runtime = TRUE]
PackageLists ==
  {<<Installable(1, r, None, {}), Installable(2, "Dependency", 5, needs)>> \o other :
     r \in {"Dependency", "Explicit"}, needs \in {{}, {1}},
     other \in {<<>>, <<Runtime(3)>>, <<Foreign(3, TRUE, "cachyos"), Foreign(4, TRUE, "cachyos")>>,
                <<Foreign(3, FALSE, "arch"), Foreign(4, TRUE, "unknown")>>}}

Unit(n, ending, critical, scope) ==
  unit_from_cgroup([leaf |-> [name |-> n, ending |-> ending, session_critical |-> critical],
                    under_user_manager |-> scope])
Units == {Unit(1, "service", FALSE, TRUE), Unit(2, "service", FALSE, FALSE),
          Unit(3, "service", TRUE, TRUE), Unit(4, "scope", FALSE, TRUE), Unit(5, "slice", FALSE, TRUE)}
ProcessLists ==
  {[i \in 1..n |-> [comm |-> i, unit |-> us[i], file |-> "lib"]] : n \in 0..3, us \in [1..3 -> Units]}

\* Processes with up to two mappings: one that matters is of a file that is
\* gone, of code, and a package's.
Mapping(f, deleted, executable, under) ==
  [file |-> f, deleted |-> deleted, executable |-> executable, under |-> under]
MappedFiles == {Mapping(f, d, x, u) : f \in {"lib", "other"}, d, x \in BOOLEAN, u \in {"/usr", "/memfd"}}
Listings ==
  {<<[readable |-> r, comm |-> 1, unit |-> NoUnit, maps |-> <<m, n>>],
     [readable |-> TRUE, comm |-> 2, unit |-> NoUnit, maps |-> <<Mapping("lib", TRUE, TRUE, "/usr")>>]>> :
     r \in BOOLEAN, m, n \in MappedFiles}
\* A process is stale while it can run what a package had there before.
StaleAreFound(entries) ==
  LET Runs(e, f) == \E m \in ToSet(e.maps) : m = Mapping(f, TRUE, TRUE, "/usr")
      found == find_stale_processes(entries)
  IN  /\ {p.comm : p \in ToSet(found)} = {e.comm : e \in {e \in ToSet(entries) : e.readable /\ \E f \in {"lib", "other"} : Runs(e, f)}}
      /\ \A p \in ToSet(found) : \E e \in ToSet(entries) : e.comm = p.comm /\ Runs(e, p.file)

MachineScans ==
  [packages : PackageLists, orphan_ignore : {{}, {2}}, cache : {None, 4}, reclaimable : {None, 0, 2},
   aur_cache : {None, 0}, helper : {"none", "paru"}, processes : {<<>>},
   pacfiles : SUBSET {[path |-> 1, modified |-> None], [path |-> 2, modified |-> 7]},
   diff_prog : {""}, env : {"meld"}]
\* What can be reclaimed is known only of a cache whose size is.
CleanupScans == {scan \in MachineScans : Known(scan.reclaimable) => Known(scan.cache)}
StaleScans ==
  [packages : {<<>>}, orphan_ignore : {{}}, cache : {None}, reclaimable : {None}, aur_cache : {None},
   helper : {"none"}, processes : ProcessLists, pacfiles : {{}}, diff_prog : {""}, env : {""}]

\* The short report and the whole one find the same, but for the packages in no
\* repository, which have no command, and every other finding has one.
SaysTheSame(scan, findings) ==
  LET Others == {b \in findings : b.label # "no repository"}
  IN  /\ {b.label : b \in Others} = {r.label : r \in CompactFindings(scan)}
      /\ \A b \in Others : b.commands # <<>>

\* The screen counts what the report lists, and suggests what the report finds;
\* what a list does not name it counts, and no line restarts what the session
\* hangs on.  The cache of pacman is left out while what it would reclaim is not
\* known: there the screen suggests to clean it (draw.rs:1947) and the report does
\* not (cli/cleanup.rs:129), though the two are meant never to disagree.
ScreenSaysTheSame(scan, blocks, stale, lines) ==
  LET Of(label) == {b \in blocks : b.label = label}
      Labels(S) == S \ ({"no repository", "stale services"}
                          \cup (IF Known(scan.reclaimable) THEN {} ELSE {"pacman cache"}))
      With(says) == SelectSeq(lines, LAMBDA l : l.says \in says)
      Rest(says, most, all) ==
        \A named \in {Len(With(says))} :
          named = Min({most, all}) /\ (all > most => \E l \in ToSet(lines) : l.says = "more" /\ l.n = all - named)
  IN  /\ \A f \in ToSet(cache_figures(scan)) :
           IF f.says = "no repository"
           THEN f.n = FoldLeft(LAMBDA n, l : n + l.n, 0, With({"no repository"}))
           ELSE f.says \in {"pacman cache", "aur cache"} \/ \A b \in Of(f.says) : f.n = Len(b.listed)
      /\ Labels({l.says : l \in ToSet(lines)} \ {"restart", "log out", "ends the session", "file", "more"})
           = Labels({b.label : b \in Findings(blocks)})
      /\ \A l \in ToSet(lines) : \A b \in Of(l.says) :
           l.command # "" /\ b.finding => l.command \in ToSet(b.commands)
      /\ Rest({"restart", "log out", "ends the session"}, STALE_SHOWN, Len(stale))
      /\ Rest({"file"}, FILES_SHOWN, Cardinality(scan.pacfiles))
      /\ \A l \in ToSet(lines) : l.says = "restart" =>
           \E u \in ToSet(stale) : u.unit.name = l.n /\ ~u.unit.session_critical

\* Each process that runs replaced files is named with its unit once; what ends
\* the session has no command and comes last, nor has what cannot be restarted.
RestartsAreSafe(scan, blocks, stale) ==
  LET Named(i) == {j \in DOMAIN stale : scan.processes[i].comm \in stale[j].processes}
  IN  /\ \A i \in DOMAIN scan.processes :
           Cardinality(Named(i)) = IF scan.processes[i].unit = NoUnit THEN 0 ELSE 1
      /\ \A i, j \in DOMAIN stale :
           /\ i < j => stale[i].unit.name # stale[j].unit.name
           /\ i < j /\ stale[i].unit.session_critical => restart_command(stale[j].unit) = "none"
      /\ \A u \in Units \ {NoUnit} :
           u.session_critical \/ u.ending = "scope" => restart_command(u) = "none"
      /\ \A block \in {b \in blocks : b.label = "stale services"} :
           \A i \in DOMAIN stale : \A command \in {restart_command(stale[i].unit)} :
             IF command = "none" THEN Last(block.commands) = "log out"
             ELSE command \in ToSet(block.commands)

\* The largest orphan first, one of unknown size last, and none that the user
\* ignores or that a package still needs.
OrphansAreLoose(scan) == \A list \in {Orphans(scan)} :
  /\ \A i, j \in DOMAIN list : i < j => list[i].bytes >= list[j].bytes
  /\ \A i \in DOMAIN list :
       /\ list[i].name \notin scan.orphan_ignore
       /\ \A p \in ToSet(scan.packages) : list[i].name \notin p.depends_on

CleanupIsRight(scan) ==
  /\ \A blocks \in {ToSet(render_cleanup(scan))}, stale \in {stale_units(scan.processes)},
        lines \in {cache_suggestions(scan)} :
       /\ SaysTheSame(scan, Findings(blocks))
       /\ ScreenSaysTheSame(scan, blocks, stale, lines)
       /\ RestartsAreSafe(scan, blocks, stale)
  /\ OrphansAreLoose(scan)
=============================================================================
