------------------------------ MODULE Shadows -------------------------------
(***************************************************************************)
(* The same command installed more than once: which copies there are, in   *)
(* the order PATH reaches them, and which one a shell runs.  A source's    *)
(* directory maps its commands to the package that installed each, or to   *)
(* "unsaid"; `exec` is the set of pairs of a directory and a command that  *)
(* a shell would run from there.                                           *)
(***************************************************************************)
EXTENDS Naturals, Sequences, SequencesExt, FiniteSetsExt

Nowhere == "nowhere"

Position(path, dir) ==
  LET i == SelectInSeq(path, LAMBDA d : d = dir) IN IF i = 0 THEN Len(path) + 1 ELSE i

\* The copies of one command, pacman's first; a directory counts once.
Added(dirs, pacman, bin) ==
  LET all == (IF bin \in DOMAIN pacman
              THEN <<[source |-> "pacman", package |-> pacman[bin], dir |-> "/usr/bin"]>> ELSE <<>>)
               \o [i \in 1..Len(SelectSeq(dirs, LAMBDA d : bin \in DOMAIN d.bins)) |->
                     LET d == SelectSeq(dirs, LAMBDA e : bin \in DOMAIN e.bins)[i]
                     IN  [source |-> d.source, package |-> d.bins[bin], dir |-> d.dir]]
      Fresh(i) == \A j \in 1..(i - 1) : all[j].dir # all[i].dir
  IN  [i \in 1..Cardinality({i \in DOMAIN all : Fresh(i)}) |->
         all[CHOOSE k \in DOMAIN all : Fresh(k) /\ Cardinality({j \in 1..k : Fresh(j)}) = i]]

\* Mutant of runs_dir: takes the first directory of PATH.
firstOnPath(path, exec, bin) == IF path = <<>> THEN Nowhere ELSE path[1]

\* The directory whose command a shell runs.
runs_dir(path, exec, bin) ==
  LET i == SelectInSeq(path, LAMBDA d : <<d, bin>> \in exec) IN IF i = 0 THEN Nowhere ELSE path[i]

\* The doubled commands; the sort by position in PATH keeps what ties.
find(dirs, pacman, path, exec) ==
  LET Bins == DOMAIN pacman \cup UNION {DOMAIN d.bins : d \in ToSet(dirs)}
      Copies(bin) ==
        LET added == Added(dirs, pacman, bin)
            order == SetToSortSeq(DOMAIN added, LAMBDA i, j :
                       \/ Position(path, added[i].dir) < Position(path, added[j].dir)
                       \/ Position(path, added[i].dir) = Position(path, added[j].dir) /\ i < j)
        IN  [i \in DOMAIN added |-> added[order[i]]]
  IN  {[bin |-> bin, copies |-> Copies(bin), runs_dir |-> runs_dir(path, exec, bin)] :
         bin \in {b \in Bins : Len(Added(dirs, pacman, b)) > 1}}

\* The directories the sources install to, with the commands in each that a
\* shell would run: what the packages declare, rustup's proxies, which share
\* cargo's directory, and brew's links into its cellar.
bin_dirs(m) ==
  LET Provided(source) == {p \in m.packages : p.source = source}
      Declared(source) ==
        [b \in UNION {p.provides : p \in Provided(source)} |->
           (CHOOSE p \in Provided(source) : b \in p.provides).name]
      Dir(source, dir, bins) ==
        [source |-> source, dir |-> dir,
         bins |-> [b \in {b \in DOMAIN bins : <<dir, b>> \in m.exec} |-> bins[b]]]
  IN  << Dir("rustup", m.place.cargo, [b \in m.proxies |-> "unsaid"]),
         Dir("cargo", m.place.cargo, Declared("cargo")),
         Dir("brew", m.place.brew, m.cellar),
         Dir("gobin", m.place.gobin, Declared("gobin")),
         Dir("uv", m.place.uv, Declared("uv")) >>

\* pacman is asked only about those that are in /usr/bin too.
find_shadows(m) ==
  LET dirs == bin_dirs(m)
      usr == {b \in UNION {DOMAIN d.bins : d \in ToSet(dirs)} : <<"/usr/bin", b>> \in m.exec}
      owned == IF m.pacman THEN [b \in usr \cap DOMAIN m.owners |-> m.owners[b]] ELSE <<>>
  IN  find(dirs, owned, m.path, m.exec)

label(c) == IF c.package \in {"unsaid", c.source} THEN <<c.source>> ELSE <<c.source, c.package>>
labels(s) == [i \in DOMAIN s.copies |-> label(s.copies[i])]

\* The copy a shell runs, by its place; 0 when it runs none of them.
runs(s) == SelectInSeq(s.copies, LAMBDA c : c.dir = s.runs_dir)

\* Who runs: a copy's label, something else on PATH, or nothing.
runner(s, other) ==
  CASE runs(s) # 0 -> label(s.copies[runs(s)])
    [] s.runs_dir = Nowhere -> <<>>
    [] OTHER -> other

Elsewhere == <<"elsewhere on PATH">>

\* Commands grouped by the same copies and the same one that runs.
groups(shadows) ==
  LET Key(s) == <<labels(s), runner(s, Elsewhere)>>
  IN  {[labels |-> k[1], runs |-> k[2], bins |-> {s.bin : s \in {s \in shadows : Key(s) = k}}] :
         k \in {Key(s) : s \in shadows}}

\* The line of a group: what it hides, and what it says runs.
line(g) ==
  [bins |-> g.bins, n |-> Len(g.labels),
   says |-> CASE g.runs = <<>> -> "none on PATH"
              [] g.runs = Head(g.labels) -> "runs, then"
              [] OTHER -> "runs first",
   who |-> g.runs,
   listed |-> IF g.runs = Head(g.labels) THEN Tail(g.labels) ELSE g.labels]

lines(shadows) == {line(g) : g \in groups(shadows)}

\* A package's own copy of a command: where the source does not say which
\* package installed it, one that provides a command of that name.
Mine(s, pkg) ==
  SelectInSeq(s.copies, LAMBDA c :
    /\ c.source = pkg.source
    /\ IF c.package = "unsaid" THEN s.bin \in pkg.provides ELSE c.package = pkg.name)

for_package(shadows, pkg) ==
  LET mine == {s \in shadows : Mine(s, pkg) # 0}
      Said(s) ==
        [also |-> RemoveAt(labels(s), Mine(s, pkg)),
         says |-> CASE runs(s) = 0 /\ s.runs_dir = Nowhere -> "none on PATH"
                    [] runs(s) = Mine(s, pkg) -> "this copy runs first"
                    [] OTHER -> "runs first",
         who |-> IF runs(s) = Mine(s, pkg) THEN <<>> ELSE runner(s, <<s.runs_dir, s.bin>>)]
  IN  {[said |-> k, bins |-> {s.bin : s \in {s \in mine : Said(s) = k}}] : k \in {Said(s) : s \in mine}}

\* The line of `status`.
summary(shadows) == [commands |-> Cardinality(shadows), groups |-> Cardinality(groups(shadows))]

-----------------------------------------------------------------------------
(* Machines with two commands, pacman's directory, two more that sources   *)
(* install to and one nobody owns, on every PATH that reaches some of them *)
(* and back.                                                               *)

Usr == "/usr/bin"
Bins == {"rg", "fd"}
Paths == {<<>>, <<Usr>>, <<"cargo/bin", Usr>>, <<Usr, "cargo/bin">>, <<"opt", Usr, "go/bin">>,
          <<"go/bin", "cargo/bin", Usr, "go/bin">>}
Owned(packages) == UNION {[B -> packages] : B \in SUBSET Bins}

Machines ==
  {[dirs |-> <<[source |-> "cargo", dir |-> "cargo/bin", bins |-> c],
               [source |-> "gobin", dir |-> shared, bins |-> g]>>,
    pacman |-> p, path |-> path, exec |-> e] :
     c \in Owned({"unsaid", "rg"}), g \in Owned({"unsaid"}), p \in Owned({"rg"}),
     shared \in {"go/bin", "cargo/bin"}, path \in Paths,
     e \in {{Usr, "cargo/bin", "go/bin", "opt"} \X Bins,
            {Usr, "cargo/bin", "go/bin"} \X Bins,
            {<<Usr, "rg">>, <<"go/bin", "rg">>, <<"opt", "fd">>}}}

\* What a shell would run, reading its PATH from the front.
RECURSIVE Shell(_, _, _)
Shell(path, exec, bin) ==
  CASE path = <<>> -> Nowhere
    [] <<Head(path), bin>> \in exec -> Head(path)
    [] OTHER -> Shell(Tail(path), exec, bin)

\* Commands installed twice are told of once, with the copy a shell runs.
Holders(m, bin) ==
  {d.dir : d \in {d \in ToSet(m.dirs) : bin \in DOMAIN d.bins}}
    \cup (IF bin \in DOMAIN m.pacman THEN {Usr} ELSE {})

ShadowsAreRight(m) ==
  \A shadows \in {find(m.dirs, m.pacman, m.path, m.exec)} :
  \A grouped \in {groups(shadows)} : \A told_of \in {lines(shadows)} :
    \* every command in two directories, each directory once
    /\ {s.bin : s \in shadows} = {b \in Bins : Cardinality(Holders(m, b)) > 1}
    /\ \A s \in shadows :
       \A ran \in {Shell(m.path, m.exec, s.bin)} :
       \A at \in {{s.copies[i].dir : i \in DOMAIN s.copies}} :
         /\ at = Holders(m, s.bin) /\ Len(s.copies) = Cardinality(at)
         \* a copy before the one that runs is one no shell can run
         /\ \A i \in DOMAIN s.copies : i < runs(s) => <<s.copies[i].dir, s.bin>> \notin m.exec
         /\ (runs(s) # 0) = (ran \in at)
         \* and the line of its group, the only one it is in, says so
         /\ Cardinality({g \in grouped : s.bin \in g.bins}) = 1
         /\ \E l \in told_of :
              /\ s.bin \in l.bins /\ l.n = Len(s.copies)
              /\ (l.says = "none on PATH") = (ran = Nowhere)
              /\ l.says = "runs, then" => s.copies[1].dir = ran
              /\ l.who = Elsewhere <=> ran \notin at \cup {Nowhere}
    /\ summary(shadows).groups <= summary(shadows).commands
    \* `why` tells each package with a copy of it the same
    /\ \A s \in shadows : \A i \in DOMAIN s.copies : \A c \in {s.copies[i]} :
       \A pkg \in {[source |-> c.source, name |-> IF c.package = "unsaid" THEN "tool" ELSE c.package,
                    provides |-> IF c.package = "unsaid" THEN {s.bin} ELSE {}]} :
         \E told \in for_package(shadows, pkg) :
           /\ s.bin \in told.bins
           /\ Len(told.said.also) = Len(s.copies) - 1
           /\ (told.said.says = "this copy runs first") = (c.dir = s.runs_dir)
           /\ (told.said.says = "none on PATH") = (s.runs_dir = Nowhere)

-----------------------------------------------------------------------------
\* A home with a crate, go's and uv's directories the same or not, a toolchain's
\* proxy and a formula, each of them there to run or not.
Homes ==
  {[packages |-> {[source |-> "cargo", name |-> "ripgrep", provides |-> {"rg"}],
                  [source |-> "gobin", name |-> "fd", provides |-> {"fd"}],
                  [source |-> "uv", name |-> "tools", provides |-> {"rg", "fd"}]},
    place |-> [cargo |-> "cargo/bin", brew |-> "brew/bin", gobin |-> "go/bin", uv |-> uv],
    proxies |-> {"rg"}, cellar |-> [b \in {"fd"} |-> "fd"], owners |-> [b \in owned |-> b],
    pacman |-> pacman, path |-> <<Usr>>, exec |-> here] :
     uv \in {"go/bin", ".local/bin"}, owned \in SUBSET Bins, pacman \in BOOLEAN,
     here \in SUBSET ({Usr, "cargo/bin", "go/bin"} \X {"rg"} \cup {Usr, "brew/bin", "go/bin", ".local/bin"} \X {"fd"})}

\* A command is doubled when two directories have it to run, /usr/bin counting
\* for what pacman owns, and each copy told of is one that can be run.
HomesAreRead(h) ==
  LET Put == [rg |-> {"cargo/bin", h.place.uv}, fd |-> {"brew/bin", "go/bin", h.place.uv}]
      Copies(b) == {d \in Put[b] \cup (IF h.pacman /\ b \in DOMAIN h.owners THEN {Usr} ELSE {}) :
                      <<d, b>> \in h.exec}
      shadows == find_shadows(h)
  IN  /\ {s.bin : s \in shadows} = {b \in Bins : Cardinality(Copies(b)) > 1}
      /\ \A s \in shadows : {s.copies[i].dir : i \in DOMAIN s.copies} = Copies(s.bin)
=============================================================================
