----------------------------- MODULE WhyReport ------------------------------
(***************************************************************************)
(* `paclens why`: why a package is installed and what its removal would    *)
(* do, from the scan and its graph, and the tree of what needs it.         *)
(***************************************************************************)
EXTENDS DepGraph

CONSTANTS TREE_DEPTH, TREE_BRANCH, NAMES_SHOWN, TREE_ROWS

\* The chain of requirers upwards; a name that is on the path is left out.
RECURSIVE reverse_tree(_, _, _, _)
reverse_tree(g, name, depth, path) ==
  IF depth = 0 THEN <<>>
  ELSE LET requirers == required_by_edges(g, name)
           kept == SelectSeq(requirers, LAMBDA r : r.name \notin path \cup {name})
           shown == SubSeq(kept, 1, Min({Len(kept), TREE_BRANCH}))
           more == Len(requirers) - TREE_BRANCH
       IN  [i \in DOMAIN shown |->
              [name |-> shown[i].name, label |-> shown[i].label,
               children |-> reverse_tree(g, shown[i].name, depth - 1, path \cup {name}),
               truncated |-> IF i = Len(shown) /\ more > 0 THEN more ELSE 0]]

\* The rows the tree is drawn as: the strokes before a name, and the name.
RECURSIVE flatten(_, _)
flatten(nodes, indent) ==
  LET Rows(i) ==
        LET node == nodes[i]
            is_last == i = Len(nodes) /\ node.truncated = 0
        IN  <<[prefix |-> Append(indent, IF is_last THEN "last" ELSE "branch"), name |-> node.name,
              label |-> node.label]>>
            \o flatten(node.children, Append(indent, IF is_last THEN "blank" ELSE "pipe"))
            \o (IF node.truncated > 0
                THEN <<[prefix |-> Append(indent, "last"), name |-> "more", label |-> "none"]>> ELSE <<>>)
  IN  FlattenSeq([i \in DOMAIN nodes |-> Rows(i)])

tree_lines(nodes) == flatten(nodes, <<>>)

\* Mutant of would_remove: does not ask who else needs it.
everyDependency(g, packages, name) ==
  {dep \in requires(g, name) : \E p \in ToSet(packages) :
     p.name = dep /\ (p.install_reason = "Dependency" \/ p.runtime)}

\* What would be left with nothing that needs it.
would_remove(g, packages, name) ==
  {dep \in requires(g, name) :
     /\ \E p \in ToSet(packages) :
          p.name = dep /\ (p.install_reason = "Dependency" \/ p.runtime)
     /\ required_by(g, dep) = {name}}

verdict(g, pkg) ==
  LET edges == required_by_edges(g, pkg.name)
  IN  CASE Capabilities(pkg.source).install_reason /\ pkg.install_reason = "Unknown" ->
             [says |-> "unclear", label |-> "Unknown"]
        [] edges = <<>> ->
             [says |-> "likely safe", label |-> IF pkg.runtime THEN "Inferred" ELSE "Confirmed"]
        [] OTHER ->
             [says |-> "is a dependency", label |-> Worst({e.label : e \in ToSet(edges)})]

\* The first package of that name answers.
Asked(packages, name) == packages[SelectInSeq(packages, LAMBDA p : p.name = name)]

NotFound == [source_id |-> "none"]

why(packages, g, name, max_depth) ==
  LET pkg == Asked(packages, name)
  IN  IF name \notin Installed(packages) THEN NotFound ELSE
      [source_id |-> pkg.source,
       required_by |-> required_by(g, name),
       transitive_required_by |-> transitive_required_by(g, name, max_depth),
       depth_from_explicit |-> depth_from_explicit(g, packages, name),
       would_remove |-> would_remove(g, packages, name),
       tree |-> reverse_tree(g, name, Min({TREE_DEPTH, max_depth}), {}),
       commands |-> IF has_dep_graph(pkg) THEN {} ELSE pkg.provides,
       verdict |-> verdict(g, pkg)]

\* The lines of the report that follow from the answer: the reason, how many
\* need it, whether the tree is drawn, what its removal breaks.
reason_line(pkg, answer) ==
  CASE pkg.source = "flatpak" -> IF pkg.runtime THEN "runtime" ELSE "app"
    [] ~Capabilities(pkg.source).install_reason -> "not recorded"
    [] pkg.install_reason = "Explicit" -> "explicitly installed"
    [] pkg.install_reason = "Unknown" -> "unknown"
    [] answer.depth_from_explicit = Unreached -> "nothing explicit reaches it"
    [] OTHER -> "dependency"

needed_by_line(answer, show_transitive) ==
  LET direct == Cardinality(answer.required_by)
      total == Cardinality(answer.transitive_required_by)
  IN  CASE answer.required_by = {} -> [says |-> "nothing", direct |-> 0, total |-> 0]
        [] show_transitive /\ answer.tree # <<>> ->
             [says |-> "tree", direct |-> direct, total |-> IF total > direct THEN total ELSE direct]
        [] OTHER -> [says |-> "names", direct |-> direct, total |-> direct]
\* What a removal breaks and leaves behind, and whether a command for it is shown:
\* never for a runtime, and only where the source has one of its own.
removing_line(pkg, answer) ==
  [breaks |-> IF pkg.source = "flatpak" THEN 0 ELSE Cardinality(answer.required_by),
   orphans |-> answer.would_remove,
   hint |-> pkg.source \in {"flatpak", "cargo", "brew", "uv", "npm", "rustup"} /\ ~pkg.runtime]

-----------------------------------------------------------------------------
(* The same answer in the pane beside a list, which is narrow: so many     *)
(* names and so many rows, and the number of those left out.               *)

pane_reason(pkg, answer) ==
  CASE pkg.source = "flatpak" -> IF pkg.runtime THEN "runtime" ELSE "app"
    [] ~Capabilities(pkg.source).install_reason -> "not recorded"
    [] pkg.install_reason = "Explicit" -> "explicit"
    [] pkg.install_reason = "Unknown" -> "unknown"
    [] OTHER -> "dependency"

\* Mutant of named: leaves names out without a number.
namedOnly(names) == [named |-> Min({Cardinality(names), NAMES_SHOWN}), more |-> 0]

named(names) ==
  [named |-> Min({Cardinality(names), NAMES_SHOWN}), more |-> Max({0, Cardinality(names) - NAMES_SHOWN})]

\* A row of the tree; its label is written when it is weaker than confirmed.
pane_row(row) == [name |-> row.name, marked |-> row.label \notin {"Confirmed", "none"}]

why_pane_lines(pkg, answer) ==
  LET rows == tree_lines(answer.tree)
      shown == SubSeq(rows, 1, Min({Len(rows), TREE_ROWS}))
  IN  [reason |-> pane_reason(pkg, answer),
       hops |-> IF pane_reason(pkg, answer) = "dependency" THEN answer.depth_from_explicit ELSE Unreached,
       commands |-> answer.commands,
       needed_by |-> named(answer.required_by),
       orphans |-> named(answer.would_remove),
       chain |-> [i \in DOMAIN shown |-> pane_row(shown[i])],
       more_rows |-> Len(rows) - Len(shown),
       verdict |-> answer.verdict]

-----------------------------------------------------------------------------
(* Scans of up to MaxPackages packages, and what the answers of `why` must *)
(* be for each, from the definition of reachability and of a tree.         *)

CONSTANTS MaxPackages, Virtual

PackageNames == 1..MaxPackages

AlpmPackages(n) ==
  {[name |-> n, source |-> "pacman", install_reason |-> r, depends_on |-> d, provides |-> v,
    runtime |-> FALSE] :
     r \in {"Explicit", "Dependency"},
     d \in {d \in SUBSET (PackageNames \cup {Virtual}) : n \notin d /\ Cardinality(d) <= 2},
     v \in IF n = 1 THEN {{}} ELSE {{}, {Virtual}}}
Flatpaks(n) ==
  {[name |-> n, source |-> "flatpak", install_reason |-> "Unknown", depends_on |-> d,
    provides |-> {}, runtime |-> d = {}] : d \in {{}} \cup {{m} : m \in PackageNames \ {n}}}
UnknownReason(n) ==
  {[name |-> n, source |-> "aur", install_reason |-> "Unknown", depends_on |-> d,
    provides |-> {}, runtime |-> FALSE] : d \in {{}, {Virtual}}}

Packages(n) == AlpmPackages(n) \cup Flatpaks(n) \cup UnknownReason(n)

\* Every scan of three packages, and chains and forks of six.
Forks ==
  {[n \in 1..6 |->
     [name |-> n, source |-> "pacman", install_reason |-> IF n = 6 THEN "Explicit" ELSE "Dependency",
      depends_on |-> {m \in 1..6 : <<n, m>> \in edges}, provides |-> {}, runtime |-> FALSE]] :
     edges \in SUBSET {<<2, 1>>, <<3, 1>>, <<4, 2>>, <<5, 4>>, <<5, 3>>, <<6, 5>>, <<1, 4>>, <<3, 2>>}}
PackageScans == {<<p1, p2, p3>> : p1 \in Packages(1), p2 \in Packages(2), p3 \in Packages(3)} \cup Forks

\* What needs a name at most so many hops away.
Needing(g, name, hops) ==
  LET Reach[h \in 0..hops] ==
        IF h = 0 THEN {name} ELSE Reach[h - 1] \cup UNION {required_by(g, n) : n \in Reach[h - 1]}
  IN  Reach[hops] \ {name}
All(g) == Cardinality(g.nodes)

\* All that needs a package, however far away, when the depth cuts nothing off.
\* Where it does, nothing from beyond it, and every package that needs it
\* directly; of those in between one can be missing, since the search goes deep
\* first, marks what it meets at the depth, and does not go on from there when it
\* is met again on a shorter way (graph.rs:157).
ImpactIsWhole(g, name) ==
  /\ transitive_required_by(g, name, All(g)) = Needing(g, name, All(g))
  /\ \A max \in 0..3 :
       /\ transitive_required_by(g, name, max) \subseteq Needing(g, name, max)
       /\ max > 0 => required_by(g, name) \ {name} \subseteq transitive_required_by(g, name, max)

\* The distance shown is that of the nearest explicit package that needs it.
DistanceIsLeast(g, packages, name) ==
  LET Explicit(h) == \E n \in Needing(g, name, h) \cup {name} : is_explicit(packages, n)
      depth == depth_from_explicit(g, packages, name)
  IN  IF depth = Unreached THEN ~Explicit(All(g))
      ELSE Explicit(depth) /\ (depth > 0 => ~Explicit(depth - 1))

\* A tree of what needs a name: true edges, no name twice on a path, every
\* requirer of the name itself either shown or counted.
RECURSIVE TreeIsTrue(_, _, _, _)
TreeIsTrue(g, name, path, nodes) ==
  \A i \in DOMAIN nodes :
    /\ nodes[i].name \in required_by(g, name) \ (path \cup {name})
    /\ \A j \in 1..(i - 1) : nodes[j].name < nodes[i].name
    /\ \E e \in g.edges : e.from = nodes[i].name /\ e.to = name /\ e.label = nodes[i].label
    /\ TreeIsTrue(g, nodes[i].name, path \cup {name}, nodes[i].children)
RequirersAreCounted(g, name) ==
  LET tree == reverse_tree(g, name, TREE_DEPTH, {})
      direct == required_by(g, name) \ {name}
  IN  /\ TreeIsTrue(g, name, {}, tree)
      /\ name \notin required_by(g, name) =>
           Len(tree) + (IF tree = <<>> THEN 0 ELSE Last(tree).truncated) = Cardinality(direct)

\* The strokes join: a row drawn as the last of its siblings is the last row at
\* its depth before one less deep, another has a sibling below, and a pipe runs
\* down exactly to a row that hangs from it.
StrokesJoin(rows) ==
  \A i \in DOMAIN rows :
    LET depth == Len(rows[i].prefix)
        Below(d) == \E j \in (i + 1)..Len(rows) :
                      /\ Len(rows[j].prefix) = d
                      /\ \A k \in (i + 1)..j : Len(rows[k].prefix) >= d
    IN  \A d \in 1..depth :
          IF d = depth THEN (rows[i].prefix[d] = "branch") = Below(d)
          ELSE (rows[i].prefix[d] = "pipe") = Below(d)

\* Removing a package that `why` calls safe breaks nothing, what it would leave
\* behind is needed by nothing else, and an orphan of the cleanup is safe here.
RemovalIsAsSaid(g, packages, name, answer) ==
  LET Others == {p \in ToSet(packages) : p.name # name}
      Uses(p, dep) == dep \in {Target(packages, p, d) : d \in p.depends_on}
  IN  /\ answer.verdict.says = "likely safe" => \A p \in Others : ~Uses(p, name)
      /\ answer.verdict.says # "unclear" /\ answer.verdict.label = "Confirmed" =>
           \A e \in g.edges : e.to = name => e.label = "Confirmed"
      /\ \A dep \in answer.would_remove :
           /\ ~\E p \in Others : Uses(p, dep)
           /\ \A p \in ToSet(packages) : p.name = dep => ~is_explicit(packages, dep)
      /\ name \in orphans(g, packages) => answer.verdict.says = "likely safe"
      /\ Asked(packages, name) \in unused_runtimes(g, packages) =>
           answer.verdict = [says |-> "likely safe", label |-> "Inferred"]
      /\ \A line \in {needed_by_line(answer, TRUE)} :
             /\ line.says = "nothing" <=> \A p \in ToSet(packages) : ~Uses(p, name)
             /\ line.direct <= line.total
      /\ \A pkg \in {Asked(packages, name)} :
             pkg.source # "flatpak" =>
               removing_line(pkg, answer).breaks
                 = Cardinality({p.name : p \in {p \in ToSet(packages) : Uses(p, name)}})

\* The pane says what the report says: the same reason, but that it does not tell
\* a dependency nothing explicit reaches from another, the same numbers of what
\* breaks and of what is left behind, named or counted, every row of the tree or
\* how many are missing, and no weak link among the first when the verdict is sure.
PaneSaysTheSame(pkg, answer) ==
  \A pane \in {why_pane_lines(pkg, answer)}, told \in {reason_line(pkg, answer)},
     removing \in {removing_line(pkg, answer)}, rows \in {tree_lines(answer.tree)} :
      /\ pane.reason = (CASE told = "explicitly installed" -> "explicit"
                          [] told = "nothing explicit reaches it" -> "dependency" [] OTHER -> told)
      /\ told = "nothing explicit reaches it" => pane.hops = Unreached
      /\ pkg.source # "flatpak" => pane.needed_by.named + pane.needed_by.more = removing.breaks
      /\ pane.orphans.named + pane.orphans.more = Cardinality(removing.orphans)
      /\ pane.needed_by.named = 0 <=> needed_by_line(answer, TRUE).says = "nothing"
      /\ Len(pane.chain) + pane.more_rows = Len(rows)
      /\ pane.verdict.says = "is a dependency" /\ pane.verdict.label = "Confirmed" =>
           \A i \in DOMAIN pane.chain :
             Len(rows[i].prefix) = 1 => ~pane.chain[i].marked

\* A dependency on a virtual name is one on an installed package when any
\* installed package of pacman provides it.
VirtualIsResolved(g, packages) ==
  (\E p \in ToSet(packages) : has_dep_graph(p) /\ Virtual \in p.provides) =>
    \A p \in ToSet(packages) :
      has_dep_graph(p) => \A d \in p.depends_on : Target(packages, p, d) \in Installed(packages)

WhyIsRight(packages) ==
  \A g \in {build(packages)} :
    /\ VirtualIsResolved(g, packages)
    /\ \A name \in Installed(packages) : \A answer \in {why(packages, g, name, All(g))} :
         /\ ImpactIsWhole(g, name)
         /\ DistanceIsLeast(g, packages, name)
         /\ RequirersAreCounted(g, name)
         /\ StrokesJoin(tree_lines(reverse_tree(g, name, TREE_DEPTH, {})))
         /\ RemovalIsAsSaid(g, packages, name, answer)
         /\ PaneSaysTheSame(Asked(packages, name), answer)
=============================================================================
