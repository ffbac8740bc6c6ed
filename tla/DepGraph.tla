------------------------------ MODULE DepGraph ------------------------------
(***************************************************************************)
(* The dependency graph of a scan and the questions asked of it.  A        *)
(* package is a record of what the graph reads; a name is a number, which  *)
(* gives the names the order they are sorted in.  Packages of two sources  *)
(* may have one name: the graph has one node for it.                       *)
(***************************************************************************)
EXTENDS Integers, Sequences, SequencesExt, FiniteSetsExt

Alpm == {"pacman", "aur"}

Capabilities(source) ==
  [dependency_graph |-> source \in Alpm,
   install_reason |-> source \in Alpm \cup {"cargo", "rustup", "uv", "gobin", "npm"},
   orphans |-> source \in Alpm]

has_dep_graph(p) == Capabilities(p.source).dependency_graph

Installed(packages) == {p.name : p \in ToSet(packages)}

\* The package a virtual name stands for: the first that provides it.
alias(packages, name) ==
  LET i == SelectInSeq(packages, LAMBDA p : has_dep_graph(p) /\ name \in p.provides)
  IN  IF i = 0 THEN name ELSE packages[i].name

\* Mutant of Target: a virtual name is not resolved to its provider.
TargetByName(packages, p, dep) == dep

Target(packages, p, dep) ==
  IF ~has_dep_graph(p) \/ dep \in Installed(packages) THEN dep ELSE alias(packages, dep)

Worse == [c \in {"Confirmed", "Inferred", "Unknown"} |->
            CASE c = "Confirmed" -> 0 [] c = "Inferred" -> 1 [] OTHER -> 2]
Worst(labels) == CHOOSE c \in labels : \A d \in labels : Worse[d] <= Worse[c]

\* The graph: its edges, and the names whose edges were added, in that order.
build(packages) ==
  [nodes |-> Installed(packages) \cup
               UNION {{Target(packages, p, d) : d \in p.depends_on} : p \in ToSet(packages)},
   edges |-> UNION {{[from |-> p.name, to |-> Target(packages, p, d),
                      label |-> IF has_dep_graph(p) THEN "Confirmed" ELSE "Inferred"]
                       : d \in p.depends_on} : p \in ToSet(packages)},
   order |-> [i \in DOMAIN packages |-> packages[i].name]]

Sorted(names) == SetToSortSeq(names, <)

requires(g, name) == {e.to : e \in {e \in g.edges : e.from = name}}
required_by(g, name) == {e.from : e \in {e \in g.edges : e.to = name}}

\* Each requirer once, with the worst label of its edges.
required_by_edges(g, name) ==
  LET parents == Sorted(required_by(g, name))
      Label(r) == Worst({e.label : e \in {e \in g.edges : e.from = r /\ e.to = name}})
  IN  [i \in DOMAIN parents |-> [name |-> parents[i], label |-> Label(parents[i])]]

\* A search that pops the last pushed, and marks a node when it is pushed.
RECURSIVE Search(_, _, _, _, _)
Search(g, start, stack, seen, max_depth) ==
  IF stack = <<>> THEN seen
  ELSE LET top == Last(stack)
           fresh == IF top.depth >= max_depth THEN {}
                    ELSE required_by(g, top.node) \ (seen \cup {start})
           new == SelectSeq(Reverse(g.order), LAMBDA n : n \in fresh)
       IN  Search(g, start,
                  Front(stack) \o [i \in DOMAIN new |-> [node |-> new[i], depth |-> top.depth + 1]],
                  seen \cup fresh, max_depth)

transitive_required_by(g, name, max_depth) ==
  IF name \notin g.nodes THEN {}
  ELSE Search(g, name, <<[node |-> name, depth |-> 0]>>, {}, max_depth)

Unreached == -1
is_explicit(packages, name) ==
  \E p \in ToSet(packages) : p.name = name /\ p.install_reason = "Explicit"

\* One generation of requirers after the other.
RECURSIVE Climb(_, _, _, _, _)
Climb(g, packages, frontier, seen, depth) ==
  LET next == UNION {required_by(g, n) : n \in frontier} \ seen
  IN  CASE frontier = {} -> Unreached
        [] \E n \in next : is_explicit(packages, n) -> depth
        [] OTHER -> Climb(g, packages, next, seen \cup next, depth + 1)

\* Mutant of depth_from_explicit: does not ask whether the package itself is
\* explicit.
depthOfRequirers(g, packages, name) ==
  IF name \notin g.nodes THEN Unreached ELSE Climb(g, packages, {name}, {name}, 1)

depth_from_explicit(g, packages, name) ==
  IF is_explicit(packages, name) THEN 0
  ELSE IF name \notin g.nodes THEN Unreached
  ELSE Climb(g, packages, {name}, {name}, 1)

unused_runtimes(g, packages) ==
  {p \in ToSet(packages) : p.runtime /\ required_by(g, p.name) = {}}

orphans(g, packages) ==
  {p.name : p \in {p \in ToSet(packages) :
     /\ Capabilities(p.source).orphans
     /\ p.install_reason = "Dependency"
     /\ required_by(g, p.name) = {}}}

orphans_ignoring(g, packages, ignore) == orphans(g, packages) \ ignore

=============================================================================
