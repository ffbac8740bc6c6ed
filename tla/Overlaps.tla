------------------------------ MODULE Overlaps ------------------------------
(***************************************************************************)
(* The same application installed natively and as a Flatpak: the pairs,    *)
(* how sure each is, and the report of where each side keeps its data,     *)
(* which the plan of `paclens migrate --run` is built from.                *)
(*                                                                         *)
(* A Flatpak has the last part of its id and its display name as fields; a *)
(* native package its name without a packaging suffix.  A path is a root   *)
(* and a last component; NoData is the size of one that does not exist.    *)
(***************************************************************************)
EXTENDS DepGraph

CONSTANT PROFILE_DATA_THRESHOLD

NoData == -1
NoMatch == [name |-> "no match"]
BLOCKLIST == {"base"}

Native(scan) == {p \in ToSet(scan.packages) : has_dep_graph(p)}
Called(scan, name) ==
  IF \E p \in Native(scan) : p.name = name THEN CHOOSE p \in Native(scan) : p.name = name ELSE NoMatch

\* Every name the bundled map and the user's entries give an application.
known_map(entries, app) ==
  FlattenSeq([i \in DOMAIN SelectSeq(entries, LAMBDA e : e.flatpak_id = app) |->
                SelectSeq(entries, LAMBDA e : e.flatpak_id = app)[i].names])

FirstInstalled(scan, names) ==
  LET i == SelectInSeq(names, LAMBDA n : Called(scan, n) # NoMatch)
  IN  IF i = 0 THEN NoMatch ELSE Called(scan, names[i])

usable(name) == name \notin BLOCKLIST

\* The first of the three ways that names an installed package.
match_app(scan, entries, app) ==
  LET known == FirstInstalled(scan, known_map(entries, app.name))
      suffix == IF usable(app.suffix) THEN Called(scan, app.suffix) ELSE NoMatch
      display == IF usable(app.display) THEN Called(scan, app.display) ELSE NoMatch
  IN  CASE known # NoMatch -> [native |-> known, confidence |-> "Confirmed"]
        [] suffix # NoMatch -> [native |-> suffix, confidence |-> "Inferred"]
        [] OTHER -> [native |-> display, confidence |-> "Unknown"]

\* Which side is probably the one in use.
likely_primary(native, app, profile_size) ==
  CASE native.install_reason = "Explicit" /\ app.install_reason = "Unknown" -> "Native"
    [] profile_size > PROFILE_DATA_THRESHOLD -> "Flatpak"
    [] OTHER -> "Unknown"

candidate(scan, app, m) ==
  [app |-> app, native |-> m.native, confidence |-> m.confidence,
   likely_primary |-> likely_primary(m.native, app, scan.profile_size[app.name])]

detect_overlaps(scan, ignore, entries) ==
  {candidate(scan, app, match_app(scan, entries, app)) :
     app \in {a \in ToSet(scan.packages) :
                /\ a.source = "flatpak" /\ ~a.runtime
                /\ a.name \notin ignore
                /\ match_app(scan, entries, a).native # NoMatch
                /\ match_app(scan, entries, a).native.name \notin ignore}}

\* The pairs `paclens overlaps` lists.
allows(min, confidence) == Worse[confidence] <= Worse[min]
render_overlaps(overlaps, min) == {o \in overlaps : allows(min, o.confidence)}

-----------------------------------------------------------------------------
(* Where each side keeps its data. *)

classify(path) ==
  CASE path.root = <<"~/.config">> -> "config" [] path.root = <<"~/.local/share">> -> "data"
    [] path.root = <<"~/.cache">> -> "cache" [] OTHER -> "profile"

\* The place of a native path in an application's sandbox.
flatpak_counterpart(path, app) ==
  [root |-> IF classify(path) = "profile" THEN <<"~/.var/app", app>>
           ELSE <<"~/.var/app", app, classify(path)>>,
   leaf |-> path.leaf]

guess_names(native) == <<native.name>> \o (IF native.stem = native.name THEN <<>> ELSE <<native.stem>>)

\* The curated directories of an application, then guesses by convention.
candidate_mappings(c, entries) ==
  LET mine == SelectSeq(entries, LAMBDA e : e.flatpak_id = c.app.name)
      curated == FlattenSeq([i \in DOMAIN mine |-> mine[i].profile_dirs])
      Guesses(name) == <<[root |-> <<"~/.config">>, leaf |-> name], [root |-> <<"~/.local/share">>, leaf |-> name],
                         [root |-> <<"~/.cache">>, leaf |-> name]>>
      guessed == FlattenSeq([i \in DOMAIN guess_names(c.native) |-> Guesses(guess_names(c.native)[i])])
      all == curated \o guessed
      First(i) == \A j \in 1..(i - 1) : all[j] # all[i]
  IN  {[native |-> all[i], flatpak |-> flatpak_counterpart(all[i], c.app.name), kind |-> classify(all[i]),
        confidence |-> IF i <= Len(curated) THEN "Confirmed" ELSE "Inferred"] :
         i \in {i \in DOMAIN all : First(i)}}

\* What the scanner measures.
probe_paths(candidates, entries) ==
  UNION {{m.native : m \in candidate_mappings(c, entries)}
           \cup {m.flatpak : m \in candidate_mappings(c, entries)} : c \in candidates}

\* A native version has an epoch and a release the Flatpak's has not.
versions_agree(native, flatpak) == native.upstream = flatpak \/ native.whole = flatpak

Measured(sizes, path) == IF path \in DOMAIN sizes THEN sizes[path] ELSE NoData

\* A pair, and what is overwritten, in a direction.
Source(m, direction) == IF direction = "to_flatpak" THEN m.native ELSE m.flatpak
\* Mutant of Destination: warns of data on one side whatever the direction.
DestinationIsNative(m, direction) == m.native

Destination(m, direction) == IF direction = "to_flatpak" THEN m.flatpak ELSE m.native

report(sizes, c, entries, asked) ==
  LET mappings == {m \in candidate_mappings(c, entries) :
                     Measured(sizes, m.native) # NoData \/ Measured(sizes, m.flatpak) # NoData}
      direction == CASE asked # "default" -> asked
                     [] c.likely_primary = "Native" -> "to_native"
                     [] OTHER -> "to_flatpak"
  IN  [direction |-> direction,
       confidence |-> c.confidence,
       mappings |-> mappings,
       warnings |->
         {"close it everywhere", "back up both sides"}
           \cup (IF asked = "default" /\ c.likely_primary = "Unknown" THEN {"primary side unclear"} ELSE {})
           \cup (IF versions_agree(c.native.version, c.app.version) THEN {} ELSE {"versions differ"})
           \cup (IF \E m \in mappings : m.confidence # "Confirmed" THEN {"inferred paths"} ELSE {})
           \cup (IF \E m \in mappings : Measured(sizes, Destination(m, direction)) # NoData
                 THEN {"target has data"} ELSE {})]

\* The pane of the overlap screen.  A mapping is two lines, where the data is and
\* where it goes; the order of the mappings is not kept.
Listed(S) == FoldSet(LAMBDA x, list : Append(list, x), <<>>, S)

\* Mutant of to_line: looks for what is written over on the side it is copied
\* from.
sourceExists(sizes, m, direction) ==
  CASE m.kind = "cache" -> "skipped"
    [] Measured(sizes, Source(m, direction)) # NoData -> "exists"
    [] OTHER -> "free"

to_line(sizes, m, direction) ==
  CASE m.kind = "cache" -> "skipped"
    [] Measured(sizes, Destination(m, direction)) # NoData -> "exists"
    [] OTHER -> "free"


render_migrate_pane(sizes, r, height) ==
  LET from_line(m) == IF Measured(sizes, Source(m, r.direction)) = NoData THEN "not present" ELSE "present"
      Pair(m) == <<[is |-> "from", path |-> Source(m, r.direction), says |-> from_line(m)],
                   [is |-> "to", path |-> Destination(m, r.direction), says |-> to_line(sizes, m, r.direction)]>>
      Says(is, what) == [is |-> is, path |-> <<>>, says |-> what]
      mappings == Listed(r.mappings)
      lines == (IF r.mappings = {} THEN <<Says("nothing to migrate", "")>> ELSE <<>>)
               \o FlattenSeq([i \in DOMAIN mappings |-> Pair(mappings[i])])
               \o Listed({Says("warning", w) : w \in r.warnings})
  IN  IF Len(lines) > height /\ height > 0
      THEN Append(SubSeq(lines, 1, height - 1), Says("more", "")) ELSE lines

-----------------------------------------------------------------------------
(* Scans with one application and the native packages it may be matched    *)
(* with, under every list of ignored names, and the reports made of the    *)
(* sizes the scanner measured.                                             *)

App == "org.app.Editor"
Stem == [n \in {"editor", "editor-bin", "mail", "base"} |-> IF n = "editor-bin" THEN "editor" ELSE n]

NativePackage(n, reason) ==
  [name |-> n, stem |-> Stem[n], source |-> "pacman", install_reason |-> reason, runtime |-> FALSE,
   provides |-> {}, depends_on |-> {}, version |-> [whole |-> "1:2-3", upstream |-> "2"]]
Flatpak(suffix, display, version, runtime) ==
  [name |-> App, suffix |-> suffix, display |-> display, source |-> "flatpak", runtime |-> runtime,
   install_reason |-> "Unknown", version |-> version, provides |-> {}, depends_on |-> {}]

Entry(names, dirs) == [flatpak_id |-> App, names |-> names, profile_dirs |-> dirs]
Mozilla == [root |-> <<"~">>, leaf |-> ".editor"]
Config == [root |-> <<"~/.config">>, leaf |-> "editor"]
Tables == {<<>>, <<Entry(<<"mail">>, <<Mozilla>>)>>,
           <<Entry(<<"editor-bin", "base">>, <<Config>>), Entry(<<"mail">>, <<Config, Mozilla>>)>>}

OverlapScans ==
  {[packages |-> SetToSeq({NativePackage(n, reason) : n \in N}) \o <<Flatpak(suffix, display, version, FALSE)>>,
    profile_size |-> [a \in {App} |-> size], entries |-> entries, min |-> min, ignore |-> ignore] :
     N \in SUBSET DOMAIN Stem, reason \in {"Explicit", "Dependency"},
     suffix \in {"editor", "base"}, display \in {"mail", "base", ""}, version \in {"2", "9"}, size \in {NoData, PROFILE_DATA_THRESHOLD, PROFILE_DATA_THRESHOLD + 1},
     entries \in Tables, min \in {"Inferred"}, ignore \in {{}, {"editor"}}}
  \cup {[packages |-> <<NativePackage("editor", "Explicit"), Flatpak("editor", "", "2", TRUE)>>,
         profile_size |-> [a \in {App} |-> 0], entries |-> <<>>, min |-> "Unknown", ignore |-> {}]}

\* The names a pair may have been matched by.
NamesOf(scan, app) ==
  ToSet(known_map(scan.entries, app.name)) \cup ({app.suffix, app.display} \ BLOCKLIST)

\* A pair is of an application and a native package of one of its names, once;
\* ignoring a name only takes pairs away, and all of that name's.
PairsAreRight(scan) ==
  \A found \in {detect_overlaps(scan, scan.ignore, scan.entries)} :
    /\ \A o \in found :
         /\ ~o.app.runtime /\ has_dep_graph(o.native)
         /\ o.native.name \in NamesOf(scan, o.app)
         /\ {o.app.name, o.native.name} \cap scan.ignore = {}
         /\ \A q \in found : q.app = o.app => q = o
         \* a name of the map is believed before a guess
         /\ (o.confidence = "Confirmed") =
              (\E p \in Native(scan) : p.name \in ToSet(known_map(scan.entries, o.app.name)))
    \* an application with a name installed natively is missed only when ignored
    /\ \A all \in {detect_overlaps(scan, {}, scan.entries)}, a \in ToSet(scan.packages) :
         (/\ a.source = "flatpak" /\ ~a.runtime
          /\ \E p \in Native(scan) : p.name \in NamesOf(scan, a))
           => \E o \in all : o.app = a
    /\ \A n \in DOMAIN Stem \cup {App} :
         \A fewer \in {detect_overlaps(scan, scan.ignore \cup {n}, scan.entries)} :
           /\ fewer \subseteq found
           /\ \A o \in found \ fewer : n \in {o.app.name, o.native.name}
    /\ \A o \in render_overlaps(found, scan.min) : o.confidence # "Unknown" \/ scan.min = "Unknown"

\* The pane shows as much as fits and says when that is not all; what it shows of
\* a copy is what the copy does: a directory it would write over is shown as
\* existing and warned of, one it leaves alone as skipped or not present.
PaneIsOfTheCopy(sizes, r) ==
  \A height \in {1, 4, 9} : \A pane \in {render_migrate_pane(sizes, r, height)} :
    LET Of(is) == {l \in ToSet(pane) : l.is = is}
        Copied(m) == m.kind # "cache" /\ Measured(sizes, Source(m, r.direction)) # NoData
        Over(m) == Copied(m) /\ Measured(sizes, Destination(m, r.direction)) # NoData
    IN  /\ Len(pane) <= height
        /\ \/ Last(pane).is = "more"
           \/ /\ {l.says : l \in Of("warning")} = r.warnings
              /\ \A m \in r.mappings :
                   Over(m) => \E l \in Of("to") : l.path = Destination(m, r.direction) /\ l.says = "exists"
        /\ \A l \in Of("to") : l.says = "exists" => "target has data" \in r.warnings
        /\ \A l \in Of("to") : l.says = "skipped" =>
             \E m \in r.mappings : m.kind = "cache" /\ l.path = Destination(m, r.direction)
        /\ \A m \in r.mappings : ~Copied(m) /\ m.kind # "cache" =>
             \A l \in Of("from") : l.path = Source(m, r.direction) => l.says = "not present"

\* The report of a pair says what is on the disk: nothing a report needs went
\* unmeasured, and what a copy would write over is warned of.
ReportIsOfTheDisk(scan) ==
  \A found \in {detect_overlaps(scan, scan.ignore, scan.entries)} :
  \A probes \in {probe_paths(found, scan.entries)} :
  \A o \in found, asked \in {"default", "to_native", "to_flatpak"},
     existing \in {{}, {Mozilla}, {Config}, {flatpak_counterpart(Config, App)},
                   {flatpak_counterpart(Mozilla, App), Config}, probes} :
  \A disk \in {[p \in existing |-> 0]} :
  \A r \in {report(disk, o, scan.entries, asked)} :
    /\ r = report([p \in existing \cap probes |-> 0], o, scan.entries, asked)
    /\ PaneIsOfTheCopy(disk, r)
    /\ ("target has data" \in r.warnings) = (\E m \in r.mappings : Destination(m, r.direction) \in existing)
    /\ \A m \in r.mappings : {Source(m, r.direction), Destination(m, r.direction)} \cap existing # {}
    /\ asked # "default" => r.direction = asked
    \* never onto a side whose own data made it the one in use
    /\ asked = "default" /\ o.likely_primary = "Flatpak" => r.direction = "to_flatpak"
    \* a guess is never shown as sure
    /\ \A m \in r.mappings : m.confidence = "Confirmed" =>
         \E i \in DOMAIN scan.entries : m.native \in ToSet(scan.entries[i].profile_dirs)
    /\ \A m, n \in r.mappings : m.native = n.native => m = n

OverlapsAreRight(scan) == PairsAreRight(scan) /\ ReportIsOfTheDisk(scan)
=============================================================================
