---------------------------- MODULE MCProviders ----------------------------
(***************************************************************************)
(* Machines with a few things installed from each source, what the         *)
(* source's commands print of them, which of the commands do not work, and *)
(* what the providers must make of it.                                     *)
(***************************************************************************)
EXTENDS Providers

\* The state of each thing: absent, as new as there is, older, or odd in the
\* way of its source: a path or git install, a pinned formula, a toolchain
\* `rustup check` leaves out, a directory of pacman's, a device nothing updates.
MCTexts == <<"", "0", "1", "2", "a", "b", "r">>
Things == {"a", "b"}
States == {"absent", "new", "old", "odd"}
Installed == "1"
Newest == "2"

Commands ==
  [pacman |-> {"pacman -Qi", "pacman -Qu", "checkupdates"},
   aur |-> {"helper -Qua"},
   flatpak |-> {"flatpak list --app", "flatpak list --runtime", "flatpak remote-ls"},
   cargo |-> {".crates.toml", "cargo install-update --list"},
   rustup |-> {"rustup toolchain list", "rustup check"},
   brew |-> {"brew list", "brew outdated"},
   uv |-> {"uv tool list --outdated", "uv tool list"},
   gobin |-> {"go env", "go version -m", "go list"},
   npm |-> {"npm ls", "npm outdated", "pacman -Qo"},
   fwupd |-> {"fwupdmgr get-devices", "fwupdmgr get-updates"}]
Sources == DOMAIN Commands

\* A command fails, cannot be run or is stopped, or prints what it should not.
\* Cargo's record is a file: it does not parse, or cannot be read.
Ends(source) == {"yes", "fails", "dies"} \cup (IF source = "fwupd" THEN {"garbled"} ELSE {})
Machines ==
  UNION {[source : {source}, things : [Things -> States], checkupdates : IF source = "pacman" THEN BOOLEAN ELSE {TRUE},
          works : [Commands[source] -> Ends(source)]] : source \in Sources}

\* The things in some of the states, in order, and a row for each.
In(m, states) == SelectSeq(<<"a", "b">>, LAMBDA t : m.things[t] \in states)
RowsOf(m, states, Row(_)) == Each(In(m, states), Row)

\* The helper and pacman may fail after some rows.
Run(m, command, code, rows) ==
  CASE m.works[command] = "yes" -> [exit |-> code, rows |-> rows]
    [] m.works[command] = "fails" ->
         IF command \in {"pacman -Qu", "helper -Qua"} /\ rows # <<>> THEN [exit |-> 1, rows |-> rows]
         ELSE [exit |-> 101, rows |-> <<>>]
    [] m.works[command] = "dies" -> [exit |-> NotRun, rows |-> <<>>]
    [] m.works[command] = "garbled" -> [exit |-> 0, rows |-> <<Garbled>>]

W(word) == [name |-> word, bound |-> ""]
F(key, value) == [kind |-> "field", key |-> key, value |-> value]
More(value) == [kind |-> "more", key |-> "", value |-> value]
Blank == [kind |-> "blank", key |-> "", value |-> <<>>]

\* What `pacman -Qi` prints of a package, its lists wrapped or not.
Printed(m, t) ==
  <<F("Name", <<W(t)>>), F("Version", <<W(Installed)>>)>>
  \o (CASE m.things[t] = "new" ->
             <<F("Provides", <<W("None")>>), F("Depends On", <<W("x"), [name |-> "y", bound |-> ">=1"]>>),
               F("Optional Deps", <<W("None")>>), F("Packager", <<W("arch")>>),
               F("Install Reason", <<W("Explicitly"), W("installed")>>), F("Validated By", <<W("Signature")>>)>>
        [] m.things[t] = "old" ->
             <<F("Provides", <<W("v")>>), F("Depends On", <<W("x")>>), More(<<W("y")>>),
               F("Optional Deps", <<W("p"), W("x")>>), More(<<W("q")>>),
               F("Packager", <<W("Unknown Packager")>>), F("Validated By", <<W("None")>>),
               F("Install Reason", <<W("Installed"), W("as"), W("a"), W("dependency")>>)>>
        [] m.things[t] = "odd" -> <<F("Depends On", <<W("None")>>)>>)
  \o <<Blank>>
Parsed(m, t) ==
  CASE m.things[t] = "new" ->
         [Package("pacman", t, Installed) EXCEPT !.reason = "Explicit", !.depends_on = <<"x", "y">>,
            !.signed = TRUE, !.packager = "arch"]
    [] m.things[t] = "old" ->
         [Package("pacman", t, Installed) EXCEPT !.reason = "Dependency", !.depends_on = <<"x", "y">>,
            !.provides = <<"v">>, !.optional_deps = <<"p", "q">>]
    [] m.things[t] = "odd" -> Package("pacman", t, Installed)

Here == {"new", "old", "odd"}
Arrows(m) == RowsOf(m, {"old"}, LAMBDA t : <<t, Installed, "->", Newest>>)
Runner(m) ==
  CASE m.source = "pacman" ->
         LET one == IF Arrows(m) = <<>> THEN 1 ELSE 0
             two == IF Arrows(m) = <<>> THEN 2 ELSE 0
         IN  ("pacman -Qi" :> Run(m, "pacman -Qi", 0, <<Blank>> \o FlattenSeq(RowsOf(m, Here, LAMBDA t : Printed(m, t))))
              @@ "pacman -Qu" :> Run(m, "pacman -Qu", one, Arrows(m))
              @@ "checkupdates" :> Run(m, "checkupdates", two, Arrows(m)))
    [] m.source = "aur" ->
         "helper -Qua" :> Run(m, "helper -Qua", IF Arrows(m) = <<>> THEN 1 ELSE 0, Arrows(m))
    [] m.source = "flatpak" ->
         LET App(t) == [app |-> t, version |-> Installed, installation |-> "user", runtime |-> "r"]
             Runtime(t) == [App(t) EXCEPT !.runtime = Empty, !.installation = "system"]
         IN  ("flatpak list --app" :> Run(m, "flatpak list --app", 0, RowsOf(m, {"new", "old"}, App))
              @@ "flatpak list --runtime" :> Run(m, "flatpak list --runtime", 0,
                   RowsOf(m, {"odd"}, Runtime) \o RowsOf(m, {"odd"}, Runtime) \o <<Runtime(Empty)>>)
              @@ "flatpak remote-ls" :> Run(m, "flatpak remote-ls", 0,
                   RowsOf(m, {"old"}, LAMBDA t : [app |-> t, version |-> Newest])))
    [] m.source = "cargo" ->
         LET Crate(t) == [is |-> "crate", name |-> t, installed |-> Installed,
                          latest |-> CASE m.things[t] = "old" -> Newest [] m.things[t] = "new" -> Installed
                                       [] OTHER -> Empty,
                          needs |-> m.things[t] = "old"]
         IN  "cargo install-update --list" :> Run(m, "cargo install-update --list", 0,
               <<[is |-> "polling"], [is |-> "heading"]>> \o RowsOf(m, Here, Crate))
    [] m.source = "rustup" ->
         LET Line(t) == [is |-> "toolchain", name |-> t, version |-> Installed,
                         available |-> IF m.things[t] = "old" THEN Newest ELSE Empty]
         IN  ("rustup toolchain list" :> Run(m, "rustup toolchain list", 0,
                IF In(m, Here) = <<>> THEN <<"no">> ELSE In(m, Here))
              @@ "rustup check" :> Run(m, "rustup check", IF In(m, {"old"}) = <<>> THEN 0 ELSE 100,
                   RowsOf(m, {"new", "old"}, Line)))
    [] m.source = "brew" ->
         LET Outdated(t) == [name |-> t, installed |-> <<"0", Installed>>, available |-> Newest,
                             pinned |-> m.things[t] = "odd"]
         IN  ("brew list" :> Run(m, "brew list", 0, RowsOf(m, Here, LAMBDA t : <<t, "0", Installed>>))
              @@ "brew outdated" :> Run(m, "brew outdated", 0, RowsOf(m, {"old", "odd"}, Outdated)))
    [] m.source = "uv" ->
         LET Tool(t) == <<[is |-> "tool", name |-> t, version |-> Installed,
                           latest |-> IF m.things[t] = "old" THEN Newest ELSE Empty],
                          [is |-> "command", name |-> t]>>
             Plain(t) == [Tool(t) EXCEPT ![1].latest = Empty]
         IN  ("uv tool list --outdated" :> Run(m, "uv tool list --outdated", 0,
                FlattenSeq(RowsOf(m, {"old"}, Tool)))
              @@ "uv tool list" :> Run(m, "uv tool list", 0, FlattenSeq(RowsOf(m, Here, Plain))))
    [] m.source = "gobin" ->
         LET Binary(t) == [bin |-> t, path |-> t, version |-> IF m.things[t] = "odd" THEN Empty ELSE Installed]
             Latest(t) == Run(m, "go list", 0, <<IF m.things[t] = "old" THEN Newest ELSE Installed>>)
         IN  ("go env" :> Run(m, "go env", 0, <<>>)
              @@ "go version -m" :> Run(m, "go version -m", 0, RowsOf(m, Here, Binary))
              @@ "go list" :> [t \in Things |-> Latest(t)])
    [] m.source = "npm" ->
         LET Line(t) == [dir |-> t, name |-> t, version |-> Installed]
         IN  ("npm ls" :> Run(m, "npm ls", 0,
                <<[dir |-> "prefix", name |-> Empty, version |-> Empty]>> \o RowsOf(m, Here, Line))
              @@ "npm outdated" :> Run(m, "npm outdated", IF In(m, {"old", "odd"}) = <<>> THEN 0 ELSE 1,
                   RowsOf(m, {"old", "odd"}, LAMBDA t : [name |-> t, current |-> Installed, latest |-> Newest]))
              @@ "pacman -Qo" :> Run(m, "pacman -Qo", 0, In(m, {"odd"})))
    [] m.source = "fwupd" ->
         LET Device(t) == [name |-> t, version |-> Installed, updatable |-> m.things[t] # "odd",
                           releases |-> IF m.things[t] = "old" THEN <<Newest, Installed>> ELSE <<>>]
         IN  ("fwupdmgr get-devices" :> Run(m, "fwupdmgr get-devices", 0, RowsOf(m, Here, Device))
              @@ "fwupdmgr get-updates" :> Run(m, "fwupdmgr get-updates", IF In(m, {"old"}) = <<>> THEN 2 ELSE 0,
                   RowsOf(m, {"old"}, Device)))

\* The two answers of a source, of the installed and of the updates.
Told(m, run) ==
  LET Both(scan) == [installed |-> Then(scan, LAMBDA f : f.packages),
                     updates |-> Then(scan, LAMBDA f : f.updates)]
      file == [readable |-> m.works[".crates.toml"] # "dies", parses |-> m.works[".crates.toml"] = "yes",
               keys |-> <<[parses |-> FALSE]>> \o RowsOf(m, Here, LAMBDA t :
                 [parses |-> TRUE, name |-> t, version |-> Installed, registry |-> m.things[t] # "odd"])]
  IN  CASE m.source = "pacman" ->
             [installed |-> pacman_installed(run), updates |-> pacman_updates(run, m.checkupdates)]
        [] m.source = "aur" -> [installed |-> Ok(<<>>), updates |-> aur_updates(run)]
        [] m.source = "flatpak" -> [installed |-> flatpak_installed(run), updates |-> flatpak_updates(run)]
        [] m.source = "cargo" -> [installed |-> cargo_installed(file), updates |-> cargo_updates(run, TRUE)]
        [] m.source = "rustup" -> Both(rustup_scan(run))
        [] m.source = "brew" -> Both(brew_scan(run))
        [] m.source = "uv" -> Both(uv_scan(run))
        [] m.source = "gobin" -> Both(gobin_scan(run, TRUE))
        [] m.source = "npm" -> Both(npm_scan(run))
        [] m.source = "fwupd" -> Both(fwupd_scan(run))

Answer(m) == Told(m, Runner(m))

\* The commands each answer is read from.  A source of one scan answers both
\* questions or neither.
ReadFrom(m) ==
  CASE m.source = "pacman" ->
         [installed |-> {"pacman -Qi"}, updates |-> {IF m.checkupdates THEN "checkupdates" ELSE "pacman -Qu"}]
    [] m.source = "aur" -> [installed |-> {}, updates |-> Commands["aur"]]
    [] m.source = "flatpak" ->
         [installed |-> {"flatpak list --app", "flatpak list --runtime"}, updates |-> {"flatpak remote-ls"}]
    [] m.source = "cargo" ->
         [installed |-> {".crates.toml"}, updates |-> {"cargo install-update --list"}]
    [] OTHER -> [x \in {"installed", "updates"} |-> Commands[m.source]]

\* The failures a source keeps to itself: its answer is made without that
\* command, or of nothing.  Of them only Go's is one its provider documents: "a
\* lookup that fails is no update".
Unsaid(m) ==
  {c \in Commands[m.source] :
     \/ c \in {"uv tool list", "go list", "npm outdated", "pacman -Qo", "fwupdmgr get-updates"}
     \/ m.works[c] = "garbled"
     \/ c = ".crates.toml" /\ m.works[c] = "dies"}
Works(m, commands) == \A c \in commands : m.works[c] = "yes"

NamesOf(rows) == [i \in DOMAIN rows |-> rows[i].name]
UpdatesAreReal(m, updates) ==
  \A i \in DOMAIN updates :
    /\ m.things[updates[i].name] = "old"
    /\ updates[i].current \in IF m.source = "flatpak" THEN {Empty} ELSE {Installed}
    /\ updates[i].available = Newest

\* An answer says that a command it is read from failed, apart from those that
\* are left unsaid; when all of them worked it has every thing of the source
\* once, and exactly the updates there are, from what is installed.  What an
\* answer holds when an unsaid command failed is not asserted here.
IsTrue(m, answer, packages, updates) ==
  LET owned == IF m.source \in {"npm", "fwupd"} THEN {"new", "old"} ELSE Here
      Whole(x) == Works(m, ReadFrom(m)[x])
  IN  /\ \A x \in {"installed", "updates"} :
           /\ answer[x].ok => Works(m, ReadFrom(m)[x] \ Unsaid(m))
           /\ Whole(x) => answer[x].ok
      /\ Whole("installed") /\ m.source # "aur" => NamesOf(packages) = In(m, owned)
      /\ Whole("installed") /\ m.source = "pacman" => packages = RowsOf(m, Here, LAMBDA t : Parsed(m, t))
      /\ Whole("updates") => UpdatesAreReal(m, updates) /\ NamesOf(updates) = In(m, {"old"})
      /\ Works(m, ReadFrom(m).updates \ {"go list"}) => UpdatesAreReal(m, updates)

TrueOf(m, answer) == IsTrue(m, answer, answer.installed.value, answer.updates.value)
AnswersAreTrue(m) == TrueOf(m, Answer(m))

\* A command that exits with an error, cannot be run or is stopped is said, the
\* lookups of Go's modules apart.
NoFailureIsSilent(m) ==
  \A x \in {"installed", "updates"}, c \in Commands[m.source] \ {".crates.toml", "go list"} :
    Answer(m)[x].ok /\ c \in ReadFrom(m)[x] => m.works[c] \in {"yes", "garbled"}

-----------------------------------------------------------------------------
Configs == [configured : {None, "trizen"} \cup ToSet(ALL), present : SUBSET ToSet(ALL)]

\* The helper used is installed, the configured one when it can be, and what
\* differs from the configuration, or is missing, is said.
HelperIsUsable(c) ==
  LET choice == choose(c.configured, c.present)
  IN  /\ choice.helper = None <=> c.present = {}
      /\ choice.helper # None => choice.helper \in c.present
      /\ c.configured \in c.present => choice.helper = c.configured
      /\ differs_from_config(choice) <=>
           c.configured # None /\ choice.helper # None /\ choice.helper # c.configured
      /\ helper_note(choice) = {} <=>
           choice.helper # None /\ (c.configured = None \/ choice.helper = c.configured)
      /\ "install a helper" \in helper_note(choice) <=> choice.helper = None

Mirrors ==
  [master : 0..6, copy : 0..6, now : {6}, based : BOOLEAN,
   works : [{"pacman-conf", "lastupdate", "lastsync"} -> {"yes", "fails", "garbage"}]]
Reads(m, url, stamp) ==
  CASE m.works[url] = "yes" -> [exit |-> 0, rows |-> <<stamp>>]
    [] m.works[url] = "garbage" -> [exit |-> 0, rows |-> <<>>]
    [] m.works[url] = "fails" -> [exit |-> 22, rows |-> <<>>]

\* A mirror is called behind by no more days than it is, on two stamps that
\* were read, and nothing is said while the master cannot be asked.
MirrorIsFair(m) ==
  LET run == [url \in {"pacman-conf", "lastupdate", "lastsync"} |->
                Reads(m, url, CASE url = "lastupdate" -> m.master [] url = "lastsync" -> m.copy
                                [] OTHER -> 0)]
      v == verdict(mirror_check(run, m.based, m.now))
      Read(url) == m.works[url] = "yes"
  IN  /\ v.says = "behind" =>
           Read("lastupdate") /\ Read("lastsync") /\ m.based /\ v.days >= 1 /\ v.days * DAY <= m.master - m.copy
      /\ v.says = "unknown" => Read("lastupdate") /\ Read("pacman-conf")
      /\ Read("pacman-conf") /\ Read("lastupdate") /\ Read("lastsync") /\ m.based
         /\ m.copy >= EARLIEST /\ m.master - m.copy >= DAY => v.says = "behind"
      /\ mirror_hint(v) => mirror_note(v)

\* Repositories and the architectures of their packages, in order.
Repos == [offers : {[i \in 1..Len(repos) |-> [repo |-> repos[i], name |-> i]] :
                      repos \in UNION {[1..n -> {"core", "mine"}] : n \in 0..4}},
          arch : [1..4 -> {"any", "v2", "v3"}], probed : {"yes", "dies"}]
ArchIsServed(r) ==
  LET si == [exit |-> IF r.probed = "yes" THEN 0 ELSE NotRun, arch |-> r.arch]
      served == ToSet(repo_arch([exit |-> 0, rows |-> <<"v2">>], si, r.offers).served)
      Probed(repo) == {i \in DOMAIN r.offers : r.offers[i].repo = repo /\
                         Cardinality({j \in 1..i : r.offers[j].repo = repo}) <= PROBES}
  IN  /\ \A s \in served : \E i \in DOMAIN r.offers : r.offers[i].repo = s[1] /\ r.arch[i] = s[2]
      /\ \A repo \in {"core", "mine"} :
           Cardinality({s \in served : s[1] = repo}) =
             IF r.probed = "yes" /\ \E i \in Probed(repo) : r.arch[i] # "any" THEN 1 ELSE 0
=============================================================================
