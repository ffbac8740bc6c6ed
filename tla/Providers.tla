----------------------------- MODULE Providers -----------------------------
(***************************************************************************)
(* What each source's provider makes of its commands.  A command leaves an *)
(* exit code and the rows it printed; one that could not be run, or that   *)
(* was stopped at its timeout, leaves NotRun.  A row is what its parser    *)
(* tells apart, the rows it skips included.                                *)
(***************************************************************************)
EXTENDS Integers, Sequences, SequencesExt, FiniteSetsExt

CONSTANTS
    PROBES,        \* packages asked about in each repository
    DAY, SLACK,    \* a mirror's daily sync; how far ahead a stamp may be
    EARLIEST,      \* no stamp is from before
    Texts          \* the names and versions there are, in the order of texts

None == "none"
Empty == ""        \* the empty name or version
Rank(text) == SelectInSeq(Texts, LAMBDA t : t = text)
NotRun == -1

Ok(v) == [ok |-> TRUE, value |-> v]
Failed == [ok |-> FALSE, value |-> <<>>]

\* The rows of a command that may exit with these codes.
Rows(out, codes) == IF out.exit \in codes THEN Ok(out.rows) ELSE Failed
\* Mutant of RowsOrNone: an exit with 1 says none whatever was printed.
NoneForAnyOne(out) == IF out.exit = 1 THEN Ok(<<>>) ELSE Rows(out, {0})

\* The same, when an exit with 1 and not a word also says "none".
RowsOrNone(out) == IF out.exit = 1 /\ out.rows = <<>> THEN Ok(<<>>) ELSE Rows(out, {0})
Then(result, F(_)) == IF result.ok THEN Ok(F(result.value)) ELSE Failed

Each(rows, F(_)) == [i \in DOMAIN rows |-> F(rows[i])]
\* The first of each key.
FirstOfEach(rows, Key(_)) ==
  LET fresh == SelectSeq([i \in DOMAIN rows |-> i],
                         LAMBDA i : \A j \in 1..(i - 1) : Key(rows[j]) # Key(rows[i]))
  IN  Each(fresh, LAMBDA i : rows[i])

Package(source, name, version) ==
  [source |-> source, name |-> name, version |-> version, reason |-> "Unknown",
   depends_on |-> <<>>, optional_deps |-> <<>>, provides |-> <<>>, runtime |-> FALSE,
   scope |-> None, foreign |-> FALSE, signed |-> FALSE, packager |-> "unknown",
   repo_version |-> <<>>]
Explicit(source, name, version) == [Package(source, name, version) EXCEPT !.reason = "Explicit"]
Update(source, name, from, to) ==
  [name |-> name, current |-> from, available |-> to, source |-> source]

-----------------------------------------------------------------------------
(* pacman: records of lines, each a field with its value's words, more of  *)
(* the value of the field before, or neither.                              *)

Record(lines, key) ==
  LET Field(i) == Max({0} \cup {j \in 1..i : lines[j].kind = "field"})
      Of(i) == /\ lines[i].kind \in {"field", "more"}
               /\ Field(i) # 0
               /\ lines[Field(i)].key = key
  IN  Each(SelectSeq([i \in DOMAIN lines |-> i], Of), LAMBDA i : lines[i].value)
first(lines, key) == IF Record(lines, key) = <<>> THEN <<>> ELSE Record(lines, key)[1]
Says(value, word) == \E i \in DOMAIN value : value[i].name = word

parse_reason(value) ==
  IF value # <<>> /\ value[1].name = "Explicitly" THEN "Explicit"
  ELSE IF Says(value, "dependency") THEN "Dependency" ELSE "Unknown"

parse_pkg_list(values) ==
  Each(SelectSeq(FlattenSeq(values), LAMBDA w : w.name # "None"), LAMBDA w : w.name)

parse_optional_deps(values) ==
  Each(SelectSeq(values, LAMBDA v : v # <<>> /\ v[1].name # "None"), LAMBDA v : v[1].name)

\* Nothing, or the one package of a record that names it.
parse_record(lines) ==
  LET name == first(lines, "Name")
      version == first(lines, "Version")
      packager == first(lines, "Packager")
  IN  IF name = <<>> THEN <<>>
      ELSE << [Package("pacman", name[1].name, IF version = <<>> THEN Empty ELSE version[1].name)
                EXCEPT !.reason = parse_reason(first(lines, "Install Reason")),
                       !.depends_on = parse_pkg_list(Record(lines, "Depends On")),
                       !.optional_deps = parse_optional_deps(Record(lines, "Optional Deps")),
                       !.provides = parse_pkg_list(Record(lines, "Provides")),
                       !.signed = Says(first(lines, "Validated By"), "Signature"),
                       !.packager = IF packager = <<>> \/ packager[1].name \in {"Unknown Packager", "None"}
                                    THEN "unknown" ELSE packager[1].name] >>

parse_qi(lines) ==
  LET Line(acc, l) ==
        IF l.kind = "blank"
        THEN [packages |-> acc.packages \o parse_record(acc.record), record |-> <<>>]
        ELSE [acc EXCEPT !.record = Append(@, l)]
      end == FoldLeft(Line, [packages |-> <<>>, record |-> <<>>], lines)
  IN  end.packages \o parse_record(end.record)

pacman_installed(run) == Then(Rows(run["pacman -Qi"], {0}), parse_qi)

\* `name current -> available`.
parse_updates_as(rows, source) ==
  Each(SelectSeq(rows, LAMBDA r : Len(r) >= 4 /\ r[3] = "->"),
       LAMBDA r : Update(source, r[1], r[2], r[4]))

scan_updates_checkupdates(out) ==
  IF out.exit = 2 THEN Ok(<<>>)
  ELSE Then(Rows(out, {0}), LAMBDA rows : parse_updates_as(rows, "pacman"))
pacman_updates(run, checkupdates) ==
  IF checkupdates THEN scan_updates_checkupdates(run["checkupdates"])
  ELSE Then(RowsOrNone(run["pacman -Qu"]), LAMBDA rows : parse_updates_as(rows, "pacman"))

parse_sync_list(rows) ==
  Each(SelectSeq(rows, LAMBDA r : Len(r) >= 3),
       LAMBDA r : [repo |-> r[1], name |-> r[2], version |-> r[3]])
sync_list(out) ==
  IF out.exit = NotRun \/ (out.exit # 0 /\ out.rows = <<>>) THEN Failed
  ELSE Ok(parse_sync_list(out.rows))

\* What pacman accepts, and the first architecture each repository shows: a
\* few names of each are asked about, and `any` says nothing.
targets(offers) ==
  LET Probed(i) == Cardinality({j \in 1..(i - 1) : offers[j].repo = offers[i].repo}) < PROBES
  IN  Each(SelectSeq([i \in DOMAIN offers |-> i], Probed), LAMBDA i : offers[i])
repo_arch(conf, si, offers) ==
  LET rows == IF si.exit = NotRun THEN <<>>
              ELSE Each(targets(offers), LAMBDA o : <<o.repo, si.arch[o.name]>>)
  IN  [accepted |-> IF conf.exit = 0 THEN conf.rows ELSE <<>>,
       served |-> FirstOfEach(SelectSeq(rows, LAMBDA r : r[2] # "any"), LAMBDA r : r[1])]

-----------------------------------------------------------------------------
(* AUR: which helper, and what it says.                                    *)

ALL == <<"paru", "yay", "pikaur">>
choose(configured, present) ==
  LET found == SelectSeq(ALL, LAMBDA h : h \in present)
      Choice(kind, helper) == [kind |-> kind, configured |-> configured, helper |-> helper]
  IN  CASE configured = None /\ found = <<>> -> Choice("none", None)
        [] configured = None /\ found # <<>> -> Choice("detected", Head(found))
        [] configured \in ToSet(ALL) \cap present -> Choice("pinned", configured)
        [] OTHER -> IF found = <<>> THEN Choice("configured missing", None)
                    ELSE Choice("fell back", Head(found))
helper_note(choice) ==
  CASE choice.kind \in {"detected", "pinned"} -> {}
    [] choice.kind = "fell back" -> {"asks for the configured", "uses another"}
    [] choice.kind = "configured missing" -> {"asks for the configured", "install a helper"}
    [] choice.kind = "none" -> {"install a helper"}
differs_from_config(choice) == choice.kind = "fell back"

foreign_names(run) ==
  Then(RowsOrNone(run["pacman -Qm"]),
       LAMBDA rows : {r[1] : r \in {r \in ToSet(rows) : r # <<>>}})

aur_updates(run) == Then(RowsOrNone(run["helper -Qua"]), LAMBDA rows : parse_updates_as(rows, "aur"))

-----------------------------------------------------------------------------
(* Flatpak: applications and runtimes, each once.                          *)

parse_scope(installation) == IF installation = "user" THEN "user" ELSE "system"
flatpak_list(out, runtime) ==
  Then(Rows(out, {0}), LAMBDA rows :
    Each(SelectSeq(rows, LAMBDA r : r.app # Empty), LAMBDA r :
      [Package("flatpak", r.app, r.version) EXCEPT
         !.runtime = runtime, !.scope = parse_scope(r.installation),
         !.depends_on = IF r.runtime = Empty THEN <<>> ELSE <<r.runtime>>]))

Before(p, q) ==
  \/ Rank(p.name) < Rank(q.name)
  \/ p.name = q.name /\ Rank(p.version) < Rank(q.version)
  \/ p.name = q.name /\ p.version = q.version /\ p.scope = "system" /\ q.scope = "user"
SameFlatpak(p) == <<p.name, p.version, p.scope>>
flatpak_installed(run) ==
  LET apps == flatpak_list(run["flatpak list --app"], FALSE)
      runtimes == flatpak_list(run["flatpak list --runtime"], TRUE)
      all == apps.value \o runtimes.value
      once == FirstOfEach(all, SameFlatpak)
  IN  IF apps.ok /\ runtimes.ok THEN Ok(SortSeq(once, Before)) ELSE Failed

flatpak_updates(run) ==
  Then(Rows(run["flatpak remote-ls"], {0}), LAMBDA rows :
    Each(SelectSeq(rows, LAMBDA r : r.app # Empty),
         LAMBDA r : Update("flatpak", r.app, Empty, r.version)))

-----------------------------------------------------------------------------
(* Cargo: its own record of what it installed, and `cargo-update`.         *)

\* No record that can be read is a source with nothing in it.
cargo_installed(file) ==
  IF ~file.readable THEN Ok(<<>>)
  ELSE IF ~file.parses THEN Failed
  ELSE Ok(SortSeq(Each(SelectSeq(file.keys, LAMBDA k : k.parses), LAMBDA k :
                    [Explicit("cargo", k.name, k.version) EXCEPT !.foreign = ~k.registry]),
                  LAMBDA p, q : Rank(p.name) < Rank(q.name)))

\* The rows under the heading that say yes.
cargo_parse_updates(rows) ==
  LET head == SelectInSeq(rows, LAMBDA r : r.is = "heading")
      table == IF head = 0 THEN <<>> ELSE SubSeq(rows, head + 1, Len(rows))
  IN  Each(SelectSeq(table, LAMBDA r : r.is = "crate" /\ r.needs /\ r.latest # Empty),
           LAMBDA r : Update("cargo", r.name, r.installed, r.latest))
cargo_updates(run, installed) ==
  IF ~installed THEN Ok(<<>>)
  ELSE Then(Rows(run["cargo install-update --list"], {0}), cargo_parse_updates)

-----------------------------------------------------------------------------
(* The sources of one shape: what each scan makes of its commands.         *)

Found(packages, updates) == [packages |-> packages, updates |-> updates]

parse_check(rows) == SelectSeq(rows, LAMBDA r : r.is = "toolchain")
rustup_assemble(toolchains, check) ==
  LET lines == parse_check(check)
      Version(t) == LET i == SelectInSeq(lines, LAMBDA l : l.name = t)
                    IN  IF i = 0 THEN t ELSE lines[i].version
  IN  Found(Each(toolchains, LAMBDA t : Explicit("rustup", t, Version(t))),
            Each(SelectSeq(lines, LAMBDA l : l.available # Empty),
                 LAMBDA l : Update("rustup", l.name, l.version, l.available)))
rustup_scan(run) ==
  LET list == Rows(run["rustup toolchain list"], {0})
      check == Rows(run["rustup check"], {0, 100})
      names == SelectSeq(list.value, LAMBDA t : t # "no")
  IN  IF list.ok /\ check.ok THEN Ok(rustup_assemble(names, check.value)) ELSE Failed

\* The last version listed is the current one; a pinned formula waits.
brew_scan(run) ==
  LET list == Rows(run["brew list"], {0})
      outdated == Rows(run["brew outdated"], {0})
  IN  IF list.ok /\ outdated.ok
      THEN Ok(Found(Each(list.value, LAMBDA r : Package("brew", r[1], Last(r))),
                    Each(SelectSeq(outdated.value, LAMBDA r : ~r.pinned),
                         LAMBDA r : Update("brew", r.name, Last(r.installed), r.available))))
      ELSE Failed

\* A line is a tool, or a command of the tool above it.
uv_parse(lines) ==
  LET tools == SelectSeq(lines, LAMBDA l : l.is = "tool")
      Line(packages, l) ==
        CASE l.is = "tool" -> Append(packages, Explicit("uv", l.name, l.version))
          [] l.is = "command" /\ packages # <<>> ->
               [packages EXCEPT ![Len(packages)].provides = Append(@, l.name)]
          [] OTHER -> packages
  IN  Found(FoldLeft(Line, <<>>, lines),
            Each(SelectSeq(tools, LAMBDA l : l.latest # Empty),
                 LAMBDA l : Update("uv", l.name, l.version, l.latest)))
uv_scan(run) ==
  LET outdated == Rows(run["uv tool list --outdated"], {0})
      full == Rows(run["uv tool list"], {0})
  IN  Then(outdated, LAMBDA rows : Found(uv_parse(full.value).packages, uv_parse(rows).updates))

\* Each binary's module is asked about on its own.
parse_version_m(rows) == SelectSeq(rows, LAMBDA b : b.path # Empty)
gobin_scan(run, exists) ==
  LET env == Rows(run["go env"], {0})
      versions == Rows(run["go version -m"], {0})
      binaries == parse_version_m(versions.value)
      Latest(b) == Rows(run["go list"][b.bin], {0})
      Newer(b) == /\ b.version # Empty /\ Latest(b).ok
                  /\ Latest(b).value # <<>> /\ Latest(b).value[1] # b.version
  IN  CASE ~env.ok -> Failed
        [] env.ok /\ ~exists -> Ok(Found(<<>>, <<>>))
        [] env.ok /\ exists /\ ~versions.ok -> Failed
        [] OTHER ->
             Ok(Found(Each(binaries, LAMBDA b :
                        [Explicit("gobin", b.bin, IF b.version = Empty THEN "(devel)" ELSE b.version)
                           EXCEPT !.foreign = b.version = Empty, !.provides = <<b.bin>>]),
                      Each(SelectSeq(binaries, Newer),
                           LAMBDA b : Update("gobin", b.bin, b.version, Latest(b).value[1]))))

\* Directories that pacman owns are pacman's packages.
npm_scan(run) ==
  LET ls == Rows(run["npm ls"], {0})
      listed == SelectSeq(ls.value, LAMBDA r : r.name # Empty)
      owned == ToSet(Rows(run["pacman -Qo"], 0..255).value)
      mine == SelectSeq(listed, LAMBDA r : r.dir \notin owned)
      outdated == Rows(run["npm outdated"], {0, 1}).value
      Mine(r) == \E i \in DOMAIN mine : mine[i].name = r.name
  IN  Then(ls, LAMBDA rows :
        Found(Each(mine, LAMBDA r : Explicit("npm", r.name, r.version)),
              Each(SelectSeq(outdated, Mine), LAMBDA r : Update("npm", r.name, r.current, r.latest))))

\* Output that is not what was asked for reads as no devices.
Garbled == [is |-> "garbled"]
parse(rows) == IF Garbled \in ToSet(rows) THEN <<>> ELSE rows

parse_devices(rows) ==
  Each(SelectSeq(parse(rows), LAMBDA d : d.updatable /\ d.version # None),
       LAMBDA d : Package("fwupd", d.name, d.version))
\* The newest release comes first.
fwupd_updates(rows) ==
  Each(SelectSeq(parse(rows), LAMBDA d : d.releases # <<>>),
       LAMBDA d : Update("fwupd", d.name, d.version, d.releases[1]))
fwupd_scan(run) ==
  Then(Rows(run["fwupdmgr get-devices"], {0}), LAMBDA rows :
    Found(parse_devices(rows),
          fwupd_updates(Rows(run["fwupdmgr get-updates"], 0..255).value)))

\* News: a post without a title, a link or a date that can be read is left out.
news_parse(items) == SelectSeq(items, LAMBDA n : n.titled /\ n.linked /\ n.dated)
news_fetch(out) == news_parse(Rows(out, {0}).value)

-----------------------------------------------------------------------------
(* The mirror asked first for `core`, against the master's clock.          *)

\* A stamp that was read, or nothing.
parse_stamp(body, now) ==
  IF body = <<>> \/ body[1] < EARLIEST \/ body[1] > now + SLACK THEN <<>> ELSE body

\* `based` is whether the server's address has the layout that says where its
\* marker is.  Without the master's there is nothing to compare with.
mirror_check(run, based, now) ==
  LET server == Rows(run["pacman-conf"], {0}).value
      Read(url) == parse_stamp(Rows(run[url], {0}).value, now)
      reference == Read("lastupdate")
  IN  IF server = <<>> THEN <<>>
      ELSE << [reference |-> reference,
               mirror |-> IF reference # <<>> /\ based THEN Read("lastsync") ELSE <<>>] >>

verdict(check) ==
  LET c == check[1]
      gap == c.reference[1] - c.mirror[1]
      Quiet == [says |-> "quiet", days |-> 0]
  IN  IF check = <<>> \/ c.reference = <<>> THEN Quiet
      ELSE IF c.mirror = <<>> THEN [says |-> "unknown", days |-> 0]
      ELSE IF gap >= DAY THEN [says |-> "behind", days |-> gap \div DAY] ELSE Quiet
mirror_note(v) == v.says # "quiet"
mirror_hint(v) == v.says = "behind"
=============================================================================
