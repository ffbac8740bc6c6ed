------------------------------ MODULE MCStatus ------------------------------
(***************************************************************************)
(* Machines with a few things of four sources, the commands on them that   *)
(* fail, and what the assembled scan, every partial of it, and the status  *)
(* read from it must say.                                                  *)
(***************************************************************************)
EXTENDS Assembly

MCTexts == <<"", "1", "2", "3", "a", "b", "f", "g">>

\* Of pacman `a` and `b`, of flatpak `f` in both scopes and `g` in one, of
\* cargo and npm a crate and a package that are called `a` too.
Alpm == {"a", "b"}
P(source, name, version) == Package(source, name, version)
Flatpaks == <<[P("flatpak", "f", "1") EXCEPT !.scope = "system"], [P("flatpak", "f", "2") EXCEPT !.scope = "user"],
              [P("flatpak", "g", "1") EXCEPT !.scope = "user"]>>

\* The commands each source's row rests on.
RestsOn ==
  [pacman |-> {"-Qi", "-Qu", "-Sl", "-Qm"}, aur |-> {"-Qm", "-Qua"}, flatpak |-> {"list", "remote-ls"},
   cargo |-> {".crates.toml", "install-update"}, npm |-> {"npm ls"}]
AllCommands == UNION {RestsOn[s] : s \in DOMAIN RestsOn}
AllFound == DOMAIN RestsOn \cup {"checkupdates", "cargo-update"}
Everything == [sources |-> DOMAIN RestsOn, include_user |-> TRUE, include_system |-> TRUE]

Offers == {<<>>, <<[repo |-> "v3", name |-> "a", version |-> "1"], [repo |-> "core", name |-> "a", version |-> "2"]>>,
           <<[repo |-> "v3", name |-> "a", version |-> "2"], [repo |-> "core", name |-> "a", version |-> "1"],
             [repo |-> "core", name |-> "b", version |-> "1"]>>}
Few(S, n) == {T \in SUBSET S : Cardinality(T) <= n}

W(foreign, signed, offers, broken, old, config, found, helper) ==
  [foreign : foreign, signed : signed, offers : offers, broken : broken, old : old, config : config,
   found : found, helper : helper]
NoneOld == [s \in DOMAIN RestsOn |-> FALSE]
Olds == {[s \in DOMAIN RestsOn |-> s \in old] : old \in Few(DOMAIN RestsOn, 1) \cup {DOMAIN RestsOn}}
Paru == choose(None, {"paru"})
Configs ==
  {[Everything EXCEPT !.include_user = u, !.include_system = s] : u, s \in BOOLEAN}
   \cup {[Everything EXCEPT !.sources = s] :
            s \in {{"pacman"}, {"pacman", "aur"}, {"pacman", "flatpak"}, {"cargo", "npm"}}}
\* What is where; what fails; what is pending and how the machine is set up.
Worlds ==
  W(SUBSET Alpm, SUBSET Alpm, Offers, Few({"-Qm", "-Sl", "-Qi"}, 1), {NoneOld},
    {Everything, [Everything EXCEPT !.sources = {"pacman"}]}, {AllFound}, {Paru})
  \cup W({{"b"}}, {{"a"}}, {<<>>}, Few(AllCommands, 2), {NoneOld, [NoneOld EXCEPT !["aur"] = TRUE]},
         {Everything}, {AllFound, AllFound \ {"cargo-update"}}, {Paru})
  \cup W({{"b"}}, {{"a"}}, {<<>>}, {{}, {"remote-ls"}}, Olds, Configs,
         {AllFound} \cup {AllFound \ {x} : x \in AllFound},
         {choose(c, here) : c \in {None, "yay"}, here \in {{}, {"paru"}}})

Answered(w, command, value) == IF command \in w.broken THEN Failed ELSE Ok(value)
Pending(w, source, name, from) == IF w.old[source] THEN <<Update(source, name, from, "3")>> ELSE <<>>
Machine(w) ==
  LET Alpms == <<[P("pacman", "a", "1") EXCEPT !.signed = "a" \in w.signed, !.packager = "arch"],
                 [P("pacman", "b", "1") EXCEPT !.signed = "b" \in w.signed, !.packager = "arch"]>>
      remote == IF w.old["flatpak"] THEN <<Update("flatpak", "g", Empty, "3"), Update("flatpak", "f", Empty, "3")>>
                ELSE <<>>
      cargo_check == IF "cargo-update" \in w.found
                     THEN Answered(w, "install-update", Pending(w, "cargo", "a", "1")) ELSE Ok(<<>>)
  IN  [installed |-> [pacman |-> Answered(w, "-Qi", Alpms), flatpak |-> Answered(w, "list", Flatpaks),
                      cargo |-> Answered(w, ".crates.toml", <<P("cargo", "a", "1")>>)],
       updates |-> [pacman |-> Answered(w, "-Qu", Pending(w, "pacman", "a", "1")),
                    aur |-> Answered(w, "-Qua", Pending(w, "aur", "b", "1")),
                    flatpak |-> Answered(w, "remote-ls", remote), cargo |-> cargo_check],
       simple |-> [npm |-> Answered(w, "npm ls", Found(<<P("npm", "a", "1")>>, Pending(w, "npm", "a", "1")))],
       offers |-> Answered(w, "-Sl", w.offers),
       foreign |-> Answered(w, "-Qm", w.foreign),
       helper |-> w.helper]
Scan(w) == assembled(Machine(w), w.config, w.found)

Count(scan, source, name) ==
  Cardinality({i \in DOMAIN scan.packages : scan.packages[i].source = source /\ scan.packages[i].name = name})

\* What is installed is in the scan once, under the source that manages it;
\* only what is foreign, and was built here, is the aur's.
EachOnce(w, scan) ==
  LET ls == lanes(w.config, w.found)
      known == IF "aur" \in ls /\ "-Qm" \notin w.broken THEN w.foreign ELSE {}
  IN  /\ \A name \in Alpm :
           LET aur == name \in known \ w.signed
           IN  /\ Count(scan, "pacman", name) = IF "pacman" \in ls /\ "-Qi" \notin w.broken /\ ~aur THEN 1 ELSE 0
               /\ Count(scan, "aur", name) = IF "-Qi" \notin w.broken /\ aur THEN 1 ELSE 0
      /\ Count(scan, "cargo", "a") = IF "cargo" \in ls /\ ".crates.toml" \notin w.broken THEN 1 ELSE 0
      /\ Count(scan, "npm", "a") = IF "npm" \in ls /\ "npm ls" \notin w.broken THEN 1 ELSE 0
      /\ \A f \in ToSet(Flatpaks) :
           f \in ToSet(scan.packages) <=> /\ "flatpak" \in ls /\ "list" \notin w.broken
                                          /\ IF f.scope = "user" THEN w.config.include_user
                                             ELSE w.config.include_system

\* A version is held against the repository pacman would take it from.
FirstRepositoryCounts(w, scan) ==
  \A i \in DOMAIN scan.packages :
    LET p == scan.packages[i]
        offers == {k \in DOMAIN w.offers : w.offers[k].name = p.name}
        taken == w.offers[Min(offers)]
    IN  p.source \in {"pacman", "aur"} =>
          p.repo_version = IF "-Sl" \in w.broken \/ offers = {} \/ taken.version = p.version
                           THEN <<>> ELSE <<taken.repo, taken.version>>

\* No update without the package it is for, from a version that is installed.
UpdatesHaveTheirPackage(w, scan) ==
  \A i \in DOMAIN scan.updates :
    LET u == scan.updates[i]
    IN  "-Qi" \notin w.broken /\ ~(u.source = "aur" /\ "-Qm" \in w.broken) /\ ~(u.source = "cargo" /\ ".crates.toml" \in w.broken) =>
          \E p \in ToSet(scan.packages) : p.name = u.name /\ p.source = u.source /\ p.version = u.current

\* A row shows a number of updates only when the source was asked and answered,
\* and the number is what is pending; else it says why.  `--check` does not
\* answer 0 or 1 when a source it asked failed, and 0 only when nothing is
\* pending in any source that has a way to update; of a source that has none it
\* asserts nothing here.
NothingUncheckedIsZero(w, scan) ==
  LET ls == lanes(w.config, w.found)
      Asked(id) == id \in ls
      \* pacman's own row does not rest on `-Qm` without the aur's lane, nor the
      \* aur's on a helper there is not.
      Rests(id) == CASE id = "pacman" /\ "aur" \notin ls -> RestsOn[id] \ {"-Qm"}
                     [] id = "aur" /\ w.helper.helper = None -> {"-Qm"}
                     [] id = "cargo" /\ "cargo-update" \notin w.found -> {".crates.toml"}
                     [] OTHER -> RestsOn[id]
      Broke(id) == Asked(id) /\ Rests(id) \cap w.broken # {}
      Truly(id) == IF ~w.old[id] \/ (id = "flatpak" /\ "list" \in w.broken) THEN 0
                   ELSE IF id = "flatpak"
                   THEN (IF w.config.include_user THEN 1 ELSE 0)
                          + (IF w.config.include_user \/ w.config.include_system THEN 1 ELSE 0)
                   ELSE 1
      check == check_line(<<scan>>)
  IN  /\ \A i \in DOMAIN scan.sources :
           LET s == scan.sources[i]
               row == Row(scan, s)
           IN  /\ s.scan_error <=> Broke(s.id)
               /\ s.last_scanned <=> Asked(s.id)
               /\ row.updates # Dash => Asked(s.id) /\ ~Broke(s.id) /\ row.updates = Truly(s.id)
               /\ row.updates = Dash => row.status # "ok" /\ (row.status # "not found" => source_note(scan, s) # {})
               /\ differs_from_config(w.helper) /\ s.id = "aur" => row.marked
      /\ headline(scan).says = "failed" <=> \E s \in ToSet(scan.sources) : Broke(s.id)
      /\ headline(scan).says = "failed" => check.code = 2
      /\ check.code = 2 => \E s \in ToSet(scan.sources) : updates_unknown(s)
      /\ check.code = 0 => \A i \in DOMAIN scan.sources :
           LET s == scan.sources[i] IN s.available => Asked(s.id) /\ Truly(s.id) = 0
      /\ headline(scan).says = "up to date" => check.code = 0
      /\ headline(scan).says \in {"up to date", "updates"} =>
           \A s \in ToSet(scan.sources) : Asked(s.id) => s.available

ScanIsRight(w) ==
  LET scan == Scan(w)
  IN  /\ EachOnce(w, scan)
      /\ FirstRepositoryCounts(w, scan)
      /\ UpdatesHaveTheirPackage(w, scan)
      /\ NothingUncheckedIsZero(w, scan)

-----------------------------------------------------------------------------
Early ==
  W(SUBSET Alpm, {{}, {"a"}}, {<<>>}, Few({"-Qi", "-Qu", "-Sl", "-Qm", "-Qua"}, 1), {[NoneOld EXCEPT !["aur"] = TRUE]},
    {[Everything EXCEPT !.sources = {"pacman", "aur"}]}, {AllFound}, {Paru})
  \cup W({{"b"}}, {{"a"}}, {<<>>}, Few({"list", "remote-ls", "-Qm", "npm ls"}, 1), {[NoneOld EXCEPT !["flatpak"] = TRUE]},
         {[Everything EXCEPT !.sources = {"pacman", "flatpak", "npm"}]}, {AllFound}, {Paru})

\* A row that is settled in a partial result is the row of the finished one, its
\* packages and failure with it, whatever came in first, and a row no lane has
\* settled claims no count of updates it would take back.
SettledRowsStay(w) ==
  LET machine == Machine(w)
      names == LaneNames(w.config, w.found)
      final == Scan(w)
      Most == Max({Len(Sent(machine, l)) : l \in names})
      Counts == {c \in [names -> 0..Most] : \A l \in names : c[l] <= Len(Sent(machine, l))}
      Of(scan, id) == SelectSeq(scan.packages, LAMBDA p : p.source = id)
  IN  /\ \A c \in Counts :
           LET scan == Partial(machine, w.config, w.found, c)
           IN  \A i \in DOMAIN scan.sources :
                 LET s == scan.sources[i]
                 IN  /\ s.last_scanned => Row(scan, s) = Row(final, final.sources[i]) /\ Of(scan, s.id) = Of(final, s.id)
                     /\ s.scan_error => final.sources[i].scan_error
                     /\ ~s.last_scanned /\ ~s.scan_error /\ s.available =>
                          check_line(<<scan>>).code = 2
      /\ \A i \in DOMAIN final.sources : ~detect_sources(w.config, w.found, w.helper).sources[i].last_scanned

\* What `du` made of three directories, `paccache` of its dry run and the feed of
\* its address, and what the scan is to ask for.
Outs(rows) == [exit : {NotRun, 0, 1}, rows : {<<>>, rows}]
Beside ==
  [cache : Outs(<<1>>), aur_cache : Outs(<<2>>), profile : Outs(<<3>>), paccache : Outs(<<0>>),
   pacman : BOOLEAN, helper : {None, "paru"}, asked : BOOLEAN, news : Outs(<<[titled |-> TRUE, linked |-> TRUE, dated |-> TRUE],
                                                                            [titled |-> TRUE, linked |-> TRUE, dated |-> FALSE]>>)]

\* A number beside the lanes is one that a command printed, of the thing it
\* measured, and is missing, never zero, where none was printed; a runtime has
\* no profile; the network is asked for nothing that is turned off.
NumbersAreMeasured(b) ==
  LET du == [d \in {"cache", "aur cache", "f", "a"} |->
               CASE d = "cache" -> b.cache [] d = "aur cache" -> b.aur_cache [] OTHER -> b.profile]
      sizes == gather_cache_sizes(du, b.paccache, b.pacman, b.helper)
      profiles == gather_profile_sizes(du, <<P("flatpak", "f", "1"), [P("flatpak", "a", "1") EXCEPT !.runtime = TRUE]>>)
      net == network([arch_news |-> b.asked, mirror_check |-> b.asked], b.pacman, b.news, <<"mirror">>)
      Printed(out) == IF out.exit = NotRun THEN <<>> ELSE out.rows
  IN  /\ sizes = [pacman |-> IF b.pacman THEN Printed(b.cache) ELSE <<>>,
                  reclaimable |-> IF b.pacman THEN Printed(b.paccache) ELSE <<>>,
                  aur |-> IF b.helper = None THEN <<>> ELSE Printed(b.aur_cache)]
      /\ profiles = {<<"f", n>> : n \in ToSet(Printed(b.profile))}
      /\ measure_profile_dirs(du, {"a", "f"}) = {<<d, n>> : d \in {"a", "f"}, n \in ToSet(Printed(b.profile))}
      /\ net.news # <<>> \/ net.mirror # <<>> => b.asked /\ b.pacman
      /\ Len(net.news) = IF b.asked /\ b.pacman /\ b.news.exit = 0 /\ b.news.rows # <<>> THEN 1 ELSE 0

Trees ==
  LET Paths == {<<"etc">>, <<"etc", "a">>, <<"etc", "f">>, <<"etc", "a", "b">>, <<"etc", "a", "f">>, <<"etc", "a", "b", "f">>}
  IN  {t \in [Paths -> {"dir", "closed", "link", "pacnew", "other"}] :
         /\ t[<<"etc">>] \in {"dir", "closed"}
         /\ t[<<"etc", "f">>] \notin {"dir", "closed"}
         /\ t[<<"etc", "a", "b", "f">>] \in {"pacnew", "other"} /\ t[<<"etc", "a", "f">>] \in {"pacnew", "link"}}
\* Each leftover is found that can be reached through directories that can be
\* read, none too deep, and no link is followed.
LeftoversAreFound(t) ==
  find_pacfiles(t, {<<"etc">>}) =
    {p \in DOMAIN t : /\ t[p] = "pacnew"
                      /\ Len(p) - 2 <= MAX_DEPTH
                      /\ \A n \in 1..(Len(p) - 1) : t[SubSeq(p, 1, n)] = "dir"}
=============================================================================
