------------------------------ MODULE Assembly ------------------------------
(***************************************************************************)
(* A scan put together: what each lane reports of its provider's answers,  *)
(* in the order it sends them, and the result composed from whatever has   *)
(* been received; and what `paclens status` says of it.  `machine` is what *)
(* there is to find; the control of the lanes, and who sees which partial  *)
(* result, are Dashboard's.                                                *)
(***************************************************************************)
EXTENDS Providers

CONSTANT MAX_DEPTH   \* how deep a configuration directory is walked

\* Only who built a package is asked of it.
Provenance == INSTANCE Cleanup WITH STALE_SHOWN <- 4, FILES_SHOWN <- 3

SIMPLE == <<"rustup", "brew", "uv", "gobin", "npm", "fwupd">>
Ids == <<"pacman", "aur", "flatpak", "cargo">> \o SIMPLE

\* The sources scanned: configured and found.  The aur's lane needs pacman's.
lanes(config, found) ==
  {id \in ToSet(Ids) : /\ id \in config.sources
                       /\ IF id = "aur" THEN {"pacman"} \subseteq config.sources \cap found
                          ELSE id \in found}

-----------------------------------------------------------------------------
(* What a lane sends.                                                      *)

Error(source) == [is |-> "error", source |-> source]
Lands(part, value) == [is |-> part, value |-> value]
ErrorIf(cond, source) == IF cond THEN <<Error(source)>> ELSE <<>>

\* Mutant of collect_provider: a failed question about updates leaves no mark.
updatesMayFail(installed, updates) ==
  [packages |-> installed.value, updates |-> updates.value, failed |-> ~installed.ok]

collect_provider(installed, updates) ==
  [packages |-> installed.value, updates |-> updates.value, failed |-> ~installed.ok \/ ~updates.ok]

parse_du_bytes(out) == IF out.exit = NotRun THEN <<>> ELSE out.rows
\* Runtimes have no profile, nor has an application whose measure gave nothing.
gather_profile_sizes(du, packages) ==
  {<<p.name, parse_du_bytes(du[p.name])[1]>> :
     p \in {p \in ToSet(packages) : ~p.runtime /\ parse_du_bytes(du[p.name]) # <<>>}}
\* paccache's dry run says there is nothing, or how much, or neither.
gather_cache_sizes(du, paccache, pacman, helper) ==
  [pacman |-> IF pacman THEN parse_du_bytes(du["cache"]) ELSE <<>>,
   reclaimable |-> IF pacman /\ paccache.exit # NotRun THEN paccache.rows ELSE <<>>,
   aur |-> IF helper = None THEN <<>> ELSE parse_du_bytes(du["aur cache"])]

\* Both halves are asked for, and either failing marks the source.
ProviderLane(source, installed, updates) ==
  LET c == collect_provider(installed, updates)
  IN  ErrorIf(c.failed, source) \o <<Lands(source, [packages |-> c.packages, updates |-> c.updates])>>
OffersLane(offers) == ErrorIf(~offers.ok, "pacman") \o <<Lands("offers", offers.value)>>
\* A simple source answers whole or not at all.
SimpleLane(source, found) ==
  ErrorIf(~found.ok, source)
    \o <<Lands(source, IF found.ok THEN found.value ELSE Found(<<>>, <<>>))>>
\* `-Qm`, which both sources rest on, before the helper is asked, if there is one.
AurLane(foreign, helper, updates) ==
  LET asked == IF helper = None THEN Ok(<<>>) ELSE updates
  IN  ErrorIf(~foreign.ok, "pacman") \o ErrorIf(~foreign.ok, "aur")
        \o <<Lands("foreign", IF foreign.ok THEN foreign.value ELSE {})>>
        \o ErrorIf(~asked.ok, "aur") \o <<Lands("aur_updates", asked.value)>>

\* `pacman` and `offers` are lanes of one source.
LaneNames(config, found) ==
  lanes(config, found) \cup IF "pacman" \in lanes(config, found) THEN {"offers"} ELSE {}
Sent(machine, lane) ==
  CASE lane \in {"pacman", "flatpak", "cargo"} ->
         ProviderLane(lane, machine.installed[lane], machine.updates[lane])
    [] lane = "offers" -> OffersLane(machine.offers)
    [] lane = "aur" -> AurLane(machine.foreign, machine.helper.helper, machine.updates["aur"])
    [] lane \in ToSet(SIMPLE) -> SimpleLane(lane, machine.simple[lane])

-----------------------------------------------------------------------------
(* What has been received, and the result composed from it.                *)

Parts == ToSet(Ids) \cup {"offers", "foreign", "aur_updates"}
NoParts == [errors |-> {}, got |-> [p \in Parts |-> <<>>]]
Take(parts, message) ==
  IF message.is = "error" THEN [parts EXCEPT !.errors = @ \cup {message.source}]
  ELSE [parts EXCEPT !.got[message.is] = <<message.value>>]

Has(parts, p) == parts.got[p] # <<>>
Part(parts, p) == parts.got[p][1]

\* Mutant of pacman_done: does not wait for what no repository has.
pacmanWithoutForeign(ls, parts) ==
  "pacman" \in ls => Has(parts, "pacman") /\ Has(parts, "offers")

pacman_done(ls, parts) ==
  "pacman" \in ls => /\ Has(parts, "pacman") /\ Has(parts, "offers")
                     /\ "aur" \in ls => Has(parts, "foreign")
done(ls, parts, id) ==
  CASE id = "pacman" -> pacman_done(ls, parts)
    [] id = "aur" -> pacman_done(ls, parts) /\ Has(parts, "aur_updates")
    [] OTHER -> Has(parts, id)

\* A row for each configured source.  "Available" is that there is a way to
\* update: an aur helper, `cargo-update`.
SourceRows(parts, config, found, helper) ==
  LET ls == lanes(config, found)
      Available(id) ==
        CASE id = "aur" -> helper.helper # None /\ "pacman" \in found
          [] id = "cargo" -> {"cargo", "cargo-update"} \subseteq found
          [] OTHER -> id \in found
      Accurate(id) ==
        CASE id = "pacman" -> "checkupdates" \in found
          [] id = "cargo" -> "cargo-update" \in found
          [] OTHER -> TRUE
  IN  Each(SelectSeq(Ids, LAMBDA id : id \in config.sources), LAMBDA id :
        [id |-> id, available |-> Available(id), last_scanned |-> id \in ls /\ done(ls, parts, id),
         accurate_updates |-> Accurate(id), scan_error |-> id \in parts.errors])

\* The first repository that has the package is the one pacman takes.
Offered(offers, p) ==
  LET i == SelectInSeq(offers, LAMBDA o : o.name = p.name)
  IN  IF i = 0 \/ offers[i].version = p.version THEN p
      ELSE [p EXCEPT !.repo_version = <<offers[i].repo, offers[i].version>>]
\* What no repository has stays pacman's, unless it was built here.
Relabelled(ls, foreign, p) ==
  IF p.name \notin foreign THEN p
  ELSE [p EXCEPT !.foreign = TRUE,
                 !.source = IF "aur" \in ls /\ Provenance!built_here(p) THEN "aur" ELSE @]

keep_scope(config, p) ==
  CASE p.scope = "user" -> config.include_user
    [] p.scope = "system" -> config.include_system
    [] OTHER -> TRUE
\* The version an update is from is that of the first such package.
reconcile_flatpak_updates(updates, packages) ==
  Each(updates, LAMBDA u :
    LET i == SelectInSeq(packages, LAMBDA p : p.name = u.name /\ p.source = "flatpak")
    IN  IF i = 0 THEN u ELSE [u EXCEPT !.current = packages[i].version])

compose(parts, config, found, helper) ==
  LET ls == lanes(config, found)
      Of(id, field) == IF Has(parts, id) THEN Part(parts, id)[field] ELSE <<>>
      settled == pacman_done(ls, parts)
      offers == IF Has(parts, "offers") THEN Part(parts, "offers") ELSE <<>>
      foreign == IF Has(parts, "foreign") THEN Part(parts, "foreign") ELSE {}
      alpm == IF ~settled THEN <<>>
              ELSE Each(Of("pacman", "packages"), LAMBDA p : Relabelled(ls, foreign, Offered(offers, p)))
      Others(field) == FlattenSeq(Each(<<"cargo">> \o SIMPLE, LAMBDA id : Of(id, field)))
      before == alpm \o Others("packages")
      packages == before \o SelectSeq(Of("flatpak", "packages"), LAMBDA p : keep_scope(config, p))
      flatpaks == SelectSeq(reconcile_flatpak_updates(Of("flatpak", "updates"), packages), LAMBDA u :
                    \E i \in DOMAIN packages : packages[i].name = u.name /\ packages[i].source = u.source)
  IN  [sources |-> SourceRows(parts, config, found, helper),
       packages |-> packages,
       updates |-> (IF settled THEN Of("pacman", "updates") ELSE <<>>)
                     \o (IF Has(parts, "aur_updates") THEN Part(parts, "aur_updates") ELSE <<>>)
                     \o Others("updates") \o flatpaks,
       helper |-> helper]

\* The result once each lane has sent so many of its messages.
Partial(machine, config, found, count) ==
  LET Received(lane) == SubSeq(Sent(machine, lane), 1, count[lane])
      names == SetToSeq(LaneNames(config, found))
  IN  compose(FoldLeft(Take, NoParts, FlattenSeq(Each(names, Received))), config, found, machine.helper)

\* Before any lane has reported: the rows there will be.
detect_sources(config, found, helper) == compose(NoParts, config, found, helper)

\* Every lane has reported.
assembled(machine, config, found) ==
  Partial(machine, config, found, [l \in LaneNames(config, found) |-> Len(Sent(machine, l))])

-----------------------------------------------------------------------------
(* Beside the lanes.  A file system gives each path (a sequence of names)  *)
(* what is there: "dir", "closed" for one that cannot be read, "link", or  *)
(* what a file's name ends with.                                           *)

RECURSIVE walk(_, _, _)
walk(files, dir, depth) ==
  LET entries == {p \in DOMAIN files : Len(p) = Len(dir) + 1 /\ Front(p) = dir}
  IN  IF depth > MAX_DEPTH \/ files[dir] = "closed" THEN {}
      ELSE {p \in entries : files[p] \in {"pacnew", "pacsave"}}
             \cup UNION {walk(files, p, depth + 1) : p \in {p \in entries : files[p] \in {"dir", "closed"}}}
find_pacfiles(files, dirs) == UNION {walk(files, d, 0) : d \in dirs}

\* Directories of profiles whose measure gave a number, by their name under home.
measure_profile_dirs(du, paths) ==
  {<<p, parse_du_bytes(du[p])[1]>> : p \in {p \in paths : parse_du_bytes(du[p]) # <<>>}}

\* The mirror and the news are asked about only where pacman is.
network(config, pacman, news, mirror) ==
  [news |-> IF config.arch_news /\ pacman THEN news_fetch(news) ELSE <<>>,
   mirror |-> IF config.mirror_check /\ pacman THEN mirror ELSE <<>>]

-----------------------------------------------------------------------------
(* What `paclens status`, its `--check` and the dashboard's table say of a *)
(* scan: counts, and which of them nobody checked.                         *)

\* Every source of the scan's packages and updates has its counts from here.
summarize(scan, source) ==
  [installed |-> Len(SelectSeq(scan.packages, LAMBDA p : p.source = source.id)),
   updates |-> Len(SelectSeq(scan.updates, LAMBDA u : u.source = source.id)),
   available |-> source.available]

\* Mutant of updates_unknown: a source scanned without its checker counts as
\* checked.
onlyFailedIsUnknown(source) == source.scan_error

updates_unknown(source) == source.scan_error \/ (source.last_scanned /\ ~source.available)
report_only(source) == source.id \in {"npm", "fwupd"}
cargo_cannot_update(source) == source.id = "cargo" /\ ~source.accurate_updates

unavailable_reason(scan, source) ==
  CASE source.available -> None
    [] ~source.available /\ source.id = "aur" /\ scan.helper.helper = None -> "no helper"
    [] ~source.available /\ cargo_cannot_update(source) -> "inventory"
    [] OTHER -> None

\* The sentence below the table, of its several the first that applies; the
\* dashboard's short one is chosen the same way.
source_note(scan, source) ==
  CASE source.scan_error -> {"scan failed"}
    [] ~source.scan_error /\ source.id = "aur" -> helper_note(scan.helper)
    [] ~source.scan_error /\ cargo_cannot_update(source) -> {"install cargo-update"}
    [] OTHER -> IF report_only(source) THEN {"report-only"} ELSE {}

source_warning(scan, source) == source.id = "aur" /\ differs_from_config(scan.helper)

\* One row: a number, or a dash where there is none to show.
Dash == -1
render_row_because(source, summary, reason, warned) ==
  LET failed == source.scan_error
  IN  [installed |-> IF failed THEN Dash ELSE summary.installed,
       updates |-> IF summary.available /\ ~failed THEN summary.updates ELSE Dash,
       marked |-> failed \/ warned,
       status |-> IF failed THEN "scan failed"
                  ELSE IF summary.available THEN "ok"
                  ELSE IF reason = None THEN "not found" ELSE reason]
Row(scan, source) ==
  render_row_because(source, summarize(scan, source), unavailable_reason(scan, source),
                     source_warning(scan, source))

\* The first line.
headline(scan) ==
  LET failed == SelectSeq(scan.sources, LAMBDA s : s.scan_error)
      unchecked == SelectSeq(scan.sources, LAMBDA s : updates_unknown(s) /\ ~s.scan_error)
  IN  CASE failed # <<>> -> [says |-> "failed", of |-> Len(failed), found |-> Len(scan.updates)]
        [] failed = <<>> /\ unchecked # <<>> ->
             [says |-> "unchecked", of |-> Len(unchecked), found |-> Len(scan.updates)]
        [] OTHER -> [says |-> IF scan.updates = <<>> THEN "up to date" ELSE "updates",
                     of |-> 0, found |-> Len(scan.updates)]

\* `status --check`, from the cache, which may hold no scan.
check_line(cached) ==
  LET scan == cached[1]
      floor == \E i \in DOMAIN scan.sources :
                 LET s == scan.sources[i] IN s.scan_error \/ (s.available /\ ~s.last_scanned)
  IN  IF cached = <<>> THEN [line |-> "?", code |-> 2]
      ELSE IF floor THEN [line |-> "+", code |-> 2]
      ELSE [line |-> "", code |-> IF scan.updates = <<>> THEN 0 ELSE 1]
=============================================================================
