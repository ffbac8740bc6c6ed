------------------------------ MODULE StartUp ------------------------------
(***************************************************************************)
(* From the command line to the command: which arguments are pacman's, the *)
(* configuration, the log and its rotation, colour, and what may end       *)
(* paclens before its command is run.                                      *)
(***************************************************************************)
EXTENDS Naturals, Sequences, SequencesExt, FiniteSetsExt

-----------------------------------------------------------------------------
(* Arguments.                                                              *)

\* Mutant of Own: takes the path after --config for an argument of its own.
OneEach(arg) == IF arg \in {"--no-color", "--debug", "--refresh", "--config", "--config=path"} THEN 1 ELSE 0

\* How many arguments one of paclens's own takes up.
Own(arg) ==
  CASE arg \in {"--no-color", "--debug", "--refresh", "--config=path"} -> 1
    [] arg = "--config" -> 2
    [] OTHER -> 0

\* Up to and including "pacman" they are paclens's, from there pacman's.
split_pacman(argv) ==
  LET Over(i) == i > Len(argv) \/ argv[i] = "pacman" \/ Own(argv[i]) = 0
      Reads[i \in Nat] == IF Over(i) THEN i ELSE Reads[i + Own(argv[i])]
      stop == Reads[1]
  IN  IF stop <= Len(argv) /\ argv[stop] = "pacman"
      THEN <<SubSeq(argv, 1, stop), SubSeq(argv, stop + 1, Len(argv))>>
      ELSE <<argv, <<>>>>

no_color_requested(value) == value \notin {"unset", "empty"}

\* What clap makes of paclens's part: options anywhere, and one command.
Cli(args) ==
  LET Value[i \in 0..Len(args)] == i > 1 /\ ~Value[i - 1] /\ args[i - 1] = "--config"
      words == {i \in DOMAIN args : ~Value[i] /\ Own(args[i]) = 0}
      Has(option) == \E i \in DOMAIN args : ~Value[i] /\ args[i] = option
  IN  [command |-> IF words = {} THEN "ui" ELSE args[Min(words)],
       no_color |-> Has("--no-color"), debug |-> Has("--debug"),
       config |-> Has("--config") \/ Has("--config=path"),
       fits |-> /\ Cardinality(words) <= 1 /\ \A i \in words : args[i] \in {"status", "pacman"}
                /\ args # <<>> => ~(Last(args) = "--config" /\ ~Value[Len(args)])
                /\ \A i, j \in DOMAIN args :
                     i # j /\ ~Value[i] /\ ~Value[j] => args[i] # args[j] /\ ~(Own(args[i]) = 2 /\ args[j] = "--config=path")]

-----------------------------------------------------------------------------
(* The configuration.  A file gives for some keys a value of the key's type *)
(* or of another; a word may be spelled with spaces or capitals.           *)

Words ==
  ("log_level" :> {"error", "warn", "info", "debug"}) @@ ("color_theme" :> {"dark", "light", "none"})
  @@ ("min_confidence" :> {"confirmed", "inferred", "unknown"})
  @@ ("layout" :> {"inline", "inline-grow", "nom", "receipt"}) @@ ("motif" :> {"subtle", "arcade"})
Default ==
  ("log_level" :> "info") @@ ("color_theme" :> "dark") @@ ("min_confidence" :> "inferred")
  @@ ("layout" :> "inline") @@ ("motif" :> "subtle")

\* Trimmed and in lower case it is one of the key's words.
parse(key, raw) == raw.word \in Words[key]

\* The first value of another type fails the file; of the rest each key has its
\* default, and a key nobody knows is only reported.
parse_config(text) ==
  [ok |-> text.toml /\ \A k \in DOMAIN Words \cap DOMAIN text.gives : text.gives[k].typed,
   config |-> [k \in DOMAIN Words |-> IF k \in DOMAIN text.gives THEN text.gives[k]
                                      ELSE [word |-> Default[k], plain |-> TRUE, typed |-> TRUE]],
   unknown_keys |-> DOMAIN text.gives \ DOMAIN Words]

\* Mutant of accessor: uses a value nobody can have meant.
AsWritten(config, key) == config[key].word

\* What the program reads of a key.
accessor(config, key) == IF parse(key, config[key]) THEN config[key].word ELSE Default[key]

validation_warnings(config) == {k \in DOMAIN Words : ~parse(k, config[k])}

\* The one given, which is never created, or the user's own, which is when it is
\* missing.
default_config_path(w) == w.home
Shipped == [toml |-> TRUE, gives |-> <<>>]
Loaded(explicit, writes, w, file, parsed) ==
  [ok |-> /\ explicit \/ default_config_path(w)
          /\ IF writes THEN w.writable ELSE file.is = "there"
          /\ parsed.ok,
   config |-> parsed.config, unknown_keys |-> parsed.unknown_keys,
   created |-> IF writes /\ w.writable THEN {"config.toml"} ELSE {},
   read |-> IF explicit THEN "given" ELSE "own"]
load(explicit, w) ==
  LET writes == ~explicit /\ w.home /\ w.own.is = "missing"
      file == IF explicit THEN w.given ELSE w.own
  IN  Loaded(explicit, writes, w, file, parse_config(IF writes THEN Shipped ELSE file.text))

-----------------------------------------------------------------------------
(* Logs: the program's own, named for the second it started in, beside the *)
(* day's update log.                                                       *)

\* Of a set of names those beyond the newest `keep`.
select_prunable(names, keep) ==
  LET newest_first == SetToSortSeq({n \in names : n.kind = "trace"}, LAMBDA a, b : a.stamp > b.stamp)
  IN  {newest_first[i] : i \in {i \in DOMAIN newest_first : i > keep}}

\* Mutant of prune_old_logs: forgets the log that is about to be written.
PruneToWhatIsKept(w, keep) ==
  w.logs \ IF w.listable THEN select_prunable(w.logs, keep) ELSE {}

\* Nothing older than what is kept with the one to come, if the directory can
\* be read.
prune_old_logs(w, keep) ==
  w.logs \ IF w.listable THEN select_prunable(w.logs, IF keep = 0 THEN 0 ELSE keep - 1) ELSE {}

logging_init(w, keep, level, debug) ==
  LET ok == w.home /\ w.log_dir
  IN  [ok |-> ok,
       logs |-> IF ok THEN prune_old_logs(w, keep) \cup {[kind |-> "trace", stamp |-> w.now]} ELSE w.logs,
       level |-> IF debug THEN "debug" ELSE level]

\* The newest of the days' logs, as a set.
latest_in(names) ==
  {n \in names : n.kind = "update" /\ \A o \in names : o.kind = "update" => o.stamp <= n.stamp}

-----------------------------------------------------------------------------
(* Colour and glyphs, of a command's output and of the screen.             *)

Styles_resolve(no_color, theme, is_tty) ==
  [color |-> ~(no_color \/ theme = "none") /\ is_tty, ascii |-> no_color \/ theme = "none"]

Theme_none == [colours |-> {}, ascii |-> TRUE]
Theme_dark == [colours |-> {"yellow", "green", "red", "cyan"}, ascii |-> FALSE]
Theme_resolve(theme, no_color) == IF no_color \/ theme = "none" THEN Theme_none ELSE Theme_dark

-----------------------------------------------------------------------------
\* The whole start: what paclens ends with, or the command with what it gets.
Ends(loaded, logs, warns) ==
  [ends |-> "failure", created |-> loaded.created, logs |-> logs, warns |-> warns]
Started(w, cli, args, loaded, log) ==
  LET no_color == cli.no_color \/ no_color_requested(w.NO_COLOR)
      theme == accessor(loaded.config, "color_theme")
      warns == loaded.unknown_keys \cup validation_warnings(loaded.config)
  IN  CASE ~cli.fits -> [Ends(loaded, w.logs, {}) EXCEPT !.ends = "usage", !.created = {}]
        [] cli.fits /\ ~loaded.ok -> Ends(loaded, w.logs, {})
        [] cli.fits /\ loaded.ok /\ ~log.ok -> Ends(loaded, w.logs, warns)
        [] OTHER ->
             [ends |-> IF cli.command = "pacman" /\ "bytes" \in ToSet(args) THEN "failure" ELSE "runs",
              created |-> loaded.created, logs |-> log.logs, warns |-> warns,
              command |-> cli.command, args |-> args, level |-> log.level,
              config_path |-> IF cli.config THEN "given" ELSE "own", read |-> loaded.read,
              out |-> Styles_resolve(no_color, theme, w.stdout_tty),
              screen |-> Theme_resolve(theme, no_color)]
Logged(w, cli, args, loaded) ==
  Started(w, cli, args, loaded,
          logging_init(w, w.log_keep_count, accessor(loaded.config, "log_level"), cli.debug))
Parsed(w, cli, args) == Logged(w, cli, args, load(cli.config, w))
run(w) == Parsed(w, Cli(split_pacman(w.argv)[1]), split_pacman(w.argv)[2])

\* A command's result as an exit code.
report(result) == IF result = "ok" THEN 0 ELSE 1

-----------------------------------------------------------------------------
(* Command lines, files and directories of logs, and what must come of     *)
(* them.                                                                   *)

Arguments == {"--no-color", "--config", "--config=path", "pacman", "status", "-Syu", "bytes"}
Lines == UNION {[1..n -> Arguments] : n \in 0..4}

\* The word clap takes for the command splits the line: every argument after
\* "pacman" reaches pacman as it was typed, none of them is read as paclens's,
\* and nothing is held back from clap otherwise.
PacmanGetsItsOwn(argv) ==
  LET s == split_pacman(argv)
      Value[i \in 0..Len(argv)] == i > 1 /\ ~Value[i - 1] /\ argv[i - 1] = "--config"
      words == {i \in DOMAIN argv : ~Value[i] /\ argv[i] \in {"pacman", "status", "-Syu", "bytes"}}
      at == IF words = {} THEN 0 ELSE Min(words)
  IN  s = IF at # 0 /\ argv[at] = "pacman"
          THEN <<SubSeq(argv, 1, at), SubSeq(argv, at + 1, Len(argv))>> ELSE <<argv, <<>>>>

Raw == [word : {"none", "light", "loud"}, plain : BOOLEAN, typed : BOOLEAN]
Texts == {[toml |-> t, gives |-> g] : t \in BOOLEAN,
            g \in UNION {[K -> Raw] : K \in {{}, {"color_theme"}, {"colour"}, {"color_theme", "colour"}}}}
Files == {[is |-> "missing", text |-> Shipped], [is |-> "unreadable", text |-> Shipped]}
         \cup {[is |-> "there", text |-> t] : t \in Texts}

\* A value somebody may have meant is used, however it is spelled; one nobody
\* can have meant is the default, and each such value and unknown key is
\* reported once.
ConfigIsForgiving(text) ==
  LET p == parse_config(text)
      Valid(k) == p.config[k].word \in Words[k]
      wrong == {k \in DOMAIN text.gives \cap DOMAIN Words : text.gives[k].word \notin Words[k]}
  IN  /\ \A k \in DOMAIN Words : accessor(p.config, k) \in Words[k]
      /\ \A k \in DOMAIN text.gives \cap DOMAIN Words :
           k \notin wrong => accessor(p.config, k) = text.gives[k].word
      /\ p.unknown_keys \cup validation_warnings(p.config) = wrong \cup (DOMAIN text.gives \ DOMAIN Words)

Starts ==
  [argv : {<<>>, <<"--config", "pacman", "status">>, <<"--config=path", "pacman", "bytes">>, <<"-Syu">>, <<"--no-color", "pacman", "--config">>},
   NO_COLOR : {"unset", "empty", "1"}, given : {[is |-> "missing", text |-> Shipped]} \cup
     {[is |-> "there", text |-> [toml |-> TRUE, gives |-> [k \in {"color_theme"} |-> r]]] : r \in Raw},
   own : {f \in Files : DOMAIN f.text.gives \subseteq {"color_theme"}}, home : BOOLEAN, writable : BOOLEAN, log_dir : BOOLEAN, listable : {TRUE},
   log_keep_count : {2}, now : {3}, logs : {{[kind |-> "trace", stamp |-> n] : n \in 1..2}}, stdout_tty : BOOLEAN]

\* A file is created only for a user who has none and names none; a start that
\* fails has left the logs alone; the file that ages the cache is the one that
\* was read; and without colour neither output nor screen has any.
CleanAs(w, r, asked_plain, names_one) ==
  /\ r.created # {} => w.own.is = "missing" /\ ~names_one
  /\ r.ends # "runs" => r.logs = w.logs \/ "bytes" \in ToSet(w.argv)
  /\ r.ends = "runs" =>
       /\ r.config_path = r.read /\ (r.read = "given" <=> names_one)
       /\ asked_plain => r.screen.colours = {} /\ r.screen.ascii /\ r.out.ascii /\ ~r.out.color
       /\ ~w.stdout_tty => ~r.out.color
       /\ r.screen.ascii = r.out.ascii
  /\ ~names_one /\ w.own.is = "missing" /\ w.home /\ w.writable /\ w.log_dir /\ w.argv = <<>> => r.ends = "runs"
StartIsClean(w) ==
  CleanAs(w, run(w), w.NO_COLOR = "1" \/ (w.argv # <<>> /\ w.argv[1] = "--no-color"),
          w.argv # <<>> /\ w.argv[1] \in {"--config", "--config=path"})

Directories ==
  [logs : SUBSET ([kind : {"trace", "update"}, stamp : 1..3] \cup {[kind |-> "other", stamp |-> 1]}),
   log_keep_count : 0..4, now : 2..4, listable : BOOLEAN, home : BOOLEAN, log_dir : BOOLEAN]

\* Rotation keeps the log being written and the newest of the others, as many
\* as were asked for, and no log of what was updated is ever removed.
RotationKeepsTheNewest(w) ==
  LET i == logging_init(w, w.log_keep_count, "info", FALSE)
      Trace(names) == {n \in names : n.kind = "trace"}
      gone == w.logs \ i.logs
      newest == latest_in(i.logs)
  IN  /\ i.ok /\ w.listable => Cardinality(Trace(i.logs)) <= Max({w.log_keep_count, 1})
      /\ gone # {} /\ [kind |-> "trace", stamp |-> w.now] \notin w.logs =>
           Cardinality(Trace(i.logs)) >= w.log_keep_count
      /\ \A g \in gone, n \in Trace(i.logs) : g.kind = "trace" /\ (n.stamp > g.stamp \/ n.stamp = w.now)
      /\ i.ok => [kind |-> "trace", stamp |-> w.now] \in i.logs
      /\ Cardinality(newest) = (IF \E n \in w.logs : n.kind = "update" THEN 1 ELSE 0)
      /\ \A n \in newest, o \in w.logs : o.kind = "update" => o.stamp <= n.stamp
=============================================================================
