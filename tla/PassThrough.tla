---------------------------- MODULE PassThrough ----------------------------
(***************************************************************************)
(* `paclens pacman <args>`: which arguments are refused, and what becomes  *)
(* of a run.  An argument is a cluster of letters, a long option as it was *)
(* typed, a target, "-" or "--".                                           *)
(***************************************************************************)
EXTENDS Naturals, Sequences, SequencesExt, FiniteSetsExt

\* Of pacman's long options what matters: prefixes of several, one that is a
\* prefix of another, and ones that take a value.
Option(spelled, name, takes_value) ==
  [spelled |-> spelled, name |-> name, takes_value |-> takes_value]
LONG ==
  { Option(<<"r", "e", "f">>, "refresh", FALSE), Option(<<"r", "e", "m">>, "remove", FALSE), Option(<<"r", "o">>, "root", TRUE),
    Option(<<"s", "y">>, "sync", FALSE), Option(<<"s", "y", "s">>, "sysupgrade", FALSE),
    Option(<<"n", "o", "c">>, "noconfirm", FALSE), Option(<<"n", "e">>, "needed", FALSE),
    Option(<<"o">>, "overwrite", TRUE), Option(<<"p">>, "print", FALSE), Option(<<"i">>, "ignore", TRUE) }

\* A long option as getopt_long finds it: the exact one, or the only one that
\* begins so.
NoOption == [name |-> "none", takes_value |-> FALSE]
resolve(typed) ==
  LET exact == {o \in LONG : o.spelled = typed}
      hits == {o \in LONG : IsPrefix(typed, o.spelled)}
      found == IF exact # {} THEN exact ELSE hits
  IN  IF Cardinality(found) = 1 THEN CHOOSE o \in found : TRUE ELSE NoOption

\* Of a cluster what is an option: -b and -r take the rest as their value.
Letters(arg) ==
  LET i == SelectInSeq(arg.letters, LAMBDA c : c \in {"b", "r"})
  IN  IF i = 0 THEN arg.letters ELSE SubSeq(arg.letters, 1, i)

\* The next argument is this one's value.
TakesNext(arg, option) ==
  CASE arg.is = "long" -> option.takes_value /\ ~arg.inline
    [] arg.is = "short" -> Last(Letters(arg)) \in {"b", "r"} /\ Letters(arg) = arg.letters
    [] OTHER -> FALSE

\* One argument of the parse: what was found, until an option is not known or
\* the options end.
Nothing == [longs |-> {}, shorts |-> {}, unknown |-> FALSE, over |-> FALSE, skip |-> FALSE]
Take(acc, arg, option) ==
  CASE arg.is = "long" /\ option = NoOption -> [acc EXCEPT !.unknown = TRUE, !.over = TRUE]
    [] arg.is = "long" /\ option # NoOption ->
         [acc EXCEPT !.longs = @ \cup {option.name}, !.skip = TakesNext(arg, option)]
    [] arg.is = "short" ->
         [acc EXCEPT !.shorts = @ \cup ToSet(Letters(arg)), !.skip = TakesNext(arg, option)]
    [] OTHER -> acc
\* Mutant of Parse: reads on after a target where pacman stops.
ReadPastTheTarget(posix, acc, arg) ==
  CASE acc.over -> acc
    [] ~acc.over /\ acc.skip -> [acc EXCEPT !.skip = FALSE]
    [] OTHER -> IF arg.is = "--" THEN [acc EXCEPT !.over = TRUE]
                ELSE Take(acc, arg, IF arg.is = "long" THEN resolve(arg.typed) ELSE NoOption)

Parse(posix, acc, arg) ==
  CASE acc.over -> acc
    [] ~acc.over /\ acc.skip -> [acc EXCEPT !.skip = FALSE]
    [] OTHER ->
         IF arg.is = "--" \/ (posix /\ arg.is \in {"-", "target"}) THEN [acc EXCEPT !.over = TRUE]
         ELSE Take(acc, arg, IF arg.is = "long" THEN resolve(arg.typed) ELSE NoOption)

Operations == ("sync" :> "S") @@ ("remove" :> "R") @@ ("query" :> "Q") @@ ("upgrade" :> "U")
              @@ ("database" :> "D") @@ ("files" :> "F") @@ ("deptest" :> "T")
              @@ ("version" :> "V") @@ ("help" :> "h")
Elsewhere == {"root", "sysroot", "dbpath", "logfile", "config"}
Reports == {"clean", "search", "info", "list", "groups", "print", "print-format", "downloadonly"}

\* The first reason against what was found.
FirstReason(found, ops) ==
  LET short(c) == c \in found.shorts
      long(n) == n \in found.longs
  IN  CASE found.unknown -> "unrecognised option"
        [] ~found.unknown /\ (long("noconfirm") \/ long("ask")) -> "no silent answers"
        [] OTHER ->
      CASE long("overwrite") -> "clobbers files"
        [] ~long("overwrite") /\ (short("r") \/ short("b") \/ found.longs \cap Elsewhere # {}) -> "wrong system or log"
        [] OTHER ->
      CASE "R" \in ops -> "removals go through why"
        [] "R" \notin ops /\ (ops # {"S"} \/ found.shorts \cap {"c", "s", "i", "l", "g", "p", "w"} # {}
                                \/ found.longs \cap Reports # {}) -> "only installs and upgrades"
        [] OTHER -> IF (short("y") \/ long("refresh")) /\ ~(short("u") \/ long("sysupgrade"))
                    THEN "partial upgrade" ELSE "none"
Judge(found) ==
  FirstReason(found, (found.shorts \cap Range(Operations))
                     \cup {Operations[n] : n \in found.longs \cap DOMAIN Operations})
rules(args, posix) == Judge(FoldLeft(LAMBDA acc, arg : Parse(posix, acc, arg), Nothing, args))

\* With POSIXLY_CORRECT pacman stops at the first target: both readings must pass.
Either(reading, other) == IF reading # "none" THEN reading ELSE other
check(args) == Either(rules(args, FALSE), rules(args, TRUE))

-----------------------------------------------------------------------------
(* The run.                                                                *)

\* The one step pacman is run as.
Plan(args) ==
  << [source_id |-> "pacman", command |-> <<"pacman">> \o args,
      privileged |-> TRUE, interactive |-> TRUE, pacman_db |-> TRUE] >>

\* The step's end as the command's.
outcome(status) ==
  CASE status = "skipped" -> "pacman did not run" [] status = "failed" -> "pacman failed" [] OTHER -> "ok"

\* What is run and how it ends, of a line with this reason against it: `status`
\* is the executor's answer.
pacman_run(refused, args, stdin_is_tty, log_opens, status) ==
  CASE refused # "none" -> [says |-> refused, plan |-> <<>>]
    [] refused = "none" /\ ~stdin_is_tty -> [says |-> "needs a terminal", plan |-> <<>>]
    [] OTHER -> IF log_opens THEN [says |-> outcome(status), plan |-> Plan(args)]
                ELSE [says |-> "no log", plan |-> <<>>]

\* The versions the plan is shown against: what pacman installed, of the cached
\* scan if there is one; of one name the last.
installed(cached) ==
  LET mine == IF cached = <<>> THEN <<>>
              ELSE SelectSeq(cached[1], LAMBDA p : p.source \in {"pacman", "aur"})
      Of(name) == SelectLastInSeq(mine, LAMBDA p : p.name = name)
  IN  [name \in {mine[i].name : i \in DOMAIN mine} |-> mine[Of(name)].version]

-----------------------------------------------------------------------------
(* Command lines of a few arguments, and what pacman makes of them.        *)


Short(letters) == [is |-> "short", letters |-> letters]
LongAs(typed, inline) == [is |-> "long", typed |-> typed, inline |-> inline]
Args ==
  {Short(l) : l \in {<<"S">>, <<"S", "y">>, <<"S", "y", "u">>, <<"u">>, <<"R">>, <<"r">>,
                     <<"S", "b", "y">>, <<"s">>}}
  \cup {LongAs(t, FALSE) : t \in {<<"r", "e">>, <<"r", "e", "f">>, <<"r", "o">>, <<"s", "y">>,
                                  <<"s", "y", "s">>, <<"n", "o">>, <<"n">>, <<"o">>, <<"i">>}}
  \cup {LongAs(<<"i">>, TRUE)}
  \cup {[is |-> k] : k \in {"target", "-", "--"}}
Lines == UNION {[1..n -> Args] : n \in 0..3}

\* What pacman makes of a line, from getopt_long's manual: an argument is read
\* for options unless it is the value of the one before it, or the options are
\* over before it.
TheOnly(typed) ==
  IF \E o \in LONG : o.spelled = typed THEN {o \in LONG : o.spelled = typed}
  ELSE {o \in LONG : \E k \in DOMAIN o.spelled : SubSeq(o.spelled, 1, k) = typed}
Takes(arg) ==
  IF arg.is = "long" THEN ~arg.inline /\ \E o \in TheOnly(arg.typed) : o.takes_value
  ELSE arg.is = "short" /\ Last(arg.letters) \in {"b", "r"}
       /\ \A k \in 1..(Len(arg.letters) - 1) : arg.letters[k] \notin {"b", "r"}
NamedBy(options) == IF Cardinality(options) = 1 THEN {o.name : o \in options} ELSE {"error"}
Says(arg) ==
  IF arg.is = "long" THEN NamedBy(TheOnly(arg.typed))
  ELSE IF arg.is = "short"
  THEN {arg.letters[k] : k \in {k \in DOMAIN arg.letters :
          \A j \in 1..(k - 1) : arg.letters[j] \notin {"b", "r"}}}
  ELSE {}
ValuesIn(args) ==
  LET Value[i \in 0..Len(args)] == i > 1 /\ ~Value[i - 1] /\ Takes(args[i - 1])
  IN  {i \in DOMAIN args : Value[i]}
Ends(args, values, posix) ==
  {i \in DOMAIN args \ values : args[i].is = "--" \/ (posix /\ args[i].is \in {"-", "target"})}
Seen(args, values, ends) ==
  UNION {Says(args[i]) : i \in {i \in DOMAIN args \ values : \A j \in ends : i < j}}
Sees(args, values, posix) == Seen(args, values, Ends(args, values, posix))

\* However pacman reads an accepted line, it installs or upgrades, asks its own
\* questions, touches this system and no other package's files, and upgrades
\* all if it refreshes; and a line that is no more than that is accepted.
Fine(seen) ==
  /\ seen \subseteq {"S", "sync", "y", "refresh", "u", "sysupgrade", "needed", "ignore"}
  /\ seen \cap {"S", "sync"} # {}
  /\ seen \cap {"y", "refresh"} # {} => seen \cap {"u", "sysupgrade"} # {}
PassesOnlyUpgrades(refused, args, values) ==
  refused = "none" <=> \A posix \in BOOLEAN : Fine(Sees(args, values, posix))

\* Nothing is run for a line that is refused, nor without a terminal, and the
\* end of pacman is the end of the command.
RunsWhatPasses(refused, args) ==
  \A tty, log_opens \in BOOLEAN, status \in {"succeeded", "failed", "skipped"} :
    LET r == pacman_run(refused, args, tty, log_opens, status)
    IN  /\ r.plan # <<>> => refused = "none" /\ tty /\ Tail(r.plan[1].command) = args
        /\ r.says = "ok" <=> r.plan # <<>> /\ status = "succeeded"

SafeAs(refused, args) == PassesOnlyUpgrades(refused, args, ValuesIn(args)) /\ RunsWhatPasses(refused, args)
PassThroughIsSafe(args) == SafeAs(check(args), args)
=============================================================================
