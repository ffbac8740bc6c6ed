--------------------------- MODULE PackageVersion ---------------------------
(***************************************************************************)
(* Comparing versions as libalpm does, and what is read off versions: the  *)
(* packages no repository can reach any more, and whether the kernel that  *)
(* runs is the one installed.  A version is a sequence of characters; a    *)
(* character is a number: 0..9 a digit, Letter.. a letter, Separator and   *)
(* above the rest.                                                         *)
(***************************************************************************)
EXTENDS Integers, Sequences, SequencesExt, FiniteSetsExt

Letter == 10
Separator == 40
Hyphen == 41
Colon == 42

Digit(c) == c < Letter
Alphabetic(c) == Letter <= c /\ c < Separator
Kind(c) == IF Digit(c) THEN "digit" ELSE IF Alphabetic(c) THEN "letter" ELSE "other"

\* How many characters at the start of a string are of one kind.
Leading(s, kind) == Max({n \in 0..Len(s) : \A i \in 1..n : Kind(s[i]) = kind})
Drop(s, n) == SubSeq(s, n + 1, Len(s))

Order(m, n) == IF m < n THEN -1 ELSE IF m > n THEN 1 ELSE 0

\* Bytes, compared from the left.
Lexical(s, t) ==
  LET n == Min({Len(s), Len(t)})
      differ == {i \in 1..n : s[i] # t[i]}
  IN  IF differ = {} THEN Order(Len(s), Len(t)) ELSE Order(s[Min(differ)], t[Min(differ)])

TrimZeros(s) == Drop(s, Max({n \in 0..Len(s) : \A i \in 1..n : s[i] = 0}))
Number(x, y) == IF Len(x) # Len(y) THEN Order(Len(x), Len(y)) ELSE Lexical(x, y)
Segment(s, t) ==
  IF Digit(s[1]) THEN Number(TrimZeros(s), TrimZeros(t)) ELSE Lexical(s, t)

\* Mutant of Remainder: what goes on is newer, a pre-release suffix too.
LongerIsNewer(s, t) == Order(Len(s), Len(t))

\* What is left of one or both when a side has run out.
Remainder(s, t) ==
  CASE s = <<>> /\ t = <<>> -> 0
    [] s = <<>> -> IF Alphabetic(t[1]) THEN 1 ELSE -1
    [] OTHER -> IF Alphabetic(s[1]) THEN -1 ELSE 1

\* m and n characters are the first segments, of the kind of the first one's.
RECURSIVE Segments(_, _)
Matched(s, t, m, n) ==
  LET here == Segment(SubSeq(s, 1, m), SubSeq(t, 1, n))
  IN  CASE n = 0 -> IF Digit(s[1]) THEN 1 ELSE -1
        [] n # 0 /\ here # 0 -> here
        [] OTHER -> Segments(Drop(s, m), Drop(t, n))
FromHere(s, t) == Matched(s, t, Leading(s, Kind(s[1])), Leading(t, Kind(s[1])))

\* m and n separators come first.
Separated(s, t, m, n) ==
  CASE m = Len(s) \/ n = Len(t) -> Remainder(Drop(s, m), Drop(t, n))
    [] m # n -> Order(m, n)
    [] OTHER -> FromHere(Drop(s, m), Drop(t, n))
Segments(s, t) ==
  IF s = <<>> \/ t = <<>> THEN Remainder(s, t)
  ELSE Separated(s, t, Leading(s, "other"), Leading(t, "other"))

compare_segments(s, t) == IF s = t THEN 0 ELSE Segments(s, t)

\* The digits before a colon; none of them still is an epoch.
split_epoch(v) ==
  LET n == Leading(v, "digit")
  IN  IF n < Len(v) /\ v[n + 1] = Colon
      THEN [epoch |-> IF n = 0 THEN <<0>> ELSE SubSeq(v, 1, n), rest |-> Drop(v, n + 1)]
      ELSE [epoch |-> <<0>>, rest |-> v]

\* The release behind the last hyphen, if there is one.
split_rel(v) ==
  LET i == SelectLastInSeq(v, LAMBDA c : c = Hyphen)
  IN  IF i = 0 THEN [ver |-> v, has_rel |-> FALSE, rel |-> <<>>]
      ELSE [ver |-> SubSeq(v, 1, i - 1), has_rel |-> TRUE, rel |-> Drop(v, i)]

\* The first of these that differs.
Deciding(epoch, version, release) ==
  CASE epoch # 0 -> epoch
    [] epoch = 0 /\ version # 0 -> version
    [] OTHER -> release

\* -1, 0 or 1: epoch, then version, then release if both have one.
Parts(v) == LET e == split_epoch(v) IN <<e.epoch, split_rel(e.rest)>>
PartsOrder(x, y) ==
  Deciding(compare_segments(x[1], y[1]), compare_segments(x[2].ver, y[2].ver),
           IF x[2].has_rel /\ y[2].has_rel THEN compare_segments(x[2].rel, y[2].rel) ELSE 0)
compare(v, w) == PartsOrder(Parts(v), Parts(w))

-----------------------------------------------------------------------------
(* Packages newer than any repository offers. *)

Unrecorded == <<>>   \* no repository has it, or the same version

stranded(p) == p.repo_version # Unrecorded /\ compare(p.version, p.repo_version) = 1
outranked(packages) == {p \in packages : stranded(p)}

\* A repository for an architecture that pacman does not accept.
arch_mismatch(accepted, served) ==
  IF accepted = {} THEN {} ELSE {repo \in served : repo.arch \notin accepted}

-----------------------------------------------------------------------------
(* The running kernel.  A name, a version and a release are words, each     *)
(* with what stands before it: ".", "-" or nothing.  A kernel package is    *)
(* named by the words behind "linux"; an epoch is not part of its version.  *)

\* The words at the end, from the first hyphen after which no part of the
\* release begins with a digit.
flavour(release) ==
  LET parts == {i \in DOMAIN release : release[i].before # "."}
      last == {i \in parts : release[i].digit}
      named == {i \in parts : \A j \in last : j < i}
  IN  IF named = {} THEN <<>>
      ELSE [Drop(release, Min(named) - 1) EXCEPT ![1].before = "-"]

\* The first dot before a letter becomes a hyphen; then the package's name.
uname_form(name, version) ==
  LET dotted == {i \in DOMAIN version : version[i].before = "." /\ ~version[i].digit}
  IN  (IF dotted = {} THEN version ELSE [version EXCEPT ![Min(dotted)].before = "-"]) \o name

NotRecorded == <<>>

reboot_status(release, modules_present, packages) ==
  LET booted == {p \in packages : p.name = flavour(release)}
      installed == LET p == CHOOSE p \in booted : TRUE IN uname_form(p.name, p.version)
  IN  CASE release = NotRecorded -> [says |-> "not recorded", modules_gone |-> FALSE]
        [] booted = {} -> [says |-> "unknown", modules_gone |-> FALSE]
        [] installed = release -> [says |-> "up to date", modules_gone |-> FALSE]
        [] OTHER -> [says |-> "required", modules_gone |-> ~modules_present]

\* What is said of it, and the dashboard's label: nothing when all is well.
note(status) ==
  CASE status.says \in {"up to date", "not recorded"} -> "none"
    [] status.modules_gone -> "required, modules gone"
    [] OTHER -> status.says

-----------------------------------------------------------------------------
(* Versions of a few characters and kernels of a few packages, and what the*)
(* comparison and the verdict must be for them.                            *)

CONSTANT MaxLength

\* A version begins with a digit and ends with a digit or a letter.
Strings == {s \in UNION {[1..n -> {0, 1, Letter, Separator}] : n \in 1..MaxLength} :
              Digit(s[1]) /\ Kind(Last(s)) # "other"}
Versions == {s \o <<Hyphen, 1>> : s \in Strings}

\* Every pair is compared once.
Table == [v \in Versions, w \in Versions |-> compare(v, w)]

\* Newer is an order: two versions are the same, or one of them is newer, and
\* what is newer than a newer version is newer.
IsOrdered(order, v) ==
  /\ order[v, v] = 0
  /\ \A w \in Versions :
       /\ order[v, w] = -order[w, v]
       /\ order[v, w] >= 0 => \A x \in Versions : order[w, x] >= 0 =>
            order[v, x] = Max({order[v, w], order[w, x]})

\* An epoch outranks the version, none is zero, and a missing release is any.
EpochDecides(order, v) ==
  \A w \in Versions :
    \A u \in {<<1, Colon>> \o v, <<Colon>> \o v, <<0, Colon>> \o v, SubSeq(v, 1, Len(v) - 2)} :
      compare(u, w) = IF u = <<1, Colon>> \o v THEN 1 ELSE order[v, w]

\* A package is out of reach exactly when each repository's best is older.
OutOfReach(order, v) ==
  \A w \in Versions :
    stranded([version |-> v, repo_version |-> w]) <=> order[w, v] = -1

\* A release comes after what leads up to it, and before what follows it.
SuffixesAreRead(upstream) ==
  /\ Digit(Last(upstream)) => compare(Append(upstream, Letter), upstream) = -1
  /\ \A c \in {1, Letter} : compare(upstream \o <<Separator, c>>, upstream) = 1

VersionsAreOrdered(order, v) ==
  /\ IsOrdered(order, v)
  /\ EpochDecides(order, v)
  /\ OutOfReach(order, v)
  /\ SuffixesAreRead(SubSeq(v, 1, Len(v) - 2))

-----------------------------------------------------------------------------
W(before, text, digit) == [before |-> before, text |-> text, digit |-> digit]
Kernels == {<<>>, <<W("-", "lts", FALSE)>>, <<W("-", "zen", FALSE)>>,
            <<W("-", "zen", FALSE), W("-", "lts", FALSE)>>}
\* A version and how the kernel built from it names itself: the first word in
\* letters is set off with a hyphen, and the name follows.
Suffix(before) ==
  [none |-> <<>>, arch |-> <<W(before, "arch1", FALSE)>>,
   rc |-> <<W(before, "rc1", FALSE), W(".", "zen1", FALSE)>>]
KernelVersions == [minor : {"1", "2"}, rel : {"1", "2"}, suffix : {"none", "arch", "rc"}]
Written(v, before) ==
  <<W("", "6", TRUE), W(".", v.minor, TRUE)>> \o Suffix(before)[v.suffix] \o <<W("-", v.rel, TRUE)>>
PacmanVersion(v) == Written(v, ".")
Uname(kernel, v) == Written(v, "-") \o kernel

Running == [kernel : Kernels, version : KernelVersions]

\* A running kernel is compared with its own package and no other: when that
\* one moved a reboot is asked for, when another one did it is not, and when it
\* is not installed nothing is claimed.
RebootIsForTheRunning(running) ==
  \A installed \in SUBSET Kernels : \A v \in KernelVersions : \A present \in BOOLEAN :
    LET packages == {[name |-> k, version |-> PacmanVersion(IF k = running.kernel THEN v
                                                            ELSE running.version)] : k \in installed}
        status == reboot_status(Uname(running.kernel, running.version), present, packages)
    IN  /\ status.says = "unknown" <=> running.kernel \notin installed
        /\ running.kernel \in installed => (status.says = "required" <=> v # running.version)
        /\ status.modules_gone => status.says = "required" /\ ~present
        /\ note(status) = "none" <=> status.says = "up to date"
=============================================================================
