---------------------------- MODULE MCInventory ----------------------------
(***************************************************************************)
(* What is on the machine, from a command's output to what is said of it   *)
(* and to moving it, and the file the scan is kept in.  A copy is a system *)
(* with a disk, the cache one of processes; the rest are functions, and    *)
(* each behaviour that is of neither is one input of one of them.          *)
(***************************************************************************)
EXTENDS Migration, ScanCache

\* JetBrains' two directories, which share their last component, and a cache.
\* One file in each is enough: a directory without it is empty.
MCLeaves == {"JetBrains"}

MCMappings ==
  <<[kind |-> "config", leaf |-> "JetBrains"],
    [kind |-> "cache", leaf |-> "JetBrains"],
    [kind |-> "data", leaf |-> "JetBrains"]>>

Holding(content) == [there |-> TRUE, files |-> [n \in Names |-> content]]

MCDisks ==
  {d \in [Places -> {Absent, Holding("none"), Holding("old"), Holding("new")}] :
     /\ \A i \in {1, 3} : d["native", i] \in {Absent, Holding("old")}
     /\ \A i \in {1, 3} : d["flatpak", i] # Holding("old")
     /\ \A s \in Sides : d[s, 2] = Holding(IF s = "native" THEN "old" ELSE "new")}

\* Either side may lack a directory, and the scan may have missed any or
\* remember one that is gone; the cache is there and measured.
MCScans == {s \in SUBSET Places : Sides \X {2} \subseteq s}

\* Two processes, one of an older build whose schema is another.
MCBuilds == [p \in {"tui", "old"} |-> IF p = "old" THEN 1 ELSE 2]

\* What the theorems about the cache ask of its constants.
ASSUME CacheConstants == ConstantsOK

VARIABLES part, input

Machine == INSTANCE MCStatus
             WITH PROBES <- 2, DAY <- 2, SLACK <- 1, EARLIEST <- 1, MAX_DEPTH <- 1,
                  Texts <- <<"", "1", "2", "3", "a", "b", "f", "g">>
Commands == INSTANCE MCProviders
              WITH PROBES <- 2, DAY <- 2, SLACK <- 1, EARLIEST <- 1,
                   Texts <- <<"", "0", "1", "2", "a", "b", "r">>
Log == INSTANCE History WITH RUN_GAP <- 2
Graph == INSTANCE WhyReport WITH TREE_DEPTH <- 3, TREE_BRANCH <- 1, NAMES_SHOWN <- 1, TREE_ROWS <- 2,
                                    MaxPackages <- 3, Virtual <- 9
Leftover == INSTANCE Cleanup WITH STALE_SHOWN <- 2, FILES_SHOWN <- 1
Version == INSTANCE PackageVersion WITH MaxLength <- 3
Twice == INSTANCE Shadows
Pair == INSTANCE Overlaps WITH PROFILE_DATA_THRESHOLD <- 10

\* The parts, with their inputs and what is asked of each.
InputsOf(p) ==
  CASE p = "scan" -> Machine!Worlds [] p = "partial scan" -> Machine!Early
    [] p = "figures" -> Machine!Beside [] p = "leftovers" -> Machine!Trees
    [] p = "providers" -> Commands!Machines [] p = "helper" -> Commands!Configs
    [] p = "mirror" -> Commands!Mirrors [] p = "repositories" -> Commands!Repos
    [] p = "processes" -> Leftover!Listings [] p = "homes" -> Twice!Homes
    [] p = "why" -> Graph!PackageScans
    [] p = "cleanup" -> Leftover!CleanupScans [] p = "stale services" -> Leftover!StaleScans
    [] p = "versions" -> Version!Versions [] p = "kernel" -> Version!Running
    [] p = "shadows" -> Twice!Machines [] p = "overlaps" -> Pair!OverlapScans
    [] p = "history" -> Log!Pasts
Found == {"scan", "partial scan", "figures", "leftovers", "providers", "helper", "mirror",
          "repositories", "processes", "homes"}
Advice == {"why", "cleanup", "stale services", "versions", "kernel", "shadows", "overlaps", "history"}

\* Beside the part a behaviour is of, there is nothing to copy and the cache is
\* as it is at first.
NoCopy ==
  /\ disk = [p \in Places |-> Absent] /\ before = disk
  /\ sizes = {} /\ direction = "to_native" /\ phase = "planned"
  /\ todo = {} /\ failed = {} /\ backup = [e \in Entries |-> Absent]

MCInit ==
  \/ part = "copy" /\ input = <<>> /\ Init /\ CacheInit
  \/ part = "cache" /\ input = <<>> /\ NoCopy /\ CacheInit
  \/ NoCopy /\ CacheInit /\ \E p \in Found \cup Advice : part = p /\ input \in InputsOf(p)

MCNext ==
  \/ part = "copy" /\ Next /\ UNCHANGED <<part, input, cachevars>>
  \/ part = "cache" /\ CacheNext /\ UNCHANGED <<part, input, vars>>

MCSpec == MCInit /\ [][MCNext]_<<vars, cachevars, part, input>>
-----------------------------------------------------------------------------
\* What a scan holds is what the commands said, each thing once, under the
\* source that manages it; an answer its source calls failed is a row that says
\* so and never a zero, in the scan, in every partial of it and in `--check`
\* (scanner::assemble, compose; the providers; status).
ScanIsTrue == part \in Found =>
  /\ part = "scan" => Machine!ScanIsRight(input)
  /\ part = "partial scan" => Machine!SettledRowsStay(input)
  /\ part = "figures" => Machine!NumbersAreMeasured(input)
  /\ part = "leftovers" => Machine!LeftoversAreFound(input)
  /\ part = "providers" => Commands!AnswersAreTrue(input)
  /\ part = "helper" => Commands!HelperIsUsable(input)
  /\ part = "mirror" => Commands!MirrorIsFair(input)
  /\ part = "repositories" => Commands!ArchIsServed(input)
  /\ part = "processes" => Leftover!StaleAreFound(input)
  /\ part = "homes" => Twice!HomesAreRead(input)

\* What model/scan.rs and the design promise of every scan: a command that
\* failed is an error of its source, never an empty answer.  Providers that keep
\* a failure to themselves break it.
AFailedCheckIsNoZero == part = "providers" => Commands!NoFailureIsSilent(input)

=============================================================================
