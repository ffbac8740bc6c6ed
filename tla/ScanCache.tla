----------------------------- MODULE ScanCache -----------------------------
(***************************************************************************)
(* The scan cache: one file that the processes of paclens read when they   *)
(* start and write after each scan, through one temporary file of a fixed  *)
(* name.  The world the scan describes changes meanwhile.                  *)
(*                                                                         *)
(* Any number of processes may run: the TUI and its rescans, a status bar  *)
(* that calls `status --check`, other commands.  A process may die at any  *)
(* step.  Each call on the file system is a step of its own.  A scan is    *)
(* reduced to when it began and which version of what it reads it saw; a   *)
(* version is the time of the change that made it.                         *)
(***************************************************************************)
EXTENDS Integers, FiniteSets

CONSTANTS
  Processes,
  Builds,      \* the schema version each process was built with
  Ttl,         \* config.general.cache_ttl
  Inputs,      \* the files a scan is outdated by: pacman's database, the mirror list
  MaxTime      \* bound on the clock

\* A build has a schema version; the lifetime and the clock count seconds.
ConstantsOK == Builds \in [Processes -> Nat] /\ Ttl \in Nat /\ MaxTime \in Nat

Times == 0..MaxTime
Watched == Inputs \cup {"config"}

CachedScans == [schema : Nat, scanned_at : Times, saw : [Inputs -> Times]]
Torn == [schema |-> 0]       \* text that does not parse: cut, mixed or empty
NoScan == [schema |-> -1]
NoFile == [text |-> NoScan, mtime |-> 0]

\* The file a writer has open: it keeps it when the name goes to another.
Descriptors == {"none", "tmp", "cache", "unlinked"}

VARIABLES
  now,       \* the clock
  changed,   \* when each watched file last changed: its mtime and version
  cache,     \* scan.toml: its text and its mtime
  tmp,       \* scan.toml.tmp
  process,   \* what each process is doing, the scan it has, the file it writes
  crossed    \* a process took the temporary file of another that was writing

world == <<now, changed>>
files == <<cache, tmp>>
cachevars == <<world, files, process, crossed>>

Ended == {"off", "hit", "scanned", "peeked"}
Phases == Ended \cup {"locate", "read", "judge", "locate_to_scan", "scan",
                      "open", "fill", "rename", "peek"}

Off == [phase |-> "off", got |-> NoScan, fd |-> "none"]

Step(p, phase) == process' = [process EXCEPT ![p].phase = phase]
End(p, phase) == process' = [process EXCEPT ![p] = [Off EXCEPT !.phase = phase]]

Exists(file) == file # NoFile
Written(text) == [text |-> text, mtime |-> now]

\* Another process is between opening the temporary file and renaming it.
Writing(p) == \E q \in Processes \ {p} : process[q].phase \in {"fill", "rename"}

\* What becomes of the descriptors when the temporary file loses its name.
Unlinked == [q \in Processes |->
               [process[q] EXCEPT !.fd = IF @ = "tmp" THEN "unlinked" ELSE @]]
Renamed == [q \in Processes |->
              [process[q] EXCEPT !.fd = CASE @ = "tmp" -> "cache"
                                          [] @ = "cache" -> "unlinked"
                                          [] OTHER -> @]]

-----------------------------------------------------------------------------
CacheInit ==
  /\ now = 0
  /\ changed = [w \in Watched |-> 0]
  /\ cache = NoFile /\ tmp = NoFile
  /\ process = [p \in Processes |-> Off]
  /\ crossed = FALSE

\* Time passes, and one of the watched files may have changed in it.
Tick ==
  /\ now < MaxTime
  /\ now' = now + 1
  /\ \/ UNCHANGED changed
     \/ \E w \in Watched : changed' = [changed EXCEPT ![w] = now + 1]
  /\ UNCHANGED <<files, process, crossed>>

\* A process starts.  It looks for a cached scan, or is told to ignore it, or
\* only wants whatever the cache holds.
Start(p) ==
  /\ process[p].phase \in Ended
  /\ \E phase \in {"locate", "locate_to_scan", "peek"} :
       process' = [process EXCEPT ![p] = [Off EXCEPT !.phase = phase]]
  /\ UNCHANGED <<world, files, crossed>>

\* The TUI opened on a scan rescans, with the configuration it started with: a
\* scan by an older one is no property here, and is not followed.
Rescan(p) ==
  /\ process[p].phase \in {"hit", "scanned"}
  /\ Step(p, "locate_to_scan")
  /\ UNCHANGED <<world, files, crossed>>

\* Cache::locate clears the temporary file, whoever's it is.
Clear(p) ==
  /\ tmp' = NoFile
  /\ crossed' = (crossed \/ Writing(p))
  /\ UNCHANGED cache

\* Mutant of Locate: notes the time of a scan at its end.
LocateThenScan(p) ==
  /\ process[p].phase \in {"locate", "locate_to_scan"}
  /\ Clear(p)
  /\ \E begun \in now..MaxTime :
       process' = [Unlinked EXCEPT
         ![p].phase = IF @ = "locate" THEN "read" ELSE "scan",
         ![p].got = IF process[p].phase = "locate" THEN @
                    ELSE [schema |-> Builds[p], scanned_at |-> begun, saw |-> NoScan]]
  /\ UNCHANGED world

\* A scan notes the time as it begins.
Locate(p) ==
  /\ process[p].phase \in {"locate", "locate_to_scan"}
  /\ Clear(p)
  /\ process' = [Unlinked EXCEPT
       ![p].phase = IF @ = "locate" THEN "read" ELSE "scan",
       ![p].got = IF process[p].phase = "locate" THEN @
                  ELSE [schema |-> Builds[p], scanned_at |-> now, saw |-> NoScan]]
  /\ UNCHANGED world

\* Mutant of Read: takes a file that does not parse for a scan.
ReadAny(p) ==
  /\ process[p].phase = "read"
  /\ IF ~Exists(cache)
     THEN Step(p, "locate_to_scan")
     ELSE process' = [process EXCEPT ![p].phase = "judge", ![p].got = cache.text]
  /\ UNCHANGED <<world, files, crossed>>

\* Text that does not parse is a miss, as no file is.
Read(p) ==
  /\ process[p].phase = "read"
  /\ IF ~Exists(cache) \/ cache.text = Torn
     THEN Step(p, "locate_to_scan")
     ELSE process' = [process EXCEPT ![p].phase = "judge", ![p].got = cache.text]
  /\ UNCHANGED <<world, files, crossed>>

\* The pure rules; the times of the files are those at the moment of judging,
\* the cache's own among them.  The clock is not set back here, so the rule on
\* a scan from the future never decides.
staleness(p, scan) ==
  \/ scan.schema # Builds[p]
  \/ \E i \in Inputs : changed[i] > scan.scanned_at
  \/ Ttl = 0 \/ now < scan.scanned_at \/ now - scan.scanned_at > Ttl
  \/ changed["config"] > cache.mtime

Judge(p) ==
  /\ process[p].phase = "judge"
  /\ IF staleness(p, process[p].got) THEN Step(p, "locate_to_scan") ELSE End(p, "hit")
  /\ UNCHANGED <<world, files, crossed>>

\* The lanes read what is watched at some time after the scan began.
Look(p) ==
  /\ process[p].phase = "scan"
  /\ process' = [process EXCEPT
       ![p].phase = "open",
       ![p].got.saw = [i \in Inputs |-> changed[i]]]
  /\ UNCHANGED <<world, files, crossed>>

\* fs::write opens the file, empties it if there is one...
Open(p) ==
  /\ process[p].phase = "open"
  /\ tmp' = Written(Torn)
  /\ crossed' = (crossed \/ Writing(p))
  /\ process' = [process EXCEPT ![p].phase = "fill", ![p].fd = "tmp"]
  /\ UNCHANGED <<world, cache>>

\* ...and writes the text; over another's, a longer tail of it may remain.
Overwritten(file, text) == {Written(text)} \cup (IF file.text # Torn THEN {Written(Torn)} ELSE {})

Fill(p) ==
  /\ process[p].phase = "fill"
  /\ LET scan == process[p].got
     IN  CASE process[p].fd = "tmp"   -> tmp' \in Overwritten(tmp, scan) /\ UNCHANGED cache
           [] process[p].fd = "cache" -> cache' \in Overwritten(cache, scan) /\ UNCHANGED tmp
           [] OTHER                   -> UNCHANGED files
  /\ process' = [process EXCEPT ![p].phase = "rename", ![p].fd = "none"]
  /\ UNCHANGED <<world, crossed>>

\* A full disk stops a write part of the way; the scan is used without it.
WriteFails(p) ==
  /\ process[p].phase \in {"open", "fill"}
  /\ End(p, "scanned")
  /\ UNCHANGED <<world, files, crossed>>

\* Mutant of Rename: writes the cache itself, without the temporary file.
WriteInPlace(p) ==
  /\ process[p].phase \in {"open", "rename"}
  /\ IF process[p].phase = "open"
     THEN cache' = Written(Torn) /\ Step(p, "rename") /\ UNCHANGED tmp
     ELSE cache' = Written(process[p].got) /\ End(p, "scanned") /\ UNCHANGED tmp
  /\ UNCHANGED <<world, crossed>>

\* The rename is of whatever has the temporary name; there may be none.
Rename(p) ==
  /\ process[p].phase = "rename"
  /\ IF Exists(tmp)
     THEN /\ cache' = tmp /\ tmp' = NoFile
          /\ process' = [Renamed EXCEPT ![p] = [Off EXCEPT !.phase = "scanned"]]
     ELSE End(p, "scanned") /\ UNCHANGED files
  /\ UNCHANGED <<world, crossed>>

\* `status --check` and `paclens pacman` take what the cache holds, as it is.
Peek(p) ==
  /\ process[p].phase = "peek"
  /\ Clear(p)
  /\ process' = [Unlinked EXCEPT ![p] = [Off EXCEPT !.phase = "peeked"]]
  /\ UNCHANGED world

Crash(p) ==
  /\ process[p].phase \notin Ended
  /\ process' = [process EXCEPT ![p] = Off]
  /\ UNCHANGED <<world, files, crossed>>

CacheNext ==
  \/ Tick
  \/ \E p \in Processes : \/ Start(p) \/ Rescan(p) \/ Crash(p)
                          \/ Locate(p) \/ Read(p) \/ Judge(p) \/ Look(p) \/ Open(p)
                          \/ Fill(p) \/ WriteFails(p) \/ Rename(p) \/ Peek(p)

CacheSpec == CacheInit /\ [][CacheNext]_cachevars

-----------------------------------------------------------------------------
\* The types: a file written whole holds a scan that began before it.
CacheTypeOK ==
  /\ now \in Times /\ changed \in [Watched -> 0..now]
  /\ \A file \in {cache, tmp} :
        /\ file.text \in CachedScans \cup {Torn, NoScan}
        /\ file.text \in CachedScans => file.text.scanned_at <= file.mtime
  /\ \A p \in Processes :
        /\ process[p].phase \in Phases
        /\ process[p].fd \in Descriptors
        /\ process[p].phase \in {"judge", "open", "fill", "rename"} => process[p].got \in CachedScans
  /\ crossed \in BOOLEAN

\* "The real cache is untouched": what a crash or a full disk interrupts is the
\* temporary file.  Only a process that clears or reopens the temporary file
\* another is writing can put a torn one in its place.
CacheIsWhole == CacheTypeOK /\ (cache.text = Torn => crossed)

\* A scan taken from the cache is of pacman's database and of the mirrors as
\* they are, is no older than the configuration allows and was written by a
\* program of the same schema, whatever changed while it was being made.
HitStep ==
  \A p \in Processes :
    process[p].phase = "judge" /\ process'[p].phase = "hit" =>
      LET scan == process[p].got
      IN  /\ \A i \in Inputs : scan.saw[i] = changed[i]
          /\ now - scan.scanned_at \in 0..Ttl
          /\ scan.schema = Builds[p]
HitIsCurrent == [][HitStep]_cachevars
=============================================================================
