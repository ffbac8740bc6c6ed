----------------------------- MODULE Migration -----------------------------
(***************************************************************************)
(* `paclens migrate --run`: the data of an application installed twice is  *)
(* copied from one side to the other.  The plan is built from the sizes a  *)
(* scan measured, perhaps some time ago: it first copies aside every       *)
(* target the scan saw, then copies every source, and prints the lines     *)
(* that undo it.  The TUI runs the same plan in a session of its console.  *)
(*                                                                         *)
(* A step may fail halfway and the next is run all the same; the command   *)
(* may be killed.  The application is closed while the steps run, as the   *)
(* report asks, and is launched to verify the copy afterwards.             *)
(***************************************************************************)
EXTENDS Naturals, Sequences, FiniteSets

CONSTANTS
  Leaves,     \* the last components of paths
  Mappings,   \* the report's pairs of directories: their kind and last component
  Names,      \* the files a directory may hold
  Contents,   \* what an application writes in one
  Disks,      \* what may be on the disk
  Scans       \* the directories a scan may have measured

PathKinds == {"config", "data", "cache", "profile"}
Pairs == DOMAIN Mappings
Sides == {"native", "flatpak"}
Places == Sides \X Pairs
Directions == {"to_flatpak", "to_native"}

\* A file that is not there, one cut short, or a whole one.
File == {"none", "torn"} \cup Contents

Empty == [n \in Names |-> "none"]
Absent == [there |-> FALSE, files |-> Empty]
Dirs == {Absent} \cup [there : {TRUE}, files : [Names -> File]]

ASSUME MigrationAssumption ==
  /\ Mappings \in Seq([kind : PathKinds, leaf : Leaves])
  /\ Disks \subseteq [Places -> Dirs]
  /\ Scans \subseteq SUBSET Places

VARIABLES
  disk,       \* what each directory holds
  sizes,      \* the directories the scan knows to exist
  direction,
  phase,
  todo,       \* the steps of the plan that have not been run
  failed,     \* those that were and failed
  backup,     \* what each entry of the backup directory holds
  before      \* the disk as the run found it

vars == <<disk, sizes, direction, phase, todo, failed, backup, before>>

-----------------------------------------------------------------------------
(* The plan. *)

From(d) == IF d = "to_flatpak" THEN "native" ELSE "flatpak"
To(d) == IF d = "to_flatpak" THEN "flatpak" ELSE "native"

\* Mutant of actionable: leaves out what would be overwritten.
ActionableIfTargetFree(d) ==
  {i \in Pairs : /\ Mappings[i].kind # "cache"
                 /\ <<From(d), i>> \in sizes /\ <<To(d), i>> \notin sizes}

\* The pairs a migration copies.
actionable(d) ==
  {i \in Pairs : Mappings[i].kind # "cache" /\ <<From(d), i>> \in sizes}

\* Those whose target the scan saw.
BackedUp(d) == {i \in actionable(d) : <<To(d), i>> \in sizes}

Index(d, i) == Cardinality({j \in actionable(d) : j < i})

\* Mutant of backup_leaf: the last component alone.
LeafAlone(d, i) == <<0, Mappings[i].leaf>>

\* Two targets with the same last component do not collide.
backup_leaf(d, i) == <<Index(d, i), Mappings[i].leaf>>

Entries == (0 .. Len(Mappings)) \X Leaves

BackupDir == <<"backup_dir", 0>>

\* `mkdir -p` and `cp -aT` for the backups, then for each pair.
plan_migration(d) ==
  (IF BackedUp(d) = {} THEN {} ELSE {BackupDir})
    \cup {"backup"} \X BackedUp(d)
    \cup {"mkdir", "copy"} \X actionable(d)

\* Mutant of Precedes: each target is backed up after the copies.
BackupsLast(a, b) ==
  \/ a[1] \in {"mkdir", "copy"} /\ b[1] \in {"backup_dir", "backup"}
  \/ a[1] = "backup_dir" /\ b[1] = "backup"
  \/ /\ (a[1] \in {"mkdir", "copy"}) = (b[1] \in {"mkdir", "copy"})
     /\ a[2] < b[2] \/ (a[2] = b[2] /\ a[1] = "mkdir" /\ b[1] = "copy")

\* The order of the plan.
Precedes(a, b) ==
  \/ a[1] = "backup_dir" /\ b[1] # "backup_dir"
  \/ a[1] = "backup" /\ b[1] \in {"mkdir", "copy"}
  \/ /\ (a[1] = "backup") = (b[1] = "backup")
     /\ b[1] # "backup_dir"
     /\ a[2] < b[2] \/ (a[2] = b[2] /\ a[1] = "mkdir" /\ b[1] = "copy")

-----------------------------------------------------------------------------
(* `cp -aT from to`, on directories. *)

Merged(from, to) ==
  [there |-> TRUE,
   files |-> [n \in Names |-> IF from.files[n] = "none" THEN to.files[n]
                              ELSE from.files[n]]]

\* What one that failed may leave of the target.
Partly(from, to) ==
  {to} \cup
  {d \in Dirs :
     /\ from.there /\ d.there
     /\ \A n \in Names :
          d.files[n] \in IF from.files[n] = "none" THEN {to.files[n]}
                         ELSE {to.files[n], from.files[n], "torn"}}

-----------------------------------------------------------------------------
\* The cached scan may be older than what is on the disk, and a directory it
\* could not measure in time is one that does not exist.
Init ==
  /\ disk \in Disks
  /\ sizes \in Scans
  /\ direction \in Directions
  /\ phase = "planned"
  /\ todo = plan_migration(direction)
  /\ failed = {}
  /\ backup = [e \in Entries |-> Absent]
  /\ before = disk

\* A plan that is not empty, shown and confirmed.
Confirm ==
  /\ phase = "planned"
  /\ todo # {}
  /\ phase' = "running"
  /\ UNCHANGED <<disk, sizes, direction, todo, failed, backup, before>>

IsNext(step) ==
  /\ phase = "running"
  /\ step \in todo
  /\ \A other \in todo : other # step => Precedes(step, other)

Succeeds(step) == todo' = todo \ {step} /\ failed' = failed
Fails(step) == todo' = todo \ {step} /\ failed' = failed \cup {step}

MakeDir(step) ==
  /\ step[1] \in {"backup_dir", "mkdir"}
  /\ IsNext(step)
  /\ Succeeds(step) \/ Fails(step)
  /\ UNCHANGED <<disk, sizes, direction, phase, backup, before>>

\* A target is copied into the backup directory, if there is one.
BackUp(i) ==
  /\ IsNext(<<"backup", i>>)
  /\ LET entry == backup_leaf(direction, i)
         target == disk[To(direction), i]
     IN  \/ /\ target.there /\ BackupDir \notin failed
            /\ backup' = [backup EXCEPT ![entry] = Merged(target, backup[entry])]
            /\ Succeeds(<<"backup", i>>)
         \/ /\ \E d \in Partly(target, backup[entry]) :
                 /\ BackupDir \in failed => d = backup[entry]
                 /\ backup' = [backup EXCEPT ![entry] = d]
            /\ Fails(<<"backup", i>>)
  /\ UNCHANGED <<disk, sizes, direction, phase, before>>

\* A source is copied over its target, in a parent directory that exists.
Copy(i) ==
  /\ IsNext(<<"copy", i>>)
  /\ LET source == disk[From(direction), i]
         place == <<To(direction), i>>
     IN  \/ /\ source.there /\ <<"mkdir", i>> \notin failed
            /\ disk' = [disk EXCEPT ![place] = Merged(source, disk[place])]
            /\ Succeeds(<<"copy", i>>)
         \/ /\ \E d \in Partly(source, disk[place]) :
                 /\ <<"mkdir", i>> \in failed => d = disk[place]
                 /\ disk' = [disk EXCEPT ![place] = d]
            /\ Fails(<<"copy", i>>)
  /\ UNCHANGED <<sizes, direction, phase, backup, before>>

\* Mutant of ExecuteEnds: offers the removal whatever happened.
EndsWellAnyway ==
  /\ phase = "running" /\ todo = {}
  /\ phase' = "copied"
  /\ UNCHANGED <<disk, sizes, direction, todo, failed, backup, before>>

\* The report is in: the removal of the source is offered if nothing failed.
ExecuteEnds ==
  /\ phase = "running" /\ todo = {}
  /\ phase' = IF failed = {} THEN "copied" ELSE "failed"
  /\ UNCHANGED <<disk, sizes, direction, todo, failed, backup, before>>

\* The command is killed with its step, which leaves what a failure does.
Interrupt ==
  /\ phase = "running"
  /\ phase' = "cut"
  /\ UNCHANGED <<disk, sizes, direction, todo, failed, backup, before>>

\* The application is launched on the target side and writes its data there.
Launch ==
  /\ phase \in {"copied", "kept", "removed"}
  /\ \E i \in Pairs : \E d \in Dirs \ {Absent} :
       disk' = [disk EXCEPT ![<<To(direction), i>>] = d]
  /\ UNCHANGED <<sizes, direction, phase, todo, failed, backup, before>>

\* The second question; removing the package leaves the data of its side.
RemovalOffered ==
  /\ phase = "copied"
  /\ phase' \in {"kept", "removed"}
  /\ UNCHANGED <<disk, sizes, direction, todo, failed, backup, before>>

\* The user runs the lines that were printed: `rm -rf` of each target, and
\* the copy of its backup if it had one.
Rollback ==
  /\ phase \in {"copied", "failed", "kept", "removed"}
  /\ disk' = [p \in Places |->
                IF p[1] = To(direction) /\ p[2] \in actionable(direction)
                THEN IF p \in sizes THEN backup[backup_leaf(direction, p[2])] ELSE Absent
                ELSE disk[p]]
  /\ phase' = "undone"
  /\ UNCHANGED <<sizes, direction, todo, failed, backup, before>>

Next ==
  \/ Confirm
  \/ \E step \in todo : MakeDir(step)
  \/ \E i \in Pairs : BackUp(i) \/ Copy(i)
  \/ ExecuteEnds \/ Interrupt
  \/ Launch \/ RemovalOffered \/ Rollback

Spec == Init /\ [][Next]_vars

-----------------------------------------------------------------------------
Over == {"copied", "failed", "kept", "removed", "undone"}

\* The types; what is left to do or failed is of the plan; nothing is left of
\* it once it is over, and the removal is offered after no failure only.
TypeOK ==
  /\ disk \in [Places -> Dirs] /\ before \in [Places -> Dirs]
  /\ sizes \in SUBSET Places
  /\ direction \in Directions
  /\ phase \in {"planned", "running", "cut"} \cup Over
  /\ todo \subseteq plan_migration(direction)
  /\ failed \subseteq plan_migration(direction) \ todo
  /\ backup \in [Entries -> Dirs]
  /\ phase \in Over => todo = {}
  /\ phase \in {"copied", "kept", "removed"} => failed = {}

Target(i) == <<To(direction), i>>
Saved(i) == <<"backup", i>> \notin failed

\* No file of the target is gone, wherever the run stands or was cut.
Kept(i) ==
  \A n \in Names :
    before[Target(i)].files[n] # "none" =>
      before[Target(i)].files[n] \in
        {disk[Target(i)].files[n], backup[backup_leaf(direction, i)].files[n]}

\* planner.rs: "back up every target dir that already exists", first: at every
\* moment, a file of a target that was backed up without a failure is still
\* there or in the backup, as it was.
NothingLost == \A i \in BackedUp(direction) : Saved(i) => Kept(i)

\* A run that reports no failure has copied everything: all the source sides
\* the scan measured, caches aside, are in the targets, file by file.
CleanCopyIsComplete ==
  [][phase = "running" /\ phase' = "copied" =>
       \A i \in Pairs :
         Mappings[i].kind # "cache" /\ <<From(direction), i>> \in sizes =>
           \A n \in Names :
             disk[From(direction), i].files[n] \in {"none", disk[To(direction), i].files[n]}
    ]_vars

\* The scan knew which targets exist.
Current == \A i \in actionable(direction) : Target(i) \in sizes <=> before[Target(i)].there

\* "Rollback stays possible": the lines printed restore every target, after a
\* copy that failed anywhere too, if the scan was right and the backups were
\* taken.
RollbackRestores ==
  phase = "undone" /\ Current /\ (\A i \in BackedUp(direction) : Saved(i)) =>
    \A i \in actionable(direction) : disk[Target(i)] = before[Target(i)]

\* The backups are worth their name: while the run lasts, and when it is undone.
BackupsHold == NothingLost /\ RollbackRestores
=============================================================================
