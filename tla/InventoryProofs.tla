-------------------------- MODULE InventoryProofs --------------------------
(***************************************************************************)
(* Proofs about copying an application's data, for any directories, any    *)
(* files in them and any scan: the types, that what was backed up is never *)
(* lost, and that the rollback lines restore the targets.                  *)
(*                                                                         *)
(* Neither says of a backup what makes it one: that it is the whole target *)
(* as the run found it.  Safe does: nothing is copied while there is a     *)
(* backup to take, each has an entry of its own, empty until then, and an  *)
(* entry whose copy did not fail is its target.                            *)
(***************************************************************************)
EXTENDS Migration, ScanCache, Integers, FiniteSetTheorems, SequenceTheorems, TLAPS

ToBackUp(i) == <<"backup", i>> \in todo
Entry(i) == backup[backup_leaf(direction, i)]

Safe ==
  /\ \A i \in BackedUp(direction) : ToBackUp(i) => disk = before /\ Entry(i) = Absent
  /\ \A i \in BackedUp(direction) :
       ~ToBackUp(i) /\ Saved(i) => Entry(i) = before[Target(i)]
  /\ phase = "undone" =>
       \A i \in actionable(direction) :
         disk[Target(i)] = IF Target(i) \in sizes THEN Entry(i) ELSE Absent

-----------------------------------------------------------------------------
(* The backups' names. *)

LEMMA FinitePairs == IsFiniteSet(Pairs) /\ Cardinality(Pairs) = Len(Mappings) /\ Pairs \subseteq Nat
<1>1. Len(Mappings) \in Nat /\ Pairs = 1 .. Len(Mappings)
  BY MigrationAssumption DEF Pairs
<1>2. 1 \in Int /\ Len(Mappings) \in Int
  BY <1>1
<1>3. /\ IsFiniteSet(1 .. Len(Mappings))
      /\ Cardinality(1 .. Len(Mappings)) = IF 1 > Len(Mappings) THEN 0 ELSE Len(Mappings) - 1 + 1
  BY <1>2, FS_Interval
<1> QED
  BY <1>1, <1>2, <1>3

LEMMA IndexBounds ==
  ASSUME NEW d, NEW i
  PROVE  Index(d, i) \in 0 .. Len(Mappings)
<1> DEFINE S == {j \in actionable(d) : j < i}
<1>1. S \in SUBSET Pairs
  BY DEF actionable
<1>2. IsFiniteSet(S) /\ Cardinality(S) <= Cardinality(Pairs)
  BY <1>1, FinitePairs, FS_Subset
<1>3. Cardinality(S) \in Nat
  BY <1>2, FS_CardinalityType
<1> HIDE DEF S
<1>4. Index(d, i) = Cardinality(S)
  BY DEF S, Index
<1>5. Len(Mappings) \in Nat
  BY MigrationAssumption
<1> QED
  BY <1>2, <1>3, <1>4, <1>5, FinitePairs

LEMMA EntryExists ==
  ASSUME NEW d, NEW i \in actionable(d)
  PROVE  backup_leaf(d, i) \in Entries
<1>1. Mappings[i] \in [kind : PathKinds, leaf : Leaves]
  <2>1. i \in 1 .. Len(Mappings)
    BY MigrationAssumption DEF actionable, Pairs
  <2> QED
    BY <2>1, MigrationAssumption, ElementOfSeq
<1>2. Mappings[i].leaf \in Leaves
  BY <1>1
<1>3. Index(d, i) \in 0 .. Len(Mappings)
  BY IndexBounds
<1> QED
  BY <1>2, <1>3 DEF backup_leaf, Entries

\* The pairs a plan counts are numbered in their order.
LEMMA IndexGrows ==
  ASSUME NEW d, NEW i \in actionable(d), NEW k \in actionable(d), i < k
  PROVE  Index(d, i) # Index(d, k)
<1> DEFINE S == {j \in actionable(d) : j < i}
           T == {j \in actionable(d) : j < k}
<1>1. T \in SUBSET Pairs /\ \A j \in Pairs : j \in Nat
  BY FinitePairs DEF actionable
<1>2. IsFiniteSet(T)
  BY <1>1, FinitePairs, FS_Subset
<1>3. i \in Pairs /\ k \in Pairs
  BY DEF actionable
<1>4. S \in SUBSET T
  <2>1. ASSUME NEW j \in S PROVE j \in T
    <3>1. j \in Pairs /\ j < i
      BY DEF actionable
    <3>2. j \in Nat /\ i \in Nat /\ k \in Nat
      BY <3>1, <1>1, <1>3
    <3> QED
      BY <3>1, <3>2
  <2> QED
    BY <2>1
<1>5. i \in T /\ i \notin S
  BY <1>1, <1>3
<1>6. Cardinality(S) # Cardinality(T)
  BY <1>2, <1>4, <1>5, FS_Subset
<1> QED
  BY <1>6 DEF Index

LEMMA EntriesDiffer ==
  ASSUME NEW d, NEW i \in actionable(d), NEW k \in actionable(d), i # k
  PROVE  backup_leaf(d, i) # backup_leaf(d, k)
<1>1. i \in Nat /\ k \in Nat
  BY FinitePairs DEF actionable
<1>2. Index(d, i) # Index(d, k)
  BY <1>1, IndexGrows
<1> QED
  BY <1>2 DEF backup_leaf

-----------------------------------------------------------------------------
(* Directories. *)

LEMMA AbsentDir == Absent \in Dirs /\ Absent.there = FALSE /\ Absent.files = Empty
  BY DEF Absent, Dirs

LEMMA FilesOf ==
  ASSUME NEW d \in Dirs
  PROVE  d.files \in [Names -> File] /\ (~d.there => d = Absent)
<1>1. CASE d = Absent
  BY <1>1 DEF Absent, Empty, File
<1>2. CASE d \in [there : {TRUE}, files : [Names -> File]]
  BY <1>2
<1> QED
  BY <1>1, <1>2 DEF Dirs

LEMMA MergedDir ==
  ASSUME NEW from \in Dirs, NEW to \in Dirs
  PROVE  Merged(from, to) \in Dirs
<1> DEFINE held == [n \in Names |-> IF from.files[n] = "none" THEN to.files[n]
                                     ELSE from.files[n]]
<1>1. from.files \in [Names -> File] /\ to.files \in [Names -> File]
  BY FilesOf
<1>2. held \in [Names -> File]
  BY <1>1
<1> HIDE DEF held
<1>3. [there |-> TRUE, files |-> held] \in Dirs
  BY <1>2 DEF Dirs
<1> QED
  BY <1>3 DEF Merged, held

LEMMA CopiedWhole ==
  ASSUME NEW from \in Dirs, from.there
  PROVE  Merged(from, Absent) = from
<1>1. from \in [there : {TRUE}, files : [Names -> File]]
  BY AbsentDir DEF Dirs
<1>2. [n \in Names |-> IF from.files[n] = "none" THEN Absent.files[n] ELSE from.files[n]]
        = from.files
  BY <1>1 DEF Absent, Empty
<1> QED
  BY <1>1, <1>2 DEF Merged

LEMMA PartlyDir ==
  ASSUME NEW from, NEW to \in Dirs, NEW d \in Partly(from, to)
  PROVE  d \in Dirs
  BY DEF Partly

-----------------------------------------------------------------------------
(* The types. *)

LEMMA InitTyped == Init => TypeOK
<1> SUFFICES ASSUME Init PROVE TypeOK
  OBVIOUS
<1>1. disk \in [Places -> Dirs] /\ before \in [Places -> Dirs] /\ sizes \in SUBSET Places
  BY MigrationAssumption DEF Init
<1>2. backup \in [Entries -> Dirs]
  BY AbsentDir DEF Init
<1>3. phase = "planned" /\ phase \notin Over
  BY DEF Init, Over
<1> QED
  BY <1>1, <1>2, <1>3 DEF Init, TypeOK

\* A step leaves fewer to do, and fails or does not.
LEMMA StepTyped ==
  ASSUME TypeOK, NEW step, IsNext(step), Succeeds(step) \/ Fails(step),
         UNCHANGED <<sizes, direction, phase>>
  PROVE  /\ todo' \subseteq plan_migration(direction)'
         /\ failed' \subseteq plan_migration(direction)' \ todo'
         /\ phase' = "running" /\ phase' \notin Over
<1>1. plan_migration(direction)' = plan_migration(direction)
  BY DEF plan_migration, BackedUp, actionable
<1>2. phase' = "running" /\ "running" \notin Over
  BY DEF IsNext, Over
<1>3. CASE Succeeds(step)
  BY <1>1, <1>2, <1>3 DEF TypeOK, Succeeds
<1>4. CASE Fails(step)
  BY <1>1, <1>2, <1>4 DEF TypeOK, Fails, IsNext
<1> QED
  BY <1>3, <1>4

LEMMA TypesKept == ASSUME TypeOK, [Next]_vars PROVE TypeOK'
<1> DEFINE Plan == plan_migration(direction)
<1>a. UNCHANGED <<sizes, direction>> => UNCHANGED Plan
  BY DEF plan_migration, BackedUp, actionable
<1> HIDE DEF Plan
<1>1. CASE Confirm
  <2>1. phase' = "running" /\ "running" \notin Over
    BY <1>1 DEF Confirm, Over
  <2>2. "running" \notin {"copied", "kept", "removed"}
    OBVIOUS
  <2> QED
    BY <1>1, <1>a, <2>1, <2>2 DEF Confirm, TypeOK, Plan
<1>2. ASSUME NEW step \in todo, MakeDir(step) PROVE TypeOK'
  <2>1. IsNext(step) /\ (Succeeds(step) \/ Fails(step))
    BY <1>2 DEF MakeDir
  <2>2. UNCHANGED <<disk, sizes, direction, phase, backup, before>>
    BY <1>2 DEF MakeDir
  <2>3. /\ todo' \subseteq plan_migration(direction)'
        /\ failed' \subseteq plan_migration(direction)' \ todo'
        /\ phase' = "running" /\ phase' \notin Over
    BY <2>1, <2>2, StepTyped
  <2> QED
    BY <2>2, <2>3 DEF TypeOK, Over
<1>3. ASSUME NEW i \in Pairs, BackUp(i) PROVE TypeOK'
  <2> DEFINE entry == backup_leaf(direction, i)
             target == disk[To(direction), i]
  <2>1. IsNext(<<"backup", i>>) /\ (Succeeds(<<"backup", i>>) \/ Fails(<<"backup", i>>))
    BY <1>3 DEF BackUp
  <2>2. UNCHANGED <<disk, sizes, direction, phase, before>>
    BY <1>3 DEF BackUp
  <2>3. /\ todo' \subseteq plan_migration(direction)'
        /\ failed' \subseteq plan_migration(direction)' \ todo'
        /\ phase' = "running" /\ phase' \notin Over
    BY <2>1, <2>2, StepTyped
  <2>4. i \in actionable(direction)
    BY <2>1 DEF IsNext, TypeOK, plan_migration, BackedUp, BackupDir
  <2>5. entry \in Entries /\ target \in Dirs
    BY <2>4, EntryExists DEF TypeOK, Places, To, Sides, actionable
  <2>6. backup[entry] \in Dirs /\ Merged(target, backup[entry]) \in Dirs
    BY <2>5, MergedDir DEF TypeOK
  <2>7. \E d \in Dirs : backup' = [backup EXCEPT ![entry] = d]
    BY <1>3, <2>6, PartlyDir DEF BackUp
  <2>8. backup' \in [Entries -> Dirs]
    BY <2>5, <2>7 DEF TypeOK
  <2> QED
    BY <2>2, <2>3, <2>8 DEF TypeOK, Over
<1>4. ASSUME NEW i \in Pairs, Copy(i) PROVE TypeOK'
  <2> DEFINE source == disk[From(direction), i]
             place == <<To(direction), i>>
  <2>1. IsNext(<<"copy", i>>) /\ (Succeeds(<<"copy", i>>) \/ Fails(<<"copy", i>>))
    BY <1>4 DEF Copy
  <2>2. UNCHANGED <<sizes, direction, phase, backup, before>>
    BY <1>4 DEF Copy
  <2>3. /\ todo' \subseteq plan_migration(direction)'
        /\ failed' \subseteq plan_migration(direction)' \ todo'
        /\ phase' = "running" /\ phase' \notin Over
    BY <2>1, <2>2, StepTyped
  <2>4. source \in Dirs /\ place \in Places
    BY DEF TypeOK, Places, From, To, Sides
  <2>5. disk[place] \in Dirs /\ Merged(source, disk[place]) \in Dirs
    BY <2>4, MergedDir DEF TypeOK
  <2>6. \E d \in Dirs : disk' = [disk EXCEPT ![place] = d]
    BY <1>4, <2>5, PartlyDir DEF Copy
  <2>7. disk' \in [Places -> Dirs]
    BY <2>4, <2>6 DEF TypeOK
  <2> QED
    BY <2>2, <2>3, <2>7 DEF TypeOK, Over
<1>5. CASE ExecuteEnds
  BY <1>5, <1>a DEF ExecuteEnds, TypeOK, Over, Plan
<1>6. CASE Interrupt
  BY <1>6, <1>a DEF Interrupt, TypeOK, Over, Plan
<1>7. CASE Launch
  <2>1. PICK i \in Pairs, d \in Dirs : disk' = [disk EXCEPT ![<<To(direction), i>>] = d]
    BY <1>7 DEF Launch
  <2>2. disk' \in [Places -> Dirs]
    BY <2>1 DEF TypeOK, Places, To, Sides
  <2> QED
    BY <1>7, <1>a, <2>2 DEF Launch, TypeOK, Plan
<1>8. CASE RemovalOffered
  BY <1>8, <1>a DEF RemovalOffered, TypeOK, Over, Plan
<1>9. CASE Rollback
  <2>1. \A p \in Places : p[2] \in actionable(direction) => backup[backup_leaf(direction, p[2])] \in Dirs
    BY EntryExists DEF TypeOK
  <2>2. disk' \in [Places -> Dirs]
    BY <1>9, <2>1, AbsentDir DEF Rollback, TypeOK
  <2> QED
    BY <1>9, <1>a, <2>2 DEF Rollback, TypeOK, Over, Plan
<1>10. CASE UNCHANGED vars
  BY <1>10, <1>a DEF vars, TypeOK, Plan
<1> QED
  BY <1>1, <1>2, <1>3, <1>4, <1>5, <1>6, <1>7, <1>8, <1>9, <1>10 DEF Next

-----------------------------------------------------------------------------
(* The backups are the targets. *)

LEMMA InitSafe == Init => Safe
<1> SUFFICES ASSUME Init PROVE Safe
  OBVIOUS
<1>1. \A i \in BackedUp(direction) : ToBackUp(i)
  BY DEF Init, ToBackUp, plan_migration
<1>2. \A i \in BackedUp(direction) : Entry(i) = Absent
  BY EntryExists DEF Init, Entry, BackedUp
<1>3. disk = before /\ phase # "undone"
  BY DEF Init
<1> QED
  BY <1>1, <1>2, <1>3 DEF Safe

\* What leaves the backups, and the steps that take them, alone.
LEMMA SafeIfSpared ==
  ASSUME Safe, UNCHANGED <<sizes, direction, backup, before>>, phase' # "undone",
         \A i \in BackedUp(direction) :
           /\ ToBackUp(i)' = ToBackUp(i) /\ (Saved(i)' => Saved(i))
           /\ ToBackUp(i) => disk' = disk
  PROVE  Safe'
<1>1. BackedUp(direction)' = BackedUp(direction)
  BY DEF BackedUp, actionable
<1>2. ASSUME NEW i \in BackedUp(direction)
      PROVE  Entry(i)' = Entry(i) /\ before[Target(i)]' = before[Target(i)]
  BY DEF Entry, Target, backup_leaf, Index, actionable
<1> QED
  BY <1>1, <1>2 DEF Safe

\* A step that takes no backup: MakeDir, and Copy when no backup is left.
LEMMA OtherStep ==
  ASSUME NEW step, step[1] # "backup", Succeeds(step) \/ Fails(step), NEW i
  PROVE  ToBackUp(i)' = ToBackUp(i) /\ (Saved(i)' => Saved(i))
<1>1. step # <<"backup", i>>
  OBVIOUS
<1> QED
  BY <1>1 DEF Succeeds, Fails, ToBackUp, Saved

LEMMA BackUpSafe ==
  ASSUME TypeOK, Safe, NEW k \in Pairs, BackUp(k)
  PROVE  Safe'
<1> DEFINE entry == backup_leaf(direction, k)
           target == disk[Target(k)]
<1>1. /\ IsNext(<<"backup", k>>)
      /\ UNCHANGED <<disk, sizes, direction, phase, before>>
  BY DEF BackUp
<1>2. k \in BackedUp(direction) /\ k \in actionable(direction) /\ ToBackUp(k)
  BY <1>1 DEF IsNext, TypeOK, plan_migration, BackedUp, BackupDir, ToBackUp
<1>3. disk = before /\ backup[entry] = Absent
  BY <1>2 DEF Safe, Entry
<1>4. entry \in Entries /\ target \in Dirs
  BY <1>2, EntryExists DEF TypeOK, Target, Places, To, Sides, actionable
<1>5. BackedUp(direction)' = BackedUp(direction)
  BY <1>1 DEF BackedUp, actionable
<1>6. \A i : backup_leaf(direction, i)' = backup_leaf(direction, i) /\ Target(i)' = Target(i)
  BY <1>1 DEF backup_leaf, Index, actionable, Target
<1>7. \A i \in BackedUp(direction) : i # k => backup_leaf(direction, i) # entry
  BY <1>2, EntriesDiffer DEF BackedUp
<1>8. \/ Succeeds(<<"backup", k>>) /\ target.there
         /\ backup' = [backup EXCEPT ![entry] = Merged(target, backup[entry])]
      \/ Fails(<<"backup", k>>) /\ \E d : backup' = [backup EXCEPT ![entry] = d]
  BY DEF BackUp, Target
<1> HIDE DEF entry, target
<1>9. ASSUME NEW i \in BackedUp(direction), i # k
      PROVE  /\ ToBackUp(i)' = ToBackUp(i) /\ Saved(i)' = Saved(i)
             /\ Entry(i)' = Entry(i)
  <2>1. <<"backup", i>> # <<"backup", k>>
    BY <1>9
  <2>2. ToBackUp(i)' = ToBackUp(i) /\ Saved(i)' = Saved(i)
    BY <1>8, <2>1 DEF Succeeds, Fails, ToBackUp, Saved
  <2>3. backup_leaf(direction, i) \in Entries /\ backup_leaf(direction, i) # entry
    BY <1>7, <1>9, EntryExists DEF BackedUp
  <2> QED
    BY <1>6, <1>8, <2>2, <2>3 DEF Entry, TypeOK
<1>10. ~ToBackUp(k)'
  BY <1>8 DEF Succeeds, Fails, ToBackUp
<1>11. Saved(k)' => Entry(k)' = before[Target(k)]'
  <2>1. CASE Succeeds(<<"backup", k>>) /\ target.there
             /\ backup' = [backup EXCEPT ![entry] = Merged(target, backup[entry])]
    <3>1. Merged(target, backup[entry]) = target
      BY <1>3, <1>4, <2>1, CopiedWhole
    <3>2. backup'[entry] = target
      BY <1>4, <2>1, <3>1 DEF TypeOK
    <3> QED
      BY <1>1, <1>3, <1>6, <3>2 DEF Entry, entry, target
  <2>2. CASE Fails(<<"backup", k>>)
    BY <2>2 DEF Fails, Saved
  <2> QED
    BY <1>8, <2>1, <2>2
<1>12. phase' # "undone"
  BY <1>1 DEF IsNext
<1>13. \A i \in BackedUp(direction) : ToBackUp(i)' => disk' = before' /\ Entry(i)' = Absent
  BY <1>1, <1>3, <1>9, <1>10 DEF Safe
<1>14. \A i \in BackedUp(direction) :
         ~ToBackUp(i)' /\ Saved(i)' => Entry(i)' = before'[Target(i)']
  BY <1>1, <1>6, <1>9, <1>11 DEF Safe
<1> QED
  BY <1>5, <1>12, <1>13, <1>14 DEF Safe

LEMMA SafeKept == ASSUME TypeOK, Safe, [Next]_vars PROVE Safe'
<1>1. CASE Confirm
  BY <1>1, SafeIfSpared DEF Confirm, ToBackUp, Saved
<1>2. ASSUME NEW step \in todo, MakeDir(step) PROVE Safe'
  <2>1. /\ step[1] # "backup" /\ (Succeeds(step) \/ Fails(step)) /\ phase = "running"
        /\ UNCHANGED <<disk, sizes, direction, phase, backup, before>>
    BY <1>2 DEF MakeDir, IsNext
  <2>2. \A i \in BackedUp(direction) : ToBackUp(i)' = ToBackUp(i) /\ (Saved(i)' => Saved(i))
    BY <2>1, OtherStep
  <2> QED
    BY <2>1, <2>2, SafeIfSpared
<1>3. ASSUME NEW k \in Pairs, BackUp(k) PROVE Safe'
  BY <1>3, BackUpSafe
<1>4. ASSUME NEW k \in Pairs, Copy(k) PROVE Safe'
  <2> DEFINE step == <<"copy", k>>
  <2>1. /\ step[1] # "backup" /\ IsNext(step) /\ (Succeeds(step) \/ Fails(step))
        /\ UNCHANGED <<sizes, direction, phase, backup, before>>
    BY <1>4 DEF Copy
  <2>2. \A i \in BackedUp(direction) : ToBackUp(i)' = ToBackUp(i) /\ (Saved(i)' => Saved(i))
    BY <2>1, OtherStep
  <2>3. ASSUME NEW i \in BackedUp(direction), ToBackUp(i) PROVE FALSE
    <3>1. <<"backup", i>> \in todo /\ <<"backup", i>> # step
      BY <2>3 DEF ToBackUp
    <3>2. Precedes(step, <<"backup", i>>)
      BY <2>1, <3>1 DEF IsNext
    <3> QED
      BY <3>2 DEF Precedes
  <2> HIDE DEF step
  <2>4. phase' # "undone"
    BY <2>1 DEF IsNext
  <2> QED
    BY <2>1, <2>2, <2>3, <2>4, SafeIfSpared
<1>5. CASE ExecuteEnds
  BY <1>5, SafeIfSpared DEF ExecuteEnds, ToBackUp, Saved
<1>6. CASE Interrupt
  BY <1>6, SafeIfSpared DEF Interrupt, ToBackUp, Saved
<1>7. CASE Launch
  <2>1. todo = {} /\ phase' # "undone" /\ UNCHANGED <<sizes, direction, todo, failed, backup, before>>
    BY <1>7 DEF Launch, TypeOK, Over
  <2> QED
    BY <2>1, SafeIfSpared DEF ToBackUp, Saved
<1>8. CASE RemovalOffered
  BY <1>8, SafeIfSpared DEF RemovalOffered, ToBackUp, Saved
<1>9. CASE Rollback
  <2>1. todo = {} /\ UNCHANGED <<sizes, direction, todo, failed, backup, before>>
    BY <1>9 DEF Rollback, TypeOK, Over
  <2>2. /\ BackedUp(direction)' = BackedUp(direction)
        /\ actionable(direction)' = actionable(direction)
    BY <2>1 DEF BackedUp, actionable
  <2>3. \A i \in actionable(direction) :
          Entry(i)' = Entry(i) /\ Target(i)' = Target(i) /\ (ToBackUp(i)' = FALSE)
          /\ Saved(i)' = Saved(i)
    BY <2>1 DEF Entry, Target, backup_leaf, Index, actionable, ToBackUp, Saved
  <2>4. ASSUME NEW i \in actionable(direction)
        PROVE  disk'[Target(i)] = IF Target(i) \in sizes THEN Entry(i) ELSE Absent
    <3>1. /\ Target(i) \in Places /\ Target(i)[1] = To(direction) /\ Target(i)[2] = i
      BY DEF Target, Places, To, Sides, actionable
    <3> QED
      BY <1>9, <3>1 DEF Rollback, Entry
  <2>5. \A i \in BackedUp(direction) : i \in actionable(direction) /\ ~ToBackUp(i)
    BY <2>1 DEF BackedUp, ToBackUp
  <2> QED
    BY <2>1, <2>2, <2>3, <2>4, <2>5 DEF Safe
<1>10. CASE UNCHANGED vars
  <2>1. /\ BackedUp(direction)' = BackedUp(direction)
        /\ actionable(direction)' = actionable(direction)
    BY <1>10 DEF vars, BackedUp, actionable
  <2>2. \A i \in actionable(direction) :
          /\ Entry(i)' = Entry(i) /\ Target(i)' = Target(i)
          /\ ToBackUp(i)' = ToBackUp(i) /\ Saved(i)' = Saved(i)
    BY <1>10 DEF vars, Entry, Target, backup_leaf, Index, actionable, ToBackUp, Saved
  <2>3. \A i \in BackedUp(direction) : i \in actionable(direction)
    BY DEF BackedUp
  <2> QED
    BY <1>10, <2>1, <2>2, <2>3 DEF vars, Safe
<1> QED
  BY <1>1, <1>2, <1>3, <1>4, <1>5, <1>6, <1>7, <1>8, <1>9, <1>10 DEF Next

-----------------------------------------------------------------------------
(* What was copied is in the target: the two sides never share a directory. *)

Covers(i) ==
  \A n \in Names :
    disk[From(direction), i].files[n] \in {"none", disk[To(direction), i].files[n]}

Complete ==
  phase \in {"planned", "running"} =>
    \A i \in actionable(direction) : <<"copy", i>> \in todo \cup failed \/ Covers(i)

LEMMA InitComplete == Init => Complete
  BY DEF Init, Complete, plan_migration

LEMMA CompleteIfSpared ==
  ASSUME Complete, phase = "running", UNCHANGED <<disk, sizes, direction>>,
         NEW step, step[1] # "copy", Succeeds(step) \/ Fails(step)
  PROVE  Complete'
<1>1. actionable(direction)' = actionable(direction)
  BY DEF actionable
<1>2. \A i : Covers(i)' = Covers(i)
  BY DEF Covers
<1>3. \A i : step # <<"copy", i>>
  OBVIOUS
<1> QED
  BY <1>1, <1>2, <1>3 DEF Complete, Succeeds, Fails

LEMMA CopyComplete ==
  ASSUME TypeOK, Complete, NEW k \in Pairs, Copy(k)
  PROVE  Complete'
<1> DEFINE source == disk[From(direction), k]
           place == <<To(direction), k>>
<1>1. /\ IsNext(<<"copy", k>>) /\ phase = "running"
      /\ UNCHANGED <<sizes, direction, phase, backup, before>>
  BY DEF Copy, IsNext
<1>2. /\ actionable(direction)' = actionable(direction)
      /\ From(direction)' = From(direction) /\ To(direction)' = To(direction)
  BY <1>1 DEF actionable, From, To
<1>3. /\ From(direction) # To(direction)
      /\ \A i \in Pairs : <<From(direction), i>> \in Places /\ <<To(direction), i>> \in Places
  BY DEF From, To, Places, Sides
<1>4. \/ Succeeds(<<"copy", k>>) /\ disk' = [disk EXCEPT ![place] = Merged(source, disk[place])]
      \/ Fails(<<"copy", k>>) /\ \E d : disk' = [disk EXCEPT ![place] = d]
  BY DEF Copy
<1>5. place \in Places /\ \E d : disk' = [disk EXCEPT ![place] = d]
  BY <1>3, <1>4
<1> HIDE DEF source, place
<1>6. ASSUME NEW i \in Pairs
      PROVE  disk'[From(direction), i] = disk[From(direction), i]
  <2>1. <<From(direction), i>> # place
    BY <1>3 DEF place
  <2> QED
    BY <1>3, <1>5, <2>1 DEF TypeOK
<1>7. ASSUME NEW i \in Pairs, i # k
      PROVE  disk'[To(direction), i] = disk[To(direction), i]
  <2>1. <<To(direction), i>> # place
    BY <1>7 DEF place
  <2> QED
    BY <1>3, <1>5, <2>1 DEF TypeOK
<1>8. ASSUME NEW i \in actionable(direction)
      PROVE  <<"copy", i>> \in todo' \cup failed' \/ Covers(i)'
  <2>1. i \in Pairs
    BY DEF actionable
  <2>2. CASE i # k
    <3>1. Covers(i)' = Covers(i)
      BY <1>2, <1>6, <1>7, <2>1, <2>2 DEF Covers
    <3>2. <<"copy", i>> # <<"copy", k>>
      BY <2>2
    <3> QED
      BY <1>1, <1>4, <3>1, <3>2 DEF Complete, Succeeds, Fails
  <2>3. CASE i = k /\ Fails(<<"copy", k>>)
    BY <2>3 DEF Fails
  <2>4. CASE i = k /\ disk' = [disk EXCEPT ![place] = Merged(source, disk[place])]
    <3>1. disk'[To(direction), k] = Merged(source, disk[place])
      BY <1>5, <2>4 DEF TypeOK, place
    <3>2. \A n \in Names : source.files[n] \in {"none", Merged(source, disk[place]).files[n]}
      BY DEF Merged
    <3> QED
      BY <1>2, <1>6, <2>1, <2>4, <3>1, <3>2 DEF Covers, source
  <2> QED
    BY <1>4, <2>2, <2>3, <2>4
<1> QED
  BY <1>2, <1>8 DEF Complete

LEMMA CompleteKept == ASSUME TypeOK, Complete, [Next]_vars PROVE Complete'
<1>1. CASE Confirm
  BY <1>1 DEF Confirm, Complete, Covers, actionable
<1>2. ASSUME NEW step \in todo, MakeDir(step) PROVE Complete'
  <2>1. /\ step[1] # "copy" /\ (Succeeds(step) \/ Fails(step)) /\ phase = "running"
        /\ UNCHANGED <<disk, sizes, direction>>
    BY <1>2 DEF MakeDir, IsNext
  <2> QED
    BY <2>1, CompleteIfSpared
<1>3. ASSUME NEW k \in Pairs, BackUp(k) PROVE Complete'
  <2> DEFINE step == <<"backup", k>>
  <2>1. /\ step[1] # "copy" /\ (Succeeds(step) \/ Fails(step)) /\ phase = "running"
        /\ UNCHANGED <<disk, sizes, direction>>
    BY <1>3 DEF BackUp, IsNext
  <2> HIDE DEF step
  <2> QED
    BY <2>1, CompleteIfSpared
<1>4. ASSUME NEW k \in Pairs, Copy(k) PROVE Complete'
  BY <1>4, CopyComplete
<1>5. CASE ExecuteEnds \/ Interrupt \/ RemovalOffered \/ Rollback
  <2>1. phase' \notin {"planned", "running"}
    BY <1>5 DEF ExecuteEnds, Interrupt, RemovalOffered, Rollback
  <2> QED
    BY <2>1 DEF Complete
<1>6. CASE Launch
  BY <1>6 DEF Launch, Complete
<1>7. CASE UNCHANGED vars
  BY <1>7 DEF vars, Complete, Covers, actionable
<1> QED
  BY <1>1, <1>2, <1>3, <1>4, <1>5, <1>6, <1>7 DEF Next

-----------------------------------------------------------------------------
LEMMA Inductive == Spec => [](TypeOK /\ Safe /\ Complete)
  BY InitTyped, InitSafe, InitComplete, TypesKept, SafeKept, CompleteKept, PTL DEF Spec

\* The variables keep their types; nothing is left of a plan once its run is
\* over, and a removal is offered after a run without a failure only.
THEOREM TypeCorrect == Spec => []TypeOK
  BY Inductive, PTL

\* Whatever fails, and wherever the run is killed, a file of a target that was
\* backed up without a failure is in the target or in its backup, as it was.
THEOREM NothingIsLost == Spec => []NothingLost
<1>1. TypeOK /\ Safe => NothingLost
  BY DEF Safe, NothingLost, Kept, Entry
<1> QED
  BY <1>1, Inductive, PTL

\* The rollback lines restore every target to what the run found, after a copy
\* that failed anywhere too, if the scan knew which targets exist and their
\* backups were taken.
THEOREM RollbackIsPossible == Spec => []RollbackRestores
<1>1. TypeOK /\ Safe => RollbackRestores
  <2> SUFFICES ASSUME TypeOK, Safe, phase = "undone", Current,
                      \A i \in BackedUp(direction) : Saved(i),
                      NEW i \in actionable(direction)
               PROVE  disk[Target(i)] = before[Target(i)]
    BY DEF RollbackRestores
  <2>1. todo = {} /\ ~ToBackUp(i)
    BY DEF TypeOK, Over, ToBackUp
  <2>2. CASE Target(i) \in sizes
    <3>1. i \in BackedUp(direction)
      BY <2>2 DEF BackedUp, Target
    <3> QED
      BY <2>1, <2>2, <3>1 DEF Safe
  <2>3. CASE Target(i) \notin sizes
    <3>1. before[Target(i)] \in Dirs /\ ~before[Target(i)].there
      BY <2>3 DEF TypeOK, Current, Target, Places, To, Sides, actionable
    <3> QED
      BY <2>3, <3>1, FilesOf DEF Safe
  <2> QED
    BY <2>2, <2>3
<1> QED
  BY <1>1, Inductive, PTL

\* A run that ends without a failure has copied every file of every source the
\* scan measured.
THEOREM CleanRunsCopiedAll == Spec => CleanCopyIsComplete
<1>1. ASSUME TypeOK, Complete, [Next]_vars, phase = "running", phase' = "copied",
             NEW i \in Pairs, Mappings[i].kind # "cache", <<From(direction), i>> \in sizes
      PROVE  Covers(i)
  <2>1. todo = {} /\ failed = {}
    BY <1>1 DEF Next, vars, Confirm, MakeDir, BackUp, Copy, ExecuteEnds, Interrupt,
                Launch, RemovalOffered, Rollback
  <2> QED
    BY <1>1, <2>1 DEF Complete, actionable
<1>2. ASSUME TypeOK, Complete, [Next]_vars
      PROVE  [phase = "running" /\ phase' = "copied" =>
                \A i \in Pairs :
                  Mappings[i].kind # "cache" /\ <<From(direction), i>> \in sizes => Covers(i)]_vars
  BY <1>1, <1>2
<1> QED
  BY <1>2, Inductive, PTL DEF Spec, CleanCopyIsComplete, Covers

\* What was backed up is safe at every moment, and comes back: the two together.
THEOREM BackupsAreGood == Spec => []BackupsHold
  BY NothingIsLost, RollbackIsPossible, PTL DEF BackupsHold

-----------------------------------------------------------------------------
(* Proofs about the scan cache, for any number of processes of any builds,  *)
(* any inputs, lifetime and clock: the types, that a crash or a full disk   *)
(* never leaves the cache torn, and that a scan taken from it is current.   *)

Texts == CachedScans \cup {Torn, NoScan}
CacheFiles == [text : Texts, mtime : Times]

\* A scan that has begun and has not read anything yet.
Begun == [schema : Nat, scanned_at : Times, saw : {NoScan}]

ProcessStates == [phase : Phases, got : CachedScans \cup Begun \cup {NoScan}, fd : Descriptors]

\* A file with no scan in it is none; one with a scan was written after it began.
FileOK(file) ==
  /\ file \in CacheFiles
  /\ file.text = NoScan => file = NoFile
  /\ file.text \in CachedScans => file.text.scanned_at <= file.mtime
  /\ file.mtime <= now

HasScan == {"judge", "open", "fill", "rename"}

\* What a process has of a scan where it is.
StateOK(state) ==
  /\ state \in ProcessStates
  /\ state.phase = "scan" => state.got \in Begun
  /\ state.phase \in HasScan => state.got \in CachedScans
  /\ state.got # NoScan => state.got.scanned_at <= now

Typed ==
  /\ now \in Times
  /\ changed \in [Watched -> 0..now]
  /\ FileOK(cache) /\ FileOK(tmp)
  /\ DOMAIN process = Processes
  /\ \A p \in Processes : StateOK(process[p])
  /\ crossed \in BOOLEAN

\* What a scan saw is what there is, or what there is was written after it began.
UpToDate(scan) == \A i \in Inputs : scan.saw[i] = changed[i] \/ changed[i] > scan.scanned_at

AllCurrent ==
  /\ \A file \in {cache, tmp} : file.text \in CachedScans => UpToDate(file.text)
  /\ \A p \in Processes : process[p].got \in CachedScans => UpToDate(process[p].got)

\* While no process took another's temporary file, one writes at a time, and the
\* file is empty until it is whole.
Writers == {p \in Processes : process[p].phase \in {"fill", "rename"}}

Whole ==
  ~crossed =>
    /\ \A p, q \in Writers : p = q
    /\ \A p \in Writers : process[p].phase = "fill" => process[p].fd = "tmp" /\ tmp.text = Torn
    /\ \A p \in Writers : process[p].phase = "rename" => tmp.text \in CachedScans
    /\ cache.text # Torn

-----------------------------------------------------------------------------
\* Text that is not a scan's.
LEMMA NotScans ==
  /\ Torn \notin CachedScans /\ NoScan \notin CachedScans /\ Torn # NoScan
  /\ Torn \notin Begun /\ NoScan \notin Begun
<1>1. Torn.schema = 0 /\ NoScan.schema = -1
  BY DEF Torn, NoScan
<1>2. DOMAIN Torn = {"schema"} /\ DOMAIN NoScan = {"schema"}
  BY DEF Torn, NoScan
<1>3. \A scan \in CachedScans \cup Begun : "saw" \in DOMAIN scan
  BY DEF CachedScans, Begun
<1> QED
  BY <1>1, <1>2, <1>3

LEMMA BegunIsNoScan == Begun \cap CachedScans = {}
<1> SUFFICES ASSUME NEW scan \in Begun, scan \in CachedScans PROVE FALSE
  OBVIOUS
<1>1. NoScan \in [Inputs -> Times]
  BY DEF Begun, CachedScans
<1>2. DOMAIN NoScan = {"schema"} /\ NoScan["schema"] = -1
  BY DEF NoScan
<1>3. -1 \in Times
  BY <1>1, <1>2
<1> QED
  BY <1>3 DEF Times

\* The states of a process after the steps that set one of its fields.
LEMMA OffTyped == \A at \in Phases : [Off EXCEPT !.phase = at] \in ProcessStates
  BY DEF Off, ProcessStates, Descriptors

LEMMA EndFacts ==
  ASSUME NEW at
  PROVE  /\ [Off EXCEPT !.phase = at] = [phase |-> at, got |-> NoScan, fd |-> "none"]
         /\ [Off EXCEPT !.phase = at].phase = at
         /\ [Off EXCEPT !.phase = at].got = NoScan
         /\ [Off EXCEPT !.phase = at].fd = "none"
  BY DEF Off

LEMMA UnlinkedFacts ==
  ASSUME Typed
  PROVE  /\ DOMAIN Unlinked = Processes
         /\ \A q \in Processes : /\ StateOK(Unlinked[q])
                                 /\ Unlinked[q].phase = process[q].phase
                                 /\ Unlinked[q].got = process[q].got
<1> SUFFICES ASSUME NEW q \in Processes
             PROVE  /\ Unlinked[q] \in ProcessStates
                    /\ Unlinked[q].phase = process[q].phase /\ Unlinked[q].got = process[q].got
  BY DEF Unlinked, Typed, StateOK
<1>1. process[q] \in ProcessStates
  BY DEF Typed, StateOK
<1>2. Unlinked[q] = [process[q] EXCEPT !.fd = IF @ = "tmp" THEN "unlinked" ELSE @]
  BY DEF Unlinked
<1> QED
  BY <1>1, <1>2 DEF ProcessStates, Descriptors

LEMMA RenamedFacts ==
  ASSUME Typed
  PROVE  /\ DOMAIN Renamed = Processes
         /\ \A q \in Processes : /\ StateOK(Renamed[q])
                                 /\ Renamed[q].phase = process[q].phase
                                 /\ Renamed[q].got = process[q].got
<1> SUFFICES ASSUME NEW q \in Processes
             PROVE  /\ Renamed[q] \in ProcessStates
                    /\ Renamed[q].phase = process[q].phase /\ Renamed[q].got = process[q].got
  BY DEF Renamed, Typed, StateOK
<1>1. process[q] \in ProcessStates
  BY DEF Typed, StateOK
<1>2. Renamed[q] = [process[q] EXCEPT !.fd = CASE @ = "tmp" -> "cache" [] @ = "cache" -> "unlinked" [] OTHER -> @]
  BY DEF Renamed
<1> QED
  BY <1>1, <1>2 DEF ProcessStates, Descriptors

\* A file just written.
LEMMA WrittenOK ==
  ASSUME ConstantsOK, Typed, NEW text \in Texts \ {NoScan}, text \in CachedScans => text.scanned_at <= now
  PROVE  FileOK(Written(text)) /\ Written(text).text = text
<1>1. now \in Times /\ now \in Int
  BY DEF ConstantsOK, Typed, Times
<1>2. Written(text).text = text /\ Written(text).mtime = now /\ Written(text) \in CacheFiles
  BY <1>1 DEF Written, CacheFiles
<1> QED
  BY <1>1, <1>2 DEF FileOK

LEMMA NoFileOK ==
  ASSUME ConstantsOK, Typed
  PROVE  FileOK(NoFile) /\ NoFile.text = NoScan
<1>1. now \in Int /\ 0 <= now /\ 0 \in Times
  BY DEF ConstantsOK, Typed, Times
<1>2. NoFile.text = NoScan /\ NoFile.mtime = 0 /\ NoFile \in CacheFiles
  BY <1>1 DEF NoFile, CacheFiles, Texts
<1> QED
  BY <1>1, <1>2, NotScans DEF FileOK

\* A step that moves one process, at the same time.
LEMMA OneMoves ==
  ASSUME Typed, NEW p \in Processes, UNCHANGED world, crossed' \in BOOLEAN,
         FileOK(cache'), FileOK(tmp'), DOMAIN process' = Processes,
         \A q \in Processes \ {p} : StateOK(process'[q]), StateOK(process'[p])
  PROVE  Typed'
<1>1. now' = now /\ changed' = changed
  BY DEF world
<1> QED
  BY <1>1 DEF Typed, StateOK, FileOK

-----------------------------------------------------------------------------
LEMMA CacheTypesKept ==
  ASSUME ConstantsOK, Typed, [CacheNext]_cachevars
  PROVE  Typed'
<1>0. /\ \A p \in Processes : StateOK(process[p]) /\ process[p] \in ProcessStates
      /\ FileOK(cache) /\ FileOK(tmp) /\ DOMAIN process = Processes /\ now \in Times /\ now \in Int
      /\ crossed \in BOOLEAN /\ MaxTime \in Nat
  BY DEF Typed, StateOK, Times, ConstantsOK
<1>A. ASSUME NEW p \in Processes, NEW at \in Ended, End(p, at)
      PROVE  /\ DOMAIN process' = Processes /\ StateOK(process'[p])
             /\ \A q \in Processes \ {p} : process'[q] = process[q]
  <2>1. at \in Phases /\ at \notin HasScan /\ at # "scan"
    BY <1>A DEF Ended, Phases, HasScan
  <2>2. process'[p] = [Off EXCEPT !.phase = at]
    BY <1>0, <1>A DEF End
  <2>3. StateOK(process'[p])
    BY <2>1, <2>2, OffTyped, EndFacts DEF StateOK
  <2> QED
    BY <1>0, <1>A, <2>3 DEF End
<1>1. CASE Tick
  <2>1. now' = now + 1 /\ now < MaxTime /\ UNCHANGED <<files, process, crossed>>
    BY <1>1 DEF Tick
  <2>2. now' \in Times /\ now' \in Int
    BY <1>0, <2>1 DEF Times
  <2>3. changed' \in [Watched -> 0..now']
    <3>1. changed \in [Watched -> 0..now'] /\ now + 1 \in 0..now'
      BY <1>0, <2>1 DEF Typed, Times
    <3> QED
      BY <1>1, <3>1 DEF Tick
  <2>4. FileOK(cache)' /\ FileOK(tmp)'
    BY <1>0, <2>1 DEF FileOK, files, CacheFiles, Times
  <2>5. ASSUME NEW p \in Processes PROVE StateOK(process[p])'
    <3>1. process[p].got # NoScan => process[p].got.scanned_at \in Int
      BY <1>0 DEF ProcessStates, CachedScans, Begun, Times
    <3> QED
      BY <1>0, <2>1, <3>1 DEF StateOK
  <2> QED
    BY <1>0, <2>1, <2>2, <2>3, <2>4, <2>5 DEF Typed
<1>2. ASSUME NEW p \in Processes, Start(p) PROVE Typed'
  <2>1. PICK at \in {"locate", "locate_to_scan", "peek"} :
          process' = [process EXCEPT ![p] = [Off EXCEPT !.phase = at]]
    BY <1>2 DEF Start
  <2>2. at \in Phases /\ at \notin HasScan /\ at # "scan"
    BY DEF Phases, HasScan
  <2>3. StateOK(process'[p])
    BY <1>0, <2>1, <2>2, OffTyped, EndFacts DEF StateOK
  <2>4. UNCHANGED <<world, cache, tmp, crossed>>
    BY <1>2 DEF Start, files
  <2> QED
    BY <1>0, <2>1, <2>3, <2>4, OneMoves
<1>3. ASSUME NEW p \in Processes, NEW at \in {"locate_to_scan"}, Step(p, at), UNCHANGED <<world, files, crossed>>
      PROVE  Typed'
  <2>1. process'[p] = [process[p] EXCEPT !.phase = at]
    BY <1>0, <1>3 DEF Step
  <2>2. StateOK(process'[p])
    BY <1>0, <2>1 DEF StateOK, ProcessStates, HasScan, Phases
  <2>3. DOMAIN process' = Processes /\ \A q \in Processes \ {p} : StateOK(process'[q])
    BY <1>0, <1>3 DEF Step
  <2> QED
    BY <1>0, <1>3, <2>2, <2>3, OneMoves DEF files
<1>4. ASSUME NEW p \in Processes, Rescan(p) PROVE Typed'
  BY <1>3, <1>4 DEF Rescan
<1>5. ASSUME NEW p \in Processes, Crash(p) PROVE Typed'
  <2>1. process' = [process EXCEPT ![p] = Off]
    BY <1>5 DEF Crash
  <2>2. StateOK(Off)
    BY DEF Off, StateOK, ProcessStates, Phases, Ended, Descriptors, HasScan
  <2> QED
    BY <1>0, <1>5, <2>1, <2>2, OneMoves DEF Crash, files
<1>6. ASSUME NEW p \in Processes, Locate(p) PROVE Typed'
  <2> DEFINE at == IF process[p].phase = "locate" THEN "read" ELSE "scan"
             got == IF process[p].phase = "locate" THEN process[p].got
                    ELSE [schema |-> Builds[p], scanned_at |-> now, saw |-> NoScan]
  <2>1. /\ DOMAIN process' = Processes
        /\ process'[p] = [Unlinked[p] EXCEPT !.phase = at, !.got = got]
        /\ \A q \in Processes \ {p} : process'[q] = Unlinked[q]
    BY <1>0, <1>6, UnlinkedFacts DEF Locate
  <2>2. StateOK(process'[p])
    <3>1. Unlinked[p] \in ProcessStates
      BY UnlinkedFacts DEF StateOK
    <3>2. CASE process[p].phase = "locate"
      BY <1>0, <2>1, <3>1, <3>2 DEF StateOK, ProcessStates, Phases, HasScan
    <3>3. CASE process[p].phase # "locate"
      <4>1. got \in Begun /\ got.scanned_at = now
        BY <1>0, <3>3 DEF Begun, ConstantsOK
      <4>2. /\ process'[p].phase = "scan" /\ process'[p].got = got
            /\ process'[p] = [phase |-> "scan", got |-> got, fd |-> Unlinked[p].fd]
        BY <2>1, <3>1, <3>3 DEF ProcessStates
      <4>3. process'[p] \in ProcessStates
        BY <3>1, <4>1, <4>2 DEF ProcessStates, Phases
      <4> QED
        BY <1>0, <4>1, <4>2, <4>3 DEF StateOK, HasScan
    <3> QED
      BY <3>2, <3>3
  <2>3. UNCHANGED <<world, cache>> /\ tmp' = NoFile /\ crossed' \in BOOLEAN
    BY <1>0, <1>6 DEF Locate, Clear
  <2> QED
    BY <1>0, <2>1, <2>2, <2>3, UnlinkedFacts, NoFileOK, OneMoves
<1>7. ASSUME NEW p \in Processes, Read(p) PROVE Typed'
  <2>1. CASE ~Exists(cache) \/ cache.text = Torn
    BY <1>3, <1>7, <2>1 DEF Read
  <2>2. CASE Exists(cache) /\ cache.text # Torn
    <3>1. process' = [process EXCEPT ![p].phase = "judge", ![p].got = cache.text]
      BY <1>7, <2>2 DEF Read
    <3>2. cache.text \in CachedScans /\ cache.text.scanned_at <= now
      <4>1. cache.text \in CachedScans
        BY <1>0, <2>2 DEF FileOK, CacheFiles, Texts, Exists
      <4>2. cache.mtime \in Int /\ cache.text.scanned_at \in Int
        BY <1>0, <4>1 DEF FileOK, CacheFiles, CachedScans, Times
      <4> QED
        BY <1>0, <4>1, <4>2 DEF FileOK
    <3>3. process'[p] = [process[p] EXCEPT !.phase = "judge", !.got = cache.text]
      BY <1>0, <3>1
    <3>4. StateOK(process'[p])
      BY <1>0, <3>2, <3>3 DEF StateOK, ProcessStates, Phases
    <3> QED
      BY <1>0, <1>7, <3>1, <3>4, OneMoves DEF Read, files
  <2> QED
    BY <2>1, <2>2
<1>8. ASSUME NEW p \in Processes, Judge(p) PROVE Typed'
  <2>1. CASE staleness(p, process[p].got)
    BY <1>3, <1>8, <2>1 DEF Judge
  <2>2. CASE ~staleness(p, process[p].got)
    <3>1. End(p, "hit") /\ "hit" \in Ended
      BY <1>8, <2>2 DEF Judge, Ended
    <3> QED
      BY <1>0, <1>8, <1>A, <3>1, OneMoves DEF Judge, files
  <2> QED
    BY <2>1, <2>2
<1>9. ASSUME NEW p \in Processes, Look(p) PROVE Typed'
  <2> DEFINE saw == [i \in Inputs |-> changed[i]]
  <2>1. process'[p] = [process[p] EXCEPT !.phase = "open", !.got = [process[p].got EXCEPT !.saw = saw]]
    BY <1>0, <1>9 DEF Look
  <2>2. saw \in [Inputs -> Times]
    <3>1. \A i \in Inputs : changed[i] \in 0..now
      BY DEF Typed, Watched
    <3> QED
      BY <1>0, <3>1 DEF Times
  <2>3. process[p].got \in Begun /\ process[p].got.scanned_at <= now
    BY <1>0, <1>9, NotScans DEF Look, StateOK
  <2>4. /\ [process[p].got EXCEPT !.saw = saw] \in CachedScans
        /\ [process[p].got EXCEPT !.saw = saw].scanned_at = process[p].got.scanned_at
    BY <2>2, <2>3 DEF Begun, CachedScans
  <2>5. StateOK(process'[p])
    BY <1>0, <2>1, <2>3, <2>4 DEF StateOK, ProcessStates, Phases
  <2> QED
    BY <1>0, <1>9, <2>5, OneMoves DEF Look, files
<1>10. ASSUME NEW p \in Processes, Open(p) PROVE Typed'
  <2>1. process'[p] = [process[p] EXCEPT !.phase = "fill", !.fd = "tmp"]
    BY <1>0, <1>10 DEF Open
  <2>2. StateOK(process'[p])
    BY <1>0, <1>10, <2>1 DEF Open, StateOK, ProcessStates, Phases, HasScan, Descriptors
  <2>3. FileOK(Written(Torn))
    BY NotScans, WrittenOK DEF Texts
  <2>4. UNCHANGED <<world, cache>> /\ tmp' = Written(Torn) /\ crossed' \in BOOLEAN
    BY <1>0, <1>10 DEF Open
  <2> QED
    BY <1>0, <1>10, <2>2, <2>3, <2>4, OneMoves DEF Open
<1>11. ASSUME NEW p \in Processes, Fill(p) PROVE Typed'
  <2>1. process'[p] = [process[p] EXCEPT !.phase = "rename", !.fd = "none"]
    BY <1>0, <1>11 DEF Fill
  <2>2. StateOK(process'[p])
    BY <1>0, <1>11, <2>1 DEF Fill, StateOK, ProcessStates, Phases, HasScan, Descriptors
  <2>3. process[p].got \in CachedScans /\ process[p].got # NoScan /\ process[p].got.scanned_at <= now
    BY <1>0, <1>11, NotScans DEF Fill, StateOK, HasScan
  <2>4. \A file : \A written \in Overwritten(file, process[p].got) : FileOK(written)
    BY <2>3, NotScans, WrittenOK DEF Overwritten, Texts
  <2>5. FileOK(cache') /\ FileOK(tmp')
    BY <1>0, <1>11, <2>4 DEF Fill, files
  <2> QED
    BY <1>0, <1>11, <2>2, <2>5, OneMoves DEF Fill
<1>12. ASSUME NEW p \in Processes, WriteFails(p) PROVE Typed'
  <2>1. End(p, "scanned") /\ "scanned" \in Ended
    BY <1>12 DEF WriteFails, Ended
  <2> QED
    BY <1>0, <1>12, <1>A, <2>1, OneMoves DEF WriteFails, files
<1>13. ASSUME NEW p \in Processes, Rename(p) PROVE Typed'
  <2>1. "scanned" \in Phases /\ "scanned" \notin HasScan /\ "scanned" \in Ended
    BY DEF Phases, Ended, HasScan
  <2>2. CASE Exists(tmp)
    <3>1. /\ cache' = tmp /\ tmp' = NoFile /\ UNCHANGED <<world, crossed>>
          /\ process' = [Renamed EXCEPT ![p] = [Off EXCEPT !.phase = "scanned"]]
      BY <1>13, <2>2 DEF Rename
    <3>2. StateOK(process'[p])
      BY <2>1, <3>1, RenamedFacts, OffTyped, EndFacts DEF StateOK
    <3> QED
      BY <1>0, <3>1, <3>2, RenamedFacts, NoFileOK, OneMoves
  <2>3. CASE ~Exists(tmp)
    <3>1. End(p, "scanned") /\ UNCHANGED <<world, files, crossed>>
      BY <1>13, <2>3 DEF Rename
    <3> QED
      BY <1>0, <1>A, <2>1, <3>1, OneMoves DEF files
  <2> QED
    BY <2>2, <2>3
<1>14. ASSUME NEW p \in Processes, Peek(p) PROVE Typed'
  <2>1. "peeked" \in Phases /\ "peeked" \notin HasScan /\ "peeked" # "scan"
    BY DEF Phases, Ended, HasScan
  <2>2. process' = [Unlinked EXCEPT ![p] = [Off EXCEPT !.phase = "peeked"]]
    BY <1>14 DEF Peek
  <2>3. StateOK(process'[p])
    BY <2>1, <2>2, UnlinkedFacts, OffTyped, EndFacts DEF StateOK
  <2>4. UNCHANGED <<world, cache>> /\ tmp' = NoFile /\ crossed' \in BOOLEAN
    BY <1>0, <1>14 DEF Peek, Clear
  <2> QED
    BY <1>0, <2>2, <2>3, <2>4, UnlinkedFacts, NoFileOK, OneMoves
<1>15. CASE UNCHANGED cachevars
  BY <1>15 DEF cachevars, world, files, Typed, StateOK, FileOK
<1> QED
  BY <1>1, <1>2, <1>4, <1>5, <1>6, <1>7, <1>8, <1>9, <1>10, <1>11, <1>12, <1>13, <1>14, <1>15 DEF CacheNext

LEMMA CacheInitTyped == ASSUME ConstantsOK, CacheInit PROVE Typed
<1>1. StateOK(Off)
  BY DEF Off, StateOK, ProcessStates, Phases, Ended, Descriptors, HasScan
<1>2. 0 \in Times /\ now = 0
  BY DEF ConstantsOK, Times, CacheInit
<1>3. NoFile.text = NoScan /\ NoFile.mtime = 0 /\ NoFile \in CacheFiles
  BY <1>2 DEF NoFile, CacheFiles, Texts
<1>4. FileOK(NoFile)
  BY <1>2, <1>3, NotScans DEF FileOK
<1>5. process = [p \in Processes |-> Off] /\ cache = NoFile /\ tmp = NoFile /\ crossed = FALSE
  BY DEF CacheInit
<1>6. changed \in [Watched -> 0..now]
  BY <1>2 DEF CacheInit
<1> QED
  BY <1>1, <1>2, <1>4, <1>5, <1>6 DEF Typed

LEMMA TypesHold == ASSUME ConstantsOK PROVE CacheSpec => []Typed
  BY CacheInitTyped, CacheTypesKept, PTL DEF CacheSpec

\* Every variable keeps its type, and a file written whole holds a scan that
\* began before it.
THEOREM CacheTypeCorrect == ASSUME ConstantsOK PROVE CacheSpec => []CacheTypeOK
<1>1. Typed => CacheTypeOK
  BY DEF Typed, CacheTypeOK, FileOK, CacheFiles, Texts, StateOK, ProcessStates, HasScan
<1> QED
  BY <1>1, TypesHold, PTL

-----------------------------------------------------------------------------
(* A scan follows the inputs it read.  A step either keeps the scans there *)
(* are, wherever it moves them, or is the look that makes one.             *)

KeptTexts == {cache.text, tmp.text, Torn, NoScan} \cup {process[q].got : q \in Processes}

LEMMA CurrentCarried ==
  ASSUME AllCurrent, UNCHANGED world,
         cache'.text \in KeptTexts, tmp'.text \in KeptTexts,
         \A q \in Processes : process'[q].got \in KeptTexts \cup Begun
  PROVE  AllCurrent'
<1>1. ASSUME NEW scan \in KeptTexts \cup Begun, scan \in CachedScans PROVE UpToDate(scan)'
  <2>1. UpToDate(scan)
    BY <1>1, NotScans, BegunIsNoScan DEF AllCurrent, KeptTexts
  <2> QED
    BY <2>1 DEF UpToDate, world
<1> QED
  BY <1>1 DEF AllCurrent

LEMMA CurrentKept ==
  ASSUME ConstantsOK, Typed, AllCurrent, [CacheNext]_cachevars
  PROVE  AllCurrent'
<1>0. /\ \A p \in Processes : StateOK(process[p]) /\ process[p] \in ProcessStates
      /\ DOMAIN process = Processes /\ now \in Int
      /\ cache.text \in KeptTexts /\ tmp.text \in KeptTexts /\ Torn \in KeptTexts /\ NoScan \in KeptTexts
      /\ \A p \in Processes : process[p].got \in KeptTexts
      /\ NoFile.text = NoScan
  BY DEF Typed, StateOK, Times, ConstantsOK, KeptTexts, NoFile
<1>A. ASSUME NEW p \in Processes, NEW at, End(p, at), UNCHANGED <<world, files>> PROVE AllCurrent'
  <2>1. \A q \in Processes : process'[q].got \in KeptTexts
    BY <1>0, <1>A, EndFacts DEF End
  <2> QED
    BY <1>0, <1>A, <2>1, CurrentCarried DEF files
<1>B. ASSUME NEW p \in Processes, NEW at, Step(p, at), UNCHANGED <<world, files>> PROVE AllCurrent'
  <2>1. process'[p] = [process[p] EXCEPT !.phase = at]
    BY <1>0, <1>B DEF Step
  <2>2. \A q \in Processes : process'[q].got = process[q].got
    BY <1>0, <1>B, <2>1 DEF Step, ProcessStates
  <2> QED
    BY <1>0, <1>B, <2>2, CurrentCarried DEF files
<1>1. CASE Tick
  <2>1. now' = now + 1 /\ UNCHANGED <<files, process, crossed>>
    BY <1>1 DEF Tick
  <2>2. \A w \in Watched : changed'[w] = changed[w] \/ changed'[w] = now + 1
    BY <1>1 DEF Tick, Typed
  <2>3. ASSUME NEW scan \in CachedScans, UpToDate(scan), scan.scanned_at <= now PROVE UpToDate(scan)'
    <3>1. scan.scanned_at \in Int
      BY DEF CachedScans, Times
    <3> QED
      BY <1>0, <2>2, <2>3, <3>1 DEF UpToDate, Watched
  <2>4. \A file \in {cache, tmp} : file.text \in CachedScans => file.text.scanned_at <= now
    <3> SUFFICES ASSUME NEW file \in {cache, tmp}, file.text \in CachedScans
                 PROVE  file.text.scanned_at <= now
      OBVIOUS
    <3>1. FileOK(file)
      BY DEF Typed
    <3>2. file.mtime \in Int /\ file.text.scanned_at \in Int
      BY <3>1 DEF FileOK, CacheFiles, CachedScans, Times
    <3> QED
      BY <1>0, <3>1, <3>2 DEF FileOK
  <2>5. \A p \in Processes : process[p].got \in CachedScans => process[p].got.scanned_at <= now
    BY <1>0, NotScans DEF StateOK
  <2> QED
    BY <2>1, <2>3, <2>4, <2>5 DEF AllCurrent, files
<1>2. ASSUME NEW p \in Processes, Start(p) PROVE AllCurrent'
  <2>1. \A q \in Processes : process'[q].got \in KeptTexts
    BY <1>0, <1>2, EndFacts DEF Start
  <2> QED
    BY <1>0, <1>2, <2>1, CurrentCarried DEF Start, files
<1>3. ASSUME NEW p \in Processes, Rescan(p) PROVE AllCurrent'
  BY <1>3, <1>B DEF Rescan
<1>4. ASSUME NEW p \in Processes, Crash(p) PROVE AllCurrent'
  <2>1. \A q \in Processes : process'[q].got \in KeptTexts
    BY <1>0, <1>4 DEF Crash, Off
  <2> QED
    BY <1>0, <1>4, <2>1, CurrentCarried DEF Crash, files
<1>5. ASSUME NEW p \in Processes, Locate(p) PROVE AllCurrent'
  <2> DEFINE got == IF process[p].phase = "locate" THEN process[p].got
                    ELSE [schema |-> Builds[p], scanned_at |-> now, saw |-> NoScan]
  <2>1. \A q \in Processes : Unlinked[q] \in ProcessStates /\ Unlinked[q].got = process[q].got
    BY UnlinkedFacts DEF StateOK
  <2>2. process'[p].got = got /\ \A q \in Processes \ {p} : process'[q].got = process[q].got
    BY <1>5, <2>1, UnlinkedFacts DEF Locate, ProcessStates
  <2>3. got \in KeptTexts \cup Begun
    BY <1>0 DEF Begun, ConstantsOK, Typed
  <2>4. \A q \in Processes : process'[q].got \in KeptTexts \cup Begun
    BY <1>0, <2>2, <2>3
  <2> QED
    BY <1>0, <1>5, <2>4, CurrentCarried DEF Locate, Clear
<1>6. ASSUME NEW p \in Processes, Read(p) PROVE AllCurrent'
  <2>1. CASE ~Exists(cache) \/ cache.text = Torn
    BY <1>6, <1>B, <2>1 DEF Read
  <2>2. CASE Exists(cache) /\ cache.text # Torn
    <3>1. process'[p] = [process[p] EXCEPT !.phase = "judge", !.got = cache.text]
      BY <1>0, <1>6, <2>2 DEF Read
    <3>2. \A q \in Processes : process'[q].got \in KeptTexts
      BY <1>0, <1>6, <2>2, <3>1 DEF Read, ProcessStates
    <3> QED
      BY <1>0, <1>6, <3>2, CurrentCarried DEF Read, files
  <2> QED
    BY <2>1, <2>2
<1>7. ASSUME NEW p \in Processes, Judge(p) PROVE AllCurrent'
  BY <1>7, <1>A, <1>B DEF Judge
<1>8. ASSUME NEW p \in Processes, Look(p) PROVE AllCurrent'
  <2> DEFINE saw == [i \in Inputs |-> changed[i]]
  <2>1. process'[p] = [process[p] EXCEPT !.phase = "open", !.got = [process[p].got EXCEPT !.saw = saw]]
    BY <1>0, <1>8 DEF Look
  <2>2. process[p].got \in Begun
    BY <1>0, <1>8 DEF Look, StateOK
  <2>3. process'[p].got = [process[p].got EXCEPT !.saw = saw] /\ process'[p].got.saw = saw
    BY <1>0, <2>1, <2>2 DEF ProcessStates, Begun
  <2>4. \A i \in Inputs : process'[p].got.saw[i] = changed'[i]
    BY <1>8, <2>3 DEF Look, world
  <2>5. \A q \in Processes \ {p} : process'[q] = process[q]
    BY <1>0, <1>8 DEF Look
  <2>6. UNCHANGED <<now, changed, cache, tmp>>
    BY <1>8 DEF Look, world, files
  <2>7. \A file \in {cache, tmp} : file.text \in CachedScans => UpToDate(file.text)'
    BY <2>6 DEF AllCurrent, UpToDate
  <2>8. \A q \in Processes \ {p} : process'[q].got \in CachedScans => UpToDate(process[q].got)'
    BY <2>5, <2>6 DEF AllCurrent, UpToDate
  <2>9. UpToDate(process[p].got)'
    BY <2>4 DEF UpToDate
  <2> QED
    BY <2>5, <2>6, <2>7, <2>8, <2>9 DEF AllCurrent
<1>9. ASSUME NEW p \in Processes, Open(p) PROVE AllCurrent'
  <2>1. \A q \in Processes : process'[q].got = process[q].got
    BY <1>0, <1>9 DEF Open, ProcessStates
  <2>2. tmp'.text = Torn
    BY <1>9 DEF Open, Written
  <2> QED
    BY <1>0, <1>9, <2>1, <2>2, CurrentCarried DEF Open
<1>10. ASSUME NEW p \in Processes, Fill(p) PROVE AllCurrent'
  <2>1. \A q \in Processes : process'[q].got = process[q].got
    BY <1>0, <1>10 DEF Fill, ProcessStates
  <2>2. \A file : \A written \in Overwritten(file, process[p].got) : written.text \in KeptTexts
    BY <1>0 DEF Overwritten, Written
  <2>3. cache'.text \in KeptTexts /\ tmp'.text \in KeptTexts
    BY <1>0, <1>10, <2>2 DEF Fill, files
  <2> QED
    BY <1>0, <1>10, <2>1, <2>3, CurrentCarried DEF Fill
<1>11. ASSUME NEW p \in Processes, WriteFails(p) PROVE AllCurrent'
  BY <1>11, <1>A DEF WriteFails
<1>12. ASSUME NEW p \in Processes, Rename(p) PROVE AllCurrent'
  <2>1. CASE Exists(tmp)
    <3>1. process' = [Renamed EXCEPT ![p] = [Off EXCEPT !.phase = "scanned"]]
      BY <1>12, <2>1 DEF Rename
    <3>2. \A q \in Processes \ {p} : process'[q] = Renamed[q] /\ Renamed[q].got = process[q].got
      BY <3>1, RenamedFacts
    <3>3. process'[p].got = NoScan
      BY <3>1, RenamedFacts, EndFacts
    <3>4. \A q \in Processes : process'[q].got \in KeptTexts
      BY <1>0, <3>2, <3>3
    <3> QED
      BY <1>0, <1>12, <2>1, <3>4, CurrentCarried DEF Rename
  <2>2. CASE ~Exists(tmp)
    BY <1>12, <1>A, <2>2 DEF Rename
  <2> QED
    BY <2>1, <2>2
<1>13. ASSUME NEW p \in Processes, Peek(p) PROVE AllCurrent'
  <2>1. \A q \in Processes : process'[q].got \in KeptTexts
    BY <1>0, <1>13, UnlinkedFacts, EndFacts DEF Peek
  <2> QED
    BY <1>0, <1>13, <2>1, CurrentCarried DEF Peek, Clear
<1>14. CASE UNCHANGED cachevars
  BY <1>14 DEF cachevars, world, files, AllCurrent, UpToDate
<1> QED
  BY <1>1, <1>2, <1>3, <1>4, <1>5, <1>6, <1>7, <1>8, <1>9, <1>10, <1>11, <1>12, <1>13, <1>14 DEF CacheNext

LEMMA CurrentHolds == ASSUME ConstantsOK PROVE CacheSpec => []AllCurrent
<1>1. CacheInit => AllCurrent
  BY NotScans DEF CacheInit, AllCurrent, NoFile, Off
<1> QED
  BY <1>1, CurrentKept, TypesHold, PTL DEF CacheSpec

\* What is taken from the cache is what pacman's database and the mirrors are
\* at that moment, is not older than configured and is of this program's schema,
\* whatever changed while it was scanned, however many processes wrote the file
\* and wherever they died.
THEOREM HitsAreCurrent == ASSUME ConstantsOK PROVE CacheSpec => HitIsCurrent
<1>1. ASSUME Typed, AllCurrent, [CacheNext]_cachevars PROVE HitStep
  <2> SUFFICES ASSUME NEW p \in Processes, process[p].phase = "judge", process'[p].phase = "hit"
               PROVE  /\ \A i \in Inputs : process[p].got.saw[i] = changed[i]
                      /\ now - process[p].got.scanned_at \in 0..Ttl
                      /\ process[p].got.schema = Builds[p]
    BY DEF HitStep
  <2>0. /\ process[p].got \in CachedScans /\ UpToDate(process[p].got)
        /\ process[p].got.scanned_at \in Int /\ now \in Int /\ Ttl \in Nat
        /\ \A i \in Inputs : changed[i] \in Int
        /\ \A q \in Processes : process[q] \in ProcessStates
        /\ DOMAIN process = Processes
    <3>1. process[p].got \in CachedScans
      BY <1>1 DEF Typed, StateOK, HasScan
    <3>2. \A i \in Inputs : changed[i] \in 0..now
      BY <1>1 DEF Typed, Watched
    <3> QED
      BY <1>1, <3>1, <3>2 DEF Typed, StateOK, AllCurrent, CachedScans, Times, ConstantsOK
  \* a step of another process leaves the phase, and only a judge can be in it
  <2>A. ASSUME NEW q \in Processes, process[q].phase # "judge",
               \A r \in Processes \ {q} : process'[r].phase = process[r].phase
        PROVE  FALSE
    BY <2>A
  <2>1. Judge(p)
    <3>1. CASE Tick \/ UNCHANGED cachevars
      BY <3>1 DEF Tick, cachevars
    <3>2. ASSUME NEW q \in Processes, Start(q) \/ Rescan(q) \/ Crash(q) PROVE FALSE
      <4>1. process[q].phase # "judge"
        BY <2>0, <3>2 DEF Start, Rescan, Crash, Ended, Off, Step
      <4>2. \A r \in Processes \ {q} : process'[r].phase = process[r].phase
        BY <2>0, <3>2 DEF Start, Rescan, Crash, Step
      <4> QED
        BY <2>A, <4>1, <4>2
    <3>3. ASSUME NEW q \in Processes, Locate(q) \/ Peek(q) \/ Rename(q) PROVE FALSE
      <4>1. process[q].phase # "judge"
        BY <3>3 DEF Locate, Peek, Rename
      <4>2. \A r \in Processes \ {q} : process'[r] \in {Unlinked[r], Renamed[r], process[r]}
        BY <1>1, <2>0, <3>3, UnlinkedFacts, RenamedFacts DEF Locate, Peek, Rename, End
      <4>3. \A r \in Processes \ {q} : process'[r].phase = process[r].phase
        BY <1>1, <4>2, UnlinkedFacts, RenamedFacts
      <4> QED
        BY <2>A, <4>1, <4>3
    <3>4. ASSUME NEW q \in Processes, Read(q) \/ Look(q) \/ Open(q) \/ Fill(q) \/ WriteFails(q) PROVE FALSE
      <4>1. process[q].phase # "judge"
        BY <3>4 DEF Read, Look, Open, Fill, WriteFails
      <4>2. \A r \in Processes \ {q} : process'[r].phase = process[r].phase
        BY <2>0, <3>4 DEF Read, Look, Open, Fill, WriteFails, Step, End
      <4> QED
        BY <2>A, <4>1, <4>2
    <3>5. ASSUME NEW q \in Processes, Judge(q) PROVE q = p
      BY <2>0, <3>5 DEF Judge, Step, End
    <3> QED
      BY <1>1, <3>1, <3>2, <3>3, <3>4, <3>5 DEF CacheNext
  <2>2. ~staleness(p, process[p].got)
    <3> SUFFICES ASSUME staleness(p, process[p].got) PROVE FALSE
      OBVIOUS
    <3>1. process' = [process EXCEPT ![p].phase = "locate_to_scan"]
      BY <2>1 DEF Judge, Step
    <3> QED
      BY <2>0, <3>1 DEF ProcessStates
  <2>3. \A i \in Inputs : process[p].got.saw[i] = changed[i]
    BY <2>0, <2>2 DEF staleness, UpToDate
  <2> QED
    BY <2>0, <2>2, <2>3 DEF staleness
<1> QED
  BY <1>1, TypesHold, CurrentHolds, PTL DEF CacheSpec, HitIsCurrent

-----------------------------------------------------------------------------
(* The cache is whole.                                                     *)

LEMMA WholeKept ==
  ASSUME ConstantsOK, Typed, Whole, [CacheNext]_cachevars
  PROVE  Whole'
<1> SUFFICES ASSUME ~crossed' PROVE Whole'
  BY DEF Whole
<1>1. ~crossed
  BY DEF CacheNext, cachevars, Tick, Start, Rescan, Crash, Locate, Read, Judge, Look, Open, Fill, WriteFails,
         Rename, Peek, Clear
<1>0. /\ \A p, q \in Writers : p = q
      /\ \A p \in Writers : process[p].phase = "fill" => process[p].fd = "tmp" /\ tmp.text = Torn
      /\ \A p \in Writers : process[p].phase = "rename" => tmp.text \in CachedScans
      /\ cache.text # Torn
      /\ DOMAIN process = Processes
      /\ \A p \in Processes : StateOK(process[p]) /\ process[p] \in ProcessStates
  BY <1>1 DEF Whole, Typed, StateOK
\* Most steps write nothing, and make nobody a writer.
<1>A. ASSUME UNCHANGED <<cache, tmp>>,
             \A q \in Processes : process'[q].phase \in {"fill", "rename"} => process'[q] = process[q]
      PROVE  Whole'
  BY <1>0, <1>A DEF Writers, Whole
\* What clears the temporary file takes it from nobody: nobody else writes.
<1>B. ASSUME NEW p \in Processes, process[p].phase \notin {"fill", "rename"},
             process'[p].phase \notin {"fill", "rename"},
             Clear(p), \A q \in Processes \ {p} : process'[q] = Unlinked[q]
      PROVE  Whole'
  <2>1. \A q \in Processes : process[q].phase \notin {"fill", "rename"}
    BY <1>B DEF Clear, Writing
  <2>2. \A q \in Processes : process'[q].phase \notin {"fill", "rename"}
    BY <1>B, <2>1, UnlinkedFacts
  <2>3. Writers' = {} /\ cache' = cache /\ cache.text # Torn
    BY <1>0, <1>B, <2>2 DEF Writers, Clear
  <2> QED
    BY <2>3 DEF Whole
<1>2. CASE Tick \/ UNCHANGED cachevars
  BY <1>A, <1>2 DEF Tick, cachevars, files
<1>3. ASSUME NEW p \in Processes, Start(p) \/ Rescan(p) \/ Crash(p) \/ Read(p) \/ Judge(p) \/ WriteFails(p)
      PROVE  Whole'
  <2>1. /\ \A q \in Processes \ {p} : process'[q] = process[q]
        /\ process'[p].phase \notin {"fill", "rename"}
    BY <1>0, <1>3 DEF Start, Rescan, Crash, Read, Judge, WriteFails, Step, End, Off, ProcessStates
  <2> QED
    BY <1>3, <1>A, <2>1 DEF Start, Rescan, Crash, Read, Judge, WriteFails, files
<1>4. ASSUME NEW p \in Processes, Look(p) PROVE Whole'
  <2>1. /\ \A q \in Processes \ {p} : process'[q] = process[q]
        /\ process'[p].phase = "open"
    BY <1>0, <1>4 DEF Look, ProcessStates
  <2> QED
    BY <1>4, <1>A, <2>1 DEF Look, files
<1>5. ASSUME NEW p \in Processes, Locate(p) PROVE Whole'
  <2>1. /\ \A q \in Processes \ {p} : process'[q] = Unlinked[q]
        /\ process'[p].phase \in {"read", "scan"}
    <3>1. Unlinked[p] \in ProcessStates
      BY UnlinkedFacts DEF StateOK
    <3> QED
      BY <1>5, <3>1, UnlinkedFacts DEF Locate, ProcessStates
  <2> QED
    BY <1>5, <1>B, <2>1 DEF Locate
<1>6. ASSUME NEW p \in Processes, Peek(p) PROVE Whole'
  <2>1. /\ \A q \in Processes \ {p} : process'[q] = Unlinked[q]
        /\ process'[p].phase = "peeked"
    BY <1>6, UnlinkedFacts, EndFacts DEF Peek
  <2> QED
    BY <1>6, <1>B, <2>1 DEF Peek
<1>7. ASSUME NEW p \in Processes, Open(p) PROVE Whole'
  <2>1. process'[p] = [process[p] EXCEPT !.phase = "fill", !.fd = "tmp"]
    BY <1>0, <1>7 DEF Open
  <2>2. process'[p].phase = "fill" /\ process'[p].fd = "tmp" /\ tmp'.text = Torn /\ cache' = cache
    BY <1>0, <1>7, <2>1 DEF Open, ProcessStates, Written
  <2>3. \A q \in Processes \ {p} : process'[q].phase \notin {"fill", "rename"}
    BY <1>0, <1>7 DEF Open, Writing
  <2> QED
    BY <1>0, <2>2, <2>3 DEF Writers, Whole
<1>8. ASSUME NEW p \in Processes, Fill(p) PROVE Whole'
  <2>1. p \in Writers /\ process[p].fd = "tmp" /\ tmp.text = Torn
    BY <1>0, <1>8 DEF Fill, Writers
  <2>2. tmp'.text = process[p].got /\ cache' = cache
    BY <1>8, <2>1 DEF Fill, Overwritten, Written
  <2>3. process'[p].phase = "rename" /\ process[p].got \in CachedScans
    BY <1>0, <1>8 DEF Fill, ProcessStates, StateOK, HasScan
  <2>4. \A q \in Processes \ {p} : process'[q].phase \notin {"fill", "rename"}
    BY <1>0, <1>8, <2>1 DEF Fill, Writers
  <2> QED
    BY <1>0, <2>2, <2>3, <2>4 DEF Writers, Whole
<1>9. ASSUME NEW p \in Processes, Rename(p) PROVE Whole'
  <2>1. p \in Writers /\ tmp.text \in CachedScans
    BY <1>0, <1>9 DEF Rename, Writers
  <2>2. Exists(tmp)
    BY <2>1, NotScans DEF Exists, NoFile
  <2>3. /\ cache' = tmp /\ process'[p].phase = "scanned"
        /\ \A q \in Processes \ {p} : process'[q] = Renamed[q]
    BY <1>9, <2>2, RenamedFacts, EndFacts DEF Rename
  <2>4. \A q \in Processes : process'[q].phase \notin {"fill", "rename"}
    BY <1>0, <2>1, <2>3, RenamedFacts DEF Writers
  <2> QED
    BY <2>1, <2>3, <2>4, NotScans DEF Writers, Whole
<1> QED
  BY <1>2, <1>3, <1>4, <1>5, <1>6, <1>7, <1>8, <1>9 DEF CacheNext

\* A write that a crash or a full disk cuts short never reaches the cache: only
\* a process that clears or reopens the temporary file another is writing can
\* put a torn one in its place.
THEOREM CacheStaysWhole == ASSUME ConstantsOK PROVE CacheSpec => []CacheIsWhole
<1>1. CacheInit => Whole
  <2> SUFFICES ASSUME CacheInit PROVE Whole
    OBVIOUS
  <2>1. \A p \in Processes : process[p].phase = "off"
    BY DEF CacheInit, Off
  <2>2. Writers = {} /\ cache.text # Torn
    BY <2>1, NotScans DEF CacheInit, Writers, NoFile
  <2> QED
    BY <2>2 DEF Whole
<1>2. Whole /\ CacheTypeOK => CacheIsWhole
  BY DEF Whole, CacheIsWhole
<1>3. CacheSpec => []Whole
  BY <1>1, WholeKept, TypesHold, PTL DEF CacheSpec
<1> QED
  BY <1>2, <1>3, CacheTypeCorrect, PTL
=============================================================================
