----------------------------- MODULE Downloads -----------------------------
(***************************************************************************)
(* The files being downloaded, as the view reads them off pacman's live    *)
(* rows (`observe`, src/update_view/model.rs).  pacman redraws its rows in *)
(* place and the view looks every tick, so it sees some states and misses  *)
(* others: a new file's name written over the row where the Total was,     *)
(* with the Total's numbers still there; rows half redrawn, that lack a    *)
(* file or the Total; a file gone between two looks.  pacman's own         *)
(* progress is here to say what is true.  Bytes are small numbers.         *)
(***************************************************************************)
EXTENDS Integers, Sequences, FiniteSets, SequencesExt

CONSTANTS
    Files,      \* the planned packages' files
    Full,       \* the size of a file: at Full it is complete
    Slots,      \* ParallelDownloads
    BEAT,       \* looks a finished file stays on, full
    Hidden      \* the files whose rows a redraw may hide, in the runs where it does

FileConstantsOK ==
    IsFiniteSet(Files) /\ Full \in Nat \ {0} /\ Slots \in Nat /\ BEAT \in Nat /\ Hidden \subseteq Files

VARIABLES
    \* pacman
    amount,         \* bytes of each file
    listed,         \* the files that have a row, top to bottom
    numbers,        \* whose numbers are on a file's row, and which
    count,          \* files pacman counted finished
    hides,          \* the files whose rows it may hide in this run
    \* the view's run
    in_flight, started_files, totals_seen, left, eaten, done

pacman == <<amount, listed, numbers, count, hides>>
rowvars == <<in_flight, started_files, totals_seen, left, eaten, done>>
filevars == <<pacman, rowvars>>

FilesOf(rows) == {rows[i].name : i \in DOMAIN rows}
\* The bytes received.
Total == Cardinality({b \in Files \X (1..Full) : b[2] <= amount[b[1]]})

\* The elements of s at the places in I, as R says which goes before which.
Arranged(s, I, R) ==
    LET place == [k \in 1..Cardinality(I) |->
                    CHOOSE i \in I : Cardinality({j \in I : <<j, i>> \in R}) = k - 1]
    IN  [k \in 1..Cardinality(I) |-> s[place[k]]]
Upwards(s) == {p \in (DOMAIN s) \X (DOMAIN s) : p[1] < p[2]}
Picked(s, I) == Arranged(s, I, Upwards(s))
Without(s, e) == Picked(s, {i \in DOMAIN s : s[i] # e})

\* Numbers on a row: none yet (`0.0 B 0.00 B/s --:--`), the file's own, or a
\* Total's that were left there.
NoNumbers == [of |-> "none", n |-> 0]
OwnNumbers(f) == [of |-> "own", n |-> amount[f]]
TotalNumbers == [of |-> "total", n |-> Total]

----------------------------------------------------------------------------
\* pacman.

BeginFile(f) ==
    /\ Len(listed) < Slots /\ amount[f] = 0 /\ f \notin ToSet(listed)
    /\ listed' = Append(listed, f)
    /\ \E n \in {NoNumbers, TotalNumbers} : numbers' = [numbers EXCEPT ![f] = n]
    /\ UNCHANGED <<amount, count, hides, rowvars>>

Receive(f) ==
    /\ f \in ToSet(listed) /\ amount[f] < Full - 1
    /\ amount' = [amount EXCEPT ![f] = @ + 1]
    /\ numbers' = [numbers EXCEPT ![f] = [of |-> "own", n |-> amount[f] + 1]]
    /\ UNCHANGED <<listed, count, hides, rowvars>>

\* No time left to show: `--:--` again.
Stall(f) ==
    /\ f \in ToSet(listed) /\ numbers[f].of = "own"
    /\ numbers' = [numbers EXCEPT ![f] = NoNumbers]
    /\ UNCHANGED <<amount, listed, count, hides, rowvars>>

Complete(f) ==
    /\ f \in ToSet(listed) /\ amount[f] = Full - 1
    /\ amount' = [amount EXCEPT ![f] = Full]
    /\ listed' = Without(listed, f)
    /\ count' = count + 1
    /\ UNCHANGED <<numbers, hides, rowvars>>

\* A redraw in progress: the file's row is gone for now, or back at the end.
Redraw(f) ==
    /\ f \in hides /\ amount[f] \in 1..(Full - 1)
    /\ listed' = IF f \in ToSet(listed) THEN Without(listed, f) ELSE Append(listed, f)
    /\ Len(listed') <= Slots
    /\ UNCHANGED <<amount, numbers, count, hides, rowvars>>

----------------------------------------------------------------------------
\* The view.

Row(f, pct, queued) == [name |-> f, pct |-> pct, queued |-> queued, stalled |-> FALSE, age |-> -1]
Position(rows, f) == CHOOSE i \in DOMAIN rows : rows[i].name = f

\* Mutant of Queued: takes any numbers on a row for the file's own.
QueuedWithoutNumbers(totals, f) == numbers[f].of = "none"

\* No numbers of the file's own: none, or those of a Total that was seen.
Queued(totals, f) ==
    numbers[f].of = "none" \/ (numbers[f].of = "total" /\ numbers[f].n \in totals)

\* Mutant of ReadRow: shows the row as it is drawn, without what the file last
\* showed.
ReadAsDrawn(totals, f) == Row(f, numbers[f].n, Queued(totals, f))

\* A row as it is drawn, unless it is of a file that started and looks
\* queued: that one has stalled, and what it last showed is kept.
ReadRow(totals, f) ==
    IF Queued(totals, f) /\ f \in FilesOf(started_files)
    THEN [started_files[Position(started_files, f)] EXCEPT !.stalled = TRUE]
    ELSE Row(f, numbers[f].n, Queued(totals, f))

\* The files started, each with its last real row: those known, then the new
\* ones as listed.
StartedFiles(totals) ==
    LET own == {i \in DOMAIN listed : ~Queued(totals, listed[i])}
        new == Picked(listed, {i \in own : listed[i] \notin FilesOf(started_files)})
        drawn(f) == Row(f, numbers[f].n, FALSE)
    IN  [i \in DOMAIN started_files |->
            IF \E j \in own : listed[j] = started_files[i].name
            THEN drawn(started_files[i].name) ELSE started_files[i]]
        \o [k \in DOMAIN new |-> drawn(new[k])]

\* Mutant of Leaving: takes a row that lost its name for a file.
LeavingTooLate(flight) ==
    LET rows == <<[name |-> "", pct |-> 0, queued |-> FALSE, stalled |-> FALSE, age |-> -1]>> \o in_flight
    IN  Picked(rows, {i \in DOMAIN rows :
                        /\ ~rows[i].queued /\ rows[i].age = -1
                        /\ rows[i].name \notin FilesOf(flight) \cup FilesOf(left) \cup ToSet(eaten)})

\* Mutant of Leaving: a file counted finished that is listed again leaves once
\* more.
LeavingAgain(flight) ==
    Picked(in_flight,
           {i \in DOMAIN in_flight :
              /\ ~in_flight[i].queued /\ in_flight[i].age = -1
              /\ in_flight[i].name \notin FilesOf(flight) \cup FilesOf(left)})

\* A started file no longer listed leaves: it waits in `left`.
Leaving(flight) ==
    Picked(in_flight,
         {i \in DOMAIN in_flight :
            /\ ~in_flight[i].queued /\ in_flight[i].age = -1
            /\ in_flight[i].name \notin FilesOf(flight) \cup FilesOf(left) \cup ToSet(eaten)})

\* Mutant of Waiting: keeps a file that is listed again among those that wait.
WaitingAll(flight) == left \o Leaving(flight)

\* Those that wait; a file listed again was not done after all.
Waiting(flight) ==
    LET gone == left \o Leaving(flight)
    IN  Picked(gone, {i \in DOMAIN gone : gone[i].name \notin FilesOf(flight)})

\* The one furthest along first, of equals the last.
Furthest(rows) ==
    {p \in (DOMAIN rows) \X (DOMAIN rows) :
        \/ rows[p[1]].pct > rows[p[2]].pct
        \/ rows[p[1]].pct = rows[p[2]].pct /\ p[1] > p[2]}

\* Mutant of Eat: takes leaving the list for proof that the file is done.
EatAll(waiting, n) == [food |-> waiting, rest |-> <<>>]

\* While pacman's count is ahead, the one furthest along is eaten; the rest
\* stay in the order of their share.
Eat(waiting, n) ==
    LET byShare == Arranged(waiting, DOMAIN waiting, Furthest(waiting))
        k == IF n < Len(byShare) THEN n ELSE Len(byShare)
    IN  [food |-> [i \in 1..k |-> byShare[i]],
         rest |-> [i \in 1..(Len(byShare) - k) |-> byShare[Len(byShare) + 1 - i]]]

\* Started files in the order they started, then the queue as listed.
order(started, f) == IF f \in FilesOf(started) THEN Position(started, f) ELSE Len(started) + 1
Sooner(started, rows) ==
    {p \in (DOMAIN rows) \X (DOMAIN rows) :
        \/ order(started, rows[p[1]].name) < order(started, rows[p[2]].name)
        \/ order(started, rows[p[1]].name) = order(started, rows[p[2]].name) /\ p[1] < p[2]}
\* Mutant of InStartOrder: keeps the order of pacman's rows.
AsListed(started, rows) == rows

InStartOrder(started, rows) == Arranged(rows, DOMAIN rows, Sooner(started, rows))

Older(r) ==
    IF r.age = -1 THEN r ELSE [r EXCEPT !.age = IF r.age < BEAT THEN r.age + 1 ELSE r.age]

\* The files just eaten, and the finished ones not yet BEAT looks on.
Eaten(food) ==
    [i \in DOMAIN food |-> [food[i] EXCEPT !.age = 0, !.pct = Full, !.stalled = FALSE]]
\* Mutant of Beats: keeps a finished file's row beside the one it has again.
BeatsOfAll(flight) ==
    LET rows == [i \in DOMAIN in_flight |-> Older(in_flight[i])]
    IN  Picked(rows, {i \in DOMAIN rows : rows[i].age \in 0..(BEAT - 1)})

Beats(flight) ==
    LET rows == [i \in DOMAIN in_flight |-> Older(in_flight[i])]
    IN  Picked(rows, {i \in DOMAIN rows : rows[i].age \in 0..(BEAT - 1) /\ rows[i].name \notin FilesOf(flight)})

\* Of the Totals seen only those still on a row, and the one now, can be
\* compared with a row later: the others are dropped from the set.
OnRows(totals) ==
    totals \cap ({Total} \cup {numbers[f].n : f \in {g \in Files : numbers[g].of = "total"}})

\* One look at the rows while the download runs; `total`: the Total row is
\* among them.
observe(total) ==
    LET totals == OnRows(IF total THEN totals_seen \cup {Total} ELSE totals_seen)
        seen == [i \in DOMAIN listed |-> ReadRow(totals, listed[i])]
        counted == IF total /\ count > done THEN count ELSE done
        ahead == IF counted > Len(eaten) THEN counted - Len(eaten) ELSE 0
        meal == Eat(Waiting(seen), ahead)
        flight == seen \o Eaten(meal.food)
    IN  /\ totals_seen' = totals
        /\ started_files' = StartedFiles(totals)
        /\ left' = meal.rest
        /\ eaten' = eaten \o [i \in DOMAIN meal.food |-> meal.food[i].name]
        /\ in_flight' = InStartOrder(started_files', flight \o Beats(flight))
        /\ done' = IF total THEN count ELSE done

LookAtRows ==
    /\ \E total \in BOOLEAN : observe(total)
    /\ UNCHANGED pacman

\* Every row that can be read is at 100%: pacman redraws those of finished
\* files, and draws no other just now. No row is live again, the ones on screen
\* stay, full.
LookAtEnd ==
    /\ listed = <<>> /\ \E f \in Files : amount[f] = Full
    /\ in_flight' = [i \in DOMAIN in_flight |->
                        [in_flight[i] EXCEPT !.pct = Full, !.stalled = FALSE]]
    /\ \E total \in BOOLEAN :
         /\ totals_seen' = OnRows(IF total THEN totals_seen \cup {Total} ELSE totals_seen)
         /\ done' = IF total THEN count ELSE done
    /\ UNCHANGED <<pacman, started_files, left, eaten>>

FileInit ==
    /\ amount = [f \in Files |-> 0] /\ listed = <<>> /\ count = 0 /\ hides \in {{}, Hidden}
    /\ numbers = [f \in Files |-> NoNumbers]
    /\ in_flight = <<>> /\ started_files = <<>> /\ totals_seen = {}
    /\ left = <<>> /\ eaten = <<>> /\ done = 0

FileNext ==
    \/ \E f \in Files : BeginFile(f) \/ Receive(f) \/ Stall(f) \/ Complete(f) \/ Redraw(f)
    \/ LookAtRows \/ LookAtEnd

FileSpec == FileInit /\ [][FileNext]_filevars
----------------------------------------------------------------------------
(* What the rows promise. *)

\* A row of the view.
RowShape == [name : Files, pct : Nat, queued : BOOLEAN, stalled : BOOLEAN, age : -1..BEAT]

FileTypeOK ==
    /\ amount \in [Files -> 0..Full] /\ listed \in Seq(Files) /\ Len(listed) <= Slots
    /\ numbers \in [Files -> [of : {"none", "own", "total"}, n : Nat]]
    /\ count \in 0..Cardinality(Files) /\ done \in 0..Cardinality(Files) /\ hides \subseteq Files
    /\ in_flight \in Seq(RowShape) /\ started_files \in Seq(RowShape) /\ left \in Seq(RowShape)
    /\ eaten \in Seq(Files) /\ totals_seen \subseteq Nat

Live(r) == r.age = -1
OneEach(rows) == \A i, j \in DOMAIN rows : rows[i].name = rows[j].name => i = j

\* No file has two rows, is counted finished twice, or waits twice.
OncePerFile ==
    /\ OneEach(in_flight) /\ OneEach(started_files) /\ OneEach(left)
    /\ \A i, j \in DOMAIN eaten : eaten[i] = eaten[j] => i = j
    /\ FilesOf(left) \cap ToSet(eaten) = {}

\* Never more files are shown finished than pacman itself counted, and a file
\* that waits is no live row.
EatenAsCounted ==
    /\ Len(eaten) <= count /\ done <= count
    /\ \A i \in DOMAIN in_flight : Live(in_flight[i]) => in_flight[i].name \notin FilesOf(left)

\* A file that was once shown as started is never again shown as queued: a
\* row without numbers of its own is a stall.
NeverQueuedAgain ==
    \A i \in DOMAIN in_flight : in_flight[i].name \in FilesOf(started_files) => ~in_flight[i].queued

\* Started rows stay in the order they started whatever pacman does with its
\* own, and the queue is under them.
RowsKeepTheirPlaces ==
    \A i, j \in DOMAIN in_flight :
        i < j => \/ in_flight[j].name \notin FilesOf(started_files)
                 \/ /\ in_flight[i].name \in FilesOf(started_files)
                    /\ Position(started_files, in_flight[i].name)
                         < Position(started_files, in_flight[j].name)

\* Where no redraw hides a file, one shown finished is finished.
FinishedIsFinished ==
    hides = {} => \A i \in DOMAIN eaten : amount[eaten[i]] = Full

\* Each file has its one row, in its place, which tells how far that file is.
RowsAreTrue ==
    /\ OncePerFile /\ EatenAsCounted /\ NeverQueuedAgain
    /\ RowsKeepTheirPlaces /\ FinishedIsFinished

\* A file is taken for started on its own bytes, unless the numbers left on
\* its row are of a Total no look ever saw.
StartsOnItsOwn ==
    \A i \in DOMAIN started_files' :
        started_files'[i].name \notin FilesOf(started_files) =>
            amount[started_files'[i].name] > 0 \/ started_files'[i].pct \notin totals_seen'

\* The rows are true, and a file is taken for started when it has.
FilesAreTrue == []RowsAreTrue /\ [][StartsOnItsOwn]_filevars
=============================================================================
