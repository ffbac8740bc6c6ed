------------------------------ MODULE History -------------------------------
(***************************************************************************)
(* What past upgrades changed, read from the tail of pacman's log, and the *)
(* news that is about this machine.  A line of the log is what its parser  *)
(* tells apart: the begin or the end of a transaction, a package event, or *)
(* anything else, a line cut in half included.                             *)
(***************************************************************************)
EXTENDS Integers, Sequences, SequencesExt, FiniteSetsExt

CONSTANT RUN_GAP   \* the longest pause inside one run

Incomplete == -1

Transaction(at) == [started |-> at, completed |-> Incomplete, events |-> <<>>]
Nothing == Transaction(Incomplete)

\* One line: `open` is the transaction whose end has not been read.
Read(acc, line) ==
  CASE line.is = "started" ->
         [out |-> IF acc.open = Nothing THEN acc.out ELSE Append(acc.out, acc.open),
          open |-> Transaction(line.at)]
    [] line.is = "completed" /\ acc.open # Nothing ->
         [out |-> Append(acc.out, [acc.open EXCEPT !.completed = line.at]), open |-> Nothing]
    [] line.is = "event" /\ acc.open # Nothing ->
         [acc EXCEPT !.open.events =
            Append(@, [at |-> line.at, kind |-> line.kind, name |-> line.name])]
    [] OTHER -> acc

\* The transactions that changed something, the newest first.
parse(log) ==
  LET end == FoldLeft(Read, [out |-> <<>>, open |-> Nothing], log)
      all == IF end.open = Nothing THEN end.out ELSE Append(end.out, end.open)
  IN  Reverse(SelectSeq(all, LAMBDA tx : tx.events # <<>>))

\* The last so many lines: the first of them is cut, and says nothing.
read_tail(log, n) ==
  IF n >= Len(log) THEN log ELSE IF n = 0 THEN <<>>
  ELSE [SubSeq(log, Len(log) - n + 1, Len(log)) EXCEPT ![1].is = "other"]

Count(events, kinds) == Len(SelectSeq(events, LAMBDA e : e.kind \in kinds))
counts(events) ==
  [installed |-> Count(events, {"installed", "reinstalled"}),
   upgraded |-> Count(events, {"upgraded", "downgraded"}),
   removed |-> Count(events, {"removed"})]

\* Mutant of ended: measures the pause from a transaction's begin.
startedIsEnded(tx) == tx.started

ended(tx) == IF tx.completed = Incomplete THEN tx.started ELSE tx.completed

\* Split where the pause before the newer one is too long.
runs(transactions) ==
  LET cuts == {i \in 2..Len(transactions) :
                 transactions[i - 1].started - ended(transactions[i]) > RUN_GAP}
      starts == SetToSortSeq({1} \cup cuts, <)
      Upto(k) == IF k = Len(starts) THEN Len(transactions) ELSE starts[k + 1] - 1
  IN  IF transactions = <<>> THEN <<>>
      ELSE [k \in DOMAIN starts |-> SubSeq(transactions, starts[k], Upto(k))]

run_started(run) == Last(run).started
run_ended(run) == run[1].completed
run_events(run) == FlattenSeq([i \in DOMAIN run |-> run[i].events])
run_counts(run) ==
  LET Sum(f) == FoldLeft(LAMBDA n, tx : n + counts(tx.events)[f], 0, run)
  IN  [f \in {"installed", "upgraded", "removed"} |-> Sum(f)]

\* What is rare first; nothing for a kind that did not occur.
GROUP_ORDER == <<"removed", "downgraded", "reinstalled", "installed", "upgraded">>
grouped(events) ==
  LET Of(kind) == SortSeq(SelectSeq(events, LAMBDA e : e.kind = kind), LAMBDA e, f : e.name < f.name)
  IN  SelectSeq([i \in DOMAIN GROUP_ORDER |-> [kind |-> GROUP_ORDER[i], events |-> Of(GROUP_ORDER[i])]],
                LAMBDA g : g.events # <<>>)

package_history(transactions, name) ==
  SelectSeq(run_events(transactions), LAMBDA e : e.name = name)

\* When it arrived, how often it moved, when last; none if the log has nothing.
Silent == [upgrades |-> -1]
package_summary(transactions, name) ==
  LET events == package_history(transactions, name)
  IN  IF events = <<>> THEN Silent
      ELSE [arrived |-> Last(events).at, as |-> Last(events).kind,
            upgrades |-> Count(events, {"upgraded", "downgraded"}), last |-> events[1].at]

\* `paclens history`: how many runs, and for each its begin, its counts, how
\* many transactions, and whether one of them did not complete.
render(transactions, limit) ==
  LET all == runs(transactions)
      shown == SubSeq(all, 1, Min({Len(all), limit}))
  IN  [rows |-> [i \in DOMAIN shown |->
                   [at |-> run_started(shown[i]), counts |-> run_counts(shown[i]),
                    transactions |-> Len(shown[i]),
                    incomplete |-> \E j \in DOMAIN shown[i] : shown[i][j].completed = Incomplete]],
       more |-> Len(all) - Len(shown)]

\* The history screen: a row for each run, all of them.
render_transaction_pane(transactions) ==
  LET all == runs(transactions)
  IN  [i \in DOMAIN all |->
         [at |-> run_started(all[i]), counts |-> run_counts(all[i]),
          incomplete |-> \E tx \in ToSet(all[i]) : tx.completed = Incomplete]]

\* What a run changed, under a heading for each kind, after a line that says of
\* how many transactions it is made when there is more than one.
Entry(is, kind, name) == [is |-> is, kind |-> kind, name |-> name]
transaction_lines(run) ==
  LET groups == grouped(run_events(run))
      Under(g) == <<Entry("heading", g.kind, Len(g.events))>>
                  \o [j \in DOMAIN g.events |-> Entry("package", g.kind, g.events[j].name)]
  IN  (IF Len(run) > 1 THEN <<Entry("transactions", "", Len(run))>> ELSE <<>>)
      \o FlattenSeq([i \in DOMAIN groups |-> Under(groups[i])])

\* Mutant of history_detail_rows: scrolls as far as the packages without their
\* headings.
rowsWithoutHeadings(run) == Len(run_events(run))

\* How far the keys scroll those lines: to the last of the headings and packages.
history_detail_rows(run) ==
  LET groups == grouped(run_events(run))
  IN  FoldLeft(LAMBDA n, g : n + Len(g.events) + 1, 0, groups)

\* Mutant of render_transaction_detail: the marker takes a row the pane has
\* not got.
markerBelow(lines, height, at) ==
  LET scroll == Min({at, Len(lines) - 1})
      hidden == Len(lines) - (scroll + height)
      shown == SubSeq(lines, scroll + 1, Min({Len(lines), scroll + height}))
  IN  IF hidden > 0 THEN Append(shown, Entry("more", "", hidden)) ELSE shown

\* The lines a pane of some height shows; when more are below, the last of them
\* gives way to a marker with their number.
render_transaction_detail(lines, height, at) ==
  LET scroll == Min({at, Len(lines) - 1})
      hidden == Len(lines) - (scroll + height)
      shown == SubSeq(lines, scroll + 1, Min({Len(lines), scroll + height}))
  IN  IF hidden > 0 /\ shown # <<>>
      THEN Append(Front(shown), Entry("more", "", hidden)) ELSE shown

-----------------------------------------------------------------------------
(* News: a post counts when its title names an installed package. *)

Never == -1
last_upgrade(transactions) ==
  LET upgrades == {tx.started : tx \in {tx \in ToSet(transactions) : counts(tx.events).upgraded > 0}}
  IN  IF upgrades = {} THEN Never ELSE Max(upgrades)

\* A title is its words; a word is a package's name, lower case, or is too
\* short or too generic to name one.
relevant(news, installed, since) ==
  LET Named(item) == SelectInSeq(item.title, LAMBDA w : w.plain /\ w.word \in installed)
      about == {i \in news : (since = Never \/ i.published > since) /\ Named(i) # 0}
  IN  SetToSortSeq({[post |-> i, package |-> i.title[Named(i)].word] : i \in about},
                   LAMBDA a, b : a.post.published > b.post.published)

-----------------------------------------------------------------------------
(* Logs of a few transactions, some of which never ended, cut anywhere, and*)
(* what must be read from them.                                            *)

\* What happened: when a transaction began, how long it took, if it ended, and
\* what it did.
Happened == [pause : {1, 2, 5}, completes : BOOLEAN,
             events : {<<>>, <<[kind |-> "upgraded", name |-> 1]>>,
                       <<[kind |-> "installed", name |-> 2], [kind |-> "removed", name |-> 1]>>}]
Pasts == UNION {[1..n -> Happened] : n \in 0..3}

\* A transaction takes as long as a short pause.
Begin(past) ==
  LET B[i \in 0..Len(past)] == IF i = 0 THEN 0 ELSE B[i - 1] + 1 + past[i].pause
  IN  B
Lines(past, i) ==
  LET at == Begin(past)[i]
      Line(is, when, kind, name) == [is |-> is, at |-> when, kind |-> kind, name |-> name]
  IN  <<Line("started", at, "", 0)>>
      \o [j \in DOMAIN past[i].events |->
            Line("event", at, past[i].events[j].kind, past[i].events[j].name)]
      \o <<Line("other", at, "", 0)>>
      \o (IF past[i].completes THEN <<Line("completed", at + 1, "", 0)>> ELSE <<>>)
Log(past) == FlattenSeq([i \in DOMAIN past |-> Lines(past, i)])

\* The transactions as they happened that changed something, the newest first.
Truth(past, from) ==
  LET kept == SelectSeq([i \in DOMAIN past |-> i], LAMBDA i : i >= from /\ past[i].events # <<>>)
  IN  Reverse([k \in DOMAIN kept |->
        LET i == kept[k]
            at == Begin(past)[i]
        IN  [started |-> at, completed |-> IF past[i].completes THEN at + 1 ELSE Incomplete,
             events |-> [j \in DOMAIN past[i].events |->
                           [at |-> at, kind |-> past[i].events[j].kind, name |-> past[i].events[j].name]]]])

\* Of a log read from anywhere: the transactions whose first line was read, each
\* with its own events, and none invented from the rest of one that was cut.
TailIsTrue(past) ==
  \A n \in 0..Len(Log(past)) :
    LET skipped == Len(Log(past)) - n
        Before(i) == Len(FlattenSeq([j \in 1..(i - 1) |-> Lines(past, j)]))
        whole == {i \in DOMAIN past : skipped = 0 \/ Before(i) > skipped}
    IN  parse(read_tail(Log(past), n)) =
          Truth(past, IF whole = {} THEN Len(past) + 1 ELSE Min(whole))

\* Every transaction is in one run, a run has no pause that is too long and one
\* lies between two runs, and the rows shown and counted are all of them.
RunsPartition(all) == \A rs \in {runs(all)} :
  LET Pause(newer, older) == newer.started - Max({older.started, older.completed})
  IN  /\ FlattenSeq(rs) = all
      /\ \A k \in DOMAIN rs : \A i \in 2..Len(rs[k]) : Pause(rs[k][i - 1], rs[k][i]) <= RUN_GAP
      /\ \A k \in 2..Len(rs) : Pause(Last(rs[k - 1]), rs[k][1]) > RUN_GAP
      /\ \A limit \in 0..2 :
           \A r \in {render(all, limit)} :
             Len(r.rows) + r.more = Len(rs) /\ Len(r.rows) <= limit

\* Every event is counted once, under the right word, in its run, and listed
\* once among the groups of its run.
EventsAreCounted(all) == \A run \in ToSet(runs(all)) :
  \A events \in {run_events(run)} : \A c \in {run_counts(run)} : \A groups \in {grouped(events)} :
    LET listed == FlattenSeq([g \in DOMAIN groups |-> groups[g].events])
    IN  /\ c.installed + c.upgraded + c.removed = Len(events)
        /\ c = counts(events)
        /\ Len(listed) = Len(events) /\ ToSet(listed) = ToSet(events)
        /\ \A g, h \in DOMAIN groups : g < h => groups[g].kind # groups[h].kind
        /\ run_started(run) = Min({run[i].started : i \in DOMAIN run})
        /\ run_ended(run) # Incomplete => run_ended(run) >= run_started(run)

\* The screen's rows are those of the command; every line of a run comes into
\* view as the keys scroll a pane of two rows or more, what was removed above
\* what was added, and a marker stands last exactly while lines are out of sight
\* below.
RunsAreReadable(all) ==
  \A rows \in {render_transaction_pane(all)} :
    /\ \A told \in {render(all, Len(rows)).rows} :
         /\ Len(told) = Len(rows)
         /\ \A i \in DOMAIN rows : \A f \in DOMAIN rows[i] : rows[i][f] = told[i][f]
    /\ \A run \in ToSet(runs(all)) : \A lines \in {transaction_lines(run)} :
         /\ \A i, j \in DOMAIN lines :
              lines[i].kind = "installed" /\ lines[j].kind = "removed" => j < i
         /\ {l.name : l \in {l \in ToSet(lines) : l.is = "package"}}
              = {e.name : e \in ToSet(run_events(run))}
         /\ \A height \in 2..4 :
              \A view \in {[at \in 0..(history_detail_rows(run) - 1) |->
                             render_transaction_detail(lines, height, at)]} :
                /\ ToSet(lines) \subseteq UNION {ToSet(view[at]) : at \in DOMAIN view}
                /\ \A at \in DOMAIN view :
                     /\ Len(view[at]) <= height
                     /\ (Last(view[at]).is = "more") = (at + height < Len(lines))

\* What is said of a package: it arrived first, and moved last.
PackageIsTrue(all) ==
  LET At(name) == {e.at : e \in {e \in ToSet(run_events(all)) : e.name = name}}
  IN  \A name \in {1, 2} :
        LET said == package_summary(all, name)
        IN  IF At(name) = {} THEN said = Silent
            ELSE said.arrived = Min(At(name)) /\ said.last = Max(At(name))

\* News from before the last upgrade is not shown, the rest newest first.
NewsIsNew(past, all) ==
  LET since == last_upgrade(all)
      Post(t) == [published |-> t, title |-> <<[word |-> 9, plain |-> FALSE], [word |-> 1, plain |-> TRUE]>>]
      shown == relevant({Post(t) : t \in {0, 4, 8}} \cup
                          {[published |-> 20, title |-> <<[word |-> 9, plain |-> TRUE]>>]}, {1, 9}, since)
      other == relevant({Post(t) : t \in {0, 4, 8}}, {9}, since)
  IN  /\ \A i \in DOMAIN shown : \A tx \in ToSet(Truth(past, 1)) :
           (\E j \in DOMAIN tx.events : tx.events[j].kind = "upgraded") =>
             shown[i].post.published > tx.started
      /\ \A i, j \in DOMAIN shown : i < j => shown[i].post.published > shown[j].post.published
      /\ Len(shown) = 1 + Cardinality({t \in {0, 4, 8} : t > since}) /\ other = <<>>

HistoryIsRight(past) ==
  /\ TailIsTrue(past)
  /\ \A all \in {parse(Log(past))} :
       /\ RunsPartition(all)
       /\ EventsAreCounted(all)
       /\ RunsAreReadable(all)
       /\ PackageIsTrue(all)
       /\ NewsIsNew(past, all)
=============================================================================
