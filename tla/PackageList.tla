---------------------------- MODULE PackageList ----------------------------
(***************************************************************************)
(* The package screen of the TUI (src/tui/app.rs, the package list): which *)
(* rows the open source has under a sort or a filter, where the cursor is, *)
(* what part of the rows the table shows, and how the screen divides its   *)
(* width with the pane beside it.  A frame is drawn after every operation, *)
(* on a terminal that may have another size by then.                       *)
(***************************************************************************)
EXTENDS Integers, Sequences, FiniteSets, SequencesExt

CONSTANTS
  Scans,          \* [packages, updates] a scan may find
  Chars,          \* what may be typed
  MaxQuery,       \* how much of it
  Sizes,          \* [height, wide] a terminal may have
  SCROLL_MARGIN, PAGE, PANE   \* rows: the cursor's margin, a page, the pane below

VARIABLE view     \* the screen, and the scan it shows

None == "None"
NoMatch == -1000

-----------------------------------------------------------------------------
(* The filter.  A name is a sequence of characters, 0 the separators.      *)

\* Mutant of matches: finds the letters in any order.
HitsAnywhere(query, candidate) ==
  IF ToSet(query) \subseteq ToSet(candidate) THEN Len(query) ELSE NoMatch

\* The score of a candidate the query is a subsequence of: hits, hits in a row,
\* and hits that begin a word.
matches(query, candidate) ==
  LET Hit(a, i) ==
        IF a.hits < Len(query) /\ candidate[i] = query[a.hits + 1]
        THEN [hits |-> a.hits + 1, last |-> i,
              score |-> a.score + 1 + (IF a.last = i - 1 /\ a.hits > 0 THEN 2 ELSE 0)
                        + (IF i = 1 \/ candidate[i - 1] = 0 THEN 3 ELSE 0)]
        ELSE a
      all == FoldLeft(Hit, [hits |-> 0, last |-> 0, score |-> 0], [i \in DOMAIN candidate |-> i])
  IN  IF query = <<>> THEN 0
      ELSE IF all.hits < Len(query) THEN NoMatch ELSE all.score - Len(candidate) \div 4

\* The candidates with the best score, the shortest of them.
best_match(query, candidates) ==
  LET hits == SelectSeq(candidates, LAMBDA c : matches(query, c) # NoMatch)
      Better(i, j) == \/ matches(query, hits[i]) > matches(query, hits[j])
                      \/ /\ matches(query, hits[i]) = matches(query, hits[j])
                         /\ \/ Len(hits[i]) < Len(hits[j])
                            \/ Len(hits[i]) = Len(hits[j]) /\ i > j
  IN  IF hits = <<>> THEN <<>>
      ELSE hits[CHOOSE i \in DOMAIN hits : \A j \in DOMAIN hits \ {i} : Better(i, j)]

Within(hay, needle) == \E i \in 0..Len(hay) - Len(needle) : SubSeq(hay, i + 1, i + Len(needle)) = needle

MatchField == <<"Name", "Version", "Source", "Description">>
Rank(field) == CHOOSE i \in DOMAIN MatchField : MatchField[i] = field

\* The best field the query hits, and its score there: only the name is fuzzy,
\* the others want it whole and long enough.
pkg_match(query, p) ==
  LET name == matches(query, p.name)
      In(hay, min) == Len(query) >= min /\ Within(hay, query)
  IN  IF name # NoMatch THEN [field |-> "Name", score |-> name]
      ELSE IF In(p.version, 2) THEN [field |-> "Version", score |-> 0]
      ELSE IF In(p.letters, 3) THEN [field |-> "Source", score |-> 0]
      ELSE IF In(p.description, 3)
           THEN [field |-> "Description", score |-> -Len(p.description)]
      ELSE [field |-> None, score |-> NoMatch]
-----------------------------------------------------------------------------
(* The rows.                                                               *)

PkgSort == <<"updates", "reason", "name", "size">>

Earlier(a, b) ==
  \E n \in 0..Len(a) : /\ n <= Len(b) /\ SubSeq(a, 1, n) = SubSeq(b, 1, n)
                       /\ n < Len(b) /\ (n = Len(a) \/ a[n + 1] < b[n + 1])

OfSource(v) == SelectSeq(v.scan.packages, LAMBDA p : p.source = v.source)
pkg_pending(v, p) == <<v.source, p.name>> \in v.scan.updates

reason_group(p) ==
  CASE p.scope # None -> IF p.scope = "user" THEN IF p.runtime THEN "user runtimes" ELSE "user apps"
                         ELSE IF p.runtime THEN "system runtimes" ELSE "system apps"
    [] p.scope = None /\ p.runtime -> "runtimes"
    [] p.scope = None /\ ~p.runtime /\ p.reason # "unknown" -> p.reason
    [] p.scope = None /\ ~p.runtime /\ p.reason = "unknown" ->
         IF p.source = "pacman" THEN "unknown" ELSE "apps"

ReasonGroups ==
  <<"explicit", "dependencies", "user apps", "user runtimes", "system apps", "system runtimes",
    "apps", "runtimes", "unknown">>

ByName(pkgs) == SortSeq(pkgs, LAMBDA p, q : Earlier(p.name, q.name))
BySize(pkgs) == SortSeq(ByName(pkgs), LAMBDA p, q : p.size > q.size)
Scored(query, pkgs) ==
  LET Best(p, q) == \/ Rank(p.field) < Rank(q.field)
                    \/ p.field = q.field /\ p.score > q.score
      hits == SelectSeq(ByName(pkgs), LAMBDA p : pkg_match(query, p).field # None)
      scored == [i \in DOMAIN hits |-> [at |-> i] @@ pkg_match(query, hits[i])]
      sorted == SortSeq(scored, Best)
  IN  [i \in DOMAIN sorted |-> hits[sorted[i].at]]

Plain(pkgs) == <<[label |-> "", members |-> pkgs]>>
PendingFirst(pending, rest) ==
  IF pending = <<>> THEN Plain(rest)
  ELSE <<[label |-> "pending updates", members |-> pending],
         [label |-> "up to date", members |-> rest]>>

\* Mutant of grouped: repeats the pending packages below.
GroupedByNameOnly(v) ==
  IF v.source = None THEN <<>>
  ELSE IF v.query # <<>> THEN Plain(Scored(v.query, OfSource(v)))
  ELSE PendingFirst(SelectSeq(ByName(OfSource(v)), LAMBDA p : pkg_pending(v, p)), ByName(OfSource(v)))

\* What is shown, in groups; one without a label has no header.
grouped(v) ==
  LET pkgs == ByName(OfSource(v))
      pending == SelectSeq(pkgs, LAMBDA p : pkg_pending(v, p))
      rest == SelectSeq(pkgs, LAMBDA p : ~pkg_pending(v, p))
      Of(group) == [label |-> group, members |-> SelectSeq(pkgs, LAMBDA p : reason_group(p) = group)]
  IN  IF v.source = None THEN <<>>
      ELSE IF v.query # <<>> THEN Plain(Scored(v.query, OfSource(v)))
      ELSE CASE v.sort = "name" -> Plain(pkgs)
             [] v.sort = "size" -> PendingFirst(BySize(pending), BySize(rest))
             [] v.sort = "updates" -> PendingFirst(pending, rest)
             [] v.sort = "reason" ->
                  SelectSeq([i \in DOMAIN ReasonGroups |-> Of(ReasonGroups[i])],
                            LAMBDA g : g.members # <<>>)

Members(groups) == FlattenSeq([i \in DOMAIN groups |-> groups[i].members])
visible_packages(v) == Members(grouped(v))

Header(label, count) == [kind |-> "header", label |-> label, count |-> count]
Pkg(p) == [kind |-> "pkg", pkg |-> p]

RowsOf(groups) ==
  LET Rows(g) == (IF g.label = "" THEN <<>> ELSE <<Header(g.label, Len(g.members))>>)
                 \o [i \in DOMAIN g.members |-> Pkg(g.members[i])]
  IN  FlattenSeq([i \in DOMAIN groups |-> Rows(groups[i])])
pkg_rows(v) == RowsOf(grouped(v))

\* The rows with a package, as the table counts them: from 0.
PkgRowsOf(rows) == {i \in 0..Len(rows) - 1 : rows[i + 1].kind = "pkg"}
\* Mutant of RowOf: counts packages where the table counts rows.
RowWithoutHeaders(rows, cursor) == cursor

RowOf(rows, cursor) ==
  LET at == {i \in PkgRowsOf(rows) : Cardinality({j \in PkgRowsOf(rows) : j < i}) = cursor}
  IN  IF at = {} THEN 0 ELSE CHOOSE i \in at : TRUE

pkg_row_index(v) == RowOf(pkg_rows(v), v.cursor)

\* How many of the shown packages the query hits in each field.
filter_fields(v) ==
  LET hits == SelectSeq(OfSource(v), LAMBDA p : pkg_match(v.query, p).field # None)
      In(field) == Len(SelectSeq(hits, LAMBDA p : pkg_match(v.query, p).field = field))
  IN  IF v.query = <<>> THEN <<>>
      ELSE SelectSeq([i \in DOMAIN MatchField |-> <<MatchField[i], In(MatchField[i])>>],
                     LAMBDA f : f[2] > 0)
-----------------------------------------------------------------------------
(* The cursor and the window.                                              *)

AtLeast0(n) == IF n < 0 THEN 0 ELSE n
AtMost(n, max) == IF n > max THEN max ELSE n
Clamp(n, low, high) == IF n < low THEN low ELSE IF n > high THEN high ELSE n

\* Mutant of Margin: a viewport too short for the margin on both sides keeps
\* it.
MarginAsIs(viewport) == SCROLL_MARGIN

Margin(viewport) == AtMost(SCROLL_MARGIN, AtLeast0(viewport - 1) \div 2)

scrolloff(offset, cursor, len, viewport) ==
  IF viewport = 0 \/ len <= viewport THEN 0
  ELSE AtMost(Clamp(offset, AtLeast0(cursor + Margin(viewport) + 1 - viewport),
                    AtLeast0(cursor - Margin(viewport))),
              len - viewport)

Synced(v, rows) == [v EXCEPT !.offset = scrolloff(@, RowOf(rows, v.cursor), Len(rows), v.viewport)]
sync_pkg_offset(v) == Synced(v, pkg_rows(v))

\* Mutant of clamp_pkg_cursor: leaves the window where the longer list had it.
ClampOnly(v) ==
  [v EXCEPT !.cursor = AtMost(@, AtLeast0(Len(visible_packages(v)) - 1))]

clamp_pkg_cursor(v) ==
  sync_pkg_offset([v EXCEPT !.cursor = AtMost(@, AtLeast0(Len(visible_packages(v)) - 1))])

Home(v) == [v EXCEPT !.cursor = 0, !.offset = 0]

pkg_move(v, delta) ==
  LET len == Len(visible_packages(v))
  IN  IF len = 0 THEN Home(v)
      ELSE sync_pkg_offset([v EXCEPT !.cursor = Clamp(@ + delta, 0, len - 1)])

\* Mutant of set_pkg_viewport: keeps the window of another size.
RememberViewport(v, rows) == [v EXCEPT !.viewport = rows]

set_pkg_viewport(v, rows) ==
  IF v.viewport = rows THEN v ELSE sync_pkg_offset([v EXCEPT !.viewport = rows])

\* The rows of the table for a terminal of a height: all but the borders, the
\* summary, the heading, the filter line and the keys.
pkg_body_rows(height) == AtLeast0(height - 6)

\* The rows it has: too narrow for a pane beside the table, the pane is below.
BodyRows(size) == AtLeast0(size.height - 6 - IF size.wide THEN 0 ELSE PANE)

\* Where the table begins: it scrolls by itself to a selected row it would miss.
Kept(offset, row, body) ==
  IF row < offset THEN row ELSE IF row >= offset + body THEN row - body + 1 ELSE offset

\* What is on the table's lines: the row the table has there, and the header
\* painted over it, full width, from where the list is said to begin.
render_package_table(v, rows, body) ==
  LET kept == Kept(v.offset, RowOf(rows, v.cursor), body)
      Painted(i) == IF i \in DOMAIN rows /\ rows[i].kind = "header" THEN rows[i].label ELSE ""
  IN  [k \in 1..AtMost(body, Len(rows) - kept) |->
         [row |-> rows[kept + k], painted |-> Painted(v.offset + k)]]
-----------------------------------------------------------------------------
(* What a key does, each with the screen it is pressed on.                 *)

open_packages(v, source) == [Home(v) EXCEPT !.source = source, !.query = <<>>, !.typing = FALSE, !.open = TRUE]
cycle_sort(v) ==
  LET at == CHOOSE i \in DOMAIN PkgSort : PkgSort[i] = v.sort
  IN  [Home(v) EXCEPT !.sort = PkgSort[(at % Len(PkgSort)) + 1]]
start_filter(v) == [v EXCEPT !.typing = TRUE]
filter_push(v, c) == [Home(v) EXCEPT !.query = Append(@, c)]
filter_pop(v) == clamp_pkg_cursor([v EXCEPT !.query = IF @ = <<>> THEN @ ELSE Front(@)])
filter_accept(v) == [v EXCEPT !.typing = FALSE]
filter_cancel(v) == clamp_pkg_cursor([v EXCEPT !.typing = FALSE, !.query = <<>>])
back_packages(v) ==
  IF v.query # <<>> THEN clamp_pkg_cursor([v EXCEPT !.query = <<>>]) ELSE [v EXCEPT !.open = FALSE]
replace_scan(v, scan) == clamp_pkg_cursor([v EXCEPT !.scan = scan])

\* The loop tells the list how many rows it has before every frame.
Framed(v, size) == set_pkg_viewport([v EXCEPT !.size = size], pkg_body_rows(size.height))
Frame(v) == \E size \in Sizes : view' = Framed(v, size)

Blank(scan) ==
  [scan |-> scan, source |-> None, query |-> <<>>, typing |-> FALSE, sort |-> "size", cursor |-> 0,
   offset |-> 0, viewport |-> 0, size |-> CHOOSE size \in Sizes : TRUE, open |-> FALSE]

Init == \E scan \in Scans, size \in Sizes : view = Framed(Blank(scan), size)

Open == \E p \in ToSet(view.scan.packages) : ~view.open /\ Frame(open_packages(view, p.source))
OnList == view.open /\ ~view.typing
Move == OnList /\ \E delta \in {1, -1, PAGE, -PAGE} : Frame(pkg_move(view, delta))
CycleSort == OnList /\ Frame(cycle_sort(view))
StartFilter == OnList /\ Frame(start_filter(view))
Back == OnList /\ Frame(back_packages(view))
Typing == view.open /\ view.typing
FilterChar == Typing /\ Len(view.query) < MaxQuery /\ \E c \in Chars : Frame(filter_push(view, c))
FilterBackspace == Typing /\ Frame(filter_pop(view))
FilterAccept == Typing /\ Frame(filter_accept(view))
FilterCancel == Typing /\ Frame(filter_cancel(view))
Land == \E scan \in Scans : Frame(replace_scan(view, scan))
Resize == Frame(view)

Next ==
  \/ Open \/ Move \/ CycleSort \/ StartFilter \/ Back
  \/ FilterChar \/ FilterBackspace \/ FilterAccept \/ FilterCancel
  \/ Land \/ Resize
Spec == Init /\ [][Next]_view
-----------------------------------------------------------------------------
(* How the screen divides its width.                                       *)

Larger(a, b) == IF a > b THEN a ELSE b
resize_pane(bias, delta) == Clamp(bias + delta, -30, 60)

\* VERSION, KIND, TYPE or WHERE, SIZE; NAME comes before them.
Columns(kind_col) == IF kind_col THEN <<12, 7, 10, 10>> ELSE <<12, 10, 10>>
fixed_columns_width(kind_col) == 12 + 10 + 10 + (IF kind_col THEN 9 ELSE 0) + 8
name_column_width(longest, cap) == Larger(AtMost(longest, cap), 12)

\* Mutant of pkg_geometry: moves the divider as far as it is asked to.
PaneAsAsked(w) ==
  LET fixed == fixed_columns_width(w.kind) + w.pointer
      name == name_column_width(w.longest, AtLeast0(w.available - fixed))
      pane == AtMost(AtLeast0(w.available - fixed - name), w.pane_max) + w.bias
      table == IF w.pane THEN w.available - pane ELSE w.available
  IN  [name_w |-> Larger(AtLeast0(table - fixed), 12), table_w |-> table, narrow |-> FALSE, fixed |-> fixed]

pkg_geometry(w) ==
  LET fixed == fixed_columns_width(w.kind) + w.pointer
      narrow == fixed + 12 > IF w.pane THEN (w.available \div 3) * 2 ELSE w.available
      name == name_column_width(w.longest, AtLeast0(w.available - fixed))
      leftover == AtLeast0(w.available - fixed - name)
      pane == Clamp(AtMost(leftover, w.pane_max) + w.bias, 24, (w.available \div 3) * 2)
      half == IF w.pane THEN w.available \div 2 ELSE w.available
      table == IF w.pane THEN w.available - pane ELSE w.available
  IN  IF narrow
      THEN [name_w |-> Larger(AtLeast0(half - 12), 12), table_w |-> half, narrow |-> TRUE, fixed |-> 12]
      ELSE [name_w |-> Larger(AtLeast0(table - fixed), 12), table_w |-> table, narrow |-> FALSE,
            fixed |-> fixed]
-----------------------------------------------------------------------------
(* What the screen promises.                                               *)

Subsequence(q, c) ==
  \E f \in [DOMAIN q -> DOMAIN c] :
    \A i \in DOMAIN q : q[i] = c[f[i]] /\ (i > 1 => f[i - 1] < f[i])

\* The filter finds what holds the query in order, nothing else, and a name
\* typed in full never ranks behind one that only begins with it.
FilterFinds(in) ==
  /\ (matches(in.query, in.candidate) # NoMatch) <=> Subsequence(in.query, in.candidate)
  /\ IsPrefix(in.query, in.candidate) =>
       matches(in.query, in.query) >= matches(in.query, in.candidate)
  /\ LET best == best_match(in.query, <<in.candidate, in.other>>)
     IN  /\ best = <<>> <=> ~Subsequence(in.query, in.candidate) /\ ~Subsequence(in.query, in.other)
         /\ in.query \in {in.candidate, in.other} /\ IsPrefix(in.query, in.candidate)
               /\ IsPrefix(in.query, in.other) => best = in.query

\* The package is one the query asks for.
Wanted(v, p) ==
  \/ Subsequence(v.query, p.name)
  \/ Len(v.query) >= 2 /\ Within(p.version, v.query)
  \/ Len(v.query) >= 3 /\ Within(p.letters, v.query)
  \/ Len(v.query) >= 3 /\ Within(p.description, v.query)

\* The rows are the source's packages that are wanted, each once; a header is
\* above as many packages as it says, of which each belongs there.
RowsAreThePackages(v, rows) ==
  LET pkgs == [i \in DOMAIN rows |-> IF rows[i].kind = "pkg" THEN <<rows[i].pkg>> ELSE <<>>]
      wanted == SelectSeq(OfSource(v), LAMBDA p : Wanted(v, p))
      headers == {i \in DOMAIN rows : rows[i].kind = "header"}
      Under(i) == {j \in DOMAIN rows : j > i /\ \A k \in headers : k <= i \/ j < k}
  IN  /\ Cardinality(PkgRowsOf(rows)) = Len(wanted) /\ ToSet(FlattenSeq(pkgs)) = ToSet(wanted)
      /\ \A i \in headers :
           /\ Cardinality(Under(i)) = rows[i].count
           /\ \A j \in Under(i) :
                CASE rows[i].label = "pending updates" -> pkg_pending(v, rows[j].pkg)
                  [] rows[i].label = "up to date" -> ~pkg_pending(v, rows[j].pkg)
                  [] OTHER -> reason_group(rows[j].pkg) = rows[i].label
      /\ headers # {} => rows[1].kind = "header"
      /\ v.query # <<>> =>
           FoldLeft(LAMBDA n, f : n + f[2], 0, filter_fields(v)) = Len(wanted)

\* The selected row is in the window, with its margin or at an end of the list,
\* and the window is full whenever there are rows to fill it.
WindowHolds(v, rows, row, body) ==
  LET len == Len(rows)
  IN  /\ row \in DOMAIN rows \cup {0} /\ (PkgRowsOf(rows) # {} => row \in PkgRowsOf(rows))
      /\ len <= body => v.offset = 0
      /\ len > body =>
           /\ v.offset >= 0 /\ v.offset + body <= len
           /\ row >= v.offset + Margin(body) \/ v.offset = 0
           /\ \/ row + Margin(body) < v.offset + body
              \/ row < v.offset + body /\ v.offset + body = len

\* A header is painted where the table has its row, and nowhere else.
HeadersAreInPlace(lines) ==
  \A k \in DOMAIN lines :
    lines[k].painted = IF lines[k].row.kind = "header" THEN lines[k].row.label ELSE ""

\* What is drawn of the list is the list, around the selected package; where
\* the pane is beside it.
ListIsShown ==
  LET rows == pkg_rows(view)
  IN  view.open =>
        /\ RowsAreThePackages(view, rows)
        /\ view.size.wide =>
             /\ WindowHolds(view, rows, RowOf(rows, view.cursor), BodyRows(view.size))
             /\ HeadersAreInPlace(render_package_table(view, rows, BodyRows(view.size)))

\* draw.rs: "the selected row is always inside that window".
SelectedRowInWindow ==
  view.open /\ pkg_rows(view) # <<>> =>
    /\ view.offset <= pkg_row_index(view)
    /\ pkg_row_index(view) < view.offset + BodyRows(view.size)

\* Table and pane share the width: neither is squeezed out, and the columns
\* fill the table without overflowing it, but for a NAME at its least.
WidthIsShared(w) ==
  LET geo == pkg_geometry(w)
  IN  /\ geo.table_w <= w.available
      /\ geo.name_w + geo.fixed >= geo.table_w
      /\ ~geo.narrow /\ geo.name_w > 12 =>
           geo.name_w + FoldLeft(LAMBDA n, width : n + 2 + width, w.pointer, Columns(w.kind))
             <= geo.table_w
      /\ w.pane => w.available - geo.table_w >= 24 /\ geo.table_w >= w.available \div 3
      /\ ~w.pane => geo.table_w = w.available
=============================================================================
