------------------------------ MODULE Painter ------------------------------
(***************************************************************************)
(* Where the live view goes (src/update_view/region.rs): on a terminal a   *)
(* region redrawn under what was printed for good, without the alternate   *)
(* screen; otherwise plain lines, with the question pacman waits on and    *)
(* what is typed after it.  The terminal is its logical lines, which wrap  *)
(* at its width now, and the cursor is on the row under the last one.      *)
(***************************************************************************)
EXTENDS Integers, Sequences, SequencesExt, FiniteSets

CONSTANTS
    Sizes,      \* [rows, cols] a terminal may have
    Widths,     \* how wide a line may be
    MaxAbove,   \* lines printed for good
    MaxRegion,  \* lines of a region
    Chars,      \* characters of a plain line
    MaxPlain    \* characters and lines of the plain output

PaintConstantsOK ==
    /\ Sizes \subseteq [rows : Nat \ {0}, cols : Nat \ {0}] /\ Widths \subseteq Nat
    /\ MaxAbove \in Nat /\ MaxRegion \in Nat /\ MaxPlain \in Nat

VARIABLES
    mode,       \* "live" or "plain"
    size,       \* the terminal's size
    term,       \* its lines: [of, n, w], of = "kept", or "region" of draw n
    height,     \* rows the painter takes the last region for
    printed, draws,
    shrunk,     \* the terminal got smaller since the region on it was drawn
    stale,      \*   the frames replaced after that: the ones that may have left rows
    unwrapped,  \* it got wider while a line of the region was wrapped
    unfinished, \* plain: pacman's unfinished line
    visible,    \*   the part of it already printed
    row,        \*   what the current output line shows
    settled, output

live == <<size, term, height, printed, draws, shrunk, stale, unwrapped>>
plain == <<unfinished, visible, row, settled, output>>
paintvars == <<mode, live, plain>>

----------------------------------------------------------------------------
\* Rows.

\* The rows a line takes: the fewest that hold its width.
rows_of(w, cols) ==
    CHOOSE n \in 1..(w + 1) : w <= n * cols /\ (n > 1 => (n - 1) * cols < w)

\* The rows of the lines from place `from` on: a line's place and the row of it.
RowsFrom(list, from, cols) ==
    UNION {{i} \X (1..rows_of(list[i].w, cols)) : i \in from..Len(list)}

\* Mutant of RowsIn: counts a line that wraps as one row.
RowsAsLines(list, from, cols) == Len(list) - from + 1

RowsIn(list, from, cols) == Cardinality(RowsFrom(list, from, cols))

\* Mutant of Fitting: draws a region taller than the screen.
FittingAll(region, room, cols) == region

\* The last lines of the region that fit in `room` rows; of a last line too
\* tall on its own, its end.
Fitting(region, room, cols) ==
    LET fits(n) == RowsIn(region, n, cols) <= room
        skip == CHOOSE n \in 1..(Len(region) + 1) :
                  fits(n) /\ \A m \in 1..(n - 1) : ~fits(m)
    IN  IF region # <<>> /\ skip > Len(region) /\ room > 0
        THEN <<[Last(region) EXCEPT !.w = room * cols]>>
        ELSE SubSeq(region, skip, Len(region))

\* The terminal without its last `up` rows.  A line left with some of its rows
\* is damaged: it is no longer of the run.
Erased(up) ==
    LET cols == size.cols
        below(n) == RowsIn(term, n, cols)
        keep == CHOOSE n \in 0..Len(term) :
                  below(n + 1) <= up /\ (n > 0 => below(n) > up)
        cut == keep > 0 /\ below(keep + 1) < up
    IN  IF cut THEN [SubSeq(term, 1, keep) EXCEPT ![keep].of = "damaged"]
        ELSE SubSeq(term, 1, keep)

\* Mutant of MoveUp: erases a row above the region.
MoveUpOneMore == height + 1

\* MoveUp stops at the screen's top row.
MoveUp == IF height < size.rows - 1 THEN height ELSE size.rows - 1

----------------------------------------------------------------------------
\* The live region.

\* The frames that may have left rows, once the one on screen is replaced.
Left == IF shrunk THEN stale \cup {draws} ELSE stale

draw(above, region) ==
    LET now == Fitting(region, size.rows - 1, size.cols)
    IN  /\ term' = Erased(MoveUp) \o above \o now
        /\ height' = RowsIn(now, 1, size.cols)
        /\ printed' = printed + Len(above)
        /\ draws' = draws + 1
        /\ shrunk' = FALSE /\ stale' = Left

Draw ==
    /\ mode = "live" /\ draws < MaxPlain
    /\ \E a \in 0..(MaxAbove - printed), r \in 0..MaxRegion :
         \E aw \in [1..a -> Widths], rw \in [1..r -> Widths] :
            draw([i \in 1..a |-> [of |-> "kept", n |-> printed + i, w |-> aw[i]]],
                 [i \in 1..r |-> [of |-> "region", n |-> draws + 1, w |-> rw[i]]])
    /\ UNCHANGED <<mode, size, unwrapped, plain>>

\* The end of a run: the region gives way to the closing lines, or, after a
\* failure, it stays and they go under it.
Close(failed) ==
    /\ mode = "live"
    /\ \E w \in Widths :
         term' = (IF failed THEN term ELSE Erased(MoveUp))
                 \o <<[of |-> "kept", n |-> printed + 1, w |-> w]>>
    /\ printed' = printed + 1
    /\ height' = 0
    /\ mode' = "closed"
    /\ UNCHANGED <<size, draws, shrunk, stale, unwrapped, plain>>

\* The pane is resized, and the painter draws and erases at the new size from
\* the next frame on.
Resize ==
    /\ mode = "live"
    /\ \E to \in Sizes \ {size} :
         /\ size' = to
         /\ shrunk' = (shrunk \/ (height > 0 /\ (to.cols < size.cols \/ to.rows < size.rows)))
         /\ unwrapped' = (unwrapped \/ (to.cols > size.cols /\
                            \E i \in DOMAIN term : /\ term[i].of = "region"
                                                   /\ rows_of(term[i].w, size.cols) > 1))
    /\ UNCHANGED <<mode, term, height, printed, draws, stale, plain>>

----------------------------------------------------------------------------
\* Plain output.

\* pacman types on its line: a character more, one less, or the line anew.
Types ==
    /\ mode = "plain" /\ settled < MaxPlain
    /\ \/ \E c \in Chars : Len(unfinished) < MaxPlain /\ unfinished' = Append(unfinished, c)
       \/ unfinished # <<>> /\ unfinished' = Front(unfinished)
       \/ unfinished # <<>> /\ \E c \in Chars : unfinished' = <<c>>
    /\ UNCHANGED <<mode, live, visible, row, settled, output>>

Same(a, b) == CHOOSE n \in 0..Len(a) :
                 /\ n <= Len(b) /\ SubSeq(a, 1, n) = SubSeq(b, 1, n)
                 /\ n < Len(a) /\ n < Len(b) => a[n + 1] # b[n + 1]

\* The unfinished line once pacman waits, then what changes of it: characters
\* taken back one by one, and those added.
Prompt(idle) ==
    /\ mode = "plain"
    /\ unfinished # visible /\ (visible # <<>> \/ idle)
    /\ LET same == Same(visible, unfinished)
           gone == Len(visible) - same
           added == SubSeq(unfinished, same + 1, Len(unfinished))
       IN  row' = SubSeq(row, 1, Len(row) - gone) \o added
    /\ visible' = unfinished
    /\ UNCHANGED <<mode, live, unfinished, settled, output>>

\* Mutant of Line: leaves out as many characters as were shown, whatever they
\* were.
LineLessShown ==
    /\ mode = "plain" /\ settled < MaxPlain
    /\ LET n == IF Len(visible) < Len(unfinished) THEN Len(visible) ELSE Len(unfinished)
       IN  output' = Append(output, [line |-> unfinished, over |-> visible,
                                     out |-> row \o SubSeq(unfinished, n + 1, Len(unfinished))])
    /\ settled' = settled + 1
    /\ unfinished' = <<>> /\ visible' = <<>> /\ row' = <<>>
    /\ UNCHANGED <<mode, live>>

\* pacman ends its line: it is printed, less what is already there.
Line ==
    /\ mode = "plain" /\ settled < MaxPlain
    /\ LET rest == IF IsPrefix(visible, unfinished)
                   THEN SubSeq(unfinished, Len(visible) + 1, Len(unfinished)) ELSE unfinished
       IN  output' = Append(output, [line |-> unfinished, out |-> row \o rest, over |-> visible])
    /\ settled' = settled + 1
    /\ unfinished' = <<>> /\ visible' = <<>> /\ row' = <<>>
    /\ UNCHANGED <<mode, live>>

----------------------------------------------------------------------------
PaintInit ==
    /\ mode \in {"live", "plain"} /\ size \in Sizes
    /\ term = <<>> /\ height = 0 /\ printed = 0 /\ draws = 0
    /\ shrunk = FALSE /\ stale = {} /\ unwrapped = FALSE
    /\ unfinished = <<>> /\ visible = <<>> /\ row = <<>> /\ settled = 0 /\ output = <<>>

PaintNext ==
    \/ Draw \/ Resize \/ Types \/ Line
    \/ \E failed \in BOOLEAN : Close(failed)
    \/ \E idle \in BOOLEAN : Prompt(idle)

PaintSpec == PaintInit /\ [][PaintNext]_paintvars
----------------------------------------------------------------------------
(* What stays on the terminal. *)

Kept == {i \in DOMAIN term : term[i].of = "kept"}

PaintTypeOK ==
    /\ mode \in {"live", "plain", "closed"} /\ size \in Sizes
    /\ printed \in 0..(MaxAbove + 1) /\ height \in Nat
    /\ \A i \in DOMAIN term : term[i].of \in {"kept", "region", "damaged"}

\* Lines printed for good stay, whole and in order, whatever is redrawn under
\* them and however the pane is resized.  The one exception: a pane made wider
\* over a line that had wrapped, where the region takes fewer rows than the
\* painter counted, costs lines above it.
KeptStays ==
    ~unwrapped =>
        /\ {term[i].n : i \in Kept} = 1..printed
        /\ \A i, j \in Kept : i < j => term[i].n < term[j].n

\* Under the lines printed for good there is only the last region.  Rows of an
\* earlier frame stay behind only of one that the pane got smaller under; the
\* frames drawn and replaced since are gone from it, and a later resize brings
\* none of them back.
RegionIsLast ==
    ~unwrapped /\ mode = "live" =>
        \A i \in DOMAIN term :
            \/ term[i].of = "kept" \/ term[i].n \in stale
            \/ \A j \in i..Len(term) : term[j].of = "region" /\ term[j].n = draws

\* The region always fits the screen it was drawn for, so that the next frame
\* reaches its first row.
RegionIsReached ==
    ~shrunk /\ mode = "live" => height < size.rows

\* What a piped run shows of an unfinished line is that line, through typing
\* and taking back; and each line pacman ends is printed whole, after nothing
\* but what was shown of it before it was drawn anew.
PlainIsWhole ==
    /\ row = visible
    /\ \A i \in DOMAIN output :
         \/ output[i].out = output[i].line
         \/ ~IsPrefix(output[i].over, output[i].line)
            /\ output[i].out = output[i].over \o output[i].line

\* The terminal shows what was printed for good and the last region, and of
\* earlier frames only rows that a smaller pane put out of reach.
PainterKeepsTheTerminal == KeptStays /\ RegionIsLast /\ RegionIsReached /\ PlainIsWhole
=============================================================================
