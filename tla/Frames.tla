------------------------------- MODULE Frames -------------------------------
(***************************************************************************)
(* What the live view prints for good above its region, frame by frame     *)
(* (`frame`, src/update_view/render.rs).  Each frame is drawn from the     *)
(* whole run and from `Delivered`, how much earlier frames already sent.   *)
(* Lines keep arriving between frames, the plan waits for its answer, and  *)
(* the model may take a line off the unknown ones once a hook claims it.   *)
(***************************************************************************)
EXTENDS Integers, Sequences, FiniteSets, SequencesExt, FiniteSetsExt

CONSTANTS
    Layouts,    \* of Nom, Inline, InlineGrow, Receipt
    Grammar,    \* what may follow a line: Grammar[line] is a set of lines
    MaxLines,
    Phases      \* how many phases

FrameConstantsOK == Phases \in Nat

VARIABLES
    layout,
    lines,          \* the settled lines, each as what it is
    unknown_at,     \* where the unknown ones are
    phases,         \* Pending, Running or Done, each
    sent,           \* Delivered
    above           \* what was printed for good, in order

framevars == <<layout, lines, unknown_at, phases, sent, above>>

\* Nothing settled yet.
Opening == "start"

Lines == DOMAIN lines
warning_at == {i \in Lines : lines[i] = "warning"}

Last1(S) == IF S = {} THEN 0 ELSE Max(S)
First1(S) == IF S = {} THEN 0 ELSE Min(S)

\* The plan, from its first line to the prompt that closed it: 0 if not yet.
PlanStart == Last1({i \in Lines : lines[i] = "plan"})
PlanPrompt == First1({i \in Lines : i >= PlanStart /\ lines[i] = "prompt"})
Planned == PlanStart # 0
Answered == Planned /\ PlanPrompt # 0

\* Lines after the plan's answer are the transaction's own output.
InTransaction(at) == Answered /\ at > PlanPrompt

\* Inside a hook section: opened by a heading, closed by the package changes.
in_hooks(at) ==
    LET heads == {i \in 1..at : lines[i] \in {"pre-hooks", "post-hooks", "processing"}}
    IN  heads # {} /\ lines[Max(heads)] # "processing"

\* An unknown line or a warning that goes up; what a hook of the transaction
\* prints stays in the live tail.
GoesUp(at) == at \in unknown_at \cup warning_at /\ ~(InTransaction(at) /\ in_hooks(at))

\* The numbers of S, ascending.
InOrder(S) ==
    [k \in 1..Cardinality(S) |-> CHOOSE at \in S : Cardinality({e \in S : e < at}) = k - 1]

\* The unknown lines after those sent and up to `stop`.
unknown(d, stop) == InOrder({at \in (d.unknown + 1)..stop : GoesUp(at)})

Upto(d, stop) == [d EXCEPT !.unknown = IF @ < stop THEN stop ELSE @]

\* Line items and phase items of `above`.
LineItems(S) == [i \in DOMAIN S |-> [what |-> "line", at |-> S[i]]]

\* First part: Nom sends every line, the others the unknown ones, those of a
\* plan not yet sent waiting for it.
SendLines(d) ==
    IF layout = "Nom"
    THEN [out |-> [i \in 1..(Len(lines) - d.lines) |-> d.lines + i],
          d |-> [d EXCEPT !.lines = Len(lines), !.unknown = Len(lines)]]
    ELSE LET held == Planned /\ (Answered => d.lines < PlanPrompt)
             stop == IF held THEN Max({PlanStart - 1, d.lines}) ELSE Len(lines)
         IN  [out |-> unknown(d, stop), d |-> Upto(d, stop)]

\* Mutant of SendHeld: sends every line, those before the plan too.
SendHeldAgain(d, idle) ==
    IF ~idle /\ Answered /\ d.lines < PlanPrompt
    THEN [out |-> InOrder({at \in 1..Len(lines) : GoesUp(at)}),
          d |-> Upto([d EXCEPT !.lines = PlanPrompt], Len(lines))]
    ELSE [out |-> <<>>, d |-> d]

\* Mutant of SendHeld: passes over the lines the plan held back.
SendHeldNothing(d, idle) ==
    [out |-> <<>>,
     d |-> IF ~idle /\ Answered /\ d.lines < PlanPrompt
           THEN Upto([d EXCEPT !.lines = PlanPrompt], Len(lines)) ELSE d]

\* Mutant of SendHeld: keeps holding the lines back once the plan is answered.
SendHeldNever(d, idle) == [out |-> <<>>, d |-> d]

\* Second part: the plan is answered and nothing is asked, so what it held
\* back goes up.
SendHeld(d, idle) ==
    IF ~idle /\ Answered /\ d.lines < PlanPrompt
    THEN [out |-> unknown(d, Len(lines)),
          d |-> Upto([d EXCEPT !.lines = PlanPrompt], Len(lines))]
    ELSE [out |-> <<>>, d |-> d]

\* Mutant of Passed: passes over a phase that still runs.
PassedAnyway(k) == \E j \in k..Phases : phases[j] # "Pending"

\* Third part, of the receipt: a line per phase as it completes, up to the
\* first that is not over; one that never ran is passed over once a later
\* one has started.
Passed(k) == phases[k] = "Pending" /\ \E j \in (k + 1)..Phases : phases[j] # "Pending"

SendPhases(d) ==
    LET upto == CHOOSE n \in d.phases..Phases :
                  /\ \A k \in (d.phases + 1)..n : phases[k] = "Done" \/ Passed(k)
                  /\ n < Phases => ~(phases[n + 1] = "Done" \/ Passed(n + 1))
        ended == InOrder({k \in (d.phases + 1)..upto : phases[k] = "Done"})
    IN  IF layout = "Receipt"
        THEN [out |-> [i \in DOMAIN ended |-> [what |-> "phase", at |-> ended[i]]],
              d |-> [d EXCEPT !.phases = upto]]
        ELSE [out |-> <<>>, d |-> d]

frame(idle) ==
    LET one == SendLines(sent)
        two == SendHeld(one.d, idle)
        three == SendPhases(two.d)
    IN  /\ above' = above \o LineItems(one.out) \o LineItems(two.out) \o three.out
        /\ sent' = three.d

----------------------------------------------------------------------------
FrameInit ==
    /\ layout \in Layouts
    /\ lines = <<>> /\ unknown_at = {}
    /\ phases = [k \in 1..Phases |-> "Pending"]
    /\ sent = [lines |-> 0, unknown |-> 0, phases |-> 0]
    /\ above = <<>>

\* pacman opens each section once.
Sections == {"plan", "pre-hooks", "processing", "post-hooks"}

SettleLine(line) ==
    /\ Len(lines) < MaxLines
    /\ line \in Sections => line \notin ToSet(lines)
    /\ line \in Grammar[IF lines = <<>> THEN Opening ELSE Last(lines)]
    /\ lines' = Append(lines, line)
    /\ unknown_at' = IF line = "unknown" THEN unknown_at \cup {Len(lines) + 1} ELSE unknown_at
    /\ UNCHANGED <<layout, phases, sent, above>>

\* A hook's file or description made its line a note (`reclassify`).
Claim(at) ==
    /\ at \in unknown_at /\ in_hooks(at)
    /\ unknown_at' = unknown_at \ {at}
    /\ UNCHANGED <<layout, lines, phases, sent, above>>

\* The run enters phase k; what ran before it is over (`enter`).
Enter(k) ==
    /\ \A j \in k..Phases : phases[j] = "Pending"
    /\ phases' = [j \in 1..Phases |-> CASE j = k -> "Running"
                                        [] j # k /\ phases[j] = "Running" -> "Done"
                                        [] OTHER -> phases[j]]
    /\ UNCHANGED <<layout, lines, unknown_at, sent, above>>

\* A frame, while pacman waits for an answer or not.
SendFrame(idle) ==
    /\ frame(idle)
    /\ UNCHANGED <<layout, lines, unknown_at, phases>>

FrameNext ==
    \/ \E line \in DOMAIN Grammar \ {Opening} : SettleLine(line)
    \/ \E at \in Lines : Claim(at)
    \/ \E k \in 1..Phases : Enter(k)
    \/ \E idle \in BOOLEAN : SendFrame(idle)

FrameSpec == FrameInit /\ [][FrameNext]_framevars
----------------------------------------------------------------------------
(* What stays on the terminal. *)

Printed(what) == {above[i].at : i \in {j \in DOMAIN above : above[j].what = what}}

FrameTypeOK ==
    /\ sent.lines \in 0..Len(lines) /\ sent.unknown \in 0..Len(lines)
    /\ sent.phases \in 0..Phases
    /\ unknown_at \subseteq Lines

\* Nothing is printed twice and nothing out of order, though lines leave the
\* unknown ones and a plan holds lines back between two frames.
OnceInOrder ==
    \A i, j \in DOMAIN above :
        i < j /\ above[i].what = above[j].what => above[i].at < above[j].at

\* Folded is not hidden: a line counted as sent that goes up was printed,
\* whatever was folded around it.
SentIsPrinted ==
    \A at \in 1..sent.unknown :
        (layout = "Nom" \/ GoesUp(at)) => at \in Printed("line")

\* Only an open plan holds lines back: any other frame leaves nothing that
\* came before it waiting, and nor does the first one without a question once
\* the plan is answered.
HoldsForThePlan ==
    /\ above' # above \/ sent' # sent =>
           sent'.unknown = Len(lines) \/ (Planned /\ sent'.unknown >= PlanStart - 1)
    /\ Answered /\ SendFrame(FALSE) => sent'.unknown = Len(lines)

\* The receipt has one line for each phase that is over, in order, and none
\* for a phase that never ran.
PhasesOnReceipt ==
    /\ \A k \in Printed("phase") : phases[k] = "Done"
    /\ \A k \in 1..sent.phases : phases[k] = "Done" => k \in Printed("phase")

\* What is printed for good is the run, once and in order.
PrintedOnce == OnceInOrder /\ SentIsPrinted /\ PhasesOnReceipt

\* What a frame sends for good is sent once, in order, and held back only for
\* the plan.
FramesPrintOnce == []PrintedOnce /\ [][HoldsForThePlan]_framevars
=============================================================================
