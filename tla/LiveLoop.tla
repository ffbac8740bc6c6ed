------------------------------ MODULE LiveLoop ------------------------------
(***************************************************************************)
(* One pacman step run on a pty under the live view (`run`, src/           *)
(* update_view/live.rs): the child, the thread that reads the pty, the     *)
(* user's keys and the loop that drains, looks, paints and sleeps, down to *)
(* its three ways out: the child's exit, an error while it still runs, and *)
(* an error after it.                                                      *)
(***************************************************************************)
EXTENDS Integers, Sequences, FiniteSets, SequencesExt

CONSTANTS
    Scripts,    \* what a child may do: sequences of "line" "part" "ask" "log"
    Capacity,   \* chunks the pty holds before a writer blocks
    IDLE,       \* rounds without output before a question is taken for one
    MaxKeys     \* keys the user types at most

ASSUME LiveLoopAssumption ==
    /\ Capacity \in Nat \ {0} /\ IDLE \in Nat /\ MaxKeys \in Nat
    /\ Scripts \subseteq Seq({"line", "part", "ask", "log"})

VARIABLES
    \* the child: its script, what is left of it, and how it is
    script, todo, child,
    answered,       \* who ended each line the child read: "user" or "paclens"
    \* the pty and the channel
    wrote,          \* everything that came out of the pty's slave side
    buffer,         \* what the reader has not read of it
    typed,          \* keys on the way to the child, and how many there were
    keys,
    reader, channel,
    logged, logread,
    \* the loop
    pc, applied, partial, asked, shown, quiet,
    shared, pid, signalled

world == <<script, todo, child, answered, wrote, buffer, typed, keys, logged>>
loop == <<pc, applied, partial, asked, shown, quiet, shared, pid, signalled, logread>>
vars == <<world, loop, reader, channel>>

\* The chunks that end a line; any other leaves it unfinished.
Ends == {"line", "Enter"}

may_be_question(line) == line # <<>> /\ Last(line) = "ask"
answering(line, question) == question # <<>> /\ IsPrefix(question, line)

----------------------------------------------------------------------------
\* The child.

Alive == child \in {"runs", "waits", "hung up"}

Emit(chunk) ==
    /\ Len(buffer) < Capacity
    /\ buffer' = Append(buffer, chunk)
    /\ wrote' = Append(wrote, chunk)

ChildWrites ==
    /\ child = "runs" /\ todo # <<>> /\ Head(todo) # "log"
    /\ Emit(Head(todo))
    /\ todo' = Tail(todo)
    /\ child' = IF Head(todo) = "ask" THEN "waits" ELSE child
    /\ UNCHANGED <<script, answered, typed, keys, logged, loop, reader, channel>>

ChildLogs ==
    /\ child = "runs" /\ todo # <<>> /\ Head(todo) = "log"
    /\ todo' = Tail(todo)
    /\ logged' = logged + 1
    /\ UNCHANGED <<script, child, answered, wrote, buffer, typed, keys, loop, reader, channel>>

\* The pty echoes a key; Enter (or an end of file) ends the question.
ChildReads ==
    /\ child = "waits" /\ typed # <<>>
    /\ LET key == Head(typed)
       IN  /\ Emit(IF key.key = "y" THEN "y" ELSE "Enter")
           /\ typed' = Tail(typed)
           /\ child' = IF key.key = "y" THEN child ELSE "runs"
           /\ answered' = IF key.key = "y" THEN answered ELSE answered \cup {key.by}
    /\ UNCHANGED <<script, todo, keys, logged, loop, reader, channel>>

\* Hung up or interrupted it still says something, and then it is gone.
ChildHungUp ==
    /\ child = "hung up" /\ todo # <<>>
    /\ Emit("line")
    /\ todo' = <<>>
    /\ UNCHANGED <<script, child, answered, typed, keys, logged, loop, reader, channel>>

ChildExits ==
    /\ child \in {"runs", "hung up"} /\ todo = <<>>
    /\ child' = "exited"
    /\ UNCHANGED <<script, todo, answered, wrote, buffer, typed, keys, logged, loop, reader, channel>>

\* A signal that reaches the child: what it had to do ends in a last message.
Hangup == IF child \in {"runs", "waits"} THEN "hung up" ELSE child
LastWords == IF child \in {"runs", "waits"} THEN <<"line">> ELSE todo

\* A signal from paclens, whose kill(2) may be refused: its result is ignored.
signal ==
    \/ child' = Hangup /\ todo' = LastWords
    \/ UNCHANGED <<child, todo>>

----------------------------------------------------------------------------
\* The reader thread: it ends when the pty does, or nobody takes its bytes.

Read ==
    /\ reader = "reads" /\ buffer # <<>>
    /\ buffer' = Tail(buffer)
    /\ channel' = Append(channel, Head(buffer))
    /\ UNCHANGED <<script, todo, child, answered, wrote, typed, keys, logged, loop, reader>>

ReaderEnds ==
    /\ reader = "reads" /\ buffer = <<>> /\ child \in {"exited", "reaped"}
    /\ reader' = "ended"
    /\ UNCHANGED <<world, loop, channel>>

----------------------------------------------------------------------------
\* The loop.

\* One chunk into the transcript, the screen and the model.  A transcript
\* write that fails stops nothing, and the transcript is left out here.
take ==
    LET chunk == Head(channel)
    IN  /\ channel' = Tail(channel)
        /\ applied' = Append(applied, chunk)
        /\ partial' = IF chunk \in Ends THEN <<>> ELSE Append(partial, chunk)

\* Mutant of Drain: loses the line pacman has not ended.
DrainDropsTheQuestion ==
    /\ pc = "drain" /\ channel # <<>>
    /\ channel' = Tail(channel)
    /\ applied' = Append(applied, Head(channel))
    /\ partial' = <<>>
    /\ quiet' = 0
    /\ UNCHANGED <<world, reader, logread, pc, asked, shown, shared, pid, signalled>>

Drain ==
    /\ pc = "drain" /\ channel # <<>>
    /\ take
    /\ quiet' = 0
    /\ UNCHANGED <<world, reader, logread, pc, asked, shown, shared, pid, signalled>>

Drained ==
    /\ pc = "drain" /\ channel = <<>>
    /\ pc' = "keys"
    /\ logread' = logged
    /\ UNCHANGED <<world, reader, channel, applied, partial, asked, shown, quiet, shared, pid, signalled>>

\* Keys go to the child as they are.  ^C is a key its terminal turns into a
\* signal; a pty that is nobody's terminal cannot, and the loop sends it.
Key ==
    /\ pc = "keys" /\ keys < MaxKeys
    /\ keys' = keys + 1
    /\ \E key \in {"y", "Enter", "^C"} :
         \/ /\ key # "^C"
            /\ typed' = Append(typed, [key |-> key, by |-> "user"])
            /\ UNCHANGED <<child, todo, signalled>>
         \/ /\ key = "^C"
            /\ IF shared THEN signal ELSE child' = Hangup /\ todo' = LastWords
            /\ signalled' = IF shared /\ pid THEN signalled \cup {child} ELSE signalled
            /\ UNCHANGED typed
    /\ UNCHANGED <<script, answered, wrote, buffer, logged, reader, channel, pc, logread,
                   applied, partial, asked, shown, quiet, shared, pid>>

\* Mutant of Look: keeps the pid of a child that was waited for, and reads
\* keys after.
LookKeepingThePid ==
    /\ pc = "keys"
    /\ pc' \in {"paint", "keys"}
    /\ child' = IF child = "exited" THEN "reaped" ELSE child
    /\ asked' = IF may_be_question(partial) /\ quiet >= IDLE THEN partial ELSE asked
    /\ UNCHANGED <<script, todo, answered, wrote, buffer, typed, keys, logged, reader, channel,
                   logread, applied, partial, shown, quiet, shared, signalled, pid>>

\* The child is looked at; once it is gone its pid is no longer used.
Look ==
    /\ pc = "keys"
    /\ pc' = IF child = "exited" THEN "last frame" ELSE "paint"
    /\ child' = IF child = "exited" THEN "reaped" ELSE child
    /\ pid' = (pid /\ child # "exited")
    /\ asked' = CASE may_be_question(partial) /\ quiet >= IDLE -> partial
                  [] ~(may_be_question(partial) /\ quiet >= IDLE) /\ answering(partial, asked) -> asked
                  [] OTHER -> <<>>
    /\ UNCHANGED <<script, todo, answered, wrote, buffer, typed, keys, logged, reader, channel,
                   logread, applied, partial, shown, quiet, shared, signalled>>

Paint ==
    /\ pc = "paint"
    /\ shown' = asked
    /\ pc' = "sleep"
    /\ UNCHANGED <<world, reader, channel, logread, applied, partial, asked, quiet, shared, pid, signalled>>

\* Mutant of DropWriter: drops the writer with its end of file set.
DropUnmuted(muted) == Append(typed, [key |-> "Enter", by |-> "paclens"])

\* The pty's writer, dropped, types a newline and an end of file, which a
\* waiting question reads as its default; unless end of file is unset first.
DropWriter(muted) ==
    IF muted THEN typed ELSE Append(typed, [key |-> "Enter", by |-> "paclens"])

\* The last frame of the loop; then the way in is dropped, as it is.
LastPaint ==
    /\ pc = "last frame"
    /\ shown' = asked
    /\ typed' = DropWriter(FALSE)
    /\ pc' = "close"
    /\ UNCHANGED <<script, todo, child, answered, wrote, buffer, keys, logged, reader, channel,
                   logread, applied, partial, asked, quiet, shared, pid, signalled>>

\* Mutant of Sleep: counts the quiet rounds past the threshold.
SleepForever ==
    /\ pc = "sleep"
    /\ pc' = "drain"
    /\ quiet' = quiet + 1
    /\ quiet <= IDLE + 1
    /\ UNCHANGED <<world, reader, channel, logread, applied, partial, asked, shown, shared, pid,
                   signalled>>

Sleep ==
    /\ pc = "sleep"
    /\ pc' = "drain"
    /\ quiet' = IF quiet < IDLE THEN quiet + 1 ELSE quiet
    /\ UNCHANGED <<world, reader, channel, logread, applied, partial, asked, shown, shared, pid, signalled>>

\* Any of the loop's writes to our terminal, or its reading of keys, may fail.
Fails ==
    /\ pc \in {"drain", "keys", "paint"}
    /\ pc' = "unwind"
    /\ UNCHANGED <<world, reader, channel, logread, applied, partial, asked, shown, quiet, shared,
                   pid, signalled>>

\* After the child's exit: the rest of its bytes, until the reader has no
\* more, then the log to its end.
DrainRest ==
    /\ pc = "close" /\ channel # <<>>
    /\ take
    /\ UNCHANGED <<world, reader, logread, pc, asked, shown, quiet, shared, pid, signalled>>

\* Mutant of Finish: returns without taking what the pty still had.
FinishAtOnce ==
    /\ pc = "close"
    /\ pc' = "returned"
    /\ logread' = logged
    /\ partial' = <<>>
    /\ UNCHANGED <<world, reader, channel, applied, asked, shown, quiet, shared, pid, signalled>>

\* Mutant of Finish: waits for a question nobody is there to ask any more.
FinishWhenSilent ==
    /\ pc = "close" /\ channel = <<>> /\ reader = "ended" /\ asked = <<>>
    /\ pc' = "returned"
    /\ logread' = logged
    /\ partial' = <<>>
    /\ UNCHANGED <<world, reader, channel, applied, asked, shown, quiet, shared, pid, signalled>>

Finish ==
    /\ pc = "close" /\ channel = <<>> /\ (reader = "ended" \/ buffer = <<>>)
    /\ pc' = "returned"
    /\ logread' = logged
    /\ partial' = <<>>
    /\ UNCHANGED <<world, reader, channel, applied, asked, shown, quiet, shared, pid,
                   signalled>>

FailsLate ==
    /\ pc \in {"last frame", "close"}
    /\ pc' = "failed"
    /\ UNCHANGED <<world, reader, channel, logread, applied, partial, asked, shown, quiet, shared,
                   pid, signalled>>

\* Input's drop while the child runs: the way in is closed without a word, or
\* kept open if it cannot be.
Unwind ==
    /\ pc = "unwind"
    /\ \E muted \in BOOLEAN : typed' = IF muted THEN DropWriter(muted) ELSE typed
    /\ pc' = "hang up"
    /\ UNCHANGED <<script, todo, child, answered, wrote, buffer, keys, logged, reader, channel,
                   logread, applied, partial, asked, shown, quiet, shared, pid, signalled>>

\* Mutant of HangUp: hangs the child up and does not wait for it.
HangUpAtOnce ==
    /\ pc = "hang up"
    /\ signal
    /\ signalled' = signalled \cup {child}
    /\ pc' = "failed"
    /\ UNCHANGED <<script, answered, wrote, buffer, typed, keys, logged, reader, channel, logread,
                   applied, partial, asked, shown, quiet, shared, pid>>

\* Then the child is hung up.
HangUp ==
    /\ pc = "hang up"
    /\ signal
    /\ signalled' = signalled \cup {child}
    /\ pc' = "reap"
    /\ UNCHANGED <<script, answered, wrote, buffer, typed, keys, logged, reader, channel, logread,
                   applied, partial, asked, shown, quiet, shared, pid>>

\* Mutant of Reap: waits for a child that cannot finish.
ReapUndrained ==
    /\ pc = "reap" /\ child = "exited" /\ script = todo
    /\ child' = "reaped"
    /\ pid' = FALSE
    /\ pc' = "failed"
    /\ UNCHANGED <<script, todo, answered, wrote, buffer, typed, keys, logged, reader, channel,
                   logread, applied, partial, asked, shown, quiet, shared, signalled>>

\* The wait for it: the reader still takes what the child writes, since the
\* channel is dropped only after.
Reap ==
    /\ pc = "reap" /\ child = "exited"
    /\ child' = "reaped"
    /\ pid' = FALSE
    /\ pc' = "failed"
    /\ UNCHANGED <<script, todo, answered, wrote, buffer, typed, keys, logged, reader, channel,
                   logread, applied, partial, asked, shown, quiet, shared, signalled>>

Init ==
    /\ script \in Scripts /\ todo = script /\ child = "runs" /\ answered = {}
    /\ wrote = <<>> /\ buffer = <<>> /\ typed = <<>> /\ keys = 0
    /\ reader = "reads" /\ channel = <<>> /\ logged = 0 /\ logread = 0
    /\ pc = "drain" /\ applied = <<>> /\ partial = <<>> /\ asked = <<>> /\ shown = <<>>
    /\ quiet = 0 /\ shared \in BOOLEAN /\ pid = TRUE /\ signalled = {}

Child == ChildWrites \/ ChildLogs \/ ChildReads \/ ChildHungUp \/ ChildExits
Reader == Read \/ ReaderEnds
Loop == Drain \/ Drained \/ Look \/ Paint \/ LastPaint \/ Sleep \/ DrainRest \/ Finish \/ Unwind \/ HangUp
        \/ Reap

Next == Child \/ Reader \/ Loop \/ Key \/ Fails \/ FailsLate

Spec == Init /\ [][Next]_vars

\* The three threads keep running; the user need not type, and nothing need
\* fail.
Fairness == WF_vars(Child) /\ WF_vars(Reader) /\ WF_vars(Loop)
FairSpec == Spec /\ Fairness
----------------------------------------------------------------------------
(* What running a step under the view promises. *)

Over == {"returned", "failed"}
Ending == Over \cup {"unwind", "hang up", "reap", "last frame", "close"}

TypeOK ==
    /\ child \in {"runs", "waits", "hung up", "exited", "reaped"}
    /\ pc \in {"drain", "keys", "paint", "sleep"} \cup Ending
    /\ Len(buffer) <= Capacity /\ quiet \in 0..IDLE /\ keys \in 0..MaxKeys

\* A run that returns has applied every byte its child wrote, in order, the
\* last unfinished line too, and every line of its log: pacman may say its
\* last word and exit between two looks.
NothingLost ==
    /\ IsPrefix(applied, wrote)
    /\ pc = "returned" => applied = wrote /\ logread = logged

\* Whatever way the run ends, its child is gone and waited for before the
\* next step may start.
ChildGoneFirst == pc \in Over => child = "reaped"

\* Nobody but the user ends a question: not the close of the pty's writer.
AnsweredByTheUser == answered \subseteq {"user"}

\* A signal goes only to a child not yet waited for: its pid is still its own.
SignalsOurChild == "reaped" \notin signalled

\* A question pacman waits on is put before the user, who typed nothing yet.
QuestionIsShown == child = "waits" /\ keys = 0 ~> shown # <<>> \/ keys > 0 \/ pc \in Ending

\* An error ends the step even if the child still had output nobody had read:
\* it is drained until the child is gone.  The one way to be stuck: the signal
\* was refused, and the child asks what nobody can answer any more.
ErrorEnds == pc = "unwind" ~> pc = "failed" \/ (pc = "reap" /\ child = "waits" /\ typed = <<>>)

\* A step whose child exits comes to its end.
ExitEnds == child = "exited" ~> pc \in Over

\* A step that ran under the view left nothing behind: no output unread, no
\* child alive or signalled after its end, no question answered but by the user.
StepLeavesNothing == NothingLost /\ ChildGoneFirst /\ AnsweredByTheUser /\ SignalsOurChild

\* The loop gets out in the end, whichever way it took.
StepEnds == ErrorEnds /\ ExitEnds
=============================================================================
