--------------------------- MODULE WatchingProofs ---------------------------
(***************************************************************************)
(* Proofs about what paclens watches and does not control: pacman's lock,  *)
(* a command of a scan, the step that runs under the live view, and the    *)
(* rows pacman draws of its downloads, each for every value of its         *)
(* constants.                                                              *)
(***************************************************************************)
EXTENDS LiveLoop, CommandRunner, DbLock, Downloads,
        FiniteSetTheorems, WellFoundedInduction, SequenceTheorems, TLAPS

-----------------------------------------------------------------------------
(* A step under the view (LiveLoop).                                       *)

ChildSteps == {"line", "part", "ask", "log"}
Chunks == {"line", "part", "ask", "y", "Enter"}
TypedKeys == [key : {"y", "Enter"}, by : {"user", "paclens"}]

StepTyped ==
  /\ TypeOK
  /\ todo \in Seq(ChildSteps) /\ typed \in Seq(TypedKeys)
  /\ wrote \in Seq(Chunks) /\ buffer \in Seq(Chunks)
  /\ channel \in Seq(Chunks) /\ applied \in Seq(Chunks)
  /\ reader \in {"reads", "ended"}
  /\ pid \in BOOLEAN /\ shared \in BOOLEAN

Written == {"last frame", "close", "returned", "failed"}

\* Nothing is lost between the pty and the picture: what was applied, what
\* waits in the channel and what the pty holds are, in this order, what the
\* child wrote.
Accounted == applied \o (channel \o buffer) = wrote

\* Who is over when: the reader ends after the child and the pty, the loop's
\* ends come after the child was waited for, and not before; its pid is
\* forgotten with it; and a run that returned left nothing.
Ordered ==
  /\ reader = "ended" => buffer = <<>> /\ child \in {"exited", "reaped"}
  /\ pc \in Written <=> child = "reaped"
  /\ pid => child # "reaped"
  /\ pc = "returned" => channel = <<>> /\ buffer = <<>> /\ logread = logged

\* While the child can still read, only the user has typed.
TypedByTheUser ==
  child # "reaped" => \A i \in DOMAIN typed : typed[i].by = "user"

StepInv == StepTyped /\ Accounted /\ Ordered /\ TypedByTheUser /\ AnsweredByTheUser /\ SignalsOurChild

\* A chunk that moves from the head of what follows to the end of what went
\* before leaves the whole as it was.
LEMMA MovedOn ==
  ASSUME NEW S, NEW s \in Seq(S), NEW t \in Seq(S), t # <<>>
  PROVE  Append(s, Head(t)) \o Tail(t) = s \o t
<1>1. Head(t) \in S /\ Tail(t) \in Seq(S) /\ t = <<Head(t)>> \o Tail(t)
  OBVIOUS
<1>2. Append(s, Head(t)) = s \o <<Head(t)>>
  BY <1>1, AppendIsConcat
<1>3. <<Head(t)>> \in Seq(S)
  BY <1>1
<1>4. (s \o <<Head(t)>>) \o Tail(t) = s \o (<<Head(t)>> \o Tail(t))
  BY <1>1, <1>3, ConcatAssociative
<1> QED
  BY <1>1, <1>2, <1>4

LEMMA AppendedLast ==
  ASSUME NEW S, NEW s \in Seq(S), NEW t \in Seq(S), NEW e \in S
  PROVE  s \o Append(t, e) = Append(s \o t, e)
<1>1. Append(t, e) = t \o <<e>> /\ <<e>> \in Seq(S)
  BY AppendIsConcat
<1>2. s \o t \in Seq(S)
  BY ConcatProperties
<1>3. Append(s \o t, e) = (s \o t) \o <<e>>
  BY <1>2, AppendIsConcat
<1>4. (s \o t) \o <<e>> = s \o (t \o <<e>>)
  BY <1>1, ConcatAssociative
<1> QED
  BY <1>1, <1>3, <1>4

LEMMA PartIsPrefix ==
  ASSUME NEW S, NEW s \in Seq(S), NEW t \in Seq(S)
  PROVE  IsPrefix(s, s \o t)
<1>1. /\ s \o t \in Seq(S) /\ Len(s \o t) = Len(s) + Len(t)
      /\ \A i \in 1..Len(s) : (s \o t)[i] = s[i]
  BY ConcatProperties
<1>2. Len(s) \in Nat /\ Len(t) \in Nat
  OBVIOUS
<1>3. SubSeq(s, 1, Len(s)) = SubSeq(s \o t, 1, Len(s))
  BY <1>1, <1>2
<1> QED
  BY <1>1, <1>2, <1>3 DEF IsPrefix

\* The child's output goes to the end of what it wrote.
LEMMA EmitKeepsCount ==
  ASSUME StepTyped, Accounted, NEW c \in Chunks, Emit(c),
         applied' = applied, channel' = channel
  PROVE  /\ Accounted'
         /\ wrote' \in Seq(Chunks) /\ buffer' \in Seq(Chunks) /\ Len(buffer') <= Capacity
<1>1. /\ wrote' = Append(wrote, c) /\ buffer' = Append(buffer, c) /\ Len(buffer) < Capacity
  BY DEF Emit
<1>2. /\ applied \in Seq(Chunks) /\ channel \in Seq(Chunks) /\ buffer \in Seq(Chunks)
      /\ wrote \in Seq(Chunks)
  BY DEF StepTyped
<1>3. channel \o Append(buffer, c) = Append(channel \o buffer, c)
  BY <1>2, AppendedLast
<1>4. channel \o buffer \in Seq(Chunks)
  BY <1>2, ConcatProperties
<1>5. applied \o Append(channel \o buffer, c) = Append(applied \o (channel \o buffer), c)
  BY <1>2, <1>4, AppendedLast
<1>6. Accounted'
  BY <1>1, <1>3, <1>5 DEF Accounted
<1>7. Len(Append(buffer, c)) = Len(buffer) + 1
  BY <1>2
<1> QED
  BY <1>1, <1>2, <1>6, <1>7, LiveLoopAssumption DEF StepTyped

\* A chunk taken from the channel goes to the end of what is applied.
LEMMA TakeKeepsCount ==
  ASSUME StepTyped, Accounted, channel # <<>>, take, buffer' = buffer, wrote' = wrote
  PROVE  Accounted' /\ channel' \in Seq(Chunks) /\ applied' \in Seq(Chunks)
<1>1. channel' = Tail(channel) /\ applied' = Append(applied, Head(channel))
  BY DEF take
<1>2. /\ applied \in Seq(Chunks) /\ channel \in Seq(Chunks) /\ buffer \in Seq(Chunks)
  BY DEF StepTyped
<1>3. Head(channel) \in Chunks /\ Tail(channel) \in Seq(Chunks) /\ <<Head(channel)>> \in Seq(Chunks)
  BY <1>2
<1>4. /\ Append(applied, Head(channel)) \in Seq(Chunks)
      /\ channel \o buffer \in Seq(Chunks) /\ Tail(channel) \o buffer \in Seq(Chunks)
  BY <1>2, <1>3, ConcatProperties
<1>n. channel # <<>>
  OBVIOUS
<1>5. Append(applied, Head(channel)) \o Tail(channel) = applied \o channel
  BY <1>2, <1>n, MovedOn
<1>6. (applied \o channel) \o buffer = applied \o (channel \o buffer)
  BY <1>2, ConcatAssociative
<1>7. (Append(applied, Head(channel)) \o Tail(channel)) \o buffer
        = Append(applied, Head(channel)) \o (Tail(channel) \o buffer)
  BY <1>2, <1>3, <1>4, ConcatAssociative
<1> QED
  BY <1>1, <1>3, <1>4, <1>5, <1>6, <1>7 DEF Accounted

\* A chunk the reader takes goes to the end of the channel.
LEMMA ReadKeepsCount ==
  ASSUME StepTyped, Accounted, Read
  PROVE  Accounted' /\ channel' \in Seq(Chunks) /\ buffer' \in Seq(Chunks) /\ Len(buffer') <= Capacity
<1>1. /\ buffer # <<>> /\ buffer' = Tail(buffer) /\ channel' = Append(channel, Head(buffer))
      /\ applied' = applied /\ wrote' = wrote
  BY DEF Read, loop
<1>2. channel \in Seq(Chunks) /\ buffer \in Seq(Chunks) /\ Len(buffer) <= Capacity
  BY DEF StepTyped, TypeOK
<1>3. Append(channel, Head(buffer)) \o Tail(buffer) = channel \o buffer
  BY <1>1, <1>2, MovedOn
<1>4. Head(buffer) \in Chunks /\ Tail(buffer) \in Seq(Chunks) /\ Len(Tail(buffer)) = Len(buffer) - 1
  BY <1>1, <1>2
<1>5. Accounted'
  BY <1>1, <1>3 DEF Accounted
<1>6. channel' \in Seq(Chunks)
  BY <1>1, <1>2, <1>4, AppendProperties
<1>7. Len(buffer') <= Capacity
  <2>1. Len(buffer) \in Nat
    BY <1>2
  <2> QED
    BY <1>1, <1>2, <1>4, <2>1, LiveLoopAssumption
<1> QED
  BY <1>1, <1>4, <1>5, <1>6, <1>7

LEMMA TypedOn ==
  ASSUME NEW s \in Seq(TypedKeys), NEW k \in TypedKeys, k.by = "user",
         \A i \in DOMAIN s : s[i].by = "user"
  PROVE  \A i \in DOMAIN Append(s, k) : Append(s, k)[i].by = "user"
<1>1. /\ DOMAIN Append(s, k) = 1..(Len(s) + 1)
      /\ \A i \in 1..Len(s) : Append(s, k)[i] = s[i]
      /\ Append(s, k)[Len(s) + 1] = k
  OBVIOUS
<1>2. DOMAIN s = 1..Len(s) /\ Len(s) \in Nat
  OBVIOUS
<1> QED
  BY <1>1, <1>2

LEMMA StepTypesKept ==
  ASSUME StepInv, [Next]_vars
  PROVE  StepTyped'
<1> USE LiveLoopAssumption DEF StepTyped, TypeOK, Ending, Over
<1>0. StepTyped /\ Accounted
  BY DEF StepInv
<1>t. /\ todo \in Seq(ChildSteps) /\ typed \in Seq(TypedKeys)
  BY <1>0
<1>e. todo # <<>> => Head(todo) \in ChildSteps /\ Tail(todo) \in Seq(ChildSteps)
  BY <1>t
<1>f. typed # <<>> => Head(typed) \in TypedKeys /\ Tail(typed) \in Seq(TypedKeys)
  BY <1>t
<1>h. Hangup \in {"runs", "waits", "hung up", "exited", "reaped"} /\ LastWords \in Seq(ChildSteps)
  <2>1. <<"line">> \in Seq(ChildSteps)
    BY DEF ChildSteps
  <2> QED
    BY <1>0, <2>1 DEF Hangup, LastWords
<1>1. CASE ChildWrites
  <2>1. Head(todo) \in Chunks /\ Emit(Head(todo)) /\ applied' = applied /\ channel' = channel
    BY <1>1, <1>e DEF ChildWrites, ChildSteps, Chunks, loop
  <2>2. wrote' \in Seq(Chunks) /\ buffer' \in Seq(Chunks) /\ Len(buffer') <= Capacity
    BY <1>0, <2>1, EmitKeepsCount
  <2> QED
    BY <1>0, <1>1, <1>e, <2>2 DEF ChildWrites, loop
<1>2. CASE ChildLogs
  BY <1>0, <1>2, <1>e DEF ChildLogs, loop
<1>3. CASE ChildReads
  <2> DEFINE c == IF Head(typed).key = "y" THEN "y" ELSE "Enter"
  <2>1. c \in Chunks /\ Emit(c) /\ applied' = applied /\ channel' = channel
    BY <1>3 DEF ChildReads, Chunks, loop
  <2>2. wrote' \in Seq(Chunks) /\ buffer' \in Seq(Chunks) /\ Len(buffer') <= Capacity
    BY <1>0, <2>1, EmitKeepsCount
  <2> QED
    BY <1>0, <1>3, <1>f, <2>2 DEF ChildReads, loop
<1>4. CASE ChildHungUp
  <2>1. "line" \in Chunks /\ Emit("line") /\ applied' = applied /\ channel' = channel
    BY <1>4 DEF ChildHungUp, Chunks, loop
  <2>2. wrote' \in Seq(Chunks) /\ buffer' \in Seq(Chunks) /\ Len(buffer') <= Capacity
    BY <1>0, <2>1, EmitKeepsCount
  <2>3. <<>> \in Seq(ChildSteps)
    OBVIOUS
  <2> QED
    BY <1>0, <1>4, <2>2, <2>3 DEF ChildHungUp, loop
<1>5. CASE ChildExits
  BY <1>0, <1>5 DEF ChildExits, loop
<1>6. CASE Read
  <2>1. channel' \in Seq(Chunks) /\ buffer' \in Seq(Chunks) /\ Len(buffer') <= Capacity
    BY <1>0, <1>6, ReadKeepsCount
  <2> QED
    BY <1>0, <1>6, <2>1 DEF Read, loop
<1>7. CASE ReaderEnds
  BY <1>0, <1>7 DEF ReaderEnds, world, loop
<1>8. CASE Drain \/ DrainRest
  <2>1. channel # <<>> /\ take /\ buffer' = buffer /\ wrote' = wrote
    BY <1>8 DEF Drain, DrainRest, world
  <2>2. channel' \in Seq(Chunks) /\ applied' \in Seq(Chunks)
    BY <1>0, <2>1, TakeKeepsCount
  <2>3. quiet' \in 0..IDLE /\ pc' = pc
    <3>1. IDLE \in Nat /\ 0 \in 0..IDLE
      BY LiveLoopAssumption
    <3>2. quiet \in 0..IDLE
      BY <1>0
    <3> QED
      BY <1>8, <3>1, <3>2 DEF Drain, DrainRest
  <2>4. UNCHANGED <<todo, child, wrote, buffer, typed, keys, reader, shared, pid>>
    BY <1>8 DEF Drain, DrainRest, world
  <2> QED
    BY <1>0, <2>2, <2>3, <2>4
<1>9. CASE Drained \/ Paint \/ Finish \/ Fails \/ FailsLate
  BY <1>0, <1>9 DEF Drained, Paint, Finish, Fails, FailsLate, world
<1>10. CASE Look
  BY <1>0, <1>10 DEF Look
<1>11. CASE LastPaint
  <2>1. [key |-> "Enter", by |-> "paclens"] \in TypedKeys
    BY DEF TypedKeys
  <2>2. typed' = Append(typed, [key |-> "Enter", by |-> "paclens"])
    BY <1>11 DEF LastPaint, DropWriter
  <2>3. typed' \in Seq(TypedKeys)
    BY <1>t, <2>1, <2>2, AppendProperties
  <2> QED
    BY <1>0, <1>11, <2>3 DEF LastPaint
<1>12. CASE Sleep
  <2>1. quiet \in 0..IDLE /\ IDLE \in Nat
    BY <1>0
  <2>2. quiet' = IF quiet < IDLE THEN quiet + 1 ELSE quiet
    BY <1>12 DEF Sleep
  <2>3. quiet' \in 0..IDLE
    BY <2>1, <2>2
  <2> QED
    BY <1>0, <1>12, <2>3 DEF Sleep, world
<1>13. CASE Unwind
  <2>1. typed' = typed
    BY <1>13 DEF Unwind, DropWriter
  <2> QED
    BY <1>0, <1>13, <2>1 DEF Unwind
<1>17. CASE HangUp
  BY <1>0, <1>17, <1>h DEF HangUp, signal
<1>14. CASE Reap
  BY <1>0, <1>14 DEF Reap
<1>15. CASE Key
  <2>1. keys' \in 0..MaxKeys
    <3>1. keys \in 0..MaxKeys /\ MaxKeys \in Nat
      BY <1>0
    <3>2. keys' = keys + 1 /\ keys < MaxKeys
      BY <1>15 DEF Key
    <3> QED
      BY <3>1, <3>2
  <2>2. PICK key \in {"y", "Enter", "^C"} :
         \/ /\ key # "^C"
            /\ typed' = Append(typed, [key |-> key, by |-> "user"])
            /\ UNCHANGED <<child, todo, signalled>>
         \/ /\ key = "^C"
            /\ \/ child' = Hangup /\ todo' = LastWords
               \/ UNCHANGED <<child, todo>>
            /\ UNCHANGED typed
    BY <1>15 DEF Key, signal
  <2>3. key # "^C" => [key |-> key, by |-> "user"] \in TypedKeys
    BY DEF TypedKeys
  <2>4. typed' \in Seq(TypedKeys)
    BY <1>t, <2>2, <2>3
  <2> QED
    BY <1>0, <1>15, <1>h, <2>1, <2>2, <2>4 DEF Key
<1>16. CASE UNCHANGED vars
  BY <1>0, <1>16 DEF vars, world, loop
<1> QED
  BY <1>1, <1>2, <1>3, <1>4, <1>5, <1>6, <1>7, <1>8, <1>9, <1>10, <1>11, <1>12, <1>13, <1>14,
     <1>15, <1>16, <1>17 DEF Next, Child, Reader, Loop

LEMMA StepOrderKept ==
  ASSUME StepInv, [Next]_vars
  PROVE  (Accounted /\ Ordered /\ TypedByTheUser /\ AnsweredByTheUser /\ SignalsOurChild)'
<1>0. StepTyped /\ Accounted /\ Ordered /\ TypedByTheUser /\ AnsweredByTheUser /\ SignalsOurChild
  BY DEF StepInv
<1>t. /\ typed \in Seq(TypedKeys) /\ buffer \in Seq(Chunks)
      /\ child \in {"runs", "waits", "hung up", "exited", "reaped"}
  BY <1>0 DEF StepTyped, TypeOK
<1>h. Hangup \in {"hung up", child} /\ (Hangup = "reaped" <=> child = "reaped")
      /\ (child = "exited" => Hangup = "exited")
  BY DEF Hangup
<1> USE DEF Ordered, TypedByTheUser, AnsweredByTheUser, SignalsOurChild, Written
<1>1. CASE ChildWrites
  <2>0. Head(todo) \in ChildSteps
    <3>1. todo # <<>> /\ todo \in Seq(ChildSteps)
      BY <1>0, <1>1 DEF ChildWrites, StepTyped
    <3> QED
      BY <3>1, HeadTailProperties
  <2>1. Head(todo) \in Chunks /\ Emit(Head(todo)) /\ applied' = applied /\ channel' = channel
    BY <1>1, <2>0 DEF ChildWrites, ChildSteps, Chunks, loop
  <2>2. Accounted'
    BY <1>0, <2>1, EmitKeepsCount
  <2>3. child = "runs" /\ child' \in {"runs", "waits"}
    BY <1>1 DEF ChildWrites
  <2> QED
    BY <1>0, <1>1, <2>2, <2>3 DEF ChildWrites, loop
<1>2. CASE ChildLogs
  BY <1>0, <1>2 DEF ChildLogs, loop, Accounted
<1>3. CASE ChildReads
  <2> DEFINE c == IF Head(typed).key = "y" THEN "y" ELSE "Enter"
  <2>1. c \in Chunks /\ Emit(c) /\ applied' = applied /\ channel' = channel
    BY <1>3 DEF ChildReads, Chunks, loop
  <2>2. Accounted'
    BY <1>0, <2>1, EmitKeepsCount
  <2>3. child = "waits" /\ child' \in {"runs", "waits"} /\ typed # <<>> /\ typed' = Tail(typed)
    BY <1>3 DEF ChildReads
  <2>4. typed[1].by = "user" /\ Head(typed) = typed[1]
    <3>1. 1 \in DOMAIN typed /\ Head(typed) = typed[1]
      BY <1>t, <2>3
    <3> QED
      BY <1>0, <2>3, <3>1
  <2>5. answered' \subseteq answered \cup {"user"}
    BY <1>3, <2>4 DEF ChildReads
  <2>6. \A i \in DOMAIN typed' : typed'[i].by = "user"
    <3>1. \A i \in DOMAIN typed' : i + 1 \in DOMAIN typed /\ typed'[i] = typed[i + 1]
      BY <1>t, <2>3
    <3> QED
      BY <1>0, <2>3, <3>1
  <2> QED
    BY <1>0, <1>3, <2>2, <2>3, <2>5, <2>6 DEF ChildReads, loop
<1>4. CASE ChildHungUp
  <2>1. "line" \in Chunks /\ Emit("line") /\ applied' = applied /\ channel' = channel
    BY <1>4 DEF ChildHungUp, Chunks, loop
  <2>2. Accounted'
    BY <1>0, <2>1, EmitKeepsCount
  <2> QED
    BY <1>0, <1>4, <2>2 DEF ChildHungUp, loop
<1>5. CASE ChildExits
  BY <1>0, <1>5 DEF ChildExits, loop, Accounted
<1>6. CASE Read
  <2>1. Accounted'
    BY <1>0, <1>6, ReadKeepsCount
  <2> QED
    BY <1>0, <1>6, <2>1 DEF Read, loop
<1>7. CASE ReaderEnds
  BY <1>0, <1>7 DEF ReaderEnds, world, loop, Accounted
<1>8. CASE Drain \/ DrainRest
  <2>1. channel # <<>> /\ take /\ buffer' = buffer /\ wrote' = wrote /\ pc # "returned" /\ pc' = pc
    BY <1>8 DEF Drain, DrainRest, world
  <2>2. Accounted'
    BY <1>0, <2>1, TakeKeepsCount
  <2>3. UNCHANGED <<child, buffer, typed, answered, reader, pid, signalled>>
    BY <1>8 DEF Drain, DrainRest, world
  <2> QED
    BY <1>0, <2>1, <2>2, <2>3
<1>9. CASE Drained \/ Paint \/ Finish \/ Fails \/ FailsLate \/ Sleep
  <2>1. UNCHANGED <<child, wrote, buffer, typed, answered, reader, pid, signalled, channel, applied, logged>>
    BY <1>9 DEF Drained, Paint, Finish, Fails, FailsLate, Sleep, world
  <2>2. pc' \in Written <=> pc \in Written
    BY <1>9 DEF Drained, Paint, Finish, Fails, FailsLate, Sleep
  <2>3. pc' = "returned" => channel = <<>> /\ buffer = <<>> /\ logread' = logged
    BY <1>0, <1>9 DEF Drained, Paint, Finish, Fails, FailsLate, Sleep
  <2> QED
    BY <1>0, <2>1, <2>2, <2>3 DEF Accounted
<1>10. CASE Look
  BY <1>0, <1>10 DEF Look, Accounted
<1>11. CASE LastPaint
  BY <1>0, <1>11 DEF LastPaint, Accounted
<1>13. CASE Unwind
  <2>1. typed' = typed
    BY <1>13 DEF Unwind, DropWriter
  <2> QED
    BY <1>0, <1>13, <2>1 DEF Unwind, Accounted
<1>17. CASE HangUp
  BY <1>0, <1>17, <1>h DEF HangUp, signal, Accounted
<1>14. CASE Reap
  BY <1>0, <1>14 DEF Reap, Accounted
<1>15. CASE Key
  <2>1. PICK key \in {"y", "Enter", "^C"} :
         \/ /\ key # "^C"
            /\ typed' = Append(typed, [key |-> key, by |-> "user"])
            /\ UNCHANGED <<child, todo, signalled>>
         \/ /\ key = "^C"
            /\ \/ child' = Hangup /\ todo' = LastWords
               \/ UNCHANGED <<child, todo>>
            /\ signalled' = IF shared /\ pid THEN signalled \cup {child} ELSE signalled
            /\ UNCHANGED typed
    BY <1>15 DEF Key, signal
  <2>2. /\ pc = "keys" /\ pc' = pc
        /\ UNCHANGED <<answered, wrote, buffer, logged, reader, channel, logread, applied, pid>>
    BY <1>15 DEF Key
  <2>3. child # "reaped" /\ child' # "reaped" /\ child' \in {"hung up", child}
    BY <1>0, <1>h, <2>1, <2>2
  <2>4. child = "exited" => child' = "exited"
    BY <1>h, <2>1
  <2>5. "reaped" \notin signalled'
    BY <1>0, <2>1, <2>3
  <2>6. \A i \in DOMAIN typed' : typed'[i].by = "user"
    <3>1. CASE typed' = typed
      BY <1>0, <2>3, <3>1
    <3>2. CASE key # "^C" /\ typed' = Append(typed, [key |-> key, by |-> "user"])
      <4> DEFINE k == [key |-> key, by |-> "user"]
      <4>1. k \in TypedKeys /\ k.by = "user"
        BY <3>2 DEF TypedKeys
      <4>2. \A i \in DOMAIN typed : typed[i].by = "user"
        BY <1>0, <2>3
      <4> QED
        BY <1>t, <3>2, <4>1, <4>2, TypedOn
    <3> QED
      BY <2>1, <3>1, <3>2
  <2> QED
    BY <1>0, <2>2, <2>3, <2>4, <2>5, <2>6 DEF Accounted
<1>16. CASE UNCHANGED vars
  BY <1>0, <1>16 DEF vars, world, loop, Accounted
<1> QED
  BY <1>1, <1>2, <1>3, <1>4, <1>5, <1>6, <1>7, <1>8, <1>9, <1>10, <1>11, <1>13, <1>14,
     <1>15, <1>16, <1>17 DEF Next, Child, Reader, Loop

LEMMA StepStarts == Init => StepInv
<1> SUFFICES ASSUME Init PROVE StepInv
  OBVIOUS
<1>1. todo \in Seq(ChildSteps) /\ typed \in Seq(TypedKeys) /\ <<>> \in Seq(Chunks)
  BY LiveLoopAssumption DEF Init, ChildSteps
<1>2. <<>> \o (<<>> \o <<>>) = <<>>
  BY <1>1, ConcatEmptySeq
<1> QED
  BY <1>1, <1>2, LiveLoopAssumption
  DEF Init, StepInv, StepTyped, TypeOK, Accounted, Ordered, TypedByTheUser, AnsweredByTheUser,
      SignalsOurChild, Written, Ending, Over

LEMMA StepInvariant == Spec => []StepInv
<1>1. StepInv /\ [Next]_vars => StepInv'
  BY StepTypesKept, StepOrderKept DEF StepInv
<1> QED
  BY <1>1, StepStarts, PTL DEF Spec

\* The step, its pty and its loop stay within their types and bounds.
THEOREM StepTypes == Spec => []TypeOK
<1>1. StepInv => TypeOK
  BY DEF StepInv, StepTyped
<1> QED
  BY <1>1, StepInvariant, PTL

\* A step that ran under the view left nothing behind, whatever its child does,
\* however small the pty is and whichever way it ended (live.rs, pty.rs): all
\* the child wrote is applied, in order; the child is waited for before the end;
\* nobody but the user answered it, and no signal went to a pid given back.
THEOREM StepIsClean == Spec => []StepLeavesNothing
<1>1. StepInv => StepLeavesNothing
  <2> SUFFICES ASSUME StepInv PROVE StepLeavesNothing
    OBVIOUS
  <2>0. StepTyped /\ Accounted /\ Ordered /\ AnsweredByTheUser /\ SignalsOurChild
    BY DEF StepInv
  <2>1. /\ channel \o buffer \in Seq(Chunks) /\ applied \in Seq(Chunks)
    BY <2>0, ConcatProperties DEF StepTyped
  <2>2. IsPrefix(applied, wrote)
    BY <2>0, <2>1, PartIsPrefix DEF Accounted
  <2>3. pc = "returned" => applied = wrote /\ logread = logged
    <3>1. <<>> \o <<>> = <<>> /\ applied \o <<>> = applied
      BY <2>1, ConcatEmptySeq
    <3> QED
      BY <2>0, <3>1 DEF Accounted, Ordered
  <2>4. ChildGoneFirst
    BY <2>0 DEF ChildGoneFirst, Over, Ordered, Written
  <2> QED
    BY <2>0, <2>2, <2>3, <2>4 DEF StepLeavesNothing, NothingLost
<1> QED
  BY <1>1, StepInvariant, PTL

-----------------------------------------------------------------------------
(* The database lock (DbLock).                                             *)

\* The smallest of a set of numbers is one of them.
LEMMA MinIsIn ==
  ASSUME NEW S, S \subseteq Nat, S # {}
  PROVE  Min(S) \in S
<1> DEFINE less == OpToRel(<, Nat)
<1>1. IsWellFoundedOn(less, Nat)
  BY NatLessThanWellFounded DEF less
<1>2. PICK x \in S : \A y \in S : <<y, x>> \notin less
  BY <1>1, WFMin
<1>3. \A y \in S : ~(y < x)
  BY <1>2 DEF OpToRel
<1>4. \A y \in S : x <= y
  BY <1>3
<1> QED
  BY <1>4 DEF Min

TakesLock == RUNS \cup DAEMONS

LockTyped ==
  /\ LockTypeOK
  /\ DOMAIN proc = Pids
  /\ holder # Nobody => proc[holder].comm \in TakesLock

\* A look has come past the process that has held the lock since it began, or
\* it will: past it, it has an entry of a program that takes the lock, or knows
\* that it has not seen everything.
LookKnows ==
  /\ look = NoLook => since = Nobody
  /\ look # NoLook /\ hidden => ~look.visible
  /\ look # NoLook /\ since # Nobody /\ since <= look.at =>
       ~look.visible \/ \E i \in DOMAIN look.procs : look.procs[i].comm \in TakesLock

LEMMA VerdictOfHeld ==
  ASSUME NEW visible \in BOOLEAN, NEW procs \in Seq(LockProcs),
         ~visible \/ \E i \in DOMAIN procs : procs[i].comm \in TakesLock
  PROVE  verdict(TRUE, visible, procs).is \in {"held", "unknown"}
<1>1. \A p, c : Held(p, c).is = "held"
  BY DEF Held
<1>2. Unknown.is = "unknown"
  BY DEF Unknown
<1>3. visible => {i \in DOMAIN procs : procs[i].comm \in RUNS} # {} 
                 \/ {i \in DOMAIN procs : procs[i].comm \in DAEMONS} # {}
  BY DEF TakesLock
<1> QED
  BY <1>1, <1>2, <1>3 DEF verdict

LEMMA VerdictType ==
  ASSUME NEW exists \in BOOLEAN, NEW visible \in BOOLEAN, NEW procs \in Seq(LockProcs)
  PROVE  verdict(exists, visible, procs) \in Verdicts
<1>1. \A i \in DOMAIN procs : procs[i].pid \in Pids
  <2>1. \A i \in DOMAIN procs : procs[i] \in LockProcs
    OBVIOUS
  <2> QED
    BY <2>1 DEF LockProcs
<1>2. \A S \in SUBSET DOMAIN procs : S # {} => procs[Min(S)].pid \in Pids
  BY <1>1, MinIsIn
<1>3. \A p \in Pids : Held(p, "confirmed") \in Verdicts /\ Held(p, "inferred") \in Verdicts
  BY DEF Verdicts
<1>4. Free \in Verdicts /\ Stale \in Verdicts /\ Unknown \in Verdicts
  BY DEF Verdicts
<1> QED
  BY <1>2, <1>3, <1>4 DEF verdict

\* What a step of the look does to it.
LEMMA LookStep ==
  ASSUME LockConstantsOK, LockTyped, NextProcess
  PROVE  /\ look # NoLook /\ look.at < MaxPid
         /\ look' \in [at : 0..MaxPid, visible : BOOLEAN, procs : Seq(LockProcs)]
         /\ look'.at = look.at + 1
         /\ look'.visible => look.visible
         /\ \/ /\ look'.procs = look.procs
               /\ look'.visible => ~(Lives(look.at + 1) /\ (proc[look.at + 1].own \/ ~hidden))
            \/ /\ Len(look'.procs) = Len(look.procs) + 1
               /\ look'.procs[Len(look.procs) + 1].comm = proc[look.at + 1].comm
               /\ \A i \in DOMAIN look.procs : look'.procs[i] = look.procs[i]
<1> DEFINE p == look.at + 1
           found == [pid |-> p, comm |-> proc[p].comm, holds |-> proc[p].own /\ holder = p]
           seen == Lives(p) /\ (proc[p].own \/ ~hidden)
<1>1. look # NoLook /\ look.at < MaxPid /\ Looking
  BY DEF NextProcess, Looking
<1>2. look \in [at : 0..MaxPid, visible : BOOLEAN, procs : Seq(LockProcs)]
  BY <1>1 DEF LockTyped, LockTypeOK
<1>3. p \in Pids /\ p \in 0..MaxPid
  BY <1>1, <1>2 DEF Pids, LockConstantsOK
<1>4. seen => found \in LockProcs
  <2>1. seen => proc[p] \in [comm : ProgramNames, own : BOOLEAN]
    BY <1>3 DEF LockTyped, LockTypeOK
  <2>2. (proc[p].own /\ holder = p) \in BOOLEAN
    OBVIOUS
  <2> QED
    BY <1>3, <2>1, <2>2 DEF LockProcs
<1>5. \/ ~seen /\ look' = [look EXCEPT !.at = p]
      \/ seen /\ look' = [look EXCEPT !.at = p, !.procs = Append(look.procs, found)]
      \/ seen /\ look' = [look EXCEPT !.at = p, !.visible = FALSE]
  BY DEF NextProcess
<1> HIDE DEF found, seen
<1>6. CASE ~seen /\ look' = [look EXCEPT !.at = p]
  BY <1>1, <1>2, <1>3, <1>6 DEF seen
<1>7. CASE seen /\ look' = [look EXCEPT !.at = p, !.procs = Append(look.procs, found)]
  <2>1. Append(look.procs, found) \in Seq(LockProcs)
    BY <1>2, <1>4, <1>7
  <2>2. look'.at = p /\ look'.procs = Append(look.procs, found) /\ look'.visible = look.visible
    BY <1>2, <1>7
  <2>0. look' = [at |-> p, visible |-> look.visible, procs |-> Append(look.procs, found)]
    BY <1>2, <1>7
  <2>3. look' \in [at : 0..MaxPid, visible : BOOLEAN, procs : Seq(LockProcs)]
    BY <1>2, <1>3, <2>0, <2>1
  <2>4. found.comm = proc[p].comm
    BY DEF found
  <2>5. /\ Len(look'.procs) = Len(look.procs) + 1
        /\ look'.procs[Len(look.procs) + 1] = found
        /\ \A i \in DOMAIN look.procs : look'.procs[i] = look.procs[i]
    BY <1>2, <1>4, <1>7, <2>2
  <2> QED
    BY <1>1, <2>2, <2>3, <2>4, <2>5
<1>8. CASE seen /\ look' = [look EXCEPT !.at = p, !.visible = FALSE]
  BY <1>1, <1>2, <1>3, <1>8
<1> QED
  BY <1>5, <1>6, <1>7, <1>8

LEMMA LockTypesKept ==
  ASSUME LockConstantsOK, LockTyped, LookKnows, [LockNext]_lockvars
  PROVE  LockTyped'
<1> USE DEF LockTyped, LockTypeOK, Lives, Pids, Nobody, Looking
<1>1. ASSUME NEW p \in Pids, Start(p) PROVE LockTyped'
  <2>1. PICK n \in ProgramNames, o \in BOOLEAN : proc' = [proc EXCEPT ![p] = [comm |-> n, own |-> o]]
    BY <1>1 DEF Start
  <2>2. proc'[p] \in [comm : ProgramNames, own : BOOLEAN]
    BY <2>1
  <2>3. holder # p
    BY <1>1 DEF Start
  <2>4. \A q \in Pids : q # p => proc'[q] = proc[q]
    BY <2>1
  <2> QED
    BY <1>1, <2>1, <2>2, <2>3, <2>4 DEF Start
<1>2. ASSUME NEW p \in Pids, Take(p) PROVE LockTyped'
  BY <1>2 DEF Take, TakesLock
<1>3. ASSUME NEW p \in Pids, Release(p) PROVE LockTyped'
  BY <1>3 DEF Release
<1>4. ASSUME NEW p \in Pids, Quits(p) PROVE LockTyped'
  <2>1. \A q \in Pids : q # p => proc'[q] = proc[q]
    BY <1>4 DEF Quits
  <2>2. proc'[p] = Gone /\ DOMAIN proc' = Pids
    BY <1>4 DEF Quits
  <2> QED
    BY <1>4, <2>1, <2>2 DEF Quits
<1>5. CASE RemoveStale
  BY <1>5 DEF RemoveStale
<1>p. ASSUME Probe PROVE LockTyped'
  <2>1. look' \in [at : 0..MaxPid, visible : BOOLEAN, procs : Seq(LockProcs)]
    BY <1>p, EmptySeq DEF Probe, LockConstantsOK
  <2> QED
    BY <1>p, <2>1 DEF Probe, system
<1>s. ASSUME Says(Free) PROVE LockTyped'
  BY <1>s DEF Says, system, Verdicts
<1>6. CASE recheck_db_lock
  BY <1>6, <1>p, <1>s DEF recheck_db_lock
<1>7. CASE probe_db_lock
  BY <1>7, <1>p, <1>s DEF probe_db_lock
<1>8. CASE ProbeFails
  BY <1>8 DEF ProbeFails, Says, system, Verdicts
<1>9. CASE NextProcess
  <2>1. look' \in [at : 0..MaxPid, visible : BOOLEAN, procs : Seq(LockProcs)]
    BY <1>9, LookStep
  <2> QED
    BY <1>9, <2>1 DEF NextProcess, system
<1>10. CASE Conclude
  <2>1. says' \in Verdicts
    BY <1>10, VerdictType DEF Conclude, LookKnows
  <2> QED
    BY <1>10, <2>1 DEF Conclude, system
<1>11. CASE UNCHANGED lockvars
  BY <1>11 DEF lockvars, system
<1> QED
  BY <1>1, <1>2, <1>3, <1>4, <1>5, <1>6, <1>7, <1>8, <1>9, <1>10, <1>11 DEF LockNext

LEMMA LookKnowledgeKept ==
  ASSUME LockConstantsOK, LockTyped, LookKnows, [LockNext]_lockvars
  PROVE  LookKnows'
<1> USE DEF LookKnows, Nobody, Pids, Looking
<1>t. /\ holder \in Pids \cup {0} /\ since \in {0, holder}
      /\ holder # 0 => holder \in DOMAIN proc /\ Lives(holder) /\ proc[holder].comm \in TakesLock
      /\ look # NoLook => look \in [at : 0..MaxPid, visible : BOOLEAN, procs : Seq(LockProcs)]
      /\ hidden \in BOOLEAN
  BY DEF LockTyped, LockTypeOK
<1>1. ASSUME NEW p \in Pids, Start(p) PROVE LookKnows'
  BY <1>1 DEF Start
<1>2. ASSUME NEW p \in Pids, Take(p) PROVE LookKnows'
  BY <1>2 DEF Take
<1>3. ASSUME NEW p \in Pids, Release(p) PROVE LookKnows'
  BY <1>3 DEF Release
<1>4. ASSUME NEW p \in Pids, Quits(p) PROVE LookKnows'
  BY <1>4 DEF Quits
<1>5. CASE RemoveStale
  BY <1>5 DEF RemoveStale
<1>p. ASSUME Probe PROVE LookKnows'
  <2>1. look' # NoLook /\ look'.at = 0 /\ look'.visible = ~hidden
    BY <1>p DEF Probe, NoLook
  <2>2. hidden' = hidden /\ since' = holder
    BY <1>p DEF Probe, system
  <2>3. ~(since' # 0 /\ since' <= look'.at)
    BY <1>t, <2>1, <2>2
  <2> QED
    BY <1>t, <2>1, <2>2, <2>3
<1>6. CASE recheck_db_lock
  BY <1>6, <1>p DEF recheck_db_lock, Says, system
<1>7. CASE probe_db_lock
  BY <1>7, <1>p DEF probe_db_lock, Says, system
<1>8. CASE ProbeFails
  BY <1>8 DEF ProbeFails, Says, system
<1>9. CASE NextProcess
  <2>1. since' = since /\ hidden' = hidden
    BY <1>9 DEF NextProcess, system
  <2>2. look # NoLook /\ look'.visible => look.visible
    BY <1>9, LookStep
  <2>3. look' # NoLook
    BY <1>9, <1>t, LookStep DEF NoLook
  <2>4. ASSUME since # 0, since <= look'.at
        PROVE  ~look'.visible \/ \E i \in DOMAIN look'.procs : look'.procs[i].comm \in TakesLock
    <3>1. since <= look.at \/ since = look.at + 1
      BY <1>9, <1>t, <2>4, LookStep
    <3>2. CASE since <= look.at
      BY <1>9, <1>t, <2>4, <3>2, LookStep
    <3>3. CASE since = look.at + 1
      BY <1>9, <1>t, <2>4, <3>3, LookStep
    <3> QED
      BY <3>1, <3>2, <3>3
  <2> QED
    BY <1>9, LookStep, <2>1, <2>2, <2>3, <2>4
<1>10. CASE Conclude
  BY <1>10 DEF Conclude, system
<1>11. CASE UNCHANGED lockvars
  BY <1>11 DEF lockvars, system
<1> QED
  BY <1>1, <1>2, <1>3, <1>4, <1>5, <1>6, <1>7, <1>8, <1>9, <1>10, <1>11 DEF LockNext

LEMMA LockStarts ==
  ASSUME LockInit
  PROVE  LockTyped /\ LookKnows
<1>1. /\ hidden \in BOOLEAN /\ locked = FALSE /\ holder = Nobody /\ since = Nobody
      /\ look = NoLook
  BY DEF LockInit
<1>2. DOMAIN proc = Pids /\ \A p \in Pids : ~Lives(p)
  BY DEF LockInit, Lives
<1>3. says \in Verdicts
  BY DEF LockInit, Verdicts
<1> QED
  BY <1>1, <1>2, <1>3 DEF LockTyped, LookKnows, LockTypeOK, Looking

\* What DbLock's type invariant says of the lock and its watch holds of every
\* behaviour, whatever comes, goes and is hidden (analyzer/dblock.rs, scanner).
THEOREM LockTypes == ASSUME LockConstantsOK PROVE LockSpec => []LockTypeOK
<1>1. LockInit => LockTyped /\ LookKnows
  BY LockStarts
<1>2. LockTyped /\ LookKnows /\ [LockNext]_lockvars => (LockTyped /\ LookKnows)'
  BY LockTypesKept, LookKnowledgeKept
<1>3. LockTyped => LockTypeOK
  BY DEF LockTyped
<1> QED
  BY <1>1, <1>2, <1>3, PTL DEF LockSpec

\* "A failed look must not come out as likely stale": a lock one process held
\* from the first stat of a look to its last is never called stale, however
\* much of /proc is hidden, unreadable or gone (probe_db_lock_at, verdict).
THEOREM HeldIsSeen == ASSUME LockConstantsOK PROVE LockSpec => LockIsTrue
<1>1. LockInit => LockTyped /\ LookKnows
  BY LockStarts
<1>2. LockTyped /\ LookKnows /\ [LockNext]_lockvars => (LockTyped /\ LookKnows)'
  BY LockTypesKept, LookKnowledgeKept
<1>3. LockTyped /\ LookKnows =>
        [Conclude /\ since # Nobody => says'.is \in {"held", "unknown"}]_lockvars
  <2> SUFFICES ASSUME LockTyped, LookKnows, Conclude, since # Nobody
               PROVE  says'.is \in {"held", "unknown"}
    OBVIOUS
  <2>1. locked = TRUE /\ since \in Pids
    BY DEF LockTyped, LockTypeOK
  <2>2. /\ look.visible \in BOOLEAN /\ look.procs \in Seq(LockProcs)
        /\ look # NoLook /\ look.at = MaxPid
    BY DEF LockTyped, LockTypeOK, Looking, Conclude
  <2>3. ~look.visible \/ \E i \in DOMAIN look.procs : look.procs[i].comm \in TakesLock
    BY <2>1, <2>2 DEF LookKnows, Pids
  <2>4. verdict(TRUE, look.visible, look.procs).is \in {"held", "unknown"}
    BY <2>2, <2>3, VerdictOfHeld
  <2> QED
    BY <2>1, <2>4 DEF Conclude
<1> QED
  BY <1>1, <1>2, <1>3, PTL DEF LockSpec, LockIsTrue

-----------------------------------------------------------------------------
(* A command of a scan (CommandRunner).                                    *)

\* What the program has done: the first of its program.
Did == Len(program) - Len(does)
Printed(k, p) == Cardinality({i \in 1..k : program[i] = p})

CommandTyped ==
  /\ CommandTypeOK
  /\ program \in Seq(Steps)
  /\ does \in Seq(Steps)
  /\ timeout \in Nat

\* What a program has still to do is the rest of it, and what it printed so far
\* is in its pipe or with the thread that drains it.
NothingMissing ==
  /\ Did \in 0..Len(program)
  /\ \A i \in DOMAIN does : does[i] = program[Did + i]
  /\ \A p \in Pipes : drained[p] + pipe[p] = Printed(Did, p)

\* What each part of the runner knows of the others: a thread that is through
\* left an empty pipe of a program that is gone; the caller goes on with what
\* the program has done, or the clock, behind it.
WhoIsOver ==
  /\ process = "exited" => does = <<>>
  /\ caller = "spawning" => process = "none"
  /\ caller = "polling" => process \in {"alive", "exited"}
  /\ caller = "joining" => process = "reaped" /\ does = <<>>
  /\ caller = "returned" <=> result # "none"
  /\ result # "not run" =>
       \A p \in Pipes \ reading : pipe[p] = 0 /\ process \in {"exited", "reaped"}
  /\ result = "not run" => process = "none"
  /\ result \in {"output", "timed out"} => process = "reaped"
  /\ result = "output" => does = <<>> /\ \A p \in Pipes : pipe[p] = 0
  /\ result = "timed out" => timeout # 0 /\ elapsed > timeout

CommandInv == CommandTyped /\ NothingMissing /\ WhoIsOver

LEMMA PrintedMore ==
  ASSUME program \in Seq(Steps), NEW k \in Nat, NEW p
  PROVE  /\ Printed(k, p) \in Nat
         /\ Printed(k + 1, p) = IF program[k + 1] = p THEN Printed(k, p) + 1 ELSE Printed(k, p)
         /\ Printed(0, p) = 0
<1> DEFINE S(n) == {i \in 1..n : program[i] = p}
<1>1. IsFiniteSet(1..k)
  BY FS_Interval
<1>2. IsFiniteSet(S(k))
  BY <1>1, FS_Subset
<1>3. S(k + 1) = IF program[k + 1] = p THEN S(k) \cup {k + 1} ELSE S(k)
  OBVIOUS
<1>4. k + 1 \notin S(k)
  OBVIOUS
<1>5. Cardinality(S(k)) \in Nat
  BY <1>2, FS_CardinalityType
<1>6. Cardinality(S(k) \cup {k + 1}) = Cardinality(S(k)) + 1
  BY <1>2, <1>4, FS_AddElement
<1>7. S(0) = {}
  OBVIOUS
<1>8. Cardinality(S(0)) = 0
  BY <1>7, FS_EmptySet
<1> QED
  BY <1>3, <1>5, <1>6, <1>8 DEF Printed

\* A step of the program: one more done.
LEMMA DoesNext ==
  ASSUME CommandTyped, NothingMissing, does # <<>>, does' = Tail(does), program' = program
  PROVE  /\ does' \in Seq(Steps)
         /\ Did' = Did + 1 /\ Did' \in 0..Len(program) /\ Did \in Nat
         /\ \A i \in DOMAIN does' : does'[i] = program[Did' + i]
         /\ Head(does) = program[Did + 1]
<1>1. does \in Seq(Steps) /\ program \in Seq(Steps)
  BY DEF CommandTyped
<1>2. /\ does' \in Seq(Steps)
      /\ Len(does') = Len(does) - 1 /\ Len(does) \in Nat /\ Len(program) \in Nat /\ Len(does) > 0
      /\ \A i \in 1..Len(does') : does'[i] = does[i + 1]
  BY <1>1, HeadTailProperties
<1>3. Did' = Did + 1 /\ Did \in Nat /\ Did' \in 0..Len(program)
  BY <1>2 DEF Did, NothingMissing
<1>4. \A i \in 1..Len(does) : does[i] = program[Did + i]
  BY <1>1 DEF NothingMissing
<1>5. \A i \in 1..Len(does') : does'[i] = program[Did' + i]
  <2> TAKE i \in 1..Len(does')
  <2>1. i + 1 \in 1..Len(does) /\ does'[i] = does[i + 1]
    BY <1>2
  <2>2. does[i + 1] = program[Did + (i + 1)]
    BY <1>4, <2>1
  <2>3. Did + (i + 1) = Did' + i
    BY <1>2, <1>3
  <2> QED
    BY <2>1, <2>2, <2>3
<1>6. DOMAIN does' = 1..Len(does')
  BY <1>2
<1>7. Head(does) = does[1] /\ 1 \in 1..Len(does)
  BY <1>1, <1>2
<1> QED
  BY <1>2, <1>3, <1>4, <1>5, <1>6, <1>7

LEMMA CommandStarts == ConstantsOK /\ CommandInit => CommandInv
<1> SUFFICES ASSUME ConstantsOK, CommandInit PROVE CommandInv
  OBVIOUS
<1>1. program \in Seq(Steps) /\ does = program /\ timeout \in Nat
  BY DEF ConstantsOK, CommandInit, Pipes
<1>2. Did = 0 /\ Len(program) \in Nat
  BY <1>1 DEF Did
<1>3. \A p \in Pipes : drained[p] = 0 /\ pipe[p] = 0
  BY DEF CommandInit
<1>4. NothingMissing
  <2>1. \A p \in Pipes : Printed(0, p) = 0
    BY <1>1, PrintedMore
  <2>2. \A i \in DOMAIN does : Did + i = i
    BY <1>1, <1>2
  <2> QED
    BY <1>1, <1>2, <1>3, <2>1, <2>2 DEF NothingMissing
<1>5. CommandTyped
  <2>1. /\ pipe \in [Pipes -> 0..Room] /\ drained \in [Pipes -> Nat]
        /\ elapsed \in 0..(timeout + 1)
    <3>1. Room \in Nat /\ 0 \in 0..Room /\ 0 \in 0..(timeout + 1)
      BY <1>1 DEF ConstantsOK
    <3> QED
      BY <3>1 DEF CommandInit
  <2>2. /\ program \in Programs /\ timeout \in Timeouts /\ reading \subseteq Pipes
        /\ process = "none" /\ heir = FALSE /\ caller = "spawning" /\ result = "none"
    BY DEF CommandInit
  <2> QED
    BY <1>1, <2>1, <2>2 DEF CommandTyped, CommandTypeOK
<1>6. WhoIsOver
  BY DEF WhoIsOver, CommandInit
<1> QED
  BY <1>4, <1>5, <1>6 DEF CommandInv

LEMMA PipesAreNat == CommandTypeOK => pipe \in [Pipes -> Nat]
<1>1. \A x \in 0..Room : x \in Nat
  OBVIOUS
<1> QED
  BY <1>1 DEF CommandTypeOK

LEMMA CommandTypesKept ==
  ASSUME ConstantsOK, CommandInv, [CommandNext]_commandvars
  PROVE  CommandTyped'
<1>0. CommandTyped /\ NothingMissing
  BY DEF CommandInv
<1>t. /\ timeout \in Nat /\ Room \in Nat
      /\ pipe \in [Pipes -> 0..Room] /\ drained \in [Pipes -> Nat]
  BY <1>0 DEF CommandTyped, CommandTypeOK, ConstantsOK
<1>e. elapsed \in 0..(timeout + 1)
  BY <1>0 DEF CommandTyped, CommandTypeOK
<1>r. Room \in Nat
  BY <1>t
<1> USE DEF CommandTyped, CommandTypeOK, programvars, callvars
<1>1. CASE Write
  <2>1. /\ does # <<>> /\ Head(does) \in Pipes /\ pipe[Head(does)] < Room /\ does' = Tail(does)
        /\ pipe' = [pipe EXCEPT ![Head(does)] = pipe[Head(does)] + 1] /\ program' = program
    BY <1>1 DEF Write
  <2>2. pipe' \in [Pipes -> 0..Room]
    <3>1. pipe[Head(does)] \in 0..Room
      BY <1>t, <2>1
    <3>2. pipe[Head(does)] + 1 \in 0..Room
      <4>1. pipe[Head(does)] < Room
        BY <2>1
      <4> QED
        BY <1>r, <3>1, <4>1
    <3> QED
      BY <1>t, <2>1, <3>2
  <2>3. does' \in Seq(Steps)
    BY <1>0, <2>1, DoesNext
  <2> QED
    BY <1>0, <1>1, <2>2, <2>3 DEF Write
<1>2. CASE Fork
  <2>1. does' \in Seq(Steps)
    BY <1>0, <1>2, DoesNext DEF Fork
  <2> QED
    BY <1>0, <1>2, <2>1 DEF Fork
<1>3. CASE Exit
  BY <1>0, <1>3 DEF Exit
<1>4. CASE HeirEnds
  BY <1>0, <1>4 DEF HeirEnds
<1>5. ASSUME NEW p \in Pipes, DrainPipe(p) PROVE CommandTyped'
  <2>1. /\ pipe[p] > 0 /\ pipe' = [pipe EXCEPT ![p] = pipe[p] - 1]
        /\ drained' = [drained EXCEPT ![p] = drained[p] + 1]
    BY <1>5 DEF DrainPipe
  <2>2. pipe' \in [Pipes -> 0..Room] /\ drained' \in [Pipes -> Nat]
    <3>1. pipe[p] \in 0..Room /\ drained[p] \in Nat
      BY <1>t, <1>5
    <3>2. pipe[p] - 1 \in 0..Room /\ drained[p] + 1 \in Nat
      <4>1. pipe[p] > 0
        BY <2>1
      <4> QED
        BY <1>r, <3>1, <4>1
    <3> QED
      BY <1>t, <2>1, <3>2
  <2> QED
    BY <1>0, <1>5, <2>2 DEF DrainPipe
<1>6. ASSUME NEW p \in Pipes, ReachEnd(p) PROVE CommandTyped'
  BY <1>0, <1>6 DEF ReachEnd
<1>7. CASE Spawn \/ SpawnFails \/ SeeExit \/ Stop \/ Join
  BY <1>0, <1>7 DEF Spawn, SpawnFails, SeeExit, Stop, Join
<1>8. CASE Tick
  <2>1. elapsed <= timeout /\ elapsed' = elapsed + 1 /\ timeout' = timeout
    BY <1>8 DEF Tick
  <2>2. elapsed' \in 0..(timeout' + 1)
    <3>0. timeout \in Nat
      BY <1>t
    <3>1. elapsed \in Nat /\ timeout \in Nat
      BY <1>e, <3>0
    <3> QED
      BY <2>1, <3>1
  <2> QED
    BY <1>0, <1>8, <2>2 DEF Tick
<1>9. CASE UNCHANGED commandvars
  BY <1>0, <1>9 DEF commandvars
<1> QED
  BY <1>1, <1>2, <1>3, <1>4, <1>5, <1>6, <1>7, <1>8, <1>9
  DEF CommandNext, Threads, Caller

LEMMA NothingMissingKept ==
  ASSUME CommandInv, [CommandNext]_commandvars
  PROVE  NothingMissing'
<1>0. CommandTyped /\ NothingMissing
  BY DEF CommandInv
<1>t. /\ pipe \in [Pipes -> Nat] /\ drained \in [Pipes -> Nat]
      /\ program \in Seq(Steps)
  BY <1>0, PipesAreNat DEF CommandTyped, CommandTypeOK
<1>u. \A p \in Pipes : drained[p] + pipe[p] = Printed(Did, p)
  BY <1>0 DEF NothingMissing
<1>1. CASE Write
  <2> DEFINE h == Head(does)
  <2>1. /\ does # <<>> /\ h \in Pipes /\ does' = Tail(does)
        /\ pipe' = [pipe EXCEPT ![h] = pipe[h] + 1] /\ program' = program /\ drained' = drained
    BY <1>1 DEF Write, callvars
  <2>2. /\ Did' = Did + 1 /\ Did' \in 0..Len(program) /\ Did \in Nat
        /\ \A i \in DOMAIN does' : does'[i] = program[Did' + i]
        /\ h = program[Did + 1]
    BY <1>0, <2>1, DoesNext
  <2>3. \A p \in Pipes :
          Printed(Did + 1, p) = IF program[Did + 1] = p THEN Printed(Did, p) + 1 ELSE Printed(Did, p)
    BY <1>t, <2>2, PrintedMore
  <2>4. \A p \in Pipes : pipe'[p] = IF p = h THEN pipe[p] + 1 ELSE pipe[p]
    BY <1>t, <2>1
  <2>5. \A p \in Pipes : drained'[p] + pipe'[p] = Printed(Did + 1, p)
    <3> TAKE p \in Pipes
    <3>1. drained[p] \in Nat /\ pipe[p] \in Nat /\ drained[p] + pipe[p] = Printed(Did, p) /\ drained'[p] = drained[p]
      BY <1>t, <1>u, <2>1
    <3>2. CASE p = h
      BY <2>2, <2>3, <2>4, <3>1, <3>2
    <3>3. CASE p # h
      BY <2>2, <2>3, <2>4, <3>1, <3>3
    <3> QED
      BY <3>2, <3>3
  <2>6. \A p \in Pipes : Printed(Did, p)' = Printed(Did + 1, p)
    BY <2>1, <2>2 DEF Printed
  <2> QED
    BY <2>1, <2>2, <2>5, <2>6 DEF NothingMissing
<1>2. CASE Fork
  <2>1. /\ does # <<>> /\ Head(does) = "fork" /\ does' = Tail(does)
        /\ pipe' = pipe /\ program' = program /\ drained' = drained
    BY <1>2 DEF Fork, callvars
  <2>2. /\ Did' = Did + 1 /\ Did' \in 0..Len(program) /\ Did \in Nat
        /\ \A i \in DOMAIN does' : does'[i] = program[Did' + i]
        /\ program[Did + 1] = "fork"
    BY <1>0, <2>1, DoesNext
  <2>3. \A p \in Pipes : Printed(Did + 1, p) = Printed(Did, p)
    BY <1>t, <2>2, PrintedMore DEF Pipes
  <2>4. \A p \in Pipes : Printed(Did, p)' = Printed(Did + 1, p)
    BY <2>1, <2>2 DEF Printed
  <2> QED
    BY <1>u, <2>1, <2>2, <2>3, <2>4 DEF NothingMissing
<1>3. ASSUME NEW p \in Pipes, DrainPipe(p) PROVE NothingMissing'
  <2>1. /\ pipe[p] > 0 /\ pipe' = [pipe EXCEPT ![p] = pipe[p] - 1]
        /\ drained' = [drained EXCEPT ![p] = drained[p] + 1]
        /\ program' = program /\ does' = does
    BY <1>3 DEF DrainPipe, callvars, programvars
  <2>2. \A q \in Pipes : drained'[q] + pipe'[q] = drained[q] + pipe[q]
    BY <1>t, <2>1
  <2>3. Did' = Did /\ \A q \in Pipes : Printed(Did, q)' = Printed(Did, q)
    BY <2>1 DEF Did, Printed
  <2> QED
    BY <1>0, <1>u, <2>1, <2>2, <2>3 DEF NothingMissing
<1>4. ASSUME UNCHANGED <<program, does, pipe, drained>> PROVE NothingMissing'
  BY <1>0, <1>4 DEF NothingMissing, Did, Printed
<1>5. CASE Exit \/ HeirEnds \/ Caller \/ Tick
  BY <1>4, <1>5 DEF Exit, HeirEnds, Caller, Tick, Spawn,
     SpawnFails, SeeExit, Stop, Join, callvars, programvars
<1>6. ASSUME NEW p \in Pipes, ReachEnd(p) PROVE NothingMissing'
  BY <1>4, <1>6 DEF ReachEnd, callvars, programvars
<1>7. CASE UNCHANGED commandvars
  BY <1>4, <1>7 DEF commandvars, callvars, programvars
<1> QED
  BY <1>1, <1>2, <1>3, <1>5, <1>6, <1>7 DEF CommandNext, Threads

LEMMA WhoIsOverKept ==
  ASSUME CommandInv, [CommandNext]_commandvars
  PROVE  WhoIsOver'
<1>0. WhoIsOver /\ CommandTypeOK
  BY DEF CommandInv, CommandTyped
<1>t. /\ pipe \in [Pipes -> Nat]
      /\ process \in {"none", "alive", "exited", "reaped"}
      /\ caller \in {"spawning", "polling", "joining", "returned"}
      /\ result \in {"none", "not run", "timed out", "output"}
      /\ timeout \in Nat /\ elapsed \in Nat
  <2>1. timeout \in Nat /\ elapsed \in 0..(timeout + 1)
    BY <1>0 DEF CommandInv, CommandTyped, CommandTypeOK
  <2>2. elapsed \in Nat
    BY <2>1
  <2> QED
    BY <1>0, <2>1, <2>2, PipesAreNat DEF CommandTypeOK
<1> USE DEF WhoIsOver, callvars, programvars
<1>1. CASE Write
  <2>1. process = "alive" /\ process' = process
    BY <1>1 DEF Write
  <2> QED
    BY <1>0, <1>1, <1>t, <2>1 DEF Write
<1>2. CASE Fork
  BY <1>0, <1>2, <1>t DEF Fork
<1>3. CASE Exit
  BY <1>0, <1>3, <1>t DEF Exit
<1>4. CASE HeirEnds
  BY <1>0, <1>4, <1>t DEF HeirEnds
<1>5. ASSUME NEW p \in Pipes, DrainPipe(p) PROVE WhoIsOver'
  <2>1. \A q \in Pipes : q # p => pipe'[q] = pipe[q]
    BY <1>5, <1>t DEF DrainPipe
  <2>2. p \in reading /\ pipe[p] > 0
    BY <1>5 DEF DrainPipe
  <2>3. result # "output"
    <3>0. pipe[p] \in Nat /\ pipe[p] > 0
      BY <1>t, <1>5, <2>2
    <3>1. pipe[p] # 0
      BY <3>0
    <3> QED
      BY <1>0, <1>5, <3>1
  <2>4. UNCHANGED <<program, timeout, does, process, heir, reading, elapsed, caller, result>>
    BY <1>5 DEF DrainPipe
  <2> QED
    BY <1>0, <1>t, <2>1, <2>2, <2>3, <2>4
<1>6. ASSUME NEW p \in Pipes, ReachEnd(p) PROVE WhoIsOver'
  BY <1>0, <1>6, <1>t DEF ReachEnd
<1>7. CASE Spawn
  BY <1>0, <1>7, <1>t DEF Spawn
<1>8. CASE SpawnFails
  BY <1>0, <1>8, <1>t DEF SpawnFails
<1>9. CASE SeeExit
  BY <1>0, <1>9, <1>t DEF SeeExit
<1>10. CASE Stop
  BY <1>0, <1>10, <1>t DEF Stop
<1>11. CASE Join
  BY <1>0, <1>11, <1>t DEF Join
<1>12. CASE Tick
  BY <1>0, <1>12, <1>t DEF Tick
<1>13. CASE UNCHANGED commandvars
  BY <1>0, <1>13 DEF commandvars
<1> QED
  BY <1>1, <1>2, <1>3, <1>4, <1>5, <1>6, <1>7, <1>8, <1>9, <1>10, <1>11, <1>12, <1>13
  DEF CommandNext, Threads, Caller

LEMMA CommandInvariant == ASSUME ConstantsOK PROVE CommandSpec => []CommandInv
<1>1. CommandInit => CommandInv
  BY CommandStarts
<1>2. CommandInv /\ [CommandNext]_commandvars => CommandInv'
  BY CommandTypesKept, NothingMissingKept, WhoIsOverKept DEF CommandInv
<1> QED
  BY <1>1, <1>2, PTL DEF CommandSpec

\* Every variable of the runner keeps its type, for any programs, timeouts and
\* pipes: no pipe holds more than it can, the clock stops at the timeout.
THEOREM CommandTypes == ASSUME ConstantsOK PROVE CommandSpec => []CommandTypeOK
<1>1. CommandInv => CommandTypeOK
  BY DEF CommandInv, CommandTyped
<1> QED
  BY <1>1, CommandInvariant, PTL

\* An output is the whole of what the program printed, on either pipe, however
\* little a pipe holds and whoever else keeps it open; a program is called too
\* slow only when it was (SystemCommandRunner::run, providers/mod.rs).
THEOREM OutputIsWhole == ASSUME ConstantsOK PROVE CommandSpec => []AnswerIsWhole
<1>1. CommandInv => AnswerIsWhole
  <2> SUFFICES ASSUME CommandInv PROVE AnswerIsWhole
    OBVIOUS
  <2>0. CommandTyped /\ NothingMissing /\ WhoIsOver
    BY DEF CommandInv
  <2>1. ASSUME result = "output" PROVE does = <<>> /\ drained = Count(program)
    <3>1. does = <<>> /\ \A p \in Pipes : pipe[p] = 0
      BY <2>0, <2>1 DEF WhoIsOver
    <3>2. program \in Seq(Steps) /\ drained \in [Pipes -> Nat]
      BY <2>0 DEF CommandTyped, CommandTypeOK
    <3>3. Did = Len(program) /\ DOMAIN program = 1..Len(program)
      BY <3>1, <3>2 DEF Did
    <3>4. \A p \in Pipes : drained[p] = Printed(Len(program), p)
      BY <2>0, <3>1, <3>2, <3>3 DEF NothingMissing
    <3> QED
      BY <3>1, <3>2, <3>3, <3>4 DEF Count, Printed
  <2>2. result = "timed out" => timeout # 0 /\ elapsed > timeout /\ process = "reaped"
    BY <2>0 DEF WhoIsOver
  <2>3. caller = "returned" /\ result # "not run" => process = "reaped"
    BY <2>0 DEF WhoIsOver, CommandTyped, CommandTypeOK
  <2> QED
    BY <2>1, <2>2, <2>3 DEF AnswerIsWhole
<1> QED
  BY <1>1, CommandInvariant, PTL

-----------------------------------------------------------------------------
(* The rows of the files being downloaded (Downloads): however pacman      *)
(* reshuffles its rows and whichever looks the view gets at them.  Rows    *)
(* are picked, sorted and thinned by places arranged in an order, so one   *)
(* lemma about Arranged (each place once, by its rank) carries them all.   *)
(* FileInv adds to what the rows promise that a row that is gone is of a   *)
(* file that is finished, that the row of a started file is never queued,  *)
(* and that pacman counts right.                                           *)

\* t is the elements of s at the places in I, in the order R.
Arranges(t, s, I, R) ==
  /\ Len(t) = Cardinality(I) /\ DOMAIN t = 1..Len(t) /\ Len(t) \in Nat
  /\ \A k \in DOMAIN t : \E i \in I : t[k] = s[i]
  /\ \A i \in I : \E k \in DOMAIN t : t[k] = s[i]
  /\ \A a, b \in DOMAIN t : a < b => \E i, j \in I : <<i, j>> \in R /\ t[a] = s[i] /\ t[b] = s[j]

Orders(R, I) ==
  /\ \A i \in I : <<i, i>> \notin R
  /\ \A i, j, k \in I : <<i, j>> \in R /\ <<j, k>> \in R => <<i, k>> \in R
  /\ \A i, j \in I : i # j => <<i, j>> \in R \/ <<j, i>> \in R

\* Arranging takes each of the elements once, in the order given.
LEMMA ArrangedInOrder ==
  ASSUME NEW s, NEW I, NEW R, IsFiniteSet(I), Orders(R, I)
  PROVE  Arranges(Arranged(s, I, R), s, I, R)
<1> DEFINE n == Cardinality(I)
           Before(i) == {j \in I : <<j, i>> \in R}
           rank == [i \in I |-> Cardinality(Before(i)) + 1]
           place == [k \in 1..n |-> CHOOSE i \in I : Cardinality(Before(i)) = k - 1]
           t == Arranged(s, I, R)
<1>1. n \in Nat
  BY FS_CardinalityType
<1>2. ASSUME NEW i \in I
      PROVE  IsFiniteSet(Before(i)) /\ Cardinality(Before(i)) \in 0..(n - 1)
  <2>1. IsFiniteSet(I \ {i}) /\ Cardinality(I \ {i}) = n - 1
    BY FS_RemoveElement
  <2>2. Before(i) \in SUBSET (I \ {i})
    BY DEF Orders
  <2>3. IsFiniteSet(Before(i)) /\ Cardinality(Before(i)) <= n - 1
    <3> HIDE DEF Before, n
    <3>1. IsFiniteSet(Before(i)) /\ Cardinality(Before(i)) <= Cardinality(I \ {i})
      BY <2>1, <2>2, FS_Subset
    <3> QED
      BY <2>1, <3>1
  <2>4. Cardinality(Before(i)) \in Nat
    BY <2>3, FS_CardinalityType
  <2> QED
    BY <1>1, <2>3, <2>4
<1>3. ASSUME NEW i \in I, NEW j \in I, <<i, j>> \in R
      PROVE  Cardinality(Before(i)) < Cardinality(Before(j))
  <2>1. Before(i) \in SUBSET Before(j)
    BY <1>3 DEF Orders
  <2>2. i \in Before(j) /\ i \notin Before(i)
    BY <1>3 DEF Orders
  <2>3. /\ Cardinality(Before(i)) <= Cardinality(Before(j))
        /\ Cardinality(Before(j)) = Cardinality(Before(i)) => Before(j) = Before(i)
    BY <1>2, <2>1, FS_Subset
  <2>4. Cardinality(Before(i)) # Cardinality(Before(j))
    BY <2>2, <2>3
  <2>5. Cardinality(Before(i)) \in Int /\ Cardinality(Before(j)) \in Int
    BY <1>1, <1>2
  <2> HIDE DEF Before
  <2> QED
    BY <2>3, <2>4, <2>5
<1>4. rank \in Injection(I, 1..n)
  <2>0. \A i \in I : Cardinality(Before(i)) \in 0..(n - 1) /\ rank[i] = Cardinality(Before(i)) + 1
    BY <1>2
  <2>1. \A i \in I : rank[i] \in 1..n
    <3> HIDE DEF Before, rank, n
    <3> QED
      BY <1>1, <2>0
  <2>2. \A i, j \in I : rank[i] = rank[j] => i = j
    <3> SUFFICES ASSUME NEW i \in I, NEW j \in I, rank[i] = rank[j], i # j PROVE FALSE
      OBVIOUS
    <3>1. Cardinality(Before(i)) < Cardinality(Before(j))
            \/ Cardinality(Before(j)) < Cardinality(Before(i))
      BY <1>3 DEF Orders
    <3>2. Cardinality(Before(i)) \in Int /\ Cardinality(Before(j)) \in Int
      <4>1. Cardinality(Before(i)) \in 0..(n - 1) /\ Cardinality(Before(j)) \in 0..(n - 1)
        BY <2>0
      <4> HIDE DEF Before, n
      <4> QED
        BY <1>1, <4>1
    <3>3. Cardinality(Before(i)) + 1 = Cardinality(Before(j)) + 1
      <4>1. rank[i] = Cardinality(Before(i)) + 1 /\ rank[j] = Cardinality(Before(j)) + 1
        BY <2>0
      <4> HIDE DEF Before, rank
      <4> QED
        BY <4>1
    <3> HIDE DEF Before, rank, n
    <3> QED
      BY <3>1, <3>2, <3>3
  <2>3. rank \in [I -> 1..n]
    BY <2>1
  <2> HIDE DEF rank
  <2> QED
    BY <2>2, <2>3 DEF Injection, IsInjective
<1>5. IsFiniteSet(1..n) /\ Cardinality(1..n) = n
  BY <1>1, FS_Interval
<1>6. rank \in Surjection(I, 1..n)
  BY <1>4, <1>5, FS_Injection
<1>7. \A k \in 1..n : \E i \in I : Cardinality(Before(i)) = k - 1
  <2> SUFFICES ASSUME NEW k \in 1..n PROVE \E i \in I : Cardinality(Before(i)) = k - 1
    OBVIOUS
  <2>1. PICK i \in I : rank[i] = k
    <3> HIDE DEF rank
    <3> QED
      BY <1>6 DEF Surjection
  <2>2. Cardinality(Before(i)) + 1 = k
    BY <2>1
  <2>3. Cardinality(Before(i)) \in 0..(n - 1)
    BY <1>2
  <2>4. Cardinality(Before(i)) = k - 1
    <3> HIDE DEF Before, n
    <3> QED
      BY <1>1, <2>2, <2>3
  <2> QED
    BY <2>4
<1>8. \A k \in 1..n : place[k] \in I /\ Cardinality(Before(place[k])) = k - 1
  BY <1>7
<1>9. t = [k \in 1..n |-> s[place[k]]]
  BY DEF Arranged
<1>10. Len(t) = n /\ DOMAIN t = 1..n
  BY <1>1, <1>9
<1>11. \A k \in 1..n : t[k] = s[place[k]]
  BY <1>9
<1> HIDE DEF place, rank, t
<1>12. ASSUME NEW a \in 1..n, NEW b \in 1..n, a < b PROVE <<place[a], place[b]>> \in R
  <2>1. place[a] \in I /\ place[b] \in I
    BY <1>8
  <2>2. Cardinality(Before(place[a])) = a - 1 /\ Cardinality(Before(place[b])) = b - 1
    BY <1>8
  <2>3. ~(<<place[b], place[a]>> \in R)
    <3> SUFFICES ASSUME <<place[b], place[a]>> \in R PROVE FALSE
      OBVIOUS
    <3>1. Cardinality(Before(place[b])) < Cardinality(Before(place[a]))
      BY <1>3, <2>1
    <3> HIDE DEF Before
    <3> QED
      BY <1>1, <1>12, <2>2, <3>1
  <2>4. place[a] # place[b]
    <3> HIDE DEF Before
    <3> QED
      BY <1>1, <1>12, <2>2
  <2> QED
    BY <2>1, <2>3, <2>4 DEF Orders
<1>13. ASSUME NEW i \in I PROVE \E k \in 1..n : t[k] = s[i]
  <2> DEFINE k == Cardinality(Before(i)) + 1
  <2>1. k \in 1..n /\ Cardinality(Before(i)) = k - 1
    BY <1>1, <1>2
  <2> HIDE DEF k
  <2>2. place[k] \in I /\ Cardinality(Before(place[k])) = k - 1
    BY <1>8, <2>1
  <2>3. ~(<<place[k], i>> \in R) /\ ~(<<i, place[k]>> \in R)
    <3>1. Cardinality(Before(i)) \in Int
      BY <1>1, <1>2
    <3>2. <<place[k], i>> \in R => Cardinality(Before(place[k])) < Cardinality(Before(i))
      BY <1>3, <2>2
    <3>3. <<i, place[k]>> \in R => Cardinality(Before(i)) < Cardinality(Before(place[k]))
      BY <1>3, <2>2
    <3> HIDE DEF Before
    <3> QED
      BY <2>1, <2>2, <3>1, <3>2, <3>3
  <2>4. place[k] = i
    BY <2>2, <2>3 DEF Orders
  <2> QED
    BY <1>11, <2>1, <2>4
<1>14. \A k \in DOMAIN t : \E i \in I : t[k] = s[i]
  BY <1>8, <1>10, <1>11
<1>15. \A i \in I : \E k \in DOMAIN t : t[k] = s[i]
  BY <1>10, <1>13
<1>16. ASSUME NEW a \in DOMAIN t, NEW b \in DOMAIN t, a < b
       PROVE  \E i, j \in I : <<i, j>> \in R /\ t[a] = s[i] /\ t[b] = s[j]
  <2>1. place[a] \in I /\ t[a] = s[place[a]] /\ place[b] \in I /\ t[b] = s[place[b]]
    BY <1>8, <1>10, <1>11
  <2>2. <<place[a], place[b]>> \in R
    BY <1>10, <1>12, <1>16
  <2> QED
    BY <2>1, <2>2
<1>17. Arranges(t, s, I, R)
  BY <1>1, <1>10, <1>14, <1>15, <1>16 DEF Arranges
<1> QED
  BY <1>17 DEF t

Once(s) == \A i, j \in DOMAIN s : s[i] = s[j] => i = j

\* What an arrangement keeps: the elements' kind, and that a file has one row.
LEMMA ArrangedRows ==
  ASSUME NEW S, NEW s \in Seq(S), NEW I \in SUBSET DOMAIN s, NEW R, NEW t,
         Arranges(t, s, I, R), Orders(R, I), t = Arranged(s, I, R)
  PROVE  /\ t \in Seq(S)
         /\ \A k \in DOMAIN t : \E i \in I : t[k] = s[i]
         /\ \A i \in I : \E k \in DOMAIN t : t[k] = s[i]
         /\ OneEach(s) => OneEach(t)
         /\ Once(s) => Once(t)
<1>1. \A k \in DOMAIN t : t[k] \in S
  BY DEF Arranges
<1>2. t \in Seq(S)
  <2>1. t = [k \in 1..Cardinality(I) |-> t[k]]
    BY DEF Arranges, Arranged
  <2>2. DOMAIN t = 1..Cardinality(I) /\ Cardinality(I) \in Nat
    BY DEF Arranges
  <2>3. t \in [1..Cardinality(I) -> S]
    BY <1>1, <2>1, <2>2
  <2> QED
    BY <2>2, <2>3
<1>3. ASSUME NEW a \in DOMAIN t, NEW b \in DOMAIN t, a # b
      PROVE  \E i, j \in I : i # j /\ t[a] = s[i] /\ t[b] = s[j]
  <2>1. a \in Nat /\ b \in Nat
    BY DEF Arranges
  <2>2. CASE a < b
    <3>1. PICK i \in I, j \in I : <<i, j>> \in R /\ t[a] = s[i] /\ t[b] = s[j]
      BY <2>2 DEF Arranges
    <3> QED
      BY <3>1 DEF Orders
  <2>3. CASE b < a
    <3>1. PICK i \in I, j \in I : <<i, j>> \in R /\ t[b] = s[i] /\ t[a] = s[j]
      BY <2>3 DEF Arranges
    <3> QED
      BY <3>1 DEF Orders
  <2> QED
    BY <1>3, <2>1, <2>2, <2>3
<1>4. ASSUME OneEach(s) PROVE OneEach(t)
  <2> SUFFICES ASSUME NEW a \in DOMAIN t, NEW b \in DOMAIN t, t[a].name = t[b].name, a # b
               PROVE FALSE
    BY DEF OneEach
  <2>1. PICK i \in I, j \in I : i # j /\ t[a] = s[i] /\ t[b] = s[j]
    BY <1>3
  <2> QED
    BY <1>4, <2>1 DEF OneEach
<1>5. ASSUME Once(s) PROVE Once(t)
  <2> SUFFICES ASSUME NEW a \in DOMAIN t, NEW b \in DOMAIN t, t[a] = t[b], a # b PROVE FALSE
    BY DEF Once
  <2>1. PICK i \in I, j \in I : i # j /\ t[a] = s[i] /\ t[b] = s[j]
    BY <1>3
  <2> QED
    BY <1>5, <2>1 DEF Once
<1>6. /\ \A k \in DOMAIN t : \E i \in I : t[k] = s[i]
      /\ \A i \in I : \E k \in DOMAIN t : t[k] = s[i]
  BY DEF Arranges
<1> QED
  BY <1>2, <1>4, <1>5, <1>6

\* t has the elements of s at the places in I, each once.
Part(t, s, I) ==
  /\ \A k \in DOMAIN t : \E i \in I : t[k] = s[i]
  /\ \A i \in I : \E k \in DOMAIN t : t[k] = s[i]
  /\ OneEach(s) => OneEach(t)
  /\ Once(s) => Once(t)

\* Arranging rows, or files, by such an order takes those asked for, once.
LEMMA ArrangedIsPart ==
  ASSUME NEW S, NEW s \in Seq(S), NEW I \in SUBSET DOMAIN s, NEW R, Orders(R, I)
  PROVE  /\ Arranges(Arranged(s, I, R), s, I, R)
         /\ Arranged(s, I, R) \in Seq(S) /\ Part(Arranged(s, I, R), s, I)
         /\ IsFiniteSet(I) /\ Cardinality(I) <= Len(s)
         /\ Cardinality(I) \in Nat /\ Len(Arranged(s, I, R)) = Cardinality(I)
<1> DEFINE t == Arranged(s, I, R)
<1>1. /\ IsFiniteSet(I) /\ Cardinality(I) <= Len(s) /\ Cardinality(I) \in Nat
  <2>1. Len(s) \in Nat /\ DOMAIN s = 1..Len(s)
    OBVIOUS
  <2>2. IsFiniteSet(1..Len(s)) /\ Cardinality(1..Len(s)) = Len(s)
    <3>1. ASSUME NEW m \in Nat PROVE IsFiniteSet(1..m) /\ Cardinality(1..m) = m
      BY FS_Interval
    <3> QED
      BY <2>1, <3>1
  <2>3. I \in SUBSET (1..Len(s))
    BY <2>1
  <2>4. IsFiniteSet(I) /\ Cardinality(I) <= Cardinality(1..Len(s))
    BY <2>2, <2>3, FS_Subset
  <2> QED
    BY <2>2, <2>4, FS_CardinalityType
<1>2. Arranges(t, s, I, R)
  BY <1>1, ArrangedInOrder
<1>3. /\ t \in Seq(S)
      /\ \A k \in DOMAIN t : \E i \in I : t[k] = s[i]
      /\ \A i \in I : \E k \in DOMAIN t : t[k] = s[i]
      /\ OneEach(s) => OneEach(t)
      /\ Once(s) => Once(t)
  <2>1. t = Arranged(s, I, R)
    OBVIOUS
  <2> HIDE DEF t
  <2> QED
    BY <1>2, <2>1, ArrangedRows
<1>4. Part(t, s, I)
  BY <1>3 DEF Part
<1>5. Len(t) = Cardinality(I)
  BY <1>2 DEF Arranges
<1> QED
  BY <1>1, <1>2, <1>3, <1>4, <1>5

\* What is kept of a sequence.
LEMMA PickedIsPart ==
  ASSUME NEW S, NEW s \in Seq(S), NEW I \in SUBSET DOMAIN s
  PROVE  /\ Picked(s, I) \in Seq(S) /\ Part(Picked(s, I), s, I) /\ Len(Picked(s, I)) <= Len(s)
<1>1. \A i, j \in DOMAIN s : <<i, j>> \in Upwards(s) <=> i < j
  BY DEF Upwards
<1>2. \A i \in I : i \in DOMAIN s /\ i \in Nat
  OBVIOUS
<1>3. Orders(Upwards(s), I)
  BY <1>1, <1>2 DEF Orders
<1> QED
  BY <1>3, ArrangedIsPart DEF Picked

\* Taking a file off a list takes off no other.
LEMMA WithoutOne ==
  ASSUME NEW S, NEW s \in Seq(S), NEW e
  PROVE  /\ Without(s, e) \in Seq(S) /\ Len(Without(s, e)) <= Len(s)
         /\ ToSet(Without(s, e)) = ToSet(s) \ {e}
         /\ Once(s) => Once(Without(s, e))
<1> DEFINE I == {i \in DOMAIN s : s[i] # e}
           t == Without(s, e)
<1>1. t = Picked(s, I) /\ I \in SUBSET DOMAIN s
  BY DEF Without
<1>2. t \in Seq(S) /\ Part(t, s, I) /\ Len(t) <= Len(s)
  BY <1>1, PickedIsPart
<1>3. ToSet(t) = ToSet(s) \ {e}
  <2> HIDE DEF t
  <2> QED
    BY <1>2 DEF Part, ToSet
<1> QED
  BY <1>2, <1>3 DEF Part

\* Putting a file at the end of a list it is not on keeps each once.
LEMMA AppendOne ==
  ASSUME NEW S, NEW s \in Seq(S), NEW e \in S, e \notin ToSet(s)
  PROVE  /\ Append(s, e) \in Seq(S) /\ ToSet(Append(s, e)) = ToSet(s) \cup {e}
         /\ Once(s) => Once(Append(s, e))
<1> DEFINE t == Append(s, e)
<1>1. /\ t \in Seq(S) /\ Len(t) = Len(s) + 1 /\ Len(s) \in Nat
      /\ \A i \in 1..Len(s) : t[i] = s[i]
      /\ t[Len(s) + 1] = e
      /\ DOMAIN t = 1..(Len(s) + 1) /\ DOMAIN s = 1..Len(s)
  BY AppendProperties
<1> HIDE DEF t
<1>2. \A i \in DOMAIN t : (i \in DOMAIN s /\ t[i] = s[i]) \/ (i = Len(s) + 1 /\ t[i] = e)
  BY <1>1
<1>3. ToSet(t) = ToSet(s) \cup {e}
  <2>1. ToSet(t) \subseteq ToSet(s) \cup {e}
    BY <1>2 DEF ToSet
  <2>2. \A i \in DOMAIN s : i \in DOMAIN t /\ t[i] = s[i]
    BY <1>1
  <2>3. e \in ToSet(t)
    BY <1>1 DEF ToSet
  <2> QED
    BY <2>1, <2>2, <2>3 DEF ToSet
<1>4. Once(s) => Once(t)
  <2>1. \A i \in DOMAIN s : s[i] # e
    BY DEF ToSet
  <2> QED
    BY <1>2, <2>1 DEF Once
<1> QED
  BY <1>1, <1>3, <1>4 DEF t

\* The position looked up is that of a row of the file.
LEMMA PositionFound ==
  ASSUME NEW rows, NEW f \in FilesOf(rows)
  PROVE  Position(rows, f) \in DOMAIN rows /\ rows[Position(rows, f)].name = f
<1>1. \E i \in DOMAIN rows : rows[i].name = f
  BY DEF FilesOf
<1> QED
  BY <1>1 DEF Position

\* Each row of a view is of a file.
LEMMA EachRow ==
  ASSUME NEW rows \in Seq(RowShape)
  PROVE  /\ DOMAIN rows = 1..Len(rows) /\ Len(rows) \in Nat
         /\ \A i \in DOMAIN rows :
              /\ rows[i] \in RowShape /\ rows[i].name \in Files /\ rows[i].pct \in Nat
              /\ rows[i].queued \in BOOLEAN /\ rows[i].age \in -1..BEAT
<1>1. DOMAIN rows = 1..Len(rows) /\ Len(rows) \in Nat /\ \A i \in DOMAIN rows : rows[i] \in RowShape
  OBVIOUS
<1> QED
  BY <1>1 DEF RowShape

\* Two lots of rows, of different files, one after the other.
LEMMA RowsTogether ==
  ASSUME NEW a \in Seq(RowShape), NEW b \in Seq(RowShape)
  PROVE  /\ a \o b \in Seq(RowShape)
         /\ \A i \in DOMAIN (a \o b) : \/ \E j \in DOMAIN a : (a \o b)[i] = a[j]
                                       \/ \E j \in DOMAIN b : (a \o b)[i] = b[j]
         /\ FilesOf(a \o b) = FilesOf(a) \cup FilesOf(b)
         /\ OneEach(a) /\ OneEach(b) /\ FilesOf(a) \cap FilesOf(b) = {} => OneEach(a \o b)
<1> DEFINE c == a \o b
<1>1. /\ c \in Seq(RowShape) /\ Len(c) = Len(a) + Len(b) /\ Len(a) \in Nat /\ Len(b) \in Nat
      /\ DOMAIN a = 1..Len(a) /\ DOMAIN b = 1..Len(b) /\ DOMAIN c = 1..(Len(a) + Len(b))
      /\ \A i \in 1..Len(a) : c[i] = a[i]
      /\ \A i \in 1..Len(b) : c[Len(a) + i] = b[i]
  BY ConcatProperties
<1> HIDE DEF c
<1>2. \A i \in DOMAIN c : \/ i \in DOMAIN a /\ c[i] = a[i]
                          \/ i - Len(a) \in DOMAIN b /\ c[i] = b[i - Len(a)]
  <2> SUFFICES ASSUME NEW i \in DOMAIN c
               PROVE  \/ i \in DOMAIN a /\ c[i] = a[i]
                      \/ i - Len(a) \in DOMAIN b /\ c[i] = b[i - Len(a)]
    OBVIOUS
  <2>1. CASE i <= Len(a)
    BY <1>1, <2>1
  <2>2. CASE ~(i <= Len(a))
    <3>1. i - Len(a) \in 1..Len(b) /\ Len(a) + (i - Len(a)) = i
      BY <1>1, <2>2
    <3> QED
      BY <1>1, <3>1
  <2> QED
    BY <2>1, <2>2
<1>3. FilesOf(c) = FilesOf(a) \cup FilesOf(b)
  <2>1. FilesOf(c) \subseteq FilesOf(a) \cup FilesOf(b)
    BY <1>2 DEF FilesOf
  <2>2. \A i \in DOMAIN a : i \in DOMAIN c /\ c[i] = a[i]
    BY <1>1
  <2>3. \A i \in DOMAIN b : Len(a) + i \in DOMAIN c /\ c[Len(a) + i] = b[i]
    BY <1>1
  <2>4. FilesOf(a) \subseteq FilesOf(c)
    BY <2>2 DEF FilesOf
  <2>5. FilesOf(b) \subseteq FilesOf(c)
    BY <2>3 DEF FilesOf
  <2> QED
    BY <2>1, <2>4, <2>5
<1>4. ASSUME OneEach(a), OneEach(b), FilesOf(a) \cap FilesOf(b) = {} PROVE OneEach(c)
  <2> SUFFICES ASSUME NEW i \in DOMAIN c, NEW j \in DOMAIN c, c[i].name = c[j].name PROVE i = j
    BY DEF OneEach
  <2>0. i \in Nat /\ j \in Nat
    BY <1>1
  <2>1. \A x \in DOMAIN a, y \in DOMAIN b : a[x].name # b[y].name
    BY <1>4 DEF FilesOf
  <2>2. CASE i \in DOMAIN a /\ c[i] = a[i] /\ j \in DOMAIN a /\ c[j] = a[j]
    BY <1>4, <2>2 DEF OneEach
  <2>3. CASE /\ i - Len(a) \in DOMAIN b /\ c[i] = b[i - Len(a)]
             /\ j - Len(a) \in DOMAIN b /\ c[j] = b[j - Len(a)]
    <3>1. i - Len(a) = j - Len(a)
      BY <1>4, <2>3 DEF OneEach
    <3> QED
      BY <1>1, <2>0, <3>1
  <2> QED
    BY <1>2, <2>1, <2>2, <2>3
<1>5. \A i \in DOMAIN c : (\E j \in DOMAIN a : c[i] = a[j]) \/ \E j \in DOMAIN b : c[i] = b[j]
  BY <1>2
<1> QED
  BY <1>1, <1>3, <1>4, <1>5 DEF c

----------------------------------------------------------------------------
AllStarted(rows) == \A i \in DOMAIN rows : ~rows[i].queued /\ rows[i].age = -1
Finished == {f \in Files : amount[f] = Full}

\* A row that is gone is of a file that is finished, where no redraw hides any.
GoneIsFinished ==
  hides = {} =>
    /\ \A i \in DOMAIN in_flight : Live(in_flight[i]) =>
         in_flight[i].name \in ToSet(listed) \/ amount[in_flight[i].name] = Full
    /\ \A i \in DOMAIN left : amount[left[i].name] = Full

PacmanInv ==
  /\ Once(listed) /\ count = Cardinality(Finished)
  /\ \A f \in Files : numbers[f].of = "own" => amount[f] > 0

RowsInv ==
  /\ AllStarted(started_files)
  /\ \A i \in DOMAIN left : ~left[i].queued
  /\ \A i \in DOMAIN in_flight : ~Live(in_flight[i]) => ~in_flight[i].queued

FileInv == FileTypeOK /\ PacmanInv /\ RowsInv /\ GoneIsFinished /\ RowsAreTrue

\* The bytes received are a number: the files are finite.
LEMMA TotalIsNumber == ASSUME FileConstantsOK PROVE Total \in Nat
<1> DEFINE B == Files \X (1..Full)
           R == {b \in B : b[2] <= amount[b[1]]}
<1>1. IsFiniteSet(Files) /\ IsFiniteSet(1..Full)
  BY FS_Interval DEF FileConstantsOK
<1>2. IsFiniteSet(B)
  BY <1>1, FS_Product
<1>3. IsFiniteSet(R)
  <2>1. R \in SUBSET B
    OBVIOUS
  <2> QED
    BY <1>2, <2>1, FS_Subset
<1>4. Cardinality(R) \in Nat
  BY <1>3, FS_CardinalityType
<1> QED
  BY <1>4 DEF Total

\* There are no more finished files than files.
LEMMA FinishedCount ==
  ASSUME FileConstantsOK
  PROVE  IsFiniteSet(Finished) /\ Cardinality(Finished) \in 0..Cardinality(Files)
<1>1. Finished \in SUBSET Files /\ IsFiniteSet(Files)
  BY DEF Finished, FileConstantsOK
<1>2. IsFiniteSet(Finished) /\ Cardinality(Finished) <= Cardinality(Files)
  BY <1>1, FS_Subset
<1>3. Cardinality(Finished) \in Nat /\ Cardinality(Files) \in Nat
  BY <1>1, <1>2, FS_CardinalityType
<1> QED
  BY <1>2, <1>3

\* Before the first row everything holds.
LEMMA FilesStart == ASSUME FileConstantsOK, FileInit PROVE FileInv
<1>1. Finished = {} /\ Cardinality(Finished) = 0
  <2>1. Finished = {}
    BY DEF FileInit, FileConstantsOK, Finished
  <2> QED
    BY <2>1, FS_EmptySet
<1>2. Cardinality(Files) \in Nat
  BY FS_CardinalityType DEF FileConstantsOK
<1>3. FileTypeOK
  BY <1>2 DEF FileInit, FileConstantsOK, FileTypeOK, NoNumbers
<1>4. PacmanInv /\ RowsInv /\ GoneIsFinished
  BY <1>1 DEF FileInit, PacmanInv, RowsInv, GoneIsFinished, AllStarted, NoNumbers, Once
<1>5. RowsAreTrue
  BY DEF FileInit, RowsAreTrue, OncePerFile, OneEach, EatenAsCounted, NeverQueuedAgain,
         RowsKeepTheirPlaces, FinishedIsFinished, FilesOf, ToSet
<1> QED
  BY <1>3, <1>4, <1>5 DEF FileInv

\* What pacman does, seen from the rows: they stay, a file that was finished
\* stays so, and one whose row goes is finished.
LEMMA PacmanSpares ==
  ASSUME FileInv, UNCHANGED <<rowvars, hides>>,
         amount' \in [Files -> 0..Full], count' \in Nat, count <= count',
         \A f \in Files : amount[f] = Full => amount'[f] = Full,
         hides = {} => \A f \in ToSet(listed) : f \in ToSet(listed') \/ amount'[f] = Full
  PROVE  RowsInv' /\ GoneIsFinished' /\ RowsAreTrue'
<1> USE DEF rowvars
<1>1. /\ in_flight \in Seq(RowShape) /\ left \in Seq(RowShape) /\ eaten \in Seq(Files)
      /\ count \in Nat /\ done \in Nat
  BY DEF FileInv, FileTypeOK
<1>2. /\ \A i \in DOMAIN in_flight : in_flight[i].name \in Files
      /\ \A i \in DOMAIN left : left[i].name \in Files
      /\ \A i \in DOMAIN eaten : eaten[i] \in Files
  BY <1>1, EachRow
<1>3. RowsInv'
  BY DEF FileInv, RowsInv, AllStarted, Live
<1>4. GoneIsFinished'
  BY <1>2 DEF FileInv, GoneIsFinished, Live
<1>5. RowsAreTrue'
  <2>1. OncePerFile'
    BY DEF FileInv, RowsAreTrue, OncePerFile, OneEach, FilesOf, ToSet
  <2>2. EatenAsCounted'
    <3>1. Len(eaten) \in Nat /\ Len(eaten) <= count /\ done <= count
      BY <1>1 DEF FileInv, RowsAreTrue, EatenAsCounted
    <3>2. Len(eaten) <= count' /\ done <= count'
      BY <1>1, <3>1
    <3> QED
      BY <3>2 DEF FileInv, RowsAreTrue, EatenAsCounted, Live, FilesOf
  <2>3. NeverQueuedAgain' /\ RowsKeepTheirPlaces'
    BY DEF FileInv, RowsAreTrue, NeverQueuedAgain, RowsKeepTheirPlaces, FilesOf, Position
  <2>4. FinishedIsFinished'
    BY <1>2 DEF FileInv, RowsAreTrue, FinishedIsFinished
  <2> QED
    BY <2>1, <2>2, <2>3, <2>4 DEF RowsAreTrue
<1> QED
  BY <1>3, <1>4, <1>5

\* Each of pacman's steps, a redraw caught half done included, keeps it all.
LEMMA PacmanKeeps ==
  ASSUME FileConstantsOK, FileInv, NEW f \in Files,
         BeginFile(f) \/ Receive(f) \/ Stall(f) \/ Complete(f) \/ Redraw(f)
  PROVE  FileInv'
<1>0. /\ amount \in [Files -> 0..Full] /\ listed \in Seq(Files) /\ Len(listed) \in Nat
      /\ Len(listed) <= Slots /\ Slots \in Nat /\ Full \in Nat /\ Full > 0
      /\ numbers \in [Files -> [of : {"none", "own", "total"}, n : Nat]]
      /\ count \in 0..Cardinality(Files) /\ hides \subseteq Files
      /\ Cardinality(Files) \in Nat /\ amount[f] \in 0..Full
  <2>1. Cardinality(Files) \in Nat
    BY FS_CardinalityType DEF FileConstantsOK
  <2> QED
    BY <2>1 DEF FileInv, FileTypeOK, FileConstantsOK
<1>1. UNCHANGED <<rowvars, hides>>
  BY DEF BeginFile, Receive, Stall, Complete, Redraw
<1>2. /\ amount' \in [Files -> 0..Full]
      /\ \A g \in Files : amount[g] <= amount'[g]
      /\ \A g \in Files : amount[g] = Full => amount'[g] = Full
      /\ \A g \in Files : g # f => amount'[g] = amount[g]
  <2>1. CASE amount' = amount
    BY <1>0, <2>1
  <2>2. CASE Receive(f)
    BY <1>0, <2>2 DEF Receive
  <2>3. CASE Complete(f)
    BY <1>0, <2>3 DEF Complete
  <2> QED
    BY <2>1, <2>2, <2>3 DEF BeginFile, Stall, Redraw
<1>3. /\ count' \in 0..Cardinality(Files) /\ count <= count' /\ count' = Cardinality(Finished')
  <2>0. count = Cardinality(Finished) /\ IsFiniteSet(Finished)
    BY FinishedCount DEF FileInv, PacmanInv
  <2>1. CASE ~Complete(f)
    <3>1. count' = count /\ Finished' = Finished
      <4>1. amount'[f] = Full <=> amount[f] = Full
        BY <1>0, <2>1 DEF BeginFile, Receive, Stall, Redraw
      <4> QED
        BY <1>2, <2>1, <4>1 DEF Finished, BeginFile, Receive, Stall, Redraw
    <3> QED
      BY <1>0, <2>0, <3>1
  <2>2. CASE Complete(f)
    <3>1. amount'[f] = Full /\ amount[f] # Full /\ count' = count + 1
      BY <1>0, <2>2 DEF Complete
    <3>2. Finished' = Finished \cup {f} /\ f \notin Finished
      BY <1>2, <3>1 DEF Finished
    <3>3. Cardinality(Finished') = Cardinality(Finished) + 1
      BY <2>0, <3>2, FS_AddElement
    <3>4. Finished' \in SUBSET Files /\ IsFiniteSet(Files)
      BY DEF Finished, FileConstantsOK
    <3>5. Cardinality(Finished') <= Cardinality(Files)
      BY <3>4, FS_Subset
    <3> QED
      BY <1>0, <2>0, <3>1, <3>3, <3>5
  <2> QED
    BY <2>1, <2>2
<1>4. /\ listed' \in Seq(Files) /\ Len(listed') <= Slots /\ Once(listed')
      /\ hides = {} => \A g \in ToSet(listed) : g \in ToSet(listed') \/ amount'[g] = Full
  <2>0. Once(listed)
    BY DEF FileInv, PacmanInv
  <2>1. CASE listed' = listed
    BY <1>0, <2>0, <2>1
  <2>2. CASE listed' = Append(listed, f) /\ f \notin ToSet(listed) /\ Len(listed') <= Slots
    <3>1. listed' \in Seq(Files) /\ ToSet(listed') = ToSet(listed) \cup {f} /\ Once(listed')
      BY <1>0, <2>0, <2>2, AppendOne
    <3> QED
      BY <2>2, <3>1
  <2>3. CASE listed' = Without(listed, f) /\ (hides = {} => amount'[f] = Full)
    <3>1. /\ listed' \in Seq(Files) /\ ToSet(listed') = ToSet(listed) \ {f} /\ Once(listed')
          /\ Len(listed') <= Len(listed)
      BY <1>0, <2>0, <2>3, WithoutOne
    <3>2. Len(listed') \in Nat
      BY <3>1
    <3> QED
      BY <1>0, <2>3, <3>1, <3>2
  <2>4. CASE BeginFile(f)
    <3>1. Len(Append(listed, f)) = Len(listed) + 1
      BY <1>0
    <3> QED
      BY <1>0, <2>2, <2>4, <3>1 DEF BeginFile
  <2>5. CASE Receive(f) \/ Stall(f)
    BY <2>1, <2>5 DEF Receive, Stall
  <2>6. CASE Complete(f)
    <3>1. amount'[f] = Full
      BY <1>0, <2>6 DEF Complete
    <3> QED
      BY <2>3, <2>6, <3>1 DEF Complete
  <2>7. CASE Redraw(f)
    BY <2>2, <2>3, <2>7 DEF Redraw
  <2> QED
    BY <2>4, <2>5, <2>6, <2>7
<1>5. /\ numbers' \in [Files -> [of : {"none", "own", "total"}, n : Nat]]
      /\ \A g \in Files : numbers'[g].of = "own" => amount'[g] > 0
  <2>0. \A g \in Files : numbers[g].of = "own" => amount[g] > 0
    BY DEF FileInv, PacmanInv
  <2>1. CASE numbers' = numbers
    <3>1. \A g \in Files : amount[g] \in Int /\ amount'[g] \in Int
      BY <1>0, <1>2
    <3> QED
      BY <1>0, <1>2, <2>0, <2>1, <3>1
  <2>2. CASE BeginFile(f)
    <3>1. /\ NoNumbers \in [of : {"none", "own", "total"}, n : Nat]
          /\ TotalNumbers \in [of : {"none", "own", "total"}, n : Nat]
          /\ NoNumbers.of # "own" /\ TotalNumbers.of # "own"
      BY TotalIsNumber DEF NoNumbers, TotalNumbers
    <3>2. PICK n \in {NoNumbers, TotalNumbers} : numbers' = [numbers EXCEPT ![f] = n]
      BY <2>2 DEF BeginFile
    <3>3. amount' = amount
      BY <2>2 DEF BeginFile
    <3> QED
      BY <1>0, <2>0, <3>1, <3>2, <3>3
  <2>3. CASE Receive(f)
    <3>1. /\ numbers' = [numbers EXCEPT ![f] = [of |-> "own", n |-> amount[f] + 1]]
          /\ amount' = [amount EXCEPT ![f] = amount[f] + 1]
      BY <2>3 DEF Receive
    <3>2. amount'[f] > 0 /\ amount[f] + 1 \in Nat
      BY <1>0, <3>1
    <3> QED
      BY <1>0, <2>0, <3>1, <3>2
  <2>4. CASE Stall(f)
    <3>1. numbers' = [numbers EXCEPT ![f] = NoNumbers] /\ amount' = amount
      BY <2>4 DEF Stall
    <3> QED
      BY <1>0, <2>0, <3>1 DEF NoNumbers
  <2> QED
    BY <2>1, <2>2, <2>3, <2>4 DEF Complete, Redraw
<1>6. PacmanInv'
  BY <1>3, <1>4, <1>5 DEF PacmanInv
<1>7. FileTypeOK'
  BY <1>0, <1>1, <1>2, <1>3, <1>4, <1>5 DEF FileInv, FileTypeOK, rowvars
<1>8. RowsInv' /\ GoneIsFinished' /\ RowsAreTrue'
  <2>1. count' \in Nat
    BY <1>0, <1>3
  <2> QED
    BY <1>1, <1>2, <1>3, <1>4, <2>1, PacmanSpares
<1> QED
  BY <1>6, <1>7, <1>8 DEF FileInv

----------------------------------------------------------------------------
\* The rows a look takes.

Seen(totals) == [i \in DOMAIN listed |-> ReadRow(totals, listed[i])]

\* What is read off a row is a row.
LEMMA RowIsRow ==
  ASSUME FileConstantsOK, FileTypeOK, NEW f \in Files, NEW q \in BOOLEAN
  PROVE  Row(f, numbers[f].n, q) \in RowShape
<1>1. numbers[f].n \in Nat /\ -1 \in -1..BEAT
  BY DEF FileTypeOK, FileConstantsOK
<1> QED
  BY <1>1 DEF Row, RowShape

\* A look sees each listed file once, and shows a started one as started.
LEMMA SeenRows ==
  ASSUME FileConstantsOK, FileInv, NEW totals
  PROVE  /\ Seen(totals) \in Seq(RowShape) /\ OneEach(Seen(totals))
         /\ FilesOf(Seen(totals)) = ToSet(listed)
         /\ \A i \in DOMAIN Seen(totals) :
              /\ Live(Seen(totals)[i])
              /\ Seen(totals)[i].queued =>
                   Seen(totals)[i].name \notin FilesOf(started_files)
                     /\ Queued(totals, Seen(totals)[i].name)
<1>0. /\ listed \in Seq(Files) /\ Once(listed) /\ started_files \in Seq(RowShape)
      /\ AllStarted(started_files) /\ FileTypeOK
  BY DEF FileInv, FileTypeOK, PacmanInv, RowsInv
<1>1. ASSUME NEW f \in Files
      PROVE  LET row == ReadRow(totals, f)
             IN  /\ row \in RowShape /\ row.name = f /\ Live(row)
                 /\ row.queued => f \notin FilesOf(started_files) /\ Queued(totals, f)
  <2>1. CASE Queued(totals, f) /\ f \in FilesOf(started_files)
    <3> DEFINE s == started_files[Position(started_files, f)]
    <3>1. Position(started_files, f) \in DOMAIN started_files /\ s.name = f
      BY <2>1, PositionFound
    <3>2. s \in RowShape /\ ~s.queued /\ s.age = -1
      BY <1>0, <3>1 DEF AllStarted
    <3>3. ReadRow(totals, f) = [s EXCEPT !.stalled = TRUE]
      BY <2>1 DEF ReadRow
    <3> HIDE DEF s
    <3> QED
      BY <3>1, <3>2, <3>3 DEF RowShape, Live
  <2>2. CASE ~(Queued(totals, f) /\ f \in FilesOf(started_files))
    <3>1. ReadRow(totals, f) = Row(f, numbers[f].n, Queued(totals, f))
            /\ Queued(totals, f) \in BOOLEAN
      BY <2>2 DEF ReadRow, Queued
    <3>2. Row(f, numbers[f].n, Queued(totals, f)) \in RowShape
      BY <1>0, <3>1, RowIsRow
    <3> QED
      BY <2>2, <3>1, <3>2 DEF Row, Live
  <2> QED
    BY <2>1, <2>2
<1> DEFINE t == Seen(totals)
<1>2. DOMAIN t = DOMAIN listed /\ \A i \in DOMAIN t : t[i] = ReadRow(totals, listed[i])
  BY DEF Seen
<1>3. \A i \in DOMAIN listed : listed[i] \in Files
  BY <1>0
<1>4. \A i \in DOMAIN t : /\ t[i] \in RowShape /\ t[i].name = listed[i] /\ Live(t[i])
                          /\ t[i].queued => t[i].name \notin FilesOf(started_files)
                                              /\ Queued(totals, t[i].name)
  BY <1>1, <1>2, <1>3
<1>5. t \in Seq(RowShape)
  <2>1. t = [i \in 1..Len(listed) |-> t[i]] /\ DOMAIN t = 1..Len(listed) /\ Len(listed) \in Nat
    BY <1>0, <1>2 DEF Seen
  <2>2. t \in [1..Len(listed) -> RowShape]
    BY <1>4, <2>1
  <2> HIDE DEF t
  <2> QED
    BY <2>1, <2>2
<1> HIDE DEF t
<1>6. OneEach(t)
  BY <1>0, <1>2, <1>4 DEF OneEach, Once
<1>7. FilesOf(t) = ToSet(listed)
  BY <1>2, <1>4 DEF FilesOf, ToSet
<1> QED
  BY <1>4, <1>5, <1>6, <1>7 DEF t

\* What is new among the files started.
NewlyStarted(totals, s) ==
  \A i \in DOMAIN s :
      s[i].name \notin FilesOf(started_files) =>
        ~Queued(totals, s[i].name) /\ s[i].pct = numbers[s[i].name].n

\* The started files are those known, and the listed ones with numbers of their own.
LEMMA StartedRows ==
  ASSUME FileConstantsOK, FileInv, NEW totals
  PROVE  /\ StartedFiles(totals) \in Seq(RowShape) /\ OneEach(StartedFiles(totals))
         /\ AllStarted(StartedFiles(totals)) /\ NewlyStarted(totals, StartedFiles(totals))
<1> DEFINE own == {i \in DOMAIN listed : ~Queued(totals, listed[i])}
           fresh == {i \in own : listed[i] \notin FilesOf(started_files)}
           new == Picked(listed, fresh)
           drawn(f) == Row(f, numbers[f].n, FALSE)
           a == [i \in DOMAIN started_files |->
                   IF \E j \in own : listed[j] = started_files[i].name
                   THEN drawn(started_files[i].name) ELSE started_files[i]]
           b == [k \in DOMAIN new |-> drawn(new[k])]
<1>0. /\ listed \in Seq(Files) /\ Once(listed) /\ started_files \in Seq(RowShape)
      /\ AllStarted(started_files) /\ FileTypeOK /\ OneEach(started_files)
  BY DEF FileInv, FileTypeOK, PacmanInv, RowsInv, RowsAreTrue, OncePerFile
<1>1. \A f \in Files : /\ drawn(f) \in RowShape /\ drawn(f).name = f /\ ~drawn(f).queued
                       /\ drawn(f).age = -1 /\ drawn(f).pct = numbers[f].n
  <2>1. \A f \in Files : drawn(f) \in RowShape
    BY <1>0, RowIsRow
  <2> QED
    BY <2>1 DEF Row
<1>2. new \in Seq(Files) /\ Part(new, listed, fresh)
  <2>1. fresh \in SUBSET DOMAIN listed
    OBVIOUS
  <2> QED
    BY <1>0, <2>1, PickedIsPart
<1>3. /\ \A k \in DOMAIN new :
           new[k] \in Files /\ ~Queued(totals, new[k]) /\ new[k] \notin FilesOf(started_files)
      /\ Once(new)
  <2>1. \A k \in DOMAIN new : \E i \in fresh : new[k] = listed[i]
    BY <1>2 DEF Part
  <2>2. \A i \in fresh :
          /\ listed[i] \in Files /\ ~Queued(totals, listed[i])
          /\ listed[i] \notin FilesOf(started_files)
    BY <1>0
  <2>3. Once(new)
    BY <1>0, <1>2 DEF Part
  <2> QED
    BY <2>1, <2>2, <2>3
<1>4. StartedFiles(totals) = a \o b
  BY DEF StartedFiles
<1> HIDE DEF new, own, fresh
<1>5. /\ DOMAIN a = DOMAIN started_files /\ a \in Seq(RowShape) /\ AllStarted(a)
      /\ \A i \in DOMAIN a : a[i].name = started_files[i].name
  <2>1. \A i \in DOMAIN started_files :
          /\ started_files[i] \in RowShape /\ started_files[i].name \in Files
          /\ ~started_files[i].queued /\ started_files[i].age = -1
    BY <1>0, EachRow DEF AllStarted
  <2>2. ASSUME NEW i \in DOMAIN started_files
        PROVE  a[i] \in RowShape /\ a[i].name = started_files[i].name /\ ~a[i].queued
                 /\ a[i].age = -1
    <3> DEFINE f == started_files[i].name
    <3>1. f \in Files
      BY <2>1
    <3>2. drawn(f) \in RowShape /\ drawn(f).name = f /\ ~drawn(f).queued /\ drawn(f).age = -1
      BY <1>1, <3>1
    <3>3. a[i] = drawn(f) \/ a[i] = started_files[i]
      OBVIOUS
    <3> HIDE DEF a, drawn
    <3> QED
      BY <2>1, <3>2, <3>3
  <2>3. DOMAIN a = 1..Len(started_files) /\ Len(started_files) \in Nat
          /\ DOMAIN a = DOMAIN started_files
    BY <1>0
  <2>4. a = [i \in 1..Len(started_files) |-> a[i]]
    BY <2>3
  <2> HIDE DEF a
  <2>5. a \in [1..Len(started_files) -> RowShape]
    BY <2>2, <2>3, <2>4
  <2> QED
    BY <2>2, <2>3, <2>5 DEF AllStarted
<1>6. /\ DOMAIN b = DOMAIN new /\ b \in Seq(RowShape) /\ AllStarted(b)
      /\ \A k \in DOMAIN b : b[k].name = new[k] /\ b[k].pct = numbers[new[k]].n
  <2>1. DOMAIN b = 1..Len(new) /\ Len(new) \in Nat /\ DOMAIN b = DOMAIN new
    BY <1>2
  <2>2. \A k \in DOMAIN b : /\ b[k] \in RowShape /\ b[k].name = new[k] /\ ~b[k].queued
                            /\ b[k].age = -1 /\ b[k].pct = numbers[new[k]].n
    <3>1. \A k \in DOMAIN b : b[k] = drawn(new[k]) /\ new[k] \in Files
      BY <1>3
    <3> HIDE DEF b, drawn
    <3> QED
      BY <1>1, <3>1
  <2>3. b = [k \in 1..Len(new) |-> b[k]]
    BY <2>1
  <2> HIDE DEF b
  <2>4. b \in [1..Len(new) -> RowShape]
    BY <2>1, <2>2, <2>3
  <2> QED
    BY <2>1, <2>2, <2>4 DEF AllStarted
<1> HIDE DEF a, b, drawn
<1>7. OneEach(a)
  BY <1>0, <1>5 DEF OneEach
<1>8. OneEach(b)
  BY <1>3, <1>6 DEF OneEach, Once
<1>9. FilesOf(a) = FilesOf(started_files)
  BY <1>5 DEF FilesOf
<1>10. FilesOf(a) \cap FilesOf(b) = {}
  <2>1. ASSUME NEW i \in DOMAIN a, NEW k \in DOMAIN b PROVE a[i].name # b[k].name
    <3>1. a[i].name \in FilesOf(a)
      BY DEF FilesOf
    <3>2. b[k].name \notin FilesOf(started_files)
      BY <1>3, <1>6
    <3> QED
      BY <1>9, <3>1, <3>2
  <2> QED
    BY <2>1 DEF FilesOf
<1> DEFINE s == a \o b
<1>11. /\ s \in Seq(RowShape) /\ OneEach(s)
       /\ \A i \in DOMAIN s : (\E j \in DOMAIN a : s[i] = a[j]) \/ \E j \in DOMAIN b : s[i] = b[j]
  BY <1>5, <1>6, <1>7, <1>8, <1>10, RowsTogether
<1> HIDE DEF s
<1>12. AllStarted(s)
  BY <1>5, <1>6, <1>11 DEF AllStarted
<1>13. NewlyStarted(totals, s)
  <2> SUFFICES ASSUME NEW i \in DOMAIN s, s[i].name \notin FilesOf(started_files)
               PROVE  ~Queued(totals, s[i].name) /\ s[i].pct = numbers[s[i].name].n
    BY DEF NewlyStarted
  <2>1. ~\E j \in DOMAIN a : s[i] = a[j]
    BY <1>9 DEF FilesOf
  <2>2. PICK j \in DOMAIN b : s[i] = b[j]
    BY <1>11, <2>1
  <2> QED
    BY <1>3, <1>6, <2>2
<1> QED
  BY <1>4, <1>11, <1>12, <1>13 DEF s

\* The files that wait are each there once, not on the screen, and not counted.
LEMMA WaitingRows ==
  ASSUME FileInv, NEW flight \in Seq(RowShape)
  PROVE  /\ Waiting(flight) \in Seq(RowShape) /\ OneEach(Waiting(flight))
         /\ \A k \in DOMAIN Waiting(flight) :
              /\ ~Waiting(flight)[k].queued
              /\ Waiting(flight)[k].name \notin FilesOf(flight) \cup ToSet(eaten)
         /\ hides = {} /\ FilesOf(flight) = ToSet(listed) =>
              \A k \in DOMAIN Waiting(flight) : amount[Waiting(flight)[k].name] = Full
<1> DEFINE I == {i \in DOMAIN in_flight :
                   /\ ~in_flight[i].queued /\ in_flight[i].age = -1
                   /\ in_flight[i].name \notin FilesOf(flight) \cup FilesOf(left) \cup ToSet(eaten)}
           l == Leaving(flight)
           gone == left \o l
           J == {i \in DOMAIN gone : gone[i].name \notin FilesOf(flight)}
           w == Waiting(flight)
<1>0. /\ in_flight \in Seq(RowShape) /\ left \in Seq(RowShape) /\ OneEach(in_flight)
           /\ OneEach(left)
      /\ \A i \in DOMAIN left : ~left[i].queued /\ left[i].name \notin ToSet(eaten)
  BY DEF FileInv, FileTypeOK, RowsInv, RowsAreTrue, OncePerFile, FilesOf
<1>1. l \in Seq(RowShape) /\ Part(l, in_flight, I)
  <2>1. I \in SUBSET DOMAIN in_flight /\ l = Picked(in_flight, I)
    BY DEF Leaving
  <2> QED
    BY <1>0, <2>1, PickedIsPart
<1>2. \A k \in DOMAIN l : \E i \in I : l[k] = in_flight[i]
  BY <1>1 DEF Part
<1>3. /\ OneEach(l)
      /\ \A k \in DOMAIN l : ~l[k].queued /\ l[k].name \notin FilesOf(left) \cup ToSet(eaten)
  BY <1>0, <1>1, <1>2 DEF Part
<1>4. ASSUME hides = {}, FilesOf(flight) = ToSet(listed), NEW k \in DOMAIN l
      PROVE  amount[l[k].name] = Full
  <2>1. PICK i \in I : l[k] = in_flight[i]
    BY <1>2
  <2>2. in_flight[i].name \notin ToSet(listed) /\ Live(in_flight[i]) /\ i \in DOMAIN in_flight
    BY <1>4 DEF Live
  <2> QED
    BY <1>4, <2>1, <2>2 DEF FileInv, GoneIsFinished
<1> HIDE DEF I, l
<1>5. /\ gone \in Seq(RowShape) /\ OneEach(gone)
      /\ \A i \in DOMAIN gone : (\E j \in DOMAIN left : gone[i] = left[j])
           \/ \E j \in DOMAIN l : gone[i] = l[j]
  <2>1. FilesOf(left) \cap FilesOf(l) = {}
    BY <1>3 DEF FilesOf
  <2> QED
    BY <1>0, <1>1, <1>3, <2>1, RowsTogether
<1>6. w \in Seq(RowShape) /\ Part(w, gone, J)
  <2>1. J \in SUBSET DOMAIN gone /\ w = Picked(gone, J)
    BY DEF Waiting, l
  <2> HIDE DEF gone, J
  <2> QED
    BY <1>5, <2>1, PickedIsPart
<1>7. OneEach(w) /\ \A k \in DOMAIN w : \E i \in J : w[k] = gone[i]
  BY <1>5, <1>6 DEF Part
<1> HIDE DEF gone
<1>8. \A i \in DOMAIN gone : ~gone[i].queued /\ gone[i].name \notin ToSet(eaten)
  BY <1>0, <1>3, <1>5
<1>9. \A k \in DOMAIN w : ~w[k].queued /\ w[k].name \notin FilesOf(flight) \cup ToSet(eaten)
  <2> HIDE DEF w
  <2> QED
    BY <1>7, <1>8
<1>10. ASSUME hides = {}, FilesOf(flight) = ToSet(listed)
       PROVE \A k \in DOMAIN w : amount[w[k].name] = Full
  <2>1. \A j \in DOMAIN left : amount[left[j].name] = Full
    BY <1>10 DEF FileInv, GoneIsFinished
  <2>2. \A j \in DOMAIN l : amount[l[j].name] = Full
    BY <1>4, <1>10
  <2>3. \A i \in DOMAIN gone : amount[gone[i].name] = Full
    BY <1>5, <2>1, <2>2
  <2> HIDE DEF w
  <2> QED
    BY <1>7, <2>3
<1> QED
  BY <1>6, <1>7, <1>9, <1>10

\* What is eaten is no more than pacman is ahead by; the rest goes on waiting.
LEMMA EatRows ==
  ASSUME NEW w \in Seq(RowShape), OneEach(w), NEW n \in Nat
  PROVE  LET m == Eat(w, n)
         IN  /\ m.food \in Seq(RowShape) /\ m.rest \in Seq(RowShape)
             /\ Len(m.food) <= n /\ OneEach(m.food) /\ OneEach(m.rest)
             /\ FilesOf(m.food) \cap FilesOf(m.rest) = {}
             /\ \A k \in DOMAIN m.food : \E i \in DOMAIN w : m.food[k] = w[i]
             /\ \A k \in DOMAIN m.rest : \E i \in DOMAIN w : m.rest[k] = w[i]
<1> DEFINE R == Furthest(w)
           s == Arranged(w, DOMAIN w, R)
           k == IF n < Len(s) THEN n ELSE Len(s)
           food == [i \in 1..k |-> s[i]]
           rest == [i \in 1..(Len(s) - k) |-> s[Len(s) + 1 - i]]
<1>1. Orders(R, DOMAIN w)
  <2>1. \A i \in DOMAIN w : w[i].pct \in Nat /\ i \in Nat
    BY EachRow
  <2>2. \A i, j \in DOMAIN w : <<i, j>> \in R <=>
          w[i].pct > w[j].pct \/ (w[i].pct = w[j].pct /\ i > j)
    BY DEF Furthest
  <2> HIDE DEF R
  <2> QED
    BY <2>1, <2>2 DEF Orders
<1> HIDE DEF R
<1>2. s \in Seq(RowShape) /\ Part(s, w, DOMAIN w)
  BY <1>1, ArrangedIsPart
<1>3. OneEach(s) /\ \A i \in DOMAIN s : \E j \in DOMAIN w : s[i] = w[j]
  BY <1>2 DEF Part
<1>4. Eat(w, n) = [food |-> food, rest |-> rest]
  BY DEF Eat, R
<1> HIDE DEF s
<1>5. Len(s) \in Nat /\ DOMAIN s = 1..Len(s) /\ \A i \in 1..Len(s) : s[i] \in RowShape
  BY <1>2
<1>6. k \in Nat /\ k <= Len(s) /\ k <= n
  BY <1>5
<1> HIDE DEF k
<1>7. /\ food \in Seq(RowShape) /\ DOMAIN food = 1..k /\ Len(food) = k
      /\ \A i \in 1..k : i \in DOMAIN s /\ food[i] = s[i]
  <2>1. \A i \in 1..k : i \in 1..Len(s)
    BY <1>5, <1>6
  <2>2. food \in [1..k -> RowShape]
    BY <1>5, <2>1
  <2> QED
    BY <1>5, <1>6, <2>1, <2>2
<1>8. /\ rest \in Seq(RowShape) /\ DOMAIN rest = 1..(Len(s) - k)
      /\ \A i \in 1..(Len(s) - k) : /\ Len(s) + 1 - i \in DOMAIN s /\ Len(s) + 1 - i > k
                                    /\ rest[i] = s[Len(s) + 1 - i]
  <2>1. \A i \in 1..(Len(s) - k) : Len(s) + 1 - i \in 1..Len(s) /\ Len(s) + 1 - i > k
    BY <1>5, <1>6
  <2>2. Len(s) - k \in Nat
    BY <1>5, <1>6
  <2>3. rest \in [1..(Len(s) - k) -> RowShape]
    BY <1>5, <2>1
  <2> QED
    BY <1>5, <2>1, <2>2, <2>3
<1> HIDE DEF food, rest
<1>9. OneEach(food)
  BY <1>3, <1>7 DEF OneEach
<1>10. OneEach(rest)
  <2> SUFFICES ASSUME NEW i \in 1..(Len(s) - k), NEW j \in 1..(Len(s) - k),
                      rest[i].name = rest[j].name
               PROVE  i = j
    BY <1>8 DEF OneEach
  <2>1. Len(s) + 1 - i = Len(s) + 1 - j
    <3> DEFINE x == Len(s) + 1 - i
               y == Len(s) + 1 - j
    <3>1. x \in DOMAIN s /\ y \in DOMAIN s /\ rest[i] = s[x] /\ rest[j] = s[y]
      BY <1>8
    <3> HIDE DEF x, y
    <3>2. x = y
      BY <1>3, <3>1 DEF OneEach
    <3> QED
      BY <3>2 DEF x, y
  <2> QED
    BY <1>5, <1>6, <2>1
<1>11. FilesOf(food) \cap FilesOf(rest) = {}
  <2> SUFFICES ASSUME NEW i \in DOMAIN food, NEW j \in DOMAIN rest, food[i].name = rest[j].name
               PROVE FALSE
    BY DEF FilesOf
  <2>1. i = Len(s) + 1 - j
    BY <1>3, <1>7, <1>8 DEF OneEach
  <2> QED
    BY <1>5, <1>6, <1>7, <1>8, <2>1
<1>12. /\ \A i \in DOMAIN food : \E j \in DOMAIN w : food[i] = w[j]
       /\ \A i \in DOMAIN rest : \E j \in DOMAIN w : rest[i] = w[j]
  BY <1>3, <1>7, <1>8
<1>13. Eat(w, n).food = food /\ Eat(w, n).rest = rest
  BY <1>4
<1> QED
  BY <1>6, <1>7, <1>8, <1>9, <1>10, <1>11, <1>12, <1>13

\* The finished files that stay on for a beat are not on the screen otherwise.
LEMMA BeatRows ==
  ASSUME FileConstantsOK, FileInv, NEW flight \in Seq(RowShape)
  PROVE  /\ Beats(flight) \in Seq(RowShape) /\ OneEach(Beats(flight))
         /\ FilesOf(Beats(flight)) \cap FilesOf(flight) = {}
         /\ \A i \in DOMAIN Beats(flight) : ~Live(Beats(flight)[i]) /\ ~Beats(flight)[i].queued
<1> DEFINE rows == [i \in DOMAIN in_flight |-> Older(in_flight[i])]
           I == {i \in DOMAIN rows :
                   rows[i].age \in 0..(BEAT - 1) /\ rows[i].name \notin FilesOf(flight)}
           t == Beats(flight)
<1>0. /\ in_flight \in Seq(RowShape) /\ OneEach(in_flight) /\ BEAT \in Nat
      /\ \A i \in DOMAIN in_flight : ~Live(in_flight[i]) => ~in_flight[i].queued
  BY DEF FileInv, FileTypeOK, RowsInv, RowsAreTrue, OncePerFile, FileConstantsOK
<1>1. ASSUME NEW r \in RowShape
      PROVE  /\ Older(r) \in RowShape /\ Older(r).name = r.name /\ Older(r).queued = r.queued
             /\ Older(r).age = -1 <=> r.age = -1
  <2>1. r.age \in -1..BEAT
    BY DEF RowShape
  <2>2. CASE r.age = -1
    BY <2>2 DEF Older
  <2>3. CASE r.age # -1
    <3> DEFINE n == IF r.age < BEAT THEN r.age + 1 ELSE r.age
    <3>1. n \in -1..BEAT /\ n # -1
      BY <1>0, <2>1, <2>3
    <3>2. Older(r) = [r EXCEPT !.age = n]
      BY <2>3 DEF Older
    <3> HIDE DEF n
    <3> QED
      BY <2>3, <3>1, <3>2 DEF RowShape
  <2> QED
    BY <2>2, <2>3
<1>2. /\ rows \in Seq(RowShape) /\ DOMAIN rows = DOMAIN in_flight
      /\ \A i \in DOMAIN rows :
           /\ rows[i].name = in_flight[i].name /\ rows[i].queued = in_flight[i].queued
           /\ rows[i].age = -1 <=> in_flight[i].age = -1
  <2>1. DOMAIN in_flight = 1..Len(in_flight) /\ Len(in_flight) \in Nat
        /\ \A i \in DOMAIN in_flight : in_flight[i] \in RowShape
    BY <1>0
  <2>2. \A i \in DOMAIN in_flight :
          /\ rows[i] \in RowShape /\ rows[i].name = in_flight[i].name
          /\ rows[i].queued = in_flight[i].queued
          /\ rows[i].age = -1 <=> in_flight[i].age = -1
    BY <1>1, <2>1
  <2>3. rows \in [1..Len(in_flight) -> RowShape]
    BY <1>1, <2>1
  <2> HIDE DEF rows
  <2> QED
    BY <2>1, <2>2, <2>3
<1>3. I \in SUBSET DOMAIN rows /\ t = Picked(rows, I)
  BY DEF Beats
<1> HIDE DEF rows
<1>4. \A i \in I : ~Live(rows[i]) /\ ~rows[i].queued /\ rows[i].name \notin FilesOf(flight)
  <2>1. \A i \in I : rows[i].age # -1
    BY <1>0
  <2> QED
    BY <1>0, <1>2, <2>1 DEF Live
<1>5. OneEach(rows)
  BY <1>0, <1>2 DEF OneEach
<1> HIDE DEF I, t
<1>6. t \in Seq(RowShape) /\ Part(t, rows, I)
  BY <1>2, <1>3, PickedIsPart
<1>7. OneEach(t) /\ \A k \in DOMAIN t : \E i \in I : t[k] = rows[i]
  BY <1>5, <1>6 DEF Part
<1>8. \A k \in DOMAIN t : ~Live(t[k]) /\ ~t[k].queued /\ t[k].name \notin FilesOf(flight)
  BY <1>4, <1>7
<1>9. FilesOf(t) \cap FilesOf(flight) = {}
  BY <1>8 DEF FilesOf
<1> QED
  BY <1>6, <1>7, <1>8, <1>9 DEF t

\* Rows of files that started in the order they started, then the rest.
LEMMA RowsInOrder ==
  ASSUME NEW started \in Seq(RowShape), NEW rows \in Seq(RowShape), OneEach(rows)
  PROVE  LET t == InStartOrder(started, rows)
         IN  /\ t \in Seq(RowShape) /\ OneEach(t)
             /\ \A k \in DOMAIN t : \E i \in DOMAIN rows : t[k] = rows[i]
             /\ \A i, j \in DOMAIN t :
                  i < j => \/ t[j].name \notin FilesOf(started)
                           \/ /\ t[i].name \in FilesOf(started)
                              /\ Position(started, t[i].name) < Position(started, t[j].name)
<1> DEFINE R == Sooner(started, rows)
           t == Arranged(rows, DOMAIN rows, R)
           n == Len(started)
<1>0. n \in Nat /\ DOMAIN started = 1..n
  OBVIOUS
<1>1. \A f : /\ order(started, f) \in Nat
             /\ f \in FilesOf(started) <=> order(started, f) <= n
             /\ f \in FilesOf(started) => /\ order(started, f) = Position(started, f)
                                          /\ started[order(started, f)].name = f
  <2> SUFFICES ASSUME NEW f
               PROVE  /\ order(started, f) \in Nat
                      /\ f \in FilesOf(started) <=> order(started, f) <= n
                      /\ f \in FilesOf(started) => /\ order(started, f) = Position(started, f)
                                                   /\ started[order(started, f)].name = f
    OBVIOUS
  <2>1. CASE f \in FilesOf(started)
    <3>1. Position(started, f) \in 1..n /\ started[Position(started, f)].name = f
      BY <1>0, <2>1, PositionFound
    <3>2. order(started, f) = Position(started, f)
      BY <2>1 DEF order
    <3> QED
      BY <1>0, <2>1, <3>1, <3>2
  <2>2. CASE f \notin FilesOf(started)
    <3>1. order(started, f) = n + 1
      BY <2>2 DEF order
    <3> QED
      BY <1>0, <2>2, <3>1
  <2> QED
    BY <2>1, <2>2
<1>2. \A i, j \in DOMAIN rows :
        <<i, j>> \in R <=> \/ order(started, rows[i].name) < order(started, rows[j].name)
                           \/ order(started, rows[i].name) = order(started, rows[j].name) /\ i < j
  BY DEF Sooner
<1>3. Orders(R, DOMAIN rows)
  <2>1. \A i \in DOMAIN rows : i \in Nat /\ order(started, rows[i].name) \in Nat
    BY <1>1
  <2> DEFINE at(i) == order(started, rows[i].name)
  <2>2. \A i, j \in DOMAIN rows : <<i, j>> \in R <=> at(i) < at(j) \/ (at(i) = at(j) /\ i < j)
    BY <1>2
  <2>3. \A i \in DOMAIN rows : i \in Nat /\ at(i) \in Nat
    BY <2>1
  <2> HIDE DEF R, at
  <2>4. \A i, j, k \in DOMAIN rows : <<i, j>> \in R /\ <<j, k>> \in R => <<i, k>> \in R
    BY <2>2, <2>3
  <2>5. \A i, j \in DOMAIN rows : i # j => <<i, j>> \in R \/ <<j, i>> \in R
    BY <2>2, <2>3
  <2> QED
    BY <2>2, <2>3, <2>4, <2>5 DEF Orders
<1> HIDE DEF R
<1>4. t \in Seq(RowShape) /\ Part(t, rows, DOMAIN rows) /\ Arranges(t, rows, DOMAIN rows, R)
  BY <1>3, ArrangedIsPart
<1> HIDE DEF t
<1>5. OneEach(t) /\ \A k \in DOMAIN t : \E i \in DOMAIN rows : t[k] = rows[i]
  BY <1>4 DEF Part
<1>6. ASSUME NEW a \in DOMAIN t, NEW b \in DOMAIN t, a < b, t[b].name \in FilesOf(started)
      PROVE  /\ t[a].name \in FilesOf(started)
             /\ Position(started, t[a].name) < Position(started, t[b].name)
  <2>1. PICK i \in DOMAIN rows, j \in DOMAIN rows : <<i, j>> \in R /\ t[a] = rows[i]
          /\ t[b] = rows[j]
    BY <1>4, <1>6 DEF Arranges
  <2>2. i # j
    BY <1>3, <2>1 DEF Orders
  <2>3. rows[i].name # rows[j].name
    BY <2>2 DEF OneEach
  <2> DEFINE x == order(started, rows[i].name)
             y == order(started, rows[j].name)
  <2>4. x \in Nat /\ y \in Nat /\ x <= y
    BY <1>1, <1>2, <2>1
  <2>5. y <= n /\ y = Position(started, rows[j].name) /\ started[y].name = rows[j].name
    BY <1>1, <1>6, <2>1
  <2>6. x <= n
    <3> HIDE DEF x, y
    <3> QED
      BY <1>0, <2>4, <2>5
  <2>7. rows[i].name \in FilesOf(started) /\ x = Position(started, rows[i].name)
          /\ started[x].name = rows[i].name
    BY <1>1, <2>6
  <2>8. x # y
    BY <2>3, <2>5, <2>7
  <2>9. x < y
    <3> HIDE DEF x, y
    <3> QED
      BY <2>4, <2>8
  <2> QED
    BY <2>1, <2>5, <2>7, <2>9
<1>7. InStartOrder(started, rows) = t
  BY DEF InStartOrder, t, R
<1> QED
  BY <1>4, <1>5, <1>6, <1>7

\* A look at the rows keeps it all, and takes a file for started on its own numbers.
LEMMA LookKeeps ==
  ASSUME FileConstantsOK, FileInv, LookAtRows
  PROVE  FileInv' /\ StartsOnItsOwn
<1>1. PICK total \in BOOLEAN : observe(total)
  BY DEF LookAtRows
<1> DEFINE totals == OnRows(IF total THEN totals_seen \cup {Total} ELSE totals_seen)
           seen == Seen(totals)
           counted == IF total /\ count > done THEN count ELSE done
           ahead == IF counted > Len(eaten) THEN counted - Len(eaten) ELSE 0
           waiting == Waiting(seen)
           meal == Eat(waiting, ahead)
           full == Eaten(meal.food)
           flight == seen \o full
           started == StartedFiles(totals)
           names == [i \in DOMAIN meal.food |-> meal.food[i].name]
<1>2. /\ totals_seen' = totals /\ started_files' = started /\ left' = meal.rest
      /\ eaten' = eaten \o names
      /\ in_flight' = InStartOrder(started, flight \o Beats(flight))
      /\ done' = IF total THEN count ELSE done
      /\ UNCHANGED pacman
  BY <1>1 DEF observe, LookAtRows, Seen
<1>0. /\ totals_seen \subseteq Nat /\ count \in Nat /\ done \in Nat /\ eaten \in Seq(Files)
           /\ Len(eaten) \in Nat
      /\ Cardinality(Files) \in Nat /\ count <= Cardinality(Files)
      /\ Len(eaten) <= count /\ done <= count /\ Once(eaten)
      /\ Full \in Nat /\ 0 \in -1..BEAT /\ FilesOf(left) \cap ToSet(eaten) = {}
      /\ FileTypeOK
  <2>1. Cardinality(Files) \in Nat /\ count \in 0..Cardinality(Files)
          /\ done \in 0..Cardinality(Files)
    BY FS_CardinalityType DEF FileConstantsOK, FileInv, FileTypeOK
  <2>2. eaten \in Seq(Files)
    BY DEF FileInv, FileTypeOK
  <2> QED
    BY <2>1, <2>2
       DEF FileInv, FileTypeOK, RowsAreTrue, OncePerFile, EatenAsCounted, Once, FileConstantsOK
<1>3. totals \in SUBSET Nat
  <2>1. Total \in Nat
    BY TotalIsNumber
  <2> QED
    BY <1>0, <2>1 DEF OnRows
<1> HIDE DEF totals
<1>4. /\ seen \in Seq(RowShape) /\ OneEach(seen) /\ FilesOf(seen) = ToSet(listed)
      /\ \A i \in DOMAIN seen : /\ Live(seen[i])
                                /\ seen[i].queued => seen[i].name \notin FilesOf(started_files)
                                                       /\ Queued(totals, seen[i].name)
  BY SeenRows
<1>5. /\ started \in Seq(RowShape) /\ OneEach(started) /\ AllStarted(started)
      /\ NewlyStarted(totals, started)
  BY StartedRows
<1> HIDE DEF seen, started
<1>6. /\ waiting \in Seq(RowShape) /\ OneEach(waiting)
      /\ \A k \in DOMAIN waiting : /\ ~waiting[k].queued
                                   /\ waiting[k].name \notin FilesOf(seen) \cup ToSet(eaten)
      /\ hides = {} => \A k \in DOMAIN waiting : amount[waiting[k].name] = Full
  BY <1>4, WaitingRows
<1> HIDE DEF waiting
<1>7. /\ counted \in Nat /\ counted <= count /\ ahead \in Nat
      /\ ahead > 0 => ahead = counted - Len(eaten)
  BY <1>0
<1> HIDE DEF ahead, counted
<1>8. /\ meal.food \in Seq(RowShape) /\ meal.rest \in Seq(RowShape)
      /\ Len(meal.food) <= ahead /\ OneEach(meal.food) /\ OneEach(meal.rest)
      /\ FilesOf(meal.food) \cap FilesOf(meal.rest) = {}
      /\ \A k \in DOMAIN meal.food : \E i \in DOMAIN waiting : meal.food[k] = waiting[i]
      /\ \A k \in DOMAIN meal.rest : \E i \in DOMAIN waiting : meal.rest[k] = waiting[i]
  BY <1>6, <1>7, EatRows
<1> DEFINE food == meal.food
           rest == meal.rest
<1>9. /\ \A k \in DOMAIN food :
           /\ ~food[k].queued /\ food[k].name \notin FilesOf(seen) \cup ToSet(eaten)
           /\ hides = {} => amount[food[k].name] = Full
      /\ \A k \in DOMAIN rest :
           /\ ~rest[k].queued /\ rest[k].name \notin FilesOf(seen) \cup ToSet(eaten)
           /\ hides = {} => amount[rest[k].name] = Full
  <2> HIDE DEF meal
  <2> QED
    BY <1>6, <1>8
<1> HIDE DEF meal
<1>10. /\ full \in Seq(RowShape) /\ DOMAIN full = DOMAIN food
       /\ \A k \in DOMAIN full : full[k].name = food[k].name /\ full[k].queued = food[k].queued
            /\ ~Live(full[k])
  <2>1. DOMAIN food = 1..Len(food) /\ Len(food) \in Nat
          /\ \A k \in DOMAIN food : food[k] \in RowShape
    BY <1>8
  <2>2. full = [k \in DOMAIN food |-> [food[k] EXCEPT !.age = 0, !.pct = Full, !.stalled = FALSE]]
    BY DEF Eaten
  <2> HIDE DEF full, food
  <2>3. \A k \in DOMAIN food : /\ full[k] \in RowShape /\ full[k].name = food[k].name
                               /\ full[k].queued = food[k].queued /\ full[k].age = 0
    BY <1>0, <2>1, <2>2 DEF RowShape
  <2>4. full \in [1..Len(food) -> RowShape]
    BY <2>1, <2>2, <2>3
  <2> QED
    <3>1. full \in Seq(RowShape) /\ DOMAIN full = DOMAIN food
      <4>1. ASSUME NEW m \in Nat, NEW g \in [1..m -> RowShape]
            PROVE  g \in Seq(RowShape) /\ DOMAIN g = 1..m
        OBVIOUS
      <4> QED
        BY <2>1, <2>4, <4>1
    <3> QED
      BY <2>3, <3>1 DEF Live
<1> HIDE DEF full
<1>11. FilesOf(full) = FilesOf(food) /\ OneEach(full)
  <2>1. OneEach(food)
    BY <1>8
  <2> HIDE DEF food
  <2> QED
    BY <1>10, <2>1 DEF FilesOf, OneEach
<1>12. FilesOf(seen) \cap FilesOf(full) = {} /\ FilesOf(food) \cap ToSet(eaten) = {}
  <2>1. \A k \in DOMAIN food : food[k].name \notin FilesOf(seen) /\ food[k].name \notin ToSet(eaten)
    BY <1>9
  <2> HIDE DEF food
  <2>2. FilesOf(food) \cap FilesOf(seen) = {} /\ FilesOf(food) \cap ToSet(eaten) = {}
    BY <2>1 DEF FilesOf
  <2> QED
    BY <1>11, <2>2
<1>13. /\ flight \in Seq(RowShape) /\ OneEach(flight)
       /\ \A i \in DOMAIN flight : (\E j \in DOMAIN seen : flight[i] = seen[j])
            \/ \E j \in DOMAIN full : flight[i] = full[j]
  BY <1>4, <1>10, <1>11, <1>12, RowsTogether
<1> HIDE DEF flight
<1> DEFINE beats == Beats(flight)
           rows == flight \o beats
<1>14. /\ beats \in Seq(RowShape) /\ OneEach(beats) /\ FilesOf(beats) \cap FilesOf(flight) = {}
       /\ \A i \in DOMAIN beats : ~Live(beats[i]) /\ ~beats[i].queued
  BY <1>13, BeatRows
<1> HIDE DEF beats
<1>15. /\ rows \in Seq(RowShape) /\ OneEach(rows)
       /\ \A i \in DOMAIN rows : (\E j \in DOMAIN flight : rows[i] = flight[j])
            \/ \E j \in DOMAIN beats : rows[i] = beats[j]
  BY <1>13, <1>14, RowsTogether
<1> HIDE DEF rows
\* A row is one of those read, one just eaten, or a beat.
<1>16. \A i \in DOMAIN rows : \/ \E j \in DOMAIN seen : rows[i] = seen[j]
                              \/ ~Live(rows[i]) /\ ~rows[i].queued
  <2>1. \A j \in DOMAIN full : ~Live(full[j]) /\ ~full[j].queued
    BY <1>9, <1>10
  <2>2. \A j \in DOMAIN flight : \/ \E m \in DOMAIN seen : flight[j] = seen[m]
                                 \/ ~Live(flight[j]) /\ ~flight[j].queued
    BY <1>13, <2>1
  <2> QED
    BY <1>14, <1>15, <2>2
<1> DEFINE t == InStartOrder(started, rows)
<1>17. /\ t \in Seq(RowShape) /\ OneEach(t)
       /\ \A k \in DOMAIN t : \E i \in DOMAIN rows : t[k] = rows[i]
       /\ \A i, j \in DOMAIN t :
            i < j => \/ t[j].name \notin FilesOf(started)
                     \/ /\ t[i].name \in FilesOf(started)
                        /\ Position(started, t[i].name) < Position(started, t[j].name)
  BY <1>5, <1>15, RowsInOrder
<1>18. in_flight' = t /\ left' = rest /\ started_files' = started /\ eaten' = eaten \o names
  BY <1>2 DEF rows, beats, flight, full, meal
<1> HIDE DEF t
<1>19. \A k \in DOMAIN t : \/ \E j \in DOMAIN seen : t[k] = seen[j]
                           \/ ~Live(t[k]) /\ ~t[k].queued
  BY <1>16, <1>17
\* The files eaten.
<1>20. /\ names \in Seq(Files) /\ Len(names) <= ahead /\ DOMAIN names = DOMAIN food
       /\ Len(names) \in Nat /\ Once(names)
       /\ \A k \in DOMAIN names : names[k] = food[k].name
  <2>1. /\ DOMAIN food = 1..Len(food) /\ Len(food) \in Nat /\ Len(food) <= ahead
        /\ \A k \in DOMAIN food : food[k].name \in Files
        /\ OneEach(food)
    BY <1>8, EachRow
  <2>2. names = [k \in DOMAIN food |-> food[k].name]
    BY DEF meal
  <2> HIDE DEF food, names
  <2>3. names \in [1..Len(food) -> Files]
    BY <2>1, <2>2
  <2>4. names \in Seq(Files) /\ Len(names) = Len(food)
    BY <2>1, <2>2, <2>3
  <2> QED
    BY <2>1, <2>2, <2>4 DEF Once, OneEach
<1> HIDE DEF names
<1>21. /\ eaten' \in Seq(Files) /\ Len(eaten') <= count
       /\ Once(eaten')
       /\ \A i \in DOMAIN eaten' : (\E j \in DOMAIN eaten : eaten'[i] = eaten[j])
            \/ \E j \in DOMAIN food : eaten'[i] = food[j].name
  <2> DEFINE c == eaten \o names
             m == Len(eaten)
  <2>1. /\ c \in Seq(Files) /\ Len(c) = m + Len(names) /\ m \in Nat /\ Len(names) \in Nat
        /\ DOMAIN eaten = 1..m /\ DOMAIN names = 1..Len(names) /\ DOMAIN c = 1..(m + Len(names))
        /\ \A i \in 1..m : c[i] = eaten[i]
        /\ \A i \in 1..Len(names) : c[m + i] = names[i]
    BY <1>0, <1>20, ConcatProperties
  <2>2. Len(c) <= count
    <3>1. ahead <= 0 \/ ahead = counted - m
      BY <1>7
    <3> HIDE DEF m, c
    <3> QED
      BY <1>0, <1>7, <1>20, <2>1, <3>1 DEF m
  <2> HIDE DEF c, m
  <2>3. \A i \in DOMAIN c : \/ i \in DOMAIN eaten /\ c[i] = eaten[i]
                            \/ i - m \in DOMAIN names /\ c[i] = names[i - m]
    <3> SUFFICES ASSUME NEW i \in DOMAIN c
                 PROVE  \/ i \in DOMAIN eaten /\ c[i] = eaten[i]
                        \/ i - m \in DOMAIN names /\ c[i] = names[i - m]
      OBVIOUS
    <3>1. CASE i <= m
      BY <2>1, <3>1
    <3>2. CASE ~(i <= m)
      <4>1. i - m \in 1..Len(names) /\ m + (i - m) = i
        BY <2>1, <3>2
      <4> QED
        BY <2>1, <4>1
    <3> QED
      BY <3>1, <3>2
  <2>4. \A i \in DOMAIN eaten, j \in DOMAIN names : eaten[i] # names[j]
    <3>1. \A j \in DOMAIN names : names[j] \notin ToSet(eaten)
      <4>1. \A j \in DOMAIN food : food[j].name \notin ToSet(eaten)
        BY <1>9
      <4> HIDE DEF food
      <4> QED
        BY <1>20, <4>1
    <3> QED
      BY <3>1 DEF ToSet
  <2>5. Once(c)
    <3> SUFFICES ASSUME NEW i \in DOMAIN c, NEW j \in DOMAIN c, c[i] = c[j] PROVE i = j
      BY DEF Once
    <3>0. i \in Nat /\ j \in Nat
      BY <2>1
    <3>1. CASE i \in DOMAIN eaten /\ c[i] = eaten[i] /\ j \in DOMAIN eaten /\ c[j] = eaten[j]
      BY <1>0, <3>1 DEF Once
    <3>2. CASE i - m \in DOMAIN names /\ c[i] = names[i - m] /\ j - m \in DOMAIN names
                 /\ c[j] = names[j - m]
      <4>1. i - m = j - m
        BY <1>20, <3>2 DEF Once
      <4> QED
        BY <2>1, <3>0, <4>1
    <3> QED
      BY <2>3, <2>4, <3>1, <3>2
  <2>6. \A i \in DOMAIN c : (\E j \in DOMAIN eaten : c[i] = eaten[j])
          \/ \E j \in DOMAIN food : c[i] = food[j].name
    <3> HIDE DEF food
    <3> QED
      BY <1>20, <2>3
  <2>7. eaten' = c
    BY <1>18 DEF c
  <2> QED
    BY <2>1, <2>2, <2>5, <2>6, <2>7
<1>22. UNCHANGED <<amount, listed, numbers, count, hides>>
  BY <1>2 DEF pacman
<1>23. FileTypeOK'
  <2>1. done' \in 0..Cardinality(Files)
    BY <1>0, <1>2
  <2>2. started_files' \in Seq(RowShape) /\ left' \in Seq(RowShape) /\ in_flight' \in Seq(RowShape)
    BY <1>5, <1>8, <1>17, <1>18
  <2>3. totals_seen' \subseteq Nat
    BY <1>2, <1>3
  <2> QED
    BY <1>0, <1>21, <1>22, <2>1, <2>2, <2>3 DEF FileTypeOK
<1>24. PacmanInv'
  BY <1>22 DEF FileInv, PacmanInv, Finished, Once
<1>25. RowsInv'
  <2>1. AllStarted(started_files')
    BY <1>5, <1>18
  <2>2. \A i \in DOMAIN left' : ~left'[i].queued
    BY <1>9, <1>18
  <2>3. \A i \in DOMAIN in_flight' : ~Live(in_flight'[i]) => ~in_flight'[i].queued
    BY <1>4, <1>18, <1>19
  <2> QED
    BY <2>1, <2>2, <2>3 DEF RowsInv
<1>26. GoneIsFinished'
  <2>1. \A k \in DOMAIN t : Live(t[k]) => t[k].name \in ToSet(listed)
    <3>1. \A j \in DOMAIN seen : seen[j].name \in ToSet(listed)
      BY <1>4 DEF FilesOf
    <3> QED
      BY <1>19, <3>1
  <2>2. hides = {} => \A k \in DOMAIN rest : amount[rest[k].name] = Full
    BY <1>9
  <2> HIDE DEF rest
  <2> QED
    BY <1>18, <1>22, <2>1, <2>2 DEF GoneIsFinished
<1>27. OncePerFile'
  <2>1. \A i \in DOMAIN eaten' : eaten'[i] \notin FilesOf(rest)
    <3>1. \A j \in DOMAIN eaten : eaten[j] \notin FilesOf(rest)
      <4>1. \A k \in DOMAIN rest : rest[k].name \notin ToSet(eaten)
        BY <1>9
      <4> HIDE DEF rest
      <4> QED
        BY <4>1 DEF FilesOf, ToSet
    <3>2. \A j \in DOMAIN food : food[j].name \notin FilesOf(rest)
      <4>1. FilesOf(food) \cap FilesOf(rest) = {}
        BY <1>8
      <4> HIDE DEF rest, food
      <4> QED
        BY <4>1 DEF FilesOf
    <3> HIDE DEF rest, food
    <3> QED
      BY <1>21, <3>1, <3>2
  <2>2. FilesOf(rest) \cap ToSet(eaten') = {}
    <3> HIDE DEF rest
    <3> QED
      BY <2>1 DEF ToSet
  <2>3. OneEach(in_flight') /\ OneEach(started_files') /\ OneEach(left')
    BY <1>5, <1>8, <1>17, <1>18
  <2>4. \A i, j \in DOMAIN eaten' : eaten'[i] = eaten'[j] => i = j
    BY <1>21 DEF Once
  <2> HIDE DEF rest
  <2> QED
    BY <1>18, <2>2, <2>3, <2>4 DEF OncePerFile
<1>28. EatenAsCounted'
  <2>1. done' <= count
    BY <1>0, <1>2
  <2>2. \A k \in DOMAIN t : Live(t[k]) => t[k].name \notin FilesOf(rest)
    <3>1. \A k \in DOMAIN rest : rest[k].name \notin FilesOf(seen)
      BY <1>9
    <3>2. \A j \in DOMAIN seen : seen[j].name \in FilesOf(seen)
      BY DEF FilesOf
    <3> HIDE DEF rest
    <3>3. FilesOf(rest) \cap FilesOf(seen) = {}
      BY <3>1 DEF FilesOf
    <3> QED
      BY <1>19, <3>2, <3>3
  <2> HIDE DEF rest
  <2> QED
    BY <1>18, <1>21, <1>22, <2>1, <2>2 DEF EatenAsCounted
<1>29. NeverQueuedAgain'
  <2>1. ASSUME NEW j \in DOMAIN seen, seen[j].queued PROVE seen[j].name \notin FilesOf(started)
    <3>1. seen[j].name \notin FilesOf(started_files) /\ Queued(totals, seen[j].name)
      BY <1>4, <2>1
    <3>2. \A i \in DOMAIN started :
            started[i].name \notin FilesOf(started_files) => ~Queued(totals, started[i].name)
      BY <1>5 DEF NewlyStarted
    <3> QED
      BY <3>1, <3>2 DEF FilesOf
  <2>2. \A k \in DOMAIN t : t[k].name \in FilesOf(started) => ~t[k].queued
    BY <1>19, <2>1
  <2> QED
    BY <1>18, <2>2 DEF NeverQueuedAgain
<1>30. RowsKeepTheirPlaces'
  BY <1>17, <1>18 DEF RowsKeepTheirPlaces
<1>31. FinishedIsFinished'
  <2> SUFFICES ASSUME hides = {}, NEW i \in DOMAIN eaten' PROVE amount[eaten'[i]] = Full
    BY <1>22 DEF FinishedIsFinished
  <2>1. \A j \in DOMAIN eaten : amount[eaten[j]] = Full
    BY DEF FileInv, RowsAreTrue, FinishedIsFinished
  <2>2. \A j \in DOMAIN food : amount[food[j].name] = Full
    BY <1>9
  <2> HIDE DEF food
  <2> QED
    BY <1>21, <2>1, <2>2
<1>32. StartsOnItsOwn
  <2> SUFFICES ASSUME NEW i \in DOMAIN started, started[i].name \notin FilesOf(started_files)
               PROVE  amount[started[i].name] > 0 \/ started[i].pct \notin totals
    BY <1>2, <1>18 DEF StartsOnItsOwn
  <2> DEFINE f == started[i].name
  <2>1. f \in Files
    BY <1>5, EachRow
  <2>2. ~Queued(totals, f) /\ started[i].pct = numbers[f].n
    BY <1>5 DEF NewlyStarted
  <2>3. numbers[f].of \in {"none", "own", "total"}
    BY <1>0, <2>1 DEF FileTypeOK
  <2>4. numbers[f].of = "own" \/ numbers[f].n \notin totals
    BY <2>2, <2>3 DEF Queued
  <2> QED
    BY <2>1, <2>2, <2>4 DEF FileInv, PacmanInv
<1> QED
  BY <1>23, <1>24, <1>25, <1>26, <1>27, <1>28, <1>29, <1>30, <1>31, <1>32 DEF FileInv, RowsAreTrue

\* The look at the full rows pacman leaves behind keeps it all.
LEMMA LookAtEndKeeps ==
  ASSUME FileConstantsOK, FileInv, LookAtEnd
  PROVE  FileInv' /\ StartsOnItsOwn
<1>0. /\ in_flight \in Seq(RowShape) /\ count \in 0..Cardinality(Files) /\ Full \in Nat
      /\ done \in 0..Cardinality(Files)
      /\ totals_seen \subseteq Nat /\ Cardinality(Files) \in Nat
  <2>1. Cardinality(Files) \in Nat
    BY FS_CardinalityType DEF FileConstantsOK
  <2> QED
    BY <2>1 DEF FileInv, FileTypeOK, FileConstantsOK
<1>1. /\ UNCHANGED <<amount, listed, numbers, count, hides, started_files, left, eaten>>
      /\ done' \in {count, done}
      /\ totals_seen' \in {OnRows(totals_seen \cup {Total}), OnRows(totals_seen)}
  BY DEF LookAtEnd, pacman
<1>a. in_flight' = [i \in DOMAIN in_flight |->
                       [in_flight[i] EXCEPT !.pct = Full, !.stalled = FALSE]]
  BY DEF LookAtEnd
<1>2. /\ DOMAIN in_flight' = DOMAIN in_flight
      /\ \A i \in DOMAIN in_flight :
           /\ in_flight'[i] \in RowShape
           /\ in_flight'[i].name = in_flight[i].name /\ in_flight'[i].queued = in_flight[i].queued
           /\ in_flight'[i].age = in_flight[i].age
  <2>1. \A i \in DOMAIN in_flight : in_flight[i] \in RowShape
    BY <1>0
  <2> QED
    BY <1>0, <1>a, <2>1 DEF RowShape
<1>3. in_flight' \in Seq(RowShape)
  <2>1. DOMAIN in_flight = 1..Len(in_flight) /\ Len(in_flight) \in Nat
    BY <1>0
  <2>2. in_flight' \in [1..Len(in_flight) -> RowShape]
    BY <1>a, <1>2, <2>1
  <2> QED
    BY <2>1, <2>2
<1>b. FilesOf(in_flight') = FilesOf(in_flight)
  BY <1>2 DEF FilesOf
<1>4. totals_seen' \subseteq Nat
  <2>1. Total \in Nat
    BY TotalIsNumber
  <2> QED
    BY <1>0, <1>1, <2>1 DEF OnRows
<1>5. FileTypeOK'
  BY <1>0, <1>1, <1>3, <1>4 DEF FileInv, FileTypeOK
<1>6. PacmanInv'
  BY <1>1 DEF FileInv, PacmanInv, Finished, Once
<1>7. RowsInv'
  BY <1>1, <1>2 DEF FileInv, RowsInv, AllStarted, Live
<1>c. /\ ToSet(listed)' = ToSet(listed) /\ ToSet(eaten)' = ToSet(eaten)
      /\ FilesOf(started_files)' = FilesOf(started_files) /\ FilesOf(left)' = FilesOf(left)
  BY <1>1 DEF ToSet, FilesOf
<1>d. \A f : Position(started_files, f)' = Position(started_files, f)
  BY <1>1 DEF Position
<1>8. GoneIsFinished'
  BY <1>1, <1>2, <1>c DEF FileInv, GoneIsFinished, Live
<1>9. RowsAreTrue'
  <2>1. OncePerFile'
    <3>1. OneEach(in_flight)'
      BY <1>2 DEF FileInv, RowsAreTrue, OncePerFile, OneEach
    <3>2. OneEach(started_files)' /\ OneEach(left)'
            /\ (\A i, j \in DOMAIN eaten : eaten[i] = eaten[j] => i = j)'
      BY <1>1 DEF FileInv, RowsAreTrue, OncePerFile, OneEach
    <3>3. (FilesOf(left) \cap ToSet(eaten) = {})'
      BY <1>c DEF FileInv, RowsAreTrue, OncePerFile
    <3> QED
      BY <3>1, <3>2, <3>3 DEF OncePerFile
  <2>2. EatenAsCounted'
    <3>1. Len(eaten) <= count /\ done <= count /\ count <= count
      BY <1>0 DEF FileInv, RowsAreTrue, EatenAsCounted
    <3>2. (Len(eaten) <= count /\ done <= count)'
      BY <1>1, <3>1
    <3>3. (\A i \in DOMAIN in_flight :
             Live(in_flight[i]) => in_flight[i].name \notin FilesOf(left))'
      BY <1>2, <1>c DEF FileInv, RowsAreTrue, EatenAsCounted, Live
    <3> QED
      BY <3>2, <3>3 DEF EatenAsCounted
  <2>3. NeverQueuedAgain'
    BY <1>2, <1>c DEF FileInv, RowsAreTrue, NeverQueuedAgain
  <2>4. RowsKeepTheirPlaces'
    BY <1>2, <1>c, <1>d DEF FileInv, RowsAreTrue, RowsKeepTheirPlaces
  <2>5. FinishedIsFinished'
    BY <1>1 DEF FileInv, RowsAreTrue, FinishedIsFinished
  <2> QED
    BY <2>1, <2>2, <2>3, <2>4, <2>5 DEF RowsAreTrue
<1>10. StartsOnItsOwn
  BY <1>1 DEF StartsOnItsOwn, FilesOf
<1> QED
  BY <1>5, <1>6, <1>7, <1>8, <1>9, <1>10 DEF FileInv

\* Every step keeps the invariant and starts files on their own numbers.
LEMMA FilesStep ==
  ASSUME FileConstantsOK, FileInv, [FileNext]_filevars
  PROVE  FileInv' /\ (StartsOnItsOwn \/ UNCHANGED filevars)
<1>1. CASE \E f \in Files : BeginFile(f) \/ Receive(f) \/ Stall(f) \/ Complete(f) \/ Redraw(f)
  <2>1. FileInv'
    BY <1>1, PacmanKeeps
  <2>2. started_files' = started_files
    BY <1>1 DEF BeginFile, Receive, Stall, Complete, Redraw, rowvars
  <2>3. StartsOnItsOwn
    BY <2>2 DEF StartsOnItsOwn, FilesOf
  <2> QED
    BY <2>1, <2>3
<1>2. CASE LookAtRows
  BY <1>2, LookKeeps
<1>3. CASE LookAtEnd
  BY <1>3, LookAtEndKeeps
<1>4. CASE UNCHANGED filevars
  <2>1. /\ UNCHANGED <<amount, listed, numbers, count, hides>>
        /\ UNCHANGED <<in_flight, started_files, totals_seen, left, eaten, done>>
    BY <1>4 DEF filevars, pacman, rowvars
  <2>2. FileTypeOK'
    BY <2>1 DEF FileInv, FileTypeOK
  <2>3. PacmanInv'
    BY <2>1 DEF FileInv, PacmanInv, Finished, Once
  <2>4. RowsInv' /\ GoneIsFinished' /\ RowsAreTrue'
    <3>1. /\ amount' \in [Files -> 0..Full] /\ count' \in Nat /\ count <= count'
          /\ \A f \in Files : amount[f] = Full => amount'[f] = Full
          /\ UNCHANGED <<rowvars, hides>> /\ ToSet(listed') = ToSet(listed)
      <4>1. amount \in [Files -> 0..Full] /\ count \in Nat
        <5>1. count \in 0..Cardinality(Files)
          BY DEF FileInv, FileTypeOK
        <5> QED
          BY <5>1 DEF FileInv, FileTypeOK
      <4> QED
        BY <2>1, <4>1 DEF rowvars
    <3> QED
      BY <3>1, PacmanSpares
  <2> QED
    BY <1>4, <2>2, <2>3, <2>4 DEF FileInv
<1> QED
  BY <1>1, <1>2, <1>3, <1>4 DEF FileNext

\* The invariant of the download rows.
LEMMA FilesInvariant ==
  ASSUME FileConstantsOK
  PROVE  FileSpec => []FileInv /\ [][StartsOnItsOwn]_filevars
<1>1. FileInit => FileInv
  BY FilesStart
<1>2. FileInv /\ [FileNext]_filevars => FileInv' /\ [StartsOnItsOwn]_filevars
  BY FilesStep
<1> QED
  BY <1>1, <1>2, PTL DEF FileSpec

\* What pacman and the view know of the downloads keeps its types, for any files,
\* sizes, numbers of slots and beats (update_view/model.rs, observe).
THEOREM FileTypes == ASSUME FileConstantsOK PROVE FileSpec => []FileTypeOK
<1>1. FileInv => FileTypeOK
  BY DEF FileInv
<1> QED
  BY <1>1, FilesInvariant, PTL

\* However pacman reshuffles, half redraws and counts its rows, and whichever
\* looks the view gets at them: a file has one row, in its place, is never again
\* queued once started, waits or is finished once, and no more are finished than
\* were counted; a file is taken for started on its own numbers
\* (update_view/model.rs, observe).
THEOREM FileRowsAreTrue == ASSUME FileConstantsOK PROVE FileSpec => FilesAreTrue
<1>1. FileInv => RowsAreTrue
  BY DEF FileInv
<1> QED
  BY <1>1, FilesInvariant, PTL DEF FilesAreTrue
=============================================================================
