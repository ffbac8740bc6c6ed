---------------------------- MODULE RunProofs ----------------------------
(***************************************************************************)
(* Proofs about the picture of a run, for any feeds pacman may write: read *)
(* in any interleaving, the screen and the log fold into phases in order,  *)
(* counts that fit, and a verdict that is true; no step takes back what    *)
(* the picture told.                                                       *)
(*                                                                         *)
(* Core is what every operator that folds an event keeps.  It adds to the  *)
(* picture what pacman still has to say: a download count no larger than   *)
(* those to come, a check counted ahead of its line only while that line   *)
(* is next, hooks within the section's total, and what the log has told so *)
(* far.  A step that only tells more of what is there (Alike) keeps it     *)
(* without looking further; SectionKnown says whose total a hook line      *)
(* carries.                                                                *)
(*                                                                         *)
(* Lines is what holds of the lines the picture keeps.  It tells where the *)
(* screen is (SectionIs, HookIs) and how many hooks the log has named      *)
(* (LogIs); that a hook is the one of pacman's with its number, its notes  *)
(* the first lines that one printed, read with what is known of it         *)
(* (HooksOwn); and that of every word as many lines are listed as unknown  *)
(* as notes are Plain (WordsKept).  A file told late makes fewer notes     *)
(* Plain, and takes as many lines off the list: the last of each word.     *)
(***************************************************************************)
EXTENDS UpdateRun, FiniteSetTheorems, WellFoundedInduction, SequenceTheorems, TLAPS

StartedIn(hooks) == {i \in DOMAIN hooks : hooks[i].started}

PhaseShape == [state : {"Pending", "Running", "Done"}, done : Nat,
               total : Nat \cup {NoTotal}, detail : STRING \cup {None}]

\* The fields a step that only tells more leaves alone.
Relevant ==
  {"phases", "dbs", "packages", "tx_started", "log_seen", "finished", "exit", "saw_package",
   "screen_section"}

Ordered(r) ==
  \A i, j \in DOMAIN PHASES :
      i < j /\ Place(r, PHASES[j]) # "Pending" => Place(r, PHASES[i]) # "Running"

Forwards(r, q) ==
  \A k \in PhaseKind :
      /\ Place(r, k) = "Done" => Place(q, k) = "Done"
      /\ Place(r, k) = "Running" => Place(q, k) # "Pending"
      /\ q.phases[k].done >= r.phases[k].done

Listed(r) ==
  /\ r.phases["Sync"].done <= Cardinality(r.dbs)
  /\ r.phases["Plan"].done <= Cardinality(r.packages)

HooksFit(f, r) ==
  \A k \in HookKind :
      \/ /\ r.phases[k].total = NoTotal /\ r.phases[k].done = 0
         /\ StartedIn(r.hooks[k]) = {}
      \/ /\ r.phases[k].total = Len(f.facts[k]) /\ r.phases[k].done <= r.phases[k].total
         /\ StartedIn(r.hooks[k]) \subseteq 1..Len(f.facts[k])

Downloaded(f, n, r) ==
  \A i \in (n + 1)..Len(f.screen) :
      f.screen[i].type = "DownloadTotal" => r.phases["Download"].done <= f.screen[i].done

ChecksIn(f, n) == {i \in 1..n : f.screen[i].type = "Check"}

ChecksFit(f, n, r) ==
  \/ r.phases["Checks"].done <= Cardinality(ChecksIn(f, n))
  \/ /\ n + 1 \in DOMAIN f.screen /\ f.screen[n + 1].type = "Check"
     /\ r.phases["Checks"].detail = f.screen[n + 1].name
     /\ r.phases["Checks"].done <= Cardinality(ChecksIn(f, n + 1))

ToldByLog(f, m, r) ==
  /\ r.saw_package \/ r.tx_started => f.facts.changed
  /\ \A i \in 1..m : f.log[i].type = "TxStarted" => r.tx_started
  /\ \A i \in 1..m : f.log[i].type \in {"RunStart", "TxStarted", "TxCompleted"} => r.log_seen
  /\ r.log_seen => f.log # <<>>

Core(f, n, m, r) ==
  /\ PictureShape(r) /\ Ordered(r) /\ Listed(r) /\ HooksFit(f, r)
  /\ Downloaded(f, n, r) /\ ChecksFit(f, n, r) /\ ToldByLog(f, m, r)

\* The steps from r to q leave all but these fields alone.
Beside(fields, r, q) == \A a \in DOMAIN New \ fields : q[a] = r[a]

\* q tells what r tells, and its hooks are the same ones, begun as far.
Alike(r, q) ==
  /\ DOMAIN q = DOMAIN New
  /\ \A a \in Relevant : q[a] = r[a]
  /\ HooksShape(q.hooks) /\ q.named \in [HookKind -> Nat]
  /\ \A k \in HookKind : StartedIn(q.hooks[k]) = StartedIn(r.hooks[k])

\* The kinds and their places.
LEMMA Kinds ==
  /\ DOMAIN PHASES = 1..7 /\ Len(PHASES) = 7
  /\ PhaseKind = {"Sync", "Plan", "Download", "Checks", "PreHooks", "Packages", "PostHooks"}
  /\ HookKind \subseteq PhaseKind
<1>1. DOMAIN PHASES = 1..7 /\ Len(PHASES) = 7
  BY DEF PHASES
<1>2. PhaseKind = {"Sync", "Plan", "Download", "Checks", "PreHooks", "Packages", "PostHooks"}
  <2>1. PhaseKind = {PHASES[i] : i \in 1..7}
    BY <1>1 DEF PhaseKind, ToSet
  <2> QED
    BY <2>1 DEF PHASES
<1> QED
  BY <1>1, <1>2 DEF HookKind

\* Each kind has one place.
LEMMA Places ==
  /\ \A i \in 1..7 : PHASES[i] \in PhaseKind /\ idx(PHASES[i]) = i
  /\ \A k \in PhaseKind : idx(k) \in 1..7 /\ PHASES[idx(k)] = k
<1>1. \A i \in 1..7 : PHASES[i] \in PhaseKind
  BY Kinds DEF PhaseKind, ToSet
<1>2. \A i, j \in 1..7 : PHASES[i] = PHASES[j] => i = j
  BY DEF PHASES
<1>3. \A k \in PhaseKind : \E i \in 1..7 : PHASES[i] = k
  BY Kinds DEF PhaseKind, ToSet
<1>4. \A k \in PhaseKind : idx(k) \in 1..7 /\ PHASES[idx(k)] = k
  BY <1>3, Kinds DEF idx
<1>5. \A i \in 1..7 : idx(PHASES[i]) = i
  BY <1>1, <1>2, <1>4
<1> QED
  BY <1>1, <1>4, <1>5

\* The shape of a picture, field by field.
LEMMA Shape ==
  ASSUME NEW r, PictureShape(r), NEW k \in PhaseKind
  PROVE  /\ r.phases[k] \in PhaseShape /\ DOMAIN r.phases = PhaseKind
         /\ r.phases[k].state \in {"Pending", "Running", "Done"}
         /\ r.phases[k].done \in Nat /\ r.phases[k].total \in Nat \cup {NoTotal}
         /\ r.phases[k].detail \in STRING \cup {None}
         /\ NoTotal = -1
BY DEF PictureShape, PhaseShape, NoTotal

\* What a step that only tells more keeps.
LEMMA AlikeKeeps ==
  ASSUME NEW f, NEW n, NEW m, NEW r, NEW q, Core(f, n, m, r), Alike(r, q)
  PROVE  Core(f, n, m, q) /\ Forwards(r, q) /\ Alike(r, q)
<1>1. /\ q.phases = r.phases /\ q.dbs = r.dbs /\ q.packages = r.packages
      /\ q.tx_started = r.tx_started /\ q.log_seen = r.log_seen /\ q.finished = r.finished
      /\ q.exit = r.exit /\ q.saw_package = r.saw_package
  BY DEF Alike, Relevant
<1>2. PictureShape(q)
  BY <1>1 DEF Core, PictureShape, Alike
<1>3. Ordered(q) /\ Listed(q) /\ Downloaded(f, n, q) /\ ChecksFit(f, n, q) /\ ToldByLog(f, m, q)
  BY <1>1 DEF Core, Ordered, Place, Listed, Downloaded, ChecksFit, ToldByLog
<1>4. HooksFit(f, q)
  BY <1>1 DEF Core, HooksFit, Alike
<1>5. Forwards(r, q)
  BY <1>1, Shape DEF Core, Forwards, Place
<1> QED
  BY <1>2, <1>3, <1>4, <1>5 DEF Core

ListShape(hooks) ==
  /\ Len(hooks) \in Nat /\ DOMAIN hooks = 1..Len(hooks)
  /\ \A i \in DOMAIN hooks : HookShape(hooks[i])

\* A function on 1..n is as long as that.
LEMMA LengthOf ==
  ASSUME NEW n \in Nat, NEW g, DOMAIN g = 1..n
  PROVE  Len(g) = n
OBVIOUS

\* Closing hooks begins none, and those begun are over.
LEMMA ClosedHooks ==
  ASSUME NEW hooks, ListShape(hooks)
  PROVE  /\ ListShape(Closed(hooks))
         /\ StartedIn(Closed(hooks)) = StartedIn(hooks)
         /\ \A i \in DOMAIN Closed(hooks) : Closed(hooks)[i].started => Closed(hooks)[i].ended
<1>1. DOMAIN Closed(hooks) = DOMAIN hooks
  BY DEF Closed
<1>2. \A i \in DOMAIN hooks :
         /\ HookShape(Closed(hooks)[i]) /\ Closed(hooks)[i].started = hooks[i].started
         /\ Closed(hooks)[i].started => Closed(hooks)[i].ended
  <2>1. TAKE i \in DOMAIN hooks
  <2>2. Closed(hooks)[i] = [hooks[i] EXCEPT !.ended = hooks[i].ended \/ hooks[i].started]
    BY DEF Closed
  <2>3. DOMAIN hooks[i] = {"desc", "file", "started", "ended", "notes"}
    BY DEF ListShape, HookShape
  <2>4. /\ DOMAIN Closed(hooks)[i] = DOMAIN hooks[i] /\ Closed(hooks)[i].started = hooks[i].started
        /\ Closed(hooks)[i].ended = (hooks[i].ended \/ hooks[i].started)
    BY <2>2, <2>3
  <2>5. hooks[i].started \in BOOLEAN /\ hooks[i].ended \in BOOLEAN
    BY DEF ListShape, HookShape
  <2> QED
    BY <2>3, <2>4, <2>5 DEF HookShape
<1>3. Len(Closed(hooks)) = Len(hooks) /\ DOMAIN Closed(hooks) = 1..Len(hooks) /\ Len(hooks) \in Nat
  BY <1>1, LengthOf DEF ListShape
<1>4. ListShape(Closed(hooks))
  BY <1>1, <1>2, <1>3 DEF ListShape
<1>5. StartedIn(Closed(hooks)) = StartedIn(hooks)
  BY <1>1, <1>2 DEF StartedIn
<1> QED
  BY <1>1, <1>2, <1>4, <1>5

\* Hooks begun below a bound are no more than the bound.
LEMMA StartedCount ==
  ASSUME NEW hooks, NEW n \in Nat, StartedIn(hooks) \subseteq 1..n
  PROVE  Started(hooks) \in Nat /\ Started(hooks) <= n
<1>1. IsFiniteSet(1..n) /\ Cardinality(1..n) = n
  BY FS_Interval
<1>2. Cardinality(StartedIn(hooks)) <= n /\ IsFiniteSet(StartedIn(hooks))
  BY <1>1, FS_Subset
<1>3. Cardinality(StartedIn(hooks)) \in Nat
  BY <1>2, FS_CardinalityType
<1>4. Started(hooks) = Cardinality(StartedIn(hooks))
  BY DEF Started, StartedIn
<1> QED
  BY <1>2, <1>3, <1>4

\* The hooks of a list are finitely many.
LEMMA StartedIsNat ==
  ASSUME NEW hooks, ListShape(hooks)
  PROVE  Started(hooks) \in Nat
<1>1. StartedIn(hooks) \subseteq 1..Len(hooks) /\ Len(hooks) \in Nat
  BY DEF StartedIn, ListShape
<1> QED
  BY <1>1, StartedCount

\* The phases end_running leaves.
Ended(r, upto, k) ==
  IF idx(k) < upto /\ r.phases[k].state = "Running"
  THEN [r.phases[k] EXCEPT
          !.state = "Done",
          !.done = IF k \in HookKind
                   THEN Larger(Larger(r.phases[k].done, Started(r.hooks[k])), r.phases[k].total)
                   ELSE @]
  ELSE r.phases[k]

\* What ending phases changes, field by field.
LEMMA EndFields ==
  ASSUME NEW r, PictureShape(r), NEW upto \in Nat
  PROVE  LET q == end_running(r, upto)
         IN  /\ DOMAIN q = DOMAIN New
             /\ \A a \in DOMAIN New \ {"phases", "hooks"} : q[a] = r[a]
             /\ q.phases = [k \in PhaseKind |-> Ended(r, upto, k)]
             /\ DOMAIN q.hooks = HookKind
             /\ \A k \in HookKind : q.hooks[k] \in {r.hooks[k], Closed(r.hooks[k])}
<1> DEFINE q == end_running(r, upto)
           ending == {k \in PhaseKind : idx(k) < upto /\ r.phases[k].state = "Running"}
           closed == [k \in HookKind |-> IF k \in ending THEN Closed(r.hooks[k]) ELSE r.hooks[k]]
           phases == [k \in PhaseKind |-> Ended(r, upto, k)]
<1>1. q = [r EXCEPT !.hooks = closed, !.phases = phases]
  <2>1. phases = [k \in PhaseKind |->
              IF k \notin ending THEN r.phases[k]
              ELSE [r.phases[k] EXCEPT !.state = "Done",
                      !.done = IF k \in HookKind
                               THEN Larger(Larger(r.phases[k].done, Started(r.hooks[k])), r.phases[k].total)
                               ELSE @]]
    BY Zenon DEF Ended
  <2> HIDE DEF phases
  <2> QED
    BY Zenon, <2>1 DEF end_running
<1>2. DOMAIN r = DOMAIN New /\ {"phases", "hooks"} \subseteq DOMAIN New
  BY DEF PictureShape, New
<1> HIDE DEF q, closed, phases
<1>3. /\ DOMAIN q = DOMAIN New
      /\ \A a \in DOMAIN New \ {"phases", "hooks"} : q[a] = r[a]
      /\ q.phases = phases /\ q.hooks = closed
  BY <1>1, <1>2
<1> QED
  BY <1>3 DEF q, closed, phases

\* What ending does to one phase.
LEMMA EndedPhase ==
  ASSUME NEW r, PictureShape(r), NEW upto \in Nat, NEW k \in PhaseKind
  PROVE  LET e == Ended(r, upto, k) p == r.phases[k]
         IN  /\ e \in PhaseShape
             /\ e.total = p.total /\ e.detail = p.detail
             /\ e.state = IF idx(k) < upto /\ p.state = "Running" THEN "Done" ELSE p.state
             /\ k \notin HookKind => e.done = p.done
             /\ e.done >= p.done
             /\ e.done \in {p.done, Larger(Larger(p.done, Started(r.hooks[k])), p.total)}
<1> DEFINE e == Ended(r, upto, k) p == r.phases[k]
           d == IF k \in HookKind THEN Larger(Larger(p.done, Started(r.hooks[k])), p.total) ELSE p.done
<1>1. /\ p \in PhaseShape /\ p.state \in {"Pending", "Running", "Done"} /\ p.done \in Nat
      /\ p.total \in Nat \cup {NoTotal} /\ NoTotal = -1 /\ p.detail \in STRING \cup {None}
  BY Shape
<1>2. d \in Nat /\ d >= p.done
  <2>1. CASE k \in HookKind
    <3>1. ListShape(r.hooks[k])
      BY <2>1 DEF PictureShape, HooksShape, ListShape
    <3>2. Started(r.hooks[k]) \in Nat
      BY <3>1, StartedIsNat
    <3> QED
      BY <1>1, <2>1, <3>2 DEF Larger
  <2>2. CASE k \notin HookKind
    BY <1>1, <2>2
  <2> QED
    BY <2>1, <2>2
<1>3. e = IF idx(k) < upto /\ p.state = "Running"
          THEN [p EXCEPT !.state = "Done", !.done = d] ELSE p
  BY DEF Ended
<1> HIDE DEF e, p, d
<1>4. CASE idx(k) < upto /\ p.state = "Running"
  <2>1. e = [p EXCEPT !.state = "Done", !.done = d]
    BY <1>3, <1>4
  <2>2. p = [state |-> p.state, done |-> p.done, total |-> p.total, detail |-> p.detail]
    BY <1>1 DEF PhaseShape
  <2>3. e = [state |-> "Done", done |-> d, total |-> p.total, detail |-> p.detail]
    BY <2>1, <2>2
  <2>4. e \in PhaseShape
    BY <2>3, <1>1, <1>2 DEF PhaseShape
  <2>5. e.done = d /\ e.total = p.total /\ e.detail = p.detail /\ e.state = "Done"
    BY <2>3
  <2> QED
    BY <2>4, <2>5, <1>2, <1>4 DEF e, p, d
<1>5. CASE ~(idx(k) < upto /\ p.state = "Running")
  <2>1. e = p
    BY <1>3, <1>5
  <2> QED
    BY <2>1, <1>1, <1>5 DEF e, p
<1> QED
  BY <1>4, <1>5

\* Ending the phases before a place keeps the picture true, and ends them.
LEMMA EndKeeps ==
  ASSUME NEW f, NEW n, NEW m, NEW r, NEW upto \in Nat, Core(f, n, m, r), f \in Feed
  PROVE  LET q == end_running(r, upto)
         IN  /\ Core(f, n, m, q) /\ Forwards(r, q)
             /\ \A k \in PhaseKind :
                   Place(q, k) = IF idx(k) < upto /\ Place(r, k) = "Running" THEN "Done"
                                 ELSE Place(r, k)
             /\ Beside({"phases", "hooks"}, r, q)
<1> DEFINE q == end_running(r, upto)
<1>0. PictureShape(r)
  BY DEF Core
<1>1. /\ DOMAIN q = DOMAIN New
      /\ \A a \in DOMAIN New \ {"phases", "hooks"} : q[a] = r[a]
      /\ q.phases = [k \in PhaseKind |-> Ended(r, upto, k)]
      /\ DOMAIN q.hooks = HookKind
      /\ \A k \in HookKind : q.hooks[k] \in {r.hooks[k], Closed(r.hooks[k])}
  BY <1>0, EndFields
<1> HIDE DEF q
<1>2. \A k \in PhaseKind :
         /\ q.phases[k] \in PhaseShape
         /\ q.phases[k].total = r.phases[k].total /\ q.phases[k].detail = r.phases[k].detail
         /\ k \notin HookKind => q.phases[k].done = r.phases[k].done
         /\ q.phases[k].done >= r.phases[k].done
         /\ q.phases[k].done \in {r.phases[k].done,
               Larger(Larger(r.phases[k].done, Started(r.hooks[k])), r.phases[k].total)}
         /\ Place(q, k) = IF idx(k) < upto /\ Place(r, k) = "Running" THEN "Done" ELSE Place(r, k)
  <2>1. TAKE k \in PhaseKind
  <2>2. q.phases[k] = Ended(r, upto, k)
    BY <1>1
  <2> QED
    BY <1>0, <2>2, EndedPhase DEF Place
<1>3. \A k \in HookKind : ListShape(q.hooks[k]) /\ StartedIn(q.hooks[k]) = StartedIn(r.hooks[k])
  <2>1. TAKE k \in HookKind
  <2>2. ListShape(r.hooks[k])
    BY <1>0 DEF PictureShape, HooksShape, ListShape
  <2> QED
    BY <1>1, <2>2, ClosedHooks
<1>4. /\ q.dbs = r.dbs /\ q.packages = r.packages /\ q.named = r.named
      /\ q.tx_started = r.tx_started /\ q.log_seen = r.log_seen
      /\ q.finished = r.finished /\ q.saw_package = r.saw_package
  BY <1>1 DEF New
<1>5. PictureShape(q)
  <2>1. HooksShape(q.hooks)
    BY <1>1, <1>3 DEF HooksShape, ListShape
  <2>2. q.phases \in [PhaseKind -> PhaseShape]
    BY <1>1, <1>2
  <2> QED
    BY <1>0, <1>1, <1>4, <2>1, <2>2 DEF PictureShape, PhaseShape
<1>6. Ordered(q)
  <2>1. Ordered(r)
    BY DEF Core
  <2> QED
    BY <1>2, <2>1, Places, Kinds DEF Ordered
<1>7. {"Sync", "Plan", "Download", "Checks"} \subseteq PhaseKind \ HookKind
  BY Kinds DEF HookKind
<1>8. Listed(q) /\ Downloaded(f, n, q) /\ ChecksFit(f, n, q) /\ ToldByLog(f, m, q)
  BY <1>2, <1>4, <1>7 DEF Core, Listed, Downloaded, ChecksFit, ToldByLog
<1>9. HooksFit(f, q)
  <2>1. SUFFICES ASSUME NEW k \in HookKind
        PROVE  \/ /\ q.phases[k].total = NoTotal /\ q.phases[k].done = 0
                  /\ StartedIn(q.hooks[k]) = {}
               \/ /\ q.phases[k].total = Len(f.facts[k]) /\ q.phases[k].done <= q.phases[k].total
                  /\ StartedIn(q.hooks[k]) \subseteq 1..Len(f.facts[k])
    BY DEF HooksFit
  <2>2. k \in PhaseKind
    BY Kinds
  <2>3. /\ r.phases[k].done \in Nat /\ r.phases[k].total \in Nat \cup {NoTotal} /\ NoTotal = -1
    BY <1>0, <2>2, Shape
  <2>4. Len(f.facts[k]) \in Nat
    BY DEF Feed, HookKind
  <2>5. StartedIn(q.hooks[k]) = StartedIn(r.hooks[k])
    BY <1>3
  <2>6. CASE /\ r.phases[k].total = NoTotal /\ r.phases[k].done = 0 /\ StartedIn(r.hooks[k]) = {}
    <3>1. Started(r.hooks[k]) \in Nat /\ Started(r.hooks[k]) <= 0
      BY <2>6, StartedCount, 0 \in Nat
    <3>2. q.phases[k].done = 0
      BY <1>2, <2>2, <2>3, <2>6, <3>1 DEF Larger
    <3> QED
      BY <1>2, <2>2, <2>5, <2>6, <3>2
  <2>7. CASE /\ r.phases[k].total = Len(f.facts[k]) /\ r.phases[k].done <= r.phases[k].total
             /\ StartedIn(r.hooks[k]) \subseteq 1..Len(f.facts[k])
    <3>1. Started(r.hooks[k]) \in Nat /\ Started(r.hooks[k]) <= Len(f.facts[k])
      BY <2>4, <2>7, StartedCount
    <3>2. q.phases[k].done <= q.phases[k].total
      BY <1>2, <2>2, <2>3, <2>4, <2>7, <3>1 DEF Larger
    <3> QED
      BY <1>2, <2>2, <2>5, <2>7, <3>2
  <2> QED
    BY <2>6, <2>7 DEF Core, HooksFit
<1>10. Forwards(r, q)
  <2>1. \A k \in PhaseKind : Place(q, k) = IF idx(k) < upto /\ Place(r, k) = "Running" THEN "Done" ELSE Place(r, k)
    BY <1>2
  <2> QED
    BY <1>2, <2>1 DEF Forwards
<1>11. Core(f, n, m, q)
  BY <1>5, <1>6, <1>8, <1>9 DEF Core
<1>12. Beside({"phases", "hooks"}, r, q)
  BY <1>1 DEF Beside
<1> QED
  BY <1>2, <1>10, <1>11, <1>12 DEF q

\* The phases of the picture replaced.
LEMMA PhasePut ==
  ASSUME NEW r, PictureShape(r), NEW q, DOMAIN q = DOMAIN New,
         \A a \in DOMAIN New \ {"phases"} : q[a] = r[a],
         q.phases \in [PhaseKind -> PhaseShape]
  PROVE  PictureShape(q) /\ q.hooks = r.hooks
<1>1. /\ q.dbs = r.dbs /\ q.packages = r.packages /\ q.named = r.named /\ q.hooks = r.hooks
      /\ q.tx_started = r.tx_started /\ q.log_seen = r.log_seen
      /\ q.finished = r.finished /\ q.saw_package = r.saw_package
  BY DEF New
<1>2. PictureShape(q)
  BY <1>1 DEF PictureShape, PhaseShape
<1> QED
  BY <1>1, <1>2

\* A step forward and another are one.
LEMMA ForwardsAgain ==
  ASSUME NEW r, NEW e, NEW q, PictureShape(r), PictureShape(e), PictureShape(q),
         Forwards(r, e), Forwards(e, q)
  PROVE  Forwards(r, q)
<1>1. \A k \in PhaseKind : /\ r.phases[k].done \in Nat /\ e.phases[k].done \in Nat
                          /\ q.phases[k].done \in Nat
                          /\ Place(e, k) \in {"Pending", "Running", "Done"}
                          /\ Place(q, k) \in {"Pending", "Running", "Done"}
  BY Shape DEF Place
<1> QED
  BY <1>1 DEF Forwards

\* Entering a phase keeps the picture true.
LEMMA EnterKeeps ==
  ASSUME NEW f, NEW n, NEW m, NEW r, NEW kind \in PhaseKind, Core(f, n, m, r), f \in Feed
  PROVE  /\ Core(f, n, m, enter(r, kind)) /\ Forwards(r, enter(r, kind))
         /\ Beside({"phases", "hooks"}, r, enter(r, kind))
<1> DEFINE q == enter(r, kind) e == end_running(r, idx(kind))
           reached == \E i \in idx(kind)..Len(PHASES) : r.phases[PHASES[i]].state # "Pending"
<1>1. idx(kind) \in Nat /\ idx(kind) \in 1..7 /\ PHASES[idx(kind)] = kind
  BY Places
<1>2. CASE reached
  <2>1. q = r
    BY <1>2 DEF enter
  <2>2. Forwards(r, r)
    BY Shape DEF Forwards, Core, Place
  <2> QED
    BY <2>1, <2>2 DEF Beside
<1>3. CASE ~reached
  <2>1. /\ Core(f, n, m, e) /\ Forwards(r, e)
        /\ \A k \in PhaseKind :
              Place(e, k) = IF idx(k) < idx(kind) /\ Place(r, k) = "Running" THEN "Done"
                            ELSE Place(r, k)
        /\ Beside({"phases", "hooks"}, r, e)
    BY <1>1, EndKeeps
  <2>2. q = [e EXCEPT !.phases[kind].state = "Running"]
    BY <1>3 DEF enter
  <2> HIDE DEF q, e
  <2> DEFINE p == [e.phases[kind] EXCEPT !.state = "Running"]
  <2>3. PictureShape(e) /\ PictureShape(r)
    BY <2>1 DEF Core
  <2>4. e.phases[kind] \in PhaseShape /\ DOMAIN e.phases = PhaseKind
    BY <2>3, Shape
  <2>5. p = [state |-> "Running", done |-> e.phases[kind].done, total |-> e.phases[kind].total,
             detail |-> e.phases[kind].detail]
    BY <2>4 DEF PhaseShape
  <2>6. p \in PhaseShape
    BY <2>4, <2>5 DEF PhaseShape
  <2>7. DOMAIN e = DOMAIN New /\ "phases" \in DOMAIN New
    BY <2>3 DEF PictureShape, New
  <2>8. /\ DOMAIN q = DOMAIN New
        /\ \A a \in DOMAIN New \ {"phases"} : q[a] = e[a]
        /\ q.phases = [e.phases EXCEPT ![kind] = p]
    BY <2>2, <2>7
  <2> HIDE DEF p
  <2>9. /\ PictureShape(q) /\ q.phases[kind] = p /\ q.hooks = e.hooks
        /\ \A j \in PhaseKind \ {kind} : q.phases[j] = e.phases[j]
    <3>1. e.phases \in [PhaseKind -> PhaseShape]
      BY <2>3 DEF PictureShape, PhaseShape
    <3>2. q.phases \in [PhaseKind -> PhaseShape]
      BY <2>6, <2>8, <3>1
    <3>3. PictureShape(q) /\ q.hooks = e.hooks
      BY <2>3, <2>8, <3>2, PhasePut
    <3>4. q.phases[kind] = p /\ \A j \in PhaseKind \ {kind} : q.phases[j] = e.phases[j]
      BY <2>8, <3>1
    <3> QED
      BY <3>3, <3>4
  <2>10. \A k \in PhaseKind : /\ q.phases[k].done = e.phases[k].done
                             /\ q.phases[k].total = e.phases[k].total
                             /\ q.phases[k].detail = e.phases[k].detail
                             /\ Place(q, k) = IF k = kind THEN "Running" ELSE Place(e, k)
    BY <2>5, <2>9 DEF Place
  <2>11. \A k \in PhaseKind : idx(k) >= idx(kind) => Place(r, k) = "Pending"
    <3>1. TAKE k \in PhaseKind
    <3>2. HAVE idx(k) >= idx(kind)
    <3>3. idx(k) \in idx(kind)..Len(PHASES) /\ PHASES[idx(k)] = k
      BY <1>1, <3>2, Places, Kinds
    <3> QED
      BY <1>3, <3>3 DEF Place
  <2>12. Ordered(q)
    <3>1. SUFFICES ASSUME NEW i \in 1..7, NEW j \in 1..7, i < j, Place(q, PHASES[j]) # "Pending"
          PROVE  Place(q, PHASES[i]) # "Running"
      BY Kinds DEF Ordered
    <3>2. /\ PHASES[i] \in PhaseKind /\ idx(PHASES[i]) = i
          /\ PHASES[j] \in PhaseKind /\ idx(PHASES[j]) = j
      BY Places
    <3>3. j <= idx(kind)
      <4>1. CASE PHASES[j] = kind
        BY <1>1, <3>2, <4>1
      <4>2. CASE PHASES[j] # kind
        <5>1. Place(e, PHASES[j]) # "Pending"
          BY <2>10, <3>1, <3>2, <4>2
        <5>2. SUFFICES ASSUME j > idx(kind) PROVE FALSE
          BY <1>1
        <5>3. Place(r, PHASES[j]) = "Pending" /\ ~(idx(PHASES[j]) < idx(kind))
          BY <1>1, <2>11, <3>2, <5>2
        <5> QED
          BY <2>1, <3>2, <5>1, <5>3
      <4> QED
        BY <4>1, <4>2
    <3>4. i < idx(kind) /\ PHASES[i] # kind
      BY <1>1, <3>1, <3>2, <3>3
    <3>5. Place(q, PHASES[i]) = Place(e, PHASES[i])
      BY <2>10, <3>2, <3>4
    <3>6. Place(e, PHASES[i]) # "Running"
      BY <2>1, <3>2, <3>4
    <3> QED
      BY <3>5, <3>6
  <2>13. {"Sync", "Plan", "Download", "Checks"} \subseteq PhaseKind
    BY Kinds
  <2>14. /\ q.dbs = e.dbs /\ q.packages = e.packages
         /\ q.tx_started = e.tx_started /\ q.log_seen = e.log_seen /\ q.saw_package = e.saw_package
    BY <2>8 DEF New
  <2>15. Listed(q) /\ Downloaded(f, n, q) /\ ChecksFit(f, n, q) /\ ToldByLog(f, m, q)
    BY <2>1, <2>10, <2>13, <2>14 DEF Core, Listed, Downloaded, ChecksFit, ToldByLog
  <2>16. HooksFit(f, q)
    <3>1. HooksFit(f, e) /\ HookKind \subseteq PhaseKind /\ q.hooks = e.hooks
      BY <2>1, <2>9, Kinds DEF Core
    <3>2. \A k \in HookKind : /\ q.phases[k].done = e.phases[k].done
                             /\ q.phases[k].total = e.phases[k].total
      BY <2>10, <3>1
    <3> QED
      BY <3>1, <3>2 DEF HooksFit
  <2>17. Forwards(e, q)
    <3>1. \A k \in PhaseKind : e.phases[k].done \in Nat
      BY <2>3, Shape
    <3>2. Place(e, kind) = "Pending"
      BY <1>1, <2>1, <2>11
    <3> QED
      BY <2>10, <3>1, <3>2 DEF Forwards
  <2>18. Forwards(r, q)
    BY <2>1, <2>3, <2>9, <2>17, ForwardsAgain
  <2>19. Beside({"phases", "hooks"}, r, q)
    BY <2>1, <2>8 DEF Beside
  <2>20. Core(f, n, m, q)
    BY <2>9, <2>12, <2>15, <2>16 DEF Core
  <2> QED
    BY <2>18, <2>19, <2>20 DEF q, e
<1> QED
  BY <1>2, <1>3

-----------------------------------------------------------------------------
(* Steps that only tell more.                                              *)

\* A picture tells what it tells.
LEMMA AlikeItself ==
  ASSUME NEW r, PictureShape(r)
  PROVE  Alike(r, r)
BY DEF Alike, PictureShape

\* A step that only tells more and another are one.
LEMMA AlikeAgain ==
  ASSUME NEW r, NEW e, NEW q, Alike(r, e), Alike(e, q)
  PROVE  Alike(r, q)
BY DEF Alike

\* A step that only tells more keeps the shape.
LEMMA AlikeShape ==
  ASSUME NEW r, NEW q, PictureShape(r), Alike(r, q)
  PROVE  PictureShape(q)
<1>1. /\ q.phases = r.phases /\ q.dbs = r.dbs /\ q.packages = r.packages
      /\ q.tx_started = r.tx_started /\ q.log_seen = r.log_seen /\ q.finished = r.finished
      /\ q.saw_package = r.saw_package
  BY DEF Alike, Relevant
<1> QED
  BY <1>1 DEF PictureShape, Alike

\* A step that leaves these fields alone.
LEMMA FieldsAside ==
  ASSUME NEW r, NEW q, PictureShape(r), DOMAIN q = DOMAIN New,
         \A a \in Relevant \cup {"hooks", "named"} : q[a] = r[a]
  PROVE  Alike(r, q)
<1>1. q.hooks = r.hooks /\ q.named = r.named /\ \A a \in Relevant : q[a] = r[a]
  OBVIOUS
<1> QED
  BY <1>1 DEF Alike, PictureShape

\* One list of hooks replaced by one begun as far.
LEMMA ListPut ==
  ASSUME NEW r, NEW q, NEW kind \in HookKind, NEW list, PictureShape(r), DOMAIN q = DOMAIN New,
         \A a \in Relevant : q[a] = r[a], q.named \in [HookKind -> Nat],
         q.hooks = [r.hooks EXCEPT ![kind] = list],
         ListShape(list), StartedIn(list) = StartedIn(r.hooks[kind])
  PROVE  Alike(r, q)
<1>1. HooksShape(r.hooks)
  BY DEF PictureShape
<1>2. /\ DOMAIN q.hooks = HookKind /\ q.hooks[kind] = list
      /\ \A k \in HookKind \ {kind} : q.hooks[k] = r.hooks[k]
  BY <1>1 DEF HooksShape
<1>3. HooksShape(q.hooks)
  BY <1>1, <1>2 DEF HooksShape, ListShape
<1>4. \A k \in HookKind : StartedIn(q.hooks[k]) = StartedIn(r.hooks[k])
  BY <1>2
<1> QED
  BY <1>3, <1>4 DEF Alike

\* The hooks of a picture have their shape.
LEMMA ListsAre ==
  ASSUME NEW r, PictureShape(r), NEW kind \in HookKind
  PROVE  ListShape(r.hooks[kind]) /\ DOMAIN r.hooks = HookKind
BY DEF PictureShape, HooksShape, ListShape

\* What a hook prints, and its texts, begin no hook.
LEMMA NotesPut ==
  ASSUME NEW hooks, ListShape(hooks), NEW i \in DOMAIN hooks, NEW notes
  PROVE  /\ ListShape([hooks EXCEPT ![i].notes = notes])
         /\ StartedIn([hooks EXCEPT ![i].notes = notes]) = StartedIn(hooks)
<1> DEFINE new == [hooks EXCEPT ![i].notes = notes]
<1>1. DOMAIN new = DOMAIN hooks
  OBVIOUS
<1>2. DOMAIN hooks[i] = {"desc", "file", "started", "ended", "notes"}
  BY DEF ListShape, HookShape
<1>3. \A j \in DOMAIN hooks : /\ DOMAIN new[j] = DOMAIN hooks[j]
                             /\ new[j].started = hooks[j].started /\ new[j].ended = hooks[j].ended
  BY <1>2
<1>4. Len(hooks) \in Nat /\ DOMAIN hooks = 1..Len(hooks) /\ \A j \in DOMAIN hooks : HookShape(hooks[j])
  BY DEF ListShape
<1> HIDE DEF new
<1>5. Len(new) = Len(hooks)
  BY <1>1, <1>4, LengthOf
<1>6. \A j \in DOMAIN new : HookShape(new[j])
  BY <1>1, <1>3, <1>4 DEF HookShape
<1>7. ListShape(new)
  BY <1>1, <1>4, <1>5, <1>6 DEF ListShape
<1>8. StartedIn(new) = StartedIn(hooks)
  BY <1>1, <1>3 DEF StartedIn
<1> QED
  BY <1>7, <1>8 DEF new

\* Reading a hook's notes again begins none.
LEMMA Reclassified ==
  ASSUME NEW r, PictureShape(r), NEW kind \in HookKind, NEW i \in DOMAIN r.hooks[kind]
  PROVE  Alike(r, reclassify(r, kind, i))
<1> DEFINE h == r.hooks[kind][i]
           again == [n \in DOMAIN h.notes |->
                       [h.notes[n] EXCEPT !.kind = hook_note_kind(h.notes[n].text, h)]]
           left == unclaimed(r.unknown, h.notes, again)
           q == reclassify(r, kind, i)
           list == [r.hooks[kind] EXCEPT ![i].notes = again]
<1>1. q = [r EXCEPT !.hooks[kind][i].notes = again, !.unknown = left]
  <2> HIDE DEF left
  <2>1. left = unclaimed(r.unknown, h.notes, again)
    BY DEF left
  <2> QED
    BY <2>1 DEF reclassify
<1> HIDE DEF again, left, h
<1>2. ListShape(r.hooks[kind]) /\ DOMAIN r.hooks = HookKind
  BY ListsAre
<1>3. DOMAIN r = DOMAIN New /\ {"hooks", "unknown"} \subseteq DOMAIN New
  BY DEF PictureShape, New
<1>4. Relevant \subseteq DOMAIN New \ {"hooks", "unknown"} /\ "named" \in DOMAIN New \ {"hooks", "unknown"}
  BY DEF Relevant, New
<1> HIDE DEF q
<1>5. /\ DOMAIN q = DOMAIN New
      /\ \A a \in DOMAIN New \ {"hooks", "unknown"} : q[a] = r[a]
      /\ q.hooks = [r.hooks EXCEPT ![kind] = list]
  BY <1>1, <1>3
<1>6. ListShape(list) /\ StartedIn(list) = StartedIn(r.hooks[kind])
  BY <1>2, NotesPut
<1> HIDE DEF list
<1>7. q.named \in [HookKind -> Nat] /\ \A a \in Relevant : q[a] = r[a]
  BY <1>4, <1>5 DEF PictureShape
<1>8. Alike(r, q)
  BY <1>5, <1>6, <1>7, ListPut
<1> QED
  BY <1>8 DEF q

\* A list made long enough begins none.
LEMMA MadeLongEnough ==
  ASSUME NEW list, ListShape(list), NEW i \in Nat
  PROVE  /\ ListShape(hook_at(list, i)) /\ StartedIn(hook_at(list, i)) = StartedIn(list)
         /\ i > 0 => i \in DOMAIN hook_at(list, i)
<1> DEFINE n == Larger(i, Len(list))
<1>1. Len(list) \in Nat /\ DOMAIN list = 1..Len(list) /\ \A j \in DOMAIN list : HookShape(list[j])
  BY DEF ListShape
<1>2. n \in Nat /\ n >= i /\ n >= Len(list)
  BY <1>1 DEF Larger
<1>3. /\ DOMAIN hook_at(list, i) = 1..n
      /\ \A j \in 1..n : hook_at(list, i)[j] = IF j <= Len(list) THEN list[j] ELSE NoHook
  BY DEF hook_at
<1> HIDE DEF n
<1>4. HookShape(NoHook) /\ ~NoHook.started
  BY DEF NoHook, HookShape
<1>5. \A j \in 1..n : HookShape(hook_at(list, i)[j])
  BY <1>1, <1>2, <1>3, <1>4
<1>6. Len(hook_at(list, i)) = n
  BY <1>2, <1>3, LengthOf
<1>7. ListShape(hook_at(list, i))
  BY <1>2, <1>3, <1>5, <1>6 DEF ListShape
<1>8. StartedIn(hook_at(list, i)) = StartedIn(list)
  BY <1>1, <1>2, <1>3, <1>4 DEF StartedIn
<1>9. i > 0 => i \in 1..n
  BY <1>2
<1> QED
  BY <1>3, <1>7, <1>8, <1>9

\* A note only tells more.
LEMMA NoteIsAside ==
  ASSUME NEW r, PictureShape(r), NEW kind, NEW text
  PROVE  Alike(r, note(r, kind, text))
<1>1. DOMAIN r = DOMAIN New /\ Relevant \cup {"hooks", "named"} \subseteq DOMAIN New \ {"notes"}
  BY DEF PictureShape, New, Relevant
<1>2. /\ DOMAIN note(r, kind, text) = DOMAIN New
      /\ \A a \in DOMAIN New \ {"notes"} : note(r, kind, text)[a] = r[a]
  BY <1>1 DEF note
<1> QED
  BY <1>1, <1>2, FieldsAside

\* A line listed as unknown only tells more.
LEMMA UnknownIsAside ==
  ASSUME NEW r, PictureShape(r), NEW t
  PROVE  Alike(r, unknown_line(r, t))
<1>1. DOMAIN r = DOMAIN New /\ Relevant \cup {"hooks", "named"} \subseteq DOMAIN New \ {"unknown"}
  BY DEF PictureShape, New, Relevant
<1>2. /\ DOMAIN unknown_line(r, t) = DOMAIN New
      /\ \A a \in DOMAIN New \ {"unknown"} : unknown_line(r, t)[a] = r[a]
  BY <1>1 DEF unknown_line
<1> QED
  BY <1>1, <1>2, FieldsAside

-----------------------------------------------------------------------------
(* Steps that count.                                                       *)

\* A phase that counts something else than hooks.
LEMMA CountPut ==
  ASSUME NEW f, NEW n, NEW m, NEW r, NEW q, NEW k \in PhaseKind \ HookKind, NEW p \in PhaseShape,
         Core(f, n, m, r), DOMAIN q = DOMAIN New,
         \A a \in DOMAIN New \ {"phases", "dbs", "packages", "saw_package", "done"} : q[a] = r[a],
         q.phases = [r.phases EXCEPT ![k] = p],
         p.state = r.phases[k].state, p.done >= r.phases[k].done,
         IsFiniteSet(q.dbs), IsFiniteSet(q.packages), q.saw_package \in BOOLEAN,
         q.saw_package => r.saw_package \/ f.facts.changed,
         Listed(q), Downloaded(f, n, q), ChecksFit(f, n, q)
  PROVE  Core(f, n, m, q) /\ Forwards(r, q)
<1>1. PictureShape(r)
  BY DEF Core
<1>2. r.phases \in [PhaseKind -> PhaseShape]
  BY <1>1 DEF PictureShape, PhaseShape
<1>3. /\ q.phases \in [PhaseKind -> PhaseShape] /\ q.phases[k] = p
      /\ \A j \in PhaseKind \ {k} : q.phases[j] = r.phases[j]
  BY <1>2
<1>4. /\ q.named = r.named /\ q.hooks = r.hooks /\ q.tx_started = r.tx_started
      /\ q.log_seen = r.log_seen /\ q.finished = r.finished
  BY DEF New
<1>5. PictureShape(q)
  BY <1>1, <1>3, <1>4 DEF PictureShape, PhaseShape
<1>6. \A j \in PhaseKind : Place(q, j) = Place(r, j)
  BY <1>3 DEF Place
<1>7. Ordered(q)
  BY <1>6, Places, Kinds DEF Core, Ordered
<1>8. HooksFit(f, q)
  <2>1. \A j \in HookKind : q.phases[j] = r.phases[j]
    BY <1>3, Kinds
  <2> QED
    BY <2>1, <1>4 DEF Core, HooksFit
<1>9. ToldByLog(f, m, q)
  BY <1>4 DEF Core, ToldByLog
<1>10. Forwards(r, q)
  <2>1. \A j \in PhaseKind : r.phases[j].done \in Nat /\ q.phases[j].done >= r.phases[j].done
    BY <1>1, <1>3, Shape
  <2> QED
    BY <1>6, <2>1 DEF Forwards
<1> QED
  BY <1>5, <1>7, <1>8, <1>9, <1>10 DEF Core

\* The parts of a phase.
LEMMA PhaseIs ==
  ASSUME NEW r, PictureShape(r), NEW k \in PhaseKind
  PROVE  /\ r.phases[k] = [state |-> r.phases[k].state, done |-> r.phases[k].done,
                           total |-> r.phases[k].total, detail |-> r.phases[k].detail]
         /\ DOMAIN r.phases = PhaseKind /\ DOMAIN r = DOMAIN New
BY Shape DEF PhaseShape, PictureShape

\* A set that grew is no smaller.
LEMMA NoSmaller ==
  ASSUME NEW S, NEW T, IsFiniteSet(T), S \subseteq T
  PROVE  /\ Cardinality(S) \in Nat /\ Cardinality(T) \in Nat /\ Cardinality(S) <= Cardinality(T)
<1>1. IsFiniteSet(S) /\ Cardinality(S) <= Cardinality(T)
  BY FS_Subset
<1> QED
  BY <1>1, FS_CardinalityType

\* Names of the plan are counted.
LEMMA NamesKeep ==
  ASSUME NEW f, NEW n, NEW m, NEW r, NEW names \in Names, Core(f, n, m, r)
  PROVE  LET q == add_names(r, names)
         IN  /\ Core(f, n, m, q) /\ Forwards(r, q) /\ q.screen_section = r.screen_section
             /\ q.finished = r.finished
<1> DEFINE q == add_names(r, names) all == r.packages \cup names
           p == [state |-> r.phases["Plan"].state, done |-> Cardinality(all),
                 total |-> r.phases["Plan"].total, detail |-> r.phases["Plan"].detail]
<1>0. PictureShape(r) /\ "Plan" \in PhaseKind \ HookKind
  BY Kinds DEF Core, HookKind
<1>1. IsFiniteSet(names) /\ IsFiniteSet(r.packages) /\ IsFiniteSet(r.dbs)
  BY <1>0 DEF Names, PictureShape
<1>2. IsFiniteSet(all)
  BY <1>1, FS_Union
<1>3. /\ Cardinality(r.packages) \in Nat /\ Cardinality(all) \in Nat
      /\ Cardinality(r.packages) <= Cardinality(all)
  BY <1>2, NoSmaller
<1>4. q = [r EXCEPT !.packages = all, !.phases["Plan"].done = Cardinality(all)]
  BY DEF add_names
<1> HIDE DEF q, all
<1>5. /\ r.phases["Plan"] = [state |-> r.phases["Plan"].state, done |-> r.phases["Plan"].done,
             total |-> r.phases["Plan"].total, detail |-> r.phases["Plan"].detail]
      /\ DOMAIN r.phases = PhaseKind /\ DOMAIN r = DOMAIN New
  BY <1>0, PhaseIs
<1>6. [r.phases["Plan"] EXCEPT !.done = Cardinality(all)] = p
  BY <1>5
<1>7. {"packages", "phases"} \subseteq DOMAIN New
  BY DEF New
<1>8. /\ DOMAIN q = DOMAIN New /\ q.packages = all
      /\ q.phases = [r.phases EXCEPT !["Plan"] = p]
      /\ \A a \in DOMAIN New \ {"packages", "phases"} : q[a] = r[a]
  BY <1>4, <1>5, <1>6, <1>7
<1>9. p \in PhaseShape /\ p.state = r.phases["Plan"].state /\ p.done = Cardinality(all)
  BY <1>0, <1>3, Shape DEF PhaseShape
<1> HIDE DEF p
<1>10. /\ q.dbs = r.dbs /\ q.saw_package = r.saw_package /\ q.screen_section = r.screen_section
       /\ q.finished = r.finished
  BY <1>8 DEF New
<1>11. /\ q.phases["Plan"] = p /\ q.phases["Sync"] = r.phases["Sync"]
       /\ q.phases["Download"] = r.phases["Download"] /\ q.phases["Checks"] = r.phases["Checks"]
  BY <1>5, <1>8, Kinds
<1>12. r.phases["Plan"].done <= Cardinality(r.packages) /\ r.phases["Plan"].done \in Nat
  BY <1>0, Shape DEF Core, Listed
<1>13. Listed(q) /\ Downloaded(f, n, q) /\ ChecksFit(f, n, q)
  BY <1>3, <1>8, <1>9, <1>10, <1>11 DEF Core, Listed, Downloaded, ChecksFit
<1>14. p.done >= r.phases["Plan"].done
  BY <1>3, <1>9, <1>12
<1>15. q.saw_package \in BOOLEAN
  BY <1>0, <1>10 DEF PictureShape
<1>16. Core(f, n, m, q) /\ Forwards(r, q)
  BY <1>0, <1>1, <1>2, <1>8, <1>9, <1>10, <1>13, <1>14, <1>15, CountPut
<1> QED
  BY <1>10, <1>16 DEF q

\* A line no classifier knew.
LEMMA OtherKeeps ==
  ASSUME NEW f, NEW n, NEW m, NEW r, NEW t \in Text, Core(f, n, m, r),
         r.screen_section \in HookKind \cup {None}
  PROVE  LET q == other(r, t)
         IN  /\ Core(f, n, m, q) /\ Forwards(r, q) /\ q.screen_section = r.screen_section
             /\ q.finished = r.finished
<1> DEFINE kind == r.screen_section
           i == r.screen_hook
           shut == [r EXCEPT !.optdeps_for = None]
           told == [shut EXCEPT !.in_names = FALSE]
           dependency == r.optdeps_for # None /\ t.indented
           listed == r.in_names /\ (t.means = "names" \/ t.word = "")
           quiet == t.means = "quiet" \/ download_row(told, t)
           hooked == kind \in HookKind /\ i \in 1..Len(r.hooks[kind])
           k == hook_note_kind(t, r.hooks[kind][i])
           noted == [told EXCEPT !.hooks[kind][i].notes = Append(@, [kind |-> k, text |-> t])]
           q == other(r, t)
<1> DEFINE Kept(e) == /\ Core(f, n, m, e) /\ Forwards(r, e) /\ e.screen_section = r.screen_section
                      /\ e.finished = r.finished
<1>0. PictureShape(r)
  BY DEF Core
<1>1. DOMAIN r = DOMAIN New
  BY <1>0 DEF PictureShape
<1>2. /\ "optdeps_for" \in DOMAIN New /\ "in_names" \in DOMAIN New /\ "hooks" \in DOMAIN New
      /\ Relevant \cup {"hooks", "named"} \subseteq DOMAIN New \ {"optdeps_for", "in_names"}
      /\ Relevant \cup {"named"} \subseteq DOMAIN New \ {"hooks"}
  BY DEF New, Relevant
<1>3. /\ DOMAIN shut = DOMAIN New /\ DOMAIN told = DOMAIN New
      /\ \A a \in DOMAIN New \ {"optdeps_for", "in_names"} : shut[a] = r[a] /\ told[a] = r[a]
  BY <1>1
<1> HIDE DEF shut, told
<1>4. Alike(r, shut) /\ Alike(r, told)
  BY <1>0, <1>2, <1>3, FieldsAside
<1>5. \A e : Alike(r, e) => Kept(e)
  <2>1. SUFFICES ASSUME NEW e, Alike(r, e) PROVE Kept(e)
    OBVIOUS
  <2>2. Core(f, n, m, e) /\ Forwards(r, e)
    BY <2>1, AlikeKeeps
  <2>3. e.screen_section = r.screen_section /\ e.finished = r.finished
    BY <2>1 DEF Alike, Relevant
  <2> QED
    BY <2>2, <2>3
<1>6. PictureShape(told) /\ PictureShape(shut)
  BY <1>0, <1>4, AlikeShape
<1>7. CASE dependency
  <2>1. q = note(r, "Optdepends", t)
    BY <1>7 DEF other
  <2> QED
    BY <1>0, <1>5, <2>1, NoteIsAside
<1>8. CASE ~dependency /\ listed
  <2>1. q = add_names(shut, t.names)
    BY <1>8 DEF other, shut
  <2>2. t.names \in Names
    BY DEF Text
  <2>3. Kept(shut)
    BY <1>4, <1>5
  <2>4. LET e == add_names(shut, t.names)
        IN  /\ Core(f, n, m, e) /\ Forwards(shut, e) /\ e.screen_section = shut.screen_section
            /\ e.finished = shut.finished
    BY <2>2, <2>3, NamesKeep
  <2>5. PictureShape(q)
    BY <2>1, <2>4 DEF Core
  <2>6. Forwards(r, q)
    BY <1>0, <1>6, <2>1, <2>3, <2>4, <2>5, ForwardsAgain
  <2> QED
    BY <2>1, <2>3, <2>4, <2>6
<1>9. CASE ~dependency /\ ~listed /\ quiet
  <2>1. q = told
    BY <1>9 DEF other, told, shut
  <2> QED
    BY <1>4, <1>5, <2>1
<1>10. kind # None => kind \in HookKind
  OBVIOUS
<1>11. CASE ~dependency /\ ~listed /\ ~quiet /\ ~hooked
  <2>1. q = unknown_line(told, t)
    BY <1>10, <1>11 DEF other, told, shut
  <2>2. Alike(told, q)
    BY <1>6, <2>1, UnknownIsAside
  <2> QED
    BY <1>4, <1>5, <2>2, AlikeAgain
<1>12. CASE ~dependency /\ ~listed /\ ~quiet /\ hooked
  <2>0. kind # None
    BY <1>12 DEF HookKind, None
  <2>1. q = IF k = "Plain" THEN unknown_line(noted, t) ELSE noted
    BY <1>12, <2>0 DEF other, told, shut
  <2>2. ListShape(r.hooks[kind]) /\ DOMAIN r.hooks = HookKind
    BY <1>0, <1>12, ListsAre
  <2>3. i \in DOMAIN r.hooks[kind]
    BY <1>12, <2>2 DEF ListShape
  <2> DEFINE notes == Append(r.hooks[kind][i].notes, [kind |-> k, text |-> t])
             new == [r.hooks[kind] EXCEPT ![i].notes = notes]
  <2>4. ListShape(new) /\ StartedIn(new) = StartedIn(r.hooks[kind])
    BY <2>2, <2>3, NotesPut
  <2>5. told.hooks = r.hooks
    BY <1>2, <1>3 
  <2>6. noted = [told EXCEPT !.hooks[kind][i].notes = notes]
    BY <2>5
  <2> HIDE DEF notes, noted, k, q, i, kind
  <2>7. /\ DOMAIN noted = DOMAIN New
        /\ noted.hooks = [told.hooks EXCEPT ![kind] = new]
        /\ \A a \in DOMAIN New \ {"hooks"} : noted[a] = told[a]
    BY <1>2, <1>3, <2>5, <2>6
  <2> HIDE DEF new
  <2>8. (\A a \in Relevant : noted[a] = told[a]) /\ noted.named \in [HookKind -> Nat]
    BY <1>2, <1>6, <2>7 DEF PictureShape
  <2>9. Alike(told, noted)
    <3>1. kind \in HookKind
      BY <1>12
    <3>2. StartedIn(new) = StartedIn(told.hooks[kind])
      BY <2>4, <2>5
    <3> QED
      BY <1>6, <2>4, <2>7, <2>8, <3>1, <3>2, ListPut
  <2>10. PictureShape(noted)
    BY <1>6, <2>9, AlikeShape
  <2>11. Alike(told, q)
    BY <2>1, <2>9, <2>10, UnknownIsAside, AlikeAgain
  <2> QED
    BY <1>4, <1>5, <2>11, AlikeAgain DEF q
<1> QED
  BY <1>7, <1>8, <1>9, <1>11, <1>12

\* A total learned.
LEMMA TotalKeeps ==
  ASSUME NEW f, NEW n, NEW m, NEW e, Core(f, n, m, e),
         NEW k \in PhaseKind \ HookKind, NEW t \in Nat \cup {NoTotal}
  PROVE  LET q == [e EXCEPT !.phases[k].total = t]
         IN  /\ Core(f, n, m, q) /\ Forwards(e, q)
             /\ Beside({"phases"}, e, q)
<1> DEFINE q == [e EXCEPT !.phases[k].total = t]
           p == [state |-> e.phases[k].state, done |-> e.phases[k].done, total |-> t,
                 detail |-> e.phases[k].detail]
<1>0. PictureShape(e)
  BY DEF Core
<1>1. /\ e.phases[k] = [state |-> e.phases[k].state, done |-> e.phases[k].done,
                         total |-> e.phases[k].total, detail |-> e.phases[k].detail]
      /\ DOMAIN e.phases = PhaseKind /\ DOMAIN e = DOMAIN New
  BY <1>0, PhaseIs
<1>2. [e.phases[k] EXCEPT !.total = t] = p
  BY <1>1
<1>3. p \in PhaseShape /\ p.state = e.phases[k].state /\ p.done = e.phases[k].done /\ p.detail = e.phases[k].detail
  BY <1>0, Shape DEF PhaseShape
<1>4. "phases" \in DOMAIN New
  BY DEF New
<1> HIDE DEF p
<1>5. /\ DOMAIN q = DOMAIN New /\ q.phases = [e.phases EXCEPT ![k] = p]
      /\ \A a \in DOMAIN New \ {"phases"} : q[a] = e[a]
  BY <1>1, <1>2, <1>4
<1> HIDE DEF q
<1>6. q.phases[k] = p /\ \A j \in PhaseKind \ {k} : q.phases[j] = e.phases[j]
  BY <1>1, <1>5
<1>7. /\ q.dbs = e.dbs /\ q.packages = e.packages /\ q.saw_package = e.saw_package
  BY <1>5 DEF New
<1>8. \A j \in PhaseKind : q.phases[j].done = e.phases[j].done /\ q.phases[j].detail = e.phases[j].detail
  BY <1>3, <1>6
<1>9. {"Sync", "Plan", "Download", "Checks"} \subseteq PhaseKind
  BY Kinds
<1>10. Listed(q) /\ Downloaded(f, n, q) /\ ChecksFit(f, n, q)
  BY <1>7, <1>8, <1>9 DEF Core, Listed, Downloaded, ChecksFit
<1>11. /\ IsFiniteSet(q.dbs) /\ IsFiniteSet(q.packages) /\ q.saw_package \in BOOLEAN
       /\ e.phases[k].done \in Nat
  BY <1>0, <1>7, Shape DEF PictureShape
<1>12. Core(f, n, m, q) /\ Forwards(e, q)
  BY <1>3, <1>5, <1>7, <1>10, <1>11, CountPut
<1> QED
  BY <1>5, <1>12 DEF q, Beside

\* A database read.
WithDb(r, name) ==
  [r EXCEPT !.dbs = @ \cup {name}, !.phases["Sync"].done = Cardinality(r.dbs \cup {name})]

\* A database that was read counts.
LEMMA DbKeeps ==
  ASSUME NEW f, NEW n, NEW m, NEW r, NEW name, Core(f, n, m, r)
  PROVE  LET q == WithDb(r, name)
         IN  /\ Core(f, n, m, q) /\ Forwards(r, q) /\ q.screen_section = r.screen_section
             /\ q.finished = r.finished
<1> DEFINE all == r.dbs \cup {name}
           q == [r EXCEPT !.dbs = all, !.phases["Sync"].done = Cardinality(all)]
           p == [state |-> r.phases["Sync"].state, done |-> Cardinality(all),
                 total |-> r.phases["Sync"].total, detail |-> r.phases["Sync"].detail]
<1>0. PictureShape(r) /\ "Sync" \in PhaseKind \ HookKind
  BY Kinds DEF Core, HookKind
<1>1. IsFiniteSet(r.packages) /\ IsFiniteSet(r.dbs)
  BY <1>0 DEF PictureShape
<1>2. IsFiniteSet(all)
  BY <1>1, FS_AddElement
<1>3. /\ Cardinality(r.dbs) \in Nat /\ Cardinality(all) \in Nat
      /\ Cardinality(r.dbs) <= Cardinality(all)
  BY <1>2, NoSmaller
<1> HIDE DEF all
<1>5. /\ r.phases["Sync"] = [state |-> r.phases["Sync"].state, done |-> r.phases["Sync"].done,
             total |-> r.phases["Sync"].total, detail |-> r.phases["Sync"].detail]
      /\ DOMAIN r.phases = PhaseKind /\ DOMAIN r = DOMAIN New
  BY <1>0, PhaseIs
<1>6. [r.phases["Sync"] EXCEPT !.done = Cardinality(all)] = p
  BY <1>5
<1>7. {"dbs", "phases"} \subseteq DOMAIN New
  BY DEF New
<1>8. /\ DOMAIN q = DOMAIN New /\ q.dbs = all
      /\ q.phases = [r.phases EXCEPT !["Sync"] = p]
      /\ \A a \in DOMAIN New \ {"dbs", "phases"} : q[a] = r[a]
  BY <1>5, <1>6, <1>7
<1> HIDE DEF q
<1>9. p \in PhaseShape /\ p.state = r.phases["Sync"].state /\ p.done = Cardinality(all)
  BY <1>0, <1>3, Shape DEF PhaseShape
<1> HIDE DEF p
<1>10. /\ q.packages = r.packages /\ q.saw_package = r.saw_package /\ q.screen_section = r.screen_section
       /\ q.finished = r.finished
  BY <1>8 DEF New
<1>11. /\ q.phases["Sync"] = p /\ q.phases["Plan"] = r.phases["Plan"]
       /\ q.phases["Download"] = r.phases["Download"] /\ q.phases["Checks"] = r.phases["Checks"]
  BY <1>5, <1>8, Kinds
<1>12. r.phases["Sync"].done <= Cardinality(r.dbs) /\ r.phases["Sync"].done \in Nat
  BY <1>0, Shape DEF Core, Listed
<1>13. Listed(q) /\ Downloaded(f, n, q) /\ ChecksFit(f, n, q)
  BY <1>3, <1>8, <1>9, <1>10, <1>11 DEF Core, Listed, Downloaded, ChecksFit
<1>14. p.done >= r.phases["Sync"].done
  BY <1>3, <1>9, <1>12
<1>15. q.saw_package \in BOOLEAN
  BY <1>0, <1>10 DEF PictureShape
<1>16. Core(f, n, m, q) /\ Forwards(r, q)
  BY <1>0, <1>1, <1>2, <1>8, <1>9, <1>10, <1>13, <1>14, <1>15, CountPut
<1> QED
  BY <1>10, <1>16 DEF q, all, WithDb

\* What pacman says it downloaded.
LEMMA DownloadKeeps ==
  ASSUME NEW f \in Feeds, FeedsOK, NEW n, NEW m, NEW e, Core(f, n, m, e), n \in Nat,
         n + 1 \in DOMAIN f.screen, f.screen[n + 1].type = "DownloadTotal"
  PROVE  LET q == [e EXCEPT !.phases["Download"].done = f.screen[n + 1].done,
                            !.phases["Download"].total = f.screen[n + 1].total]
         IN  /\ Core(f, n, m, q) /\ Forwards(e, q)
             /\ Beside({"phases"}, e, q)
<1> DEFINE ev == f.screen[n + 1]
           q == [e EXCEPT !.phases["Download"].done = ev.done, !.phases["Download"].total = ev.total]
           p == [state |-> e.phases["Download"].state, done |-> ev.done, total |-> ev.total,
                 detail |-> e.phases["Download"].detail]
<1>0. PictureShape(e) /\ "Download" \in PhaseKind \ HookKind
  BY Kinds DEF Core, HookKind
<1>a. f.screen \in Seq(ScreenEvent)
  BY DEF FeedsOK, Feed
<1>b. ev \in ScreenEvent /\ n + 1 \in 1..Len(f.screen) /\ Len(f.screen) \in Nat /\ DOMAIN f.screen = 1..Len(f.screen)
  BY <1>a
<1>c. ev.done \in Nat /\ ev.total \in Nat
  BY <1>b DEF ScreenEvent, HookKind
<1> HIDE DEF ev
<1>1. /\ e.phases["Download"] = [state |-> e.phases["Download"].state, done |-> e.phases["Download"].done,
                         total |-> e.phases["Download"].total, detail |-> e.phases["Download"].detail]
      /\ DOMAIN e.phases = PhaseKind /\ DOMAIN e = DOMAIN New
  BY <1>0, PhaseIs
<1>2. [[e.phases["Download"] EXCEPT !.done = ev.done] EXCEPT !.total = ev.total] = p
  <2> DEFINE old == e.phases["Download"]
             counted == [state |-> old.state, done |-> ev.done, total |-> old.total, detail |-> old.detail]
  <2>1. [old EXCEPT !.done = ev.done] = counted
    BY <1>1
  <2>2. [counted EXCEPT !.total = ev.total] = p
    OBVIOUS
  <2> QED
    BY <2>1, <2>2
<1>3. p \in PhaseShape /\ p.state = e.phases["Download"].state /\ p.done = ev.done
  BY <1>0, <1>c, Shape DEF PhaseShape
<1>4. "phases" \in DOMAIN New
  BY DEF New
<1> HIDE DEF p
<1>5. /\ DOMAIN q = DOMAIN New /\ q.phases = [e.phases EXCEPT !["Download"] = p]
      /\ \A a \in DOMAIN New \ {"phases"} : q[a] = e[a]
  BY <1>0, <1>1, <1>2, <1>4
<1> HIDE DEF q
<1>6. q.phases["Download"] = p /\ \A j \in PhaseKind \ {"Download"} : q.phases[j] = e.phases[j]
  BY <1>0, <1>1, <1>5
<1>7. /\ q.dbs = e.dbs /\ q.packages = e.packages /\ q.saw_package = e.saw_package
  BY <1>5 DEF New
<1>8. {"Sync", "Plan", "Checks"} \subseteq PhaseKind \ {"Download"}
  BY Kinds
<1>9. Listed(q) /\ ChecksFit(f, n, q)
  BY <1>6, <1>7, <1>8 DEF Core, Listed, ChecksFit
<1>10. Downloaded(f, n, q)
  <2>1. SUFFICES ASSUME NEW i \in (n + 1)..Len(f.screen), f.screen[i].type = "DownloadTotal"
        PROVE  ev.done <= f.screen[i].done
    BY <1>3, <1>6 DEF Downloaded
  <2>2. i \in DOMAIN f.screen /\ (i = n + 1 \/ n + 1 < i)
    BY <1>b
  <2>3. CASE i = n + 1
    BY <1>c, <2>3 DEF ev
  <2>4. CASE n + 1 < i
    <3>1. {f.screen[n + 1].type, f.screen[i].type} = {"DownloadTotal"}
      BY <2>1
    <3> QED
      BY <2>2, <2>4, <3>1 DEF FeedsOK, RunOK, ev
  <2> QED
    BY <2>2, <2>3, <2>4
<1>11. p.done >= e.phases["Download"].done
  <2>1. n + 1 \in (n + 1)..Len(f.screen)
    BY <1>b
  <2>2. e.phases["Download"].done <= ev.done
    BY <2>1 DEF Core, Downloaded, ev
  <2>3. e.phases["Download"].done \in Nat
    BY <1>0, Shape
  <2> QED
    BY <1>3, <1>c, <2>2, <2>3
<1>12. IsFiniteSet(q.dbs) /\ IsFiniteSet(q.packages) /\ q.saw_package \in BOOLEAN
  BY <1>0, <1>7 DEF PictureShape
<1>13. Core(f, n, m, q) /\ Forwards(e, q)
  BY <1>0, <1>3, <1>5, <1>7, <1>9, <1>10, <1>11, <1>12, CountPut
<1> QED
  BY <1>5, <1>13 DEF q, Beside, ev

\* The checks up to a line, and the one on it.
LEMMA OneCheckMore ==
  ASSUME NEW f, NEW n \in Nat, f.screen[n + 1].type = "Check"
  PROVE  /\ Cardinality(ChecksIn(f, n)) \in Nat
         /\ Cardinality(ChecksIn(f, n + 1)) = Cardinality(ChecksIn(f, n)) + 1
<1>1. IsFiniteSet(1..n)
  BY FS_Interval
<1>2. ChecksIn(f, n) \subseteq 1..n
  BY DEF ChecksIn
<1>3. IsFiniteSet(ChecksIn(f, n))
  BY <1>1, <1>2, FS_Subset
<1>4. n + 1 \notin ChecksIn(f, n)
  BY <1>2
<1>5. ChecksIn(f, n + 1) = ChecksIn(f, n) \cup {n + 1}
  BY DEF ChecksIn
<1> QED
  BY <1>3, <1>4, <1>5, FS_AddElement, FS_CardinalityType

\* A check looked at, before its line or on it.
LEMMA CheckKeeps ==
  ASSUME NEW f \in Feed, NEW n \in Nat, NEW m, NEW r, Core(f, n, m, r),
         n + 1 \in DOMAIN f.screen, f.screen[n + 1].type = "Check", NEW name \in STRING,
         name = f.screen[n + 1].name
  PROVE  LET q == apply_check(r, name)
         IN  /\ Core(f, n, m, q) /\ Forwards(r, q)
             /\ q.screen_section = r.screen_section /\ q.finished = r.finished
<1> DEFINE e == enter(r, "Checks")
           old == e.phases["Checks"]
           d == IF old.detail = name THEN old.done ELSE old.done + 1
           q == apply_check(r, name)
           p == [state |-> old.state, done |-> d, total |-> old.total, detail |-> name]
           counted == [state |-> old.state, done |-> d, total |-> old.total, detail |-> old.detail]
<1>0. "Checks" \in PhaseKind \ HookKind
  BY Kinds DEF HookKind
<1>a. /\ Core(f, n, m, e) /\ Forwards(r, e)
      /\ Beside({"phases", "hooks"}, r, e)
  <2>1. "Checks" \in PhaseKind
    BY <1>0
  <2> HIDE DEF old, d, q, p, counted
  <2> QED
    BY <2>1, EnterKeeps
<1>b. q = [e EXCEPT !.phases["Checks"].done = d, !.phases["Checks"].detail = name]
  BY DEF apply_check
<1> HIDE DEF e, q
<1>1. PictureShape(e) /\ PictureShape(r)
  BY <1>a DEF Core
<1>2. /\ old = [state |-> old.state, done |-> old.done, total |-> old.total, detail |-> old.detail]
      /\ DOMAIN e.phases = PhaseKind /\ DOMAIN e = DOMAIN New
  BY <1>0, <1>1, PhaseIs
<1>3. old \in PhaseShape /\ old.done \in Nat
  BY <1>0, <1>1, Shape
<1>4. d \in Nat /\ d >= old.done /\ d <= old.done + 1
  BY <1>3
<1>5. (old.detail = name => d = old.done) /\ (old.detail # name => d = old.done + 1)
  OBVIOUS
<1> HIDE DEF d
<1>6. [[old EXCEPT !.done = d] EXCEPT !.detail = name] = p
  <2>1. [old EXCEPT !.done = d] = counted
    BY <1>2
  <2>2. [counted EXCEPT !.detail = name] = p
    OBVIOUS
  <2> QED
    BY <2>1, <2>2
<1>7. p \in PhaseShape /\ p.state = old.state /\ p.done = d /\ p.detail = name
  BY <1>3, <1>4 DEF PhaseShape
<1>8. "phases" \in DOMAIN New
  BY DEF New
<1> HIDE DEF p
<1>9. /\ DOMAIN q = DOMAIN New /\ q.phases = [e.phases EXCEPT !["Checks"] = p]
      /\ \A a \in DOMAIN New \ {"phases"} : q[a] = e[a]
  BY <1>0, <1>b, <1>2, <1>6, <1>8
<1>10. q.phases["Checks"] = p /\ \A j \in PhaseKind \ {"Checks"} : q.phases[j] = e.phases[j]
  BY <1>0, <1>2, <1>9
<1>11. /\ q.dbs = e.dbs /\ q.packages = e.packages /\ q.saw_package = e.saw_package
  BY <1>9 DEF New
<1>12. {"Sync", "Plan", "Download"} \subseteq PhaseKind \ {"Checks"}
  BY Kinds
<1>13. Listed(q) /\ Downloaded(f, n, q)
  BY <1>10, <1>11, <1>12, <1>a DEF Core, Listed, Downloaded
<1>14. ChecksFit(f, n, q)
  <2>1. /\ Cardinality(ChecksIn(f, n)) \in Nat
        /\ Cardinality(ChecksIn(f, n + 1)) = Cardinality(ChecksIn(f, n)) + 1
    BY OneCheckMore
  <2>2. \/ old.done <= Cardinality(ChecksIn(f, n))
        \/ old.detail = name /\ old.done <= Cardinality(ChecksIn(f, n + 1))
    BY <1>a DEF Core, ChecksFit
  <2>3. d <= Cardinality(ChecksIn(f, n + 1))
    BY <1>3, <1>4, <1>5, <2>1, <2>2
  <2> QED
    BY <1>7, <1>10, <2>3 DEF ChecksFit
<1>15. IsFiniteSet(q.dbs) /\ IsFiniteSet(q.packages) /\ q.saw_package \in BOOLEAN
  BY <1>1, <1>11 DEF PictureShape
<1>16. Core(f, n, m, q) /\ Forwards(e, q)
  BY <1>0, <1>a, <1>4, <1>7, <1>9, <1>11, <1>13, <1>14, <1>15, CountPut
<1>17. Forwards(r, q)
  <2>1. PictureShape(q)
    BY <1>16 DEF Core
  <2> QED
    BY <1>1, <1>a, <1>16, <2>1, ForwardsAgain
<1>18. q.screen_section = r.screen_section /\ q.finished = r.finished
  BY <1>a, <1>9 DEF New, Beside
<1> QED
  BY <1>16, <1>17, <1>18 DEF q

\* Entering the packages, as the screen and the log do.
LEMMA EnterPackages ==
  ASSUME NEW f \in Feed, NEW n, NEW m, NEW r, Core(f, n, m, r)
  PROVE  /\ Core(f, n, m, enter(r, "Packages")) /\ Forwards(r, enter(r, "Packages"))
         /\ Beside({"phases", "hooks"}, r, enter(r, "Packages"))
<1>1. "Packages" \in PhaseKind
  BY Kinds
<1> QED
  BY <1>1, EnterKeeps

\* A package begun.
LEMMA PackageKeeps ==
  ASSUME NEW f \in Feed, NEW n, NEW m, NEW r, Core(f, n, m, r), f.facts.changed,
         NEW ev, ev.index \in Nat, ev.total \in Nat
  PROVE  LET q == apply_package(r, ev)
         IN  /\ Core(f, n, m, q) /\ Forwards(r, q)
             /\ q.screen_section = r.screen_section /\ q.finished = r.finished
<1> DEFINE e == enter(r, "Packages")
           old == e.phases["Packages"]
           d == Larger(old.done, ev.index)
           all == e.packages \cup {ev.name}
           gone == IF ev.full THEN e.done \cup {ev.name} ELSE e.done
           q == apply_package(r, ev)
           p == [state |-> old.state, done |-> d, total |-> ev.total, detail |-> old.detail]
           counted == [state |-> old.state, done |-> d, total |-> old.total, detail |-> old.detail]
<1>0. "Packages" \in PhaseKind \ HookKind
  BY Kinds DEF HookKind
<1>a. /\ Core(f, n, m, e) /\ Forwards(r, e)
      /\ Beside({"phases", "hooks"}, r, e)
  BY EnterPackages
<1>b. q = [e EXCEPT !.saw_package = TRUE, !.packages = all, !.done = gone,
                    !.phases["Packages"].done = d, !.phases["Packages"].total = ev.total]
  BY DEF apply_package
<1> HIDE DEF e, q
<1>1. PictureShape(e) /\ PictureShape(r)
  BY <1>a DEF Core
<1>2. /\ old = [state |-> old.state, done |-> old.done, total |-> old.total, detail |-> old.detail]
      /\ DOMAIN e.phases = PhaseKind /\ DOMAIN e = DOMAIN New
  BY <1>0, <1>1, PhaseIs
<1>3. old \in PhaseShape /\ old.done \in Nat
  BY <1>0, <1>1, Shape
<1>4. d \in Nat /\ d >= old.done
  BY <1>3 DEF Larger
<1>c. IsFiniteSet(e.packages) /\ IsFiniteSet(all)
  <2>1. IsFiniteSet(e.packages)
    BY <1>1 DEF PictureShape
  <2> QED
    BY <2>1, FS_AddElement
<1>d. /\ Cardinality(e.packages) \in Nat /\ Cardinality(all) \in Nat
      /\ Cardinality(e.packages) <= Cardinality(all)
  BY <1>c, NoSmaller
<1> HIDE DEF d, all, gone
<1>6. [[old EXCEPT !.done = d] EXCEPT !.total = ev.total] = p
  <2>1. [old EXCEPT !.done = d] = counted
    BY <1>2
  <2>2. [counted EXCEPT !.total = ev.total] = p
    OBVIOUS
  <2> QED
    BY <2>1, <2>2
<1>7. p \in PhaseShape /\ p.state = old.state /\ p.done = d
  BY <1>3, <1>4 DEF PhaseShape
<1>8. {"phases", "packages", "saw_package", "done"} \subseteq DOMAIN New
  BY DEF New
<1> HIDE DEF p
<1>9. /\ DOMAIN q = DOMAIN New /\ q.phases = [e.phases EXCEPT !["Packages"] = p]
      /\ q.packages = all /\ q.saw_package = TRUE
      /\ \A a \in DOMAIN New \ {"phases", "packages", "saw_package", "done"} : q[a] = e[a]
  <2> DEFINE e1 == [e EXCEPT !.saw_package = TRUE, !.packages = all, !.done = gone]
  <2>1. /\ DOMAIN e1 = DOMAIN New /\ e1.phases = e.phases
        /\ e1.packages = all /\ e1.saw_package = TRUE
        /\ \A a \in DOMAIN New \ {"packages", "saw_package", "done"} : e1[a] = e[a]
    BY <1>2, <1>8
  <2>2. q = [e1 EXCEPT !.phases["Packages"].done = d, !.phases["Packages"].total = ev.total]
    BY <1>b
  <2> HIDE DEF e1
  <2> QED
    BY <1>0, <1>2, <1>6, <1>8, <2>1, <2>2
<1>10. q.phases["Packages"] = p /\ \A j \in PhaseKind \ {"Packages"} : q.phases[j] = e.phases[j]
  BY <1>0, <1>2, <1>9
<1>11. q.dbs = e.dbs
  BY <1>9 DEF New
<1>12. {"Sync", "Plan", "Download", "Checks"} \subseteq PhaseKind \ {"Packages"}
  BY Kinds
<1>13. Downloaded(f, n, q) /\ ChecksFit(f, n, q)
  BY <1>10, <1>12, <1>a DEF Core, ChecksFit, Downloaded
<1>14. Listed(q)
  <2>1. /\ e.phases["Plan"].done <= Cardinality(e.packages) /\ e.phases["Plan"].done \in Nat
        /\ e.phases["Sync"].done <= Cardinality(e.dbs)
    BY <1>a, <1>1, <1>12, Shape DEF Core, Listed
  <2> QED
    BY <1>d, <1>9, <1>10, <1>11, <1>12, <2>1 DEF Listed
<1>15. IsFiniteSet(q.dbs) /\ IsFiniteSet(q.packages) /\ q.saw_package \in BOOLEAN
  BY <1>1, <1>c, <1>9, <1>11 DEF PictureShape
<1>16. Core(f, n, m, q) /\ Forwards(e, q)
  BY <1>0, <1>a, <1>4, <1>7, <1>9, <1>13, <1>14, <1>15, CountPut
<1>17. Forwards(r, q)
  <2>1. PictureShape(q)
    BY <1>16 DEF Core
  <2> QED
    BY <1>1, <1>a, <1>16, <2>1, ForwardsAgain
<1>18. q.screen_section = r.screen_section /\ q.finished = r.finished
  BY <1>a, <1>9 DEF New, Beside
<1> QED
  BY <1>16, <1>17, <1>18 DEF q

-----------------------------------------------------------------------------
(* A line of a hook, and the sections.                                     *)

\* What a step of the screen owes but the section.
Told(f, n, m, r, q) == Core(f, n, m, q) /\ Forwards(r, q) /\ q.finished = r.finished

\* The hooks before one that begins are over.
LEMMA EarlierEnded ==
  ASSUME NEW hooks, ListShape(hooks), NEW index
  PROVE  LET over == [j \in DOMAIN hooks |-> IF j < index /\ hooks[j].started
                                             THEN [hooks[j] EXCEPT !.ended = TRUE] ELSE hooks[j]]
         IN  ListShape(over) /\ StartedIn(over) = StartedIn(hooks)
<1> DEFINE over == [j \in DOMAIN hooks |-> IF j < index /\ hooks[j].started
                                           THEN [hooks[j] EXCEPT !.ended = TRUE] ELSE hooks[j]]
<1>1. Len(hooks) \in Nat /\ DOMAIN hooks = 1..Len(hooks) /\ \A j \in DOMAIN hooks : HookShape(hooks[j])
  BY DEF ListShape
<1>2. DOMAIN over = DOMAIN hooks
  OBVIOUS
<1>3. \A j \in DOMAIN hooks : HookShape(over[j]) /\ over[j].started = hooks[j].started
  <2>1. TAKE j \in DOMAIN hooks
  <2>2. over[j] \in {hooks[j], [hooks[j] EXCEPT !.ended = TRUE]}
    OBVIOUS
  <2>3. DOMAIN hooks[j] = {"desc", "file", "started", "ended", "notes"}
    BY <1>1 DEF HookShape
  <2>4. HookShape(hooks[j])
    BY <1>1
  <2> HIDE DEF over
  <2>5. CASE over[j] = hooks[j]
    BY <2>4, <2>5
  <2>6. CASE over[j] = [hooks[j] EXCEPT !.ended = TRUE]
    <3>1. /\ DOMAIN over[j] = DOMAIN hooks[j] /\ over[j].started = hooks[j].started
          /\ over[j].ended = TRUE
      BY <2>3, <2>6
    <3> QED
      BY <2>4, <3>1 DEF HookShape
  <2> QED
    BY <2>2, <2>5, <2>6
<1> HIDE DEF over
<1>4. Len(over) = Len(hooks)
  BY <1>1, <1>2, LengthOf
<1>5. ListShape(over)
  BY <1>1, <1>2, <1>3, <1>4 DEF ListShape
<1>6. StartedIn(over) = StartedIn(hooks)
  BY <1>2, <1>3 DEF StartedIn
<1> QED
  BY <1>5, <1>6 DEF over

\* A hook begun on the screen.
LEMMA HookBegun ==
  ASSUME NEW hooks, ListShape(hooks), NEW i \in DOMAIN hooks, NEW desc
  PROVE  LET new == [hooks EXCEPT ![i].desc = desc, ![i].started = TRUE]
         IN  /\ ListShape(new) /\ StartedIn(new) = StartedIn(hooks) \cup {i}
             /\ i \in DOMAIN new
<1> DEFINE new == [hooks EXCEPT ![i].desc = desc, ![i].started = TRUE]
           told == [hooks[i] EXCEPT !.desc = desc]
           h == [told EXCEPT !.started = TRUE]
<1>1. Len(hooks) \in Nat /\ DOMAIN hooks = 1..Len(hooks) /\ \A j \in DOMAIN hooks : HookShape(hooks[j])
  BY DEF ListShape
<1>2. DOMAIN hooks[i] = {"desc", "file", "started", "ended", "notes"} /\ hooks[i].ended \in BOOLEAN
  BY <1>1 DEF HookShape
<1>3. DOMAIN told = {"desc", "file", "started", "ended", "notes"} /\ told.ended = hooks[i].ended
  BY <1>2
<1>4. new = [hooks EXCEPT ![i] = h]
  OBVIOUS
<1> HIDE DEF told, new
<1>5. DOMAIN h = {"desc", "file", "started", "ended", "notes"} /\ h.ended = hooks[i].ended /\ h.started = TRUE
  BY <1>3
<1> HIDE DEF h
<1>6. HookShape(h)
  BY <1>2, <1>5 DEF HookShape
<1>7. /\ DOMAIN new = DOMAIN hooks /\ new[i] = h
      /\ \A j \in DOMAIN hooks \ {i} : new[j] = hooks[j]
  BY <1>4
<1>8. Len(new) = Len(hooks)
  BY <1>1, <1>7, LengthOf
<1>9. \A j \in DOMAIN new : HookShape(new[j])
  BY <1>1, <1>6, <1>7
<1>10. ListShape(new)
  BY <1>1, <1>7, <1>8, <1>9 DEF ListShape
<1>11. StartedIn(new) = StartedIn(hooks) \cup {i}
  BY <1>5, <1>7 DEF StartedIn
<1> QED
  BY <1>7, <1>10, <1>11 DEF new

\* A hook line, in the section of its hooks.
LEMMA HookLineKeeps ==
  ASSUME NEW f \in Feed, NEW n, NEW m, NEW r, Core(f, n, m, r),
         NEW index \in Nat, NEW total \in Nat, NEW desc,
         r.screen_section \in HookKind \cup {None},
         r.screen_section \in HookKind => index <= total /\ total = Len(f.facts[r.screen_section])
  PROVE  LET q == screen_hook_line(r, index, total, desc)
         IN  Told(f, n, m, r, q) /\ q.screen_section = r.screen_section
<1> DEFINE kind == r.screen_section
           over == [j \in DOMAIN r.hooks[kind] |->
                       IF j < index /\ r.hooks[kind][j].started
                       THEN [r.hooks[kind][j] EXCEPT !.ended = TRUE] ELSE r.hooks[kind][j]]
           list == hook_at(over, index)
           begun == [list EXCEPT ![index].desc = desc, ![index].started = TRUE]
           first == [r EXCEPT !.hooks[kind] = begun]
           seen == reclassify(first, kind, index)
           q == screen_hook_line(r, index, total, desc)
<1>0. PictureShape(r)
  BY DEF Core
<1>1. CASE index = 0 \/ kind = None
  <2>1. q = r
    BY Zenon, <1>1 DEF screen_hook_line
  <2>2. Alike(r, r)
    BY <1>0, AlikeItself
  <2>3. Core(f, n, m, r) /\ Forwards(r, r)
    BY <2>2, AlikeKeeps
  <2> QED
    BY <2>1, <2>3 DEF Told
<1>2. CASE ~(index = 0 \/ kind = None)
  <2>1. kind \in HookKind /\ index > 0 /\ index - 1 \in Nat /\ kind \in PhaseKind
    <3>1. kind \in HookKind /\ index # 0
      BY <1>2
    <3>2. index > 0 /\ index - 1 \in Nat
      BY <3>1
    <3> HIDE DEF kind
    <3>3. kind \in PhaseKind
      BY <3>1, Kinds
    <3> QED
      BY <3>1, <3>2, <3>3
  <2>2. index <= total /\ total = Len(f.facts[kind])
    BY <2>1
  <2>3. q = [seen EXCEPT !.screen_hook = index,
                         !.phases[kind].done = Larger(@, index - 1),
                         !.phases[kind].total = total]
    BY Zenon, <1>2 DEF screen_hook_line
  <2> HIDE DEF q, seen
  <2>4. ListShape(r.hooks[kind]) /\ DOMAIN r.hooks = HookKind
    BY <1>0, <2>1, ListsAre
  <2>5. ListShape(over) /\ StartedIn(over) = StartedIn(r.hooks[kind])
    BY <2>4, EarlierEnded
  <2> HIDE DEF over, kind
  <2>6. ListShape(list) /\ StartedIn(list) = StartedIn(over) /\ index \in DOMAIN list
    BY <2>1, <2>5, MadeLongEnough
  <2> HIDE DEF list
  <2>7. ListShape(begun) /\ StartedIn(begun) = StartedIn(list) \cup {index} /\ index \in DOMAIN begun
    BY Zenon, <2>6, HookBegun
  <2> HIDE DEF begun
  <2>8. DOMAIN r = DOMAIN New /\ "hooks" \in DOMAIN New
    BY <1>0 DEF PictureShape, New
  <2>9. /\ DOMAIN first = DOMAIN New
        /\ \A a \in DOMAIN New \ {"hooks"} : first[a] = r[a]
        /\ first.hooks = [r.hooks EXCEPT ![kind] = begun]
    BY <2>8
  <2> HIDE DEF first
  <2>10. /\ DOMAIN first.hooks = HookKind /\ first.hooks[kind] = begun
         /\ \A k \in HookKind \ {kind} : first.hooks[k] = r.hooks[k]
    BY <2>1, <2>4, <2>9
  <2>11. HooksShape(r.hooks)
    BY <1>0 DEF PictureShape
  <2>12. HooksShape(first.hooks)
    BY <2>7, <2>10, <2>11 DEF HooksShape, ListShape
  <2>13. /\ first.phases = r.phases /\ first.dbs = r.dbs /\ first.packages = r.packages
         /\ first.named = r.named /\ first.tx_started = r.tx_started /\ first.log_seen = r.log_seen
         /\ first.finished = r.finished /\ first.saw_package = r.saw_package
         /\ first.screen_section = r.screen_section
    BY <2>9 DEF New
  <2>14. PictureShape(first)
    BY <1>0, <2>9, <2>12, <2>13 DEF PictureShape
  <2>15. Alike(first, seen)
    <3>1. index \in DOMAIN first.hooks[kind]
      BY <2>7, <2>10
    <3> QED
      BY <2>1, <2>14, <3>1, Reclassified DEF seen
  <2>16. /\ seen.phases = r.phases /\ seen.dbs = r.dbs /\ seen.packages = r.packages
         /\ seen.tx_started = r.tx_started /\ seen.log_seen = r.log_seen
         /\ seen.finished = r.finished /\ seen.saw_package = r.saw_package
         /\ seen.screen_section = r.screen_section
    BY <2>13, <2>15 DEF Alike, Relevant
  <2>17. PictureShape(seen)
    BY <2>14, <2>15, AlikeShape
  <2> DEFINE old == r.phases[kind]
             d == Larger(old.done, index - 1)
             p == [state |-> old.state, done |-> d, total |-> total, detail |-> old.detail]
             counted == [state |-> old.state, done |-> d, total |-> old.total, detail |-> old.detail]
  <2>18. /\ old = [state |-> old.state, done |-> old.done, total |-> old.total, detail |-> old.detail]
         /\ DOMAIN r.phases = PhaseKind
    BY <1>0, <2>1, PhaseIs
  <2>19. old \in PhaseShape /\ old.done \in Nat /\ old.total \in Nat \cup {NoTotal} /\ NoTotal = -1
    BY <1>0, <2>1, Shape
  <2>20. d \in Nat /\ d >= old.done /\ (d = old.done \/ d = index - 1)
    BY <2>1, <2>19 DEF Larger
  <2>21. seen.phases[kind].done = old.done
    BY <2>16
  <2>22. q = [seen EXCEPT !.screen_hook = index, !.phases[kind].done = d, !.phases[kind].total = total]
    BY <2>3, <2>21
  <2> HIDE DEF d
  <2>23. [[old EXCEPT !.done = d] EXCEPT !.total = total] = p
    <3>1. [old EXCEPT !.done = d] = counted
      BY <2>18
    <3>2. [counted EXCEPT !.total = total] = p
      OBVIOUS
    <3> QED
      BY <3>1, <3>2
  <2>24. p \in PhaseShape /\ p.state = old.state /\ p.done = d /\ p.total = total /\ p.detail = old.detail
    BY <2>19, <2>20 DEF PhaseShape
  <2>25. {"phases", "screen_hook"} \subseteq DOMAIN New /\ DOMAIN seen = DOMAIN New
    BY <2>17 DEF New, PictureShape
  <2> HIDE DEF p
  <2>26. /\ DOMAIN q = DOMAIN New /\ q.phases = [r.phases EXCEPT ![kind] = p]
         /\ \A a \in DOMAIN New \ {"phases", "screen_hook"} : q[a] = seen[a]
    <3> DEFINE at == [seen EXCEPT !.screen_hook = index]
    <3>1. /\ DOMAIN at = DOMAIN New /\ at.phases = r.phases
          /\ \A a \in DOMAIN New \ {"screen_hook"} : at[a] = seen[a]
      BY <2>16, <2>25
    <3>2. q = [at EXCEPT !.phases[kind].done = d, !.phases[kind].total = total]
      BY <2>22
    <3> HIDE DEF at
    <3> QED
      BY <2>1, <2>18, <2>23, <2>25, <3>1, <3>2
  <2>27. q.phases[kind] = p /\ \A j \in PhaseKind \ {kind} : q.phases[j] = r.phases[j]
    BY <2>1, <2>18, <2>26
  <2>28. /\ q.dbs = r.dbs /\ q.packages = r.packages /\ q.saw_package = r.saw_package
         /\ q.tx_started = r.tx_started /\ q.log_seen = r.log_seen
         /\ q.finished = r.finished /\ q.screen_section = r.screen_section
         /\ q.hooks = seen.hooks /\ q.named = seen.named
    BY <2>16, <2>26 DEF New
  <2>29. PictureShape(q)
    <3>1. r.phases \in [PhaseKind -> PhaseShape]
      BY <1>0 DEF PictureShape, PhaseShape
    <3>2. q.phases \in [PhaseKind -> PhaseShape]
      BY <2>24, <2>26, <3>1
    <3> QED
      BY <1>0, <2>17, <2>26, <2>28, <3>2 DEF PictureShape, PhaseShape
  <2>30. \A j \in PhaseKind : Place(q, j) = Place(r, j)
    BY <2>24, <2>27 DEF Place
  <2>31. Ordered(q)
    BY <2>30, Places, Kinds DEF Core, Ordered
  <2>32. {"Sync", "Plan", "Download", "Checks"} \subseteq PhaseKind \ {kind}
    BY <2>1, Kinds DEF HookKind
  <2>33. Listed(q) /\ Downloaded(f, n, q) /\ ChecksFit(f, n, q) /\ ToldByLog(f, m, q)
    BY <2>27, <2>28, <2>32 DEF Core, Listed, Downloaded, ChecksFit, ToldByLog
  <2>34. StartedIn(q.hooks[kind]) = StartedIn(r.hooks[kind]) \cup {index}
    <3>1. StartedIn(seen.hooks[kind]) = StartedIn(first.hooks[kind])
      BY <2>1, <2>15 DEF Alike
    <3> QED
      BY <2>5, <2>6, <2>7, <2>10, <2>28, <3>1
  <2>35. \A k \in HookKind \ {kind} : StartedIn(q.hooks[k]) = StartedIn(r.hooks[k])
    <3>1. \A k \in HookKind : StartedIn(seen.hooks[k]) = StartedIn(first.hooks[k])
      BY <2>15 DEF Alike
    <3> QED
      BY <2>10, <2>28, <3>1
  <2>36. HooksFit(f, q)
    <3>1. HooksFit(f, r)
      BY DEF Core
    <3>2. d <= total
      BY <2>1, <2>2, <2>19, <2>20, <3>1 DEF HooksFit
    <3>3. index \in 1..Len(f.facts[kind])
      BY <2>1, <2>2
    <3>4. StartedIn(q.hooks[kind]) \subseteq 1..Len(f.facts[kind])
      BY <2>1, <2>34, <3>1, <3>3 DEF HooksFit
    <3>5. \A k \in HookKind \ {kind} : q.phases[k] = r.phases[k]
      BY <2>27, Kinds
    <3>6. ASSUME NEW k \in HookKind
          PROVE  \/ /\ q.phases[k].total = NoTotal /\ q.phases[k].done = 0
                    /\ StartedIn(q.hooks[k]) = {}
                 \/ /\ q.phases[k].total = Len(f.facts[k]) /\ q.phases[k].done <= q.phases[k].total
                    /\ StartedIn(q.hooks[k]) \subseteq 1..Len(f.facts[k])
      <4>1. CASE k = kind
        BY <2>2, <2>24, <2>27, <3>2, <3>4, <4>1
      <4>2. CASE k # kind
        BY <2>35, <3>1, <3>5, <4>2 DEF HooksFit
      <4> QED
        BY <4>1, <4>2
    <3> QED
      BY <3>6 DEF HooksFit
  <2>37. Forwards(r, q)
    <3>1. \A j \in PhaseKind : r.phases[j].done \in Nat /\ q.phases[j].done >= r.phases[j].done
      BY <1>0, <2>20, <2>24, <2>27, Shape
    <3> QED
      BY <2>30, <3>1 DEF Forwards
  <2> QED
    BY <2>28, <2>29, <2>31, <2>33, <2>36, <2>37 DEF Told, Core, q
<1> QED
  BY <1>1, <1>2

-----------------------------------------------------------------------------
(* A settled line.                                                         *)

Kept(f, n, m, r, q) == Told(f, n, m, r, q) /\ q.screen_section = r.screen_section

\* The section on the screen is the one pacman opened last.
SectionKnown(f, n, r) ==
  /\ r.screen_section \in HookKind \cup {None}
  /\ r.screen_section \in HookKind => InSection(f.screen, n + 1, r.screen_section)

\* A step that only tells more keeps the picture true.
LEMMA AlikeIsKept ==
  ASSUME NEW f, NEW n, NEW m, NEW r, NEW q, Core(f, n, m, r), Alike(r, q)
  PROVE  Kept(f, n, m, r, q)
<1>1. Core(f, n, m, q) /\ Forwards(r, q)
  BY AlikeKeeps
<1>2. q.screen_section = r.screen_section /\ q.finished = r.finished
  BY DEF Alike, Relevant
<1> QED
  BY <1>1, <1>2 DEF Kept, Told

\* A step that tells and another are one.
LEMMA ToldAgain ==
  ASSUME NEW f, NEW n, NEW m, NEW r, NEW e, NEW q, Core(f, n, m, r),
         Told(f, n, m, r, e), Told(f, n, m, e, q)
  PROVE  Told(f, n, m, r, q)
<1>1. PictureShape(r) /\ PictureShape(e) /\ PictureShape(q)
  BY DEF Core, Told
<1>2. Forwards(r, q)
  BY <1>1, ForwardsAgain DEF Told
<1> QED
  BY <1>2 DEF Told

\* Entering a phase keeps the picture true, and its packages.
LEMMA EnterIsKept ==
  ASSUME NEW f \in Feed, NEW n, NEW m, NEW r, NEW kind \in PhaseKind, Core(f, n, m, r)
  PROVE  /\ Kept(f, n, m, r, enter(r, kind)) /\ enter(r, kind).packages = r.packages
         /\ Core(f, n, m, enter(r, kind))
<1>1. /\ Core(f, n, m, enter(r, kind)) /\ Forwards(r, enter(r, kind))
      /\ Beside({"phases", "hooks"}, r, enter(r, kind))
  BY EnterKeeps
<1>2. {"finished", "screen_section", "packages"} \subseteq DOMAIN New \ {"phases", "hooks"}
  BY DEF New
<1>3. /\ enter(r, kind).finished = r.finished /\ enter(r, kind).packages = r.packages
      /\ enter(r, kind).screen_section = r.screen_section
  BY <1>1, <1>2 DEF Beside
<1> QED
  BY <1>1, <1>3 DEF Kept, Told

\* A phase entered with its total.
LEMMA EnterWithTotal ==
  ASSUME NEW f \in Feed, NEW n, NEW m, NEW r, NEW kind \in PhaseKind \ HookKind,
         Core(f, n, m, r), NEW t \in Nat \cup {NoTotal}
  PROVE  Kept(f, n, m, r, [enter(r, kind) EXCEPT !.phases[kind].total = t])
<1> DEFINE e == enter(r, kind)
           q == [enter(r, kind) EXCEPT !.phases[kind].total = t]
<1>1. kind \in PhaseKind
  OBVIOUS
<1>2. Kept(f, n, m, r, e) /\ Core(f, n, m, e)
  BY <1>1, EnterIsKept
<1> HIDE DEF e
<1>4. q = [e EXCEPT !.phases[kind].total = t]
  BY DEF e
<1>3. Core(f, n, m, q) /\ Forwards(e, q) /\ Beside({"phases"}, e, q)
  BY <1>2, <1>4, TotalKeeps
<1> HIDE DEF q
<1>5. {"finished", "screen_section"} \subseteq DOMAIN New \ {"phases"}
  BY DEF New
<1>6. Kept(f, n, m, e, q)
  BY <1>3, <1>4, <1>5 DEF Kept, Told, Beside
<1>7. Told(f, n, m, r, q)
  BY <1>2, <1>6, ToldAgain DEF Kept
<1> QED
  BY <1>2, <1>6, <1>7 DEF Kept, q

\* The progress of the download.
LEMMA DownloadIsKept ==
  ASSUME NEW f \in Feeds, FeedsOK, NEW n \in Nat, NEW m, NEW r, Core(f, n, m, r),
         n + 1 \in DOMAIN f.screen, f.screen[n + 1].type = "DownloadTotal"
  PROVE  Kept(f, n, m, r, [enter(r, "Download") EXCEPT
                              !.phases["Download"].done = f.screen[n + 1].done,
                              !.phases["Download"].total = f.screen[n + 1].total])
<1> DEFINE e == enter(r, "Download")
           q == [enter(r, "Download") EXCEPT
                              !.phases["Download"].done = f.screen[n + 1].done,
                              !.phases["Download"].total = f.screen[n + 1].total]
<1>1. "Download" \in PhaseKind
  BY Kinds
<1>2. f \in Feed
  BY DEF FeedsOK
<1>3. Kept(f, n, m, r, e) /\ Core(f, n, m, e)
  BY <1>1, <1>2, EnterIsKept
<1> HIDE DEF e
<1>4. q = [e EXCEPT !.phases["Download"].done = f.screen[n + 1].done,
                    !.phases["Download"].total = f.screen[n + 1].total]
  BY DEF e
<1> HIDE DEF q
<1>5. /\ Core(f, n, m, q) /\ Forwards(e, q)
      /\ Beside({"phases"}, e, q)
  BY Zenon, <1>3, <1>4, DownloadKeeps
<1>6. {"finished", "screen_section"} \subseteq DOMAIN New \ {"phases"}
  BY DEF New
<1>7. Kept(f, n, m, e, q)
  BY <1>5, <1>6 DEF Kept, Told, Beside
<1>8. Told(f, n, m, r, q)
  BY <1>3, <1>7, ToldAgain DEF Kept
<1> QED
  BY <1>3, <1>7, <1>8 DEF Kept, q

\* A section opens.
LEMMA SectionKeeps ==
  ASSUME NEW f \in Feed, NEW n, NEW m, NEW r, NEW kind \in PhaseKind, Core(f, n, m, r)
  PROVE  LET q == apply_section(r, kind)
         IN  /\ Told(f, n, m, r, q)
             /\ kind \in HookKind => q.screen_section = kind
             /\ kind \notin HookKind => q.screen_section = None
<1> DEFINE e == enter(r, kind) q == apply_section(r, kind)
           section == IF kind \in HookKind THEN kind ELSE None
<1>1. Kept(f, n, m, r, e) /\ Core(f, n, m, e)
  BY EnterIsKept
<1>2. q = [e EXCEPT !.screen_section = section, !.screen_hook = 0]
  BY DEF apply_section
<1> HIDE DEF e, q, section
<1>3. PictureShape(e)
  BY <1>1 DEF Core
<1>4. DOMAIN e = DOMAIN New /\ {"screen_section", "screen_hook"} \subseteq DOMAIN New
  BY <1>3 DEF PictureShape, New
<1>5. /\ DOMAIN q = DOMAIN New /\ q.screen_section = section
      /\ \A a \in DOMAIN New \ {"screen_section", "screen_hook"} : q[a] = e[a]
  BY <1>2, <1>4
<1>6. /\ q.phases = e.phases /\ q.dbs = e.dbs /\ q.packages = e.packages /\ q.hooks = e.hooks
      /\ q.named = e.named /\ q.tx_started = e.tx_started /\ q.log_seen = e.log_seen
      /\ q.finished = e.finished /\ q.saw_package = e.saw_package
  BY <1>5 DEF New
<1>7. PictureShape(q)
  BY <1>3, <1>5, <1>6 DEF PictureShape
<1>8. Core(f, n, m, q)
  BY <1>1, <1>6, <1>7 DEF Core, Ordered, Place, Listed, HooksFit, Downloaded, ChecksFit, ToldByLog
<1>9. Forwards(e, q)
  BY <1>3, <1>6, Shape DEF Forwards, Place
<1>10. Told(f, n, m, e, q)
  BY <1>6, <1>8, <1>9 DEF Told
<1>11. Told(f, n, m, r, q)
  BY <1>1, <1>10, ToldAgain DEF Kept
<1> QED
  BY <1>5, <1>11 DEF q, section

\* What the screen says, by its type.
LEMMA EventFields ==
  ASSUME NEW ev \in ScreenEvent
  PROVE  /\ ev.type \in {"SyncStart", "UpgradeStart", "NothingToDo", "RetrieveStart", "Processing",
                         "PreHooks", "PostHooks", "Warning", "Error", "Pacnew", "Other", "Db",
                         "PlanHeader", "PlanNames", "PlanRow", "PlanTotal", "Prompt", "DownloadTotal", "Check",
                         "Optdepends", "Hook", "Package"}
         /\ ev.type \in {"Other", "Db"} => ev.text \in Text
         /\ ev.type = "PlanHeader" => ev.count \in Nat
         /\ ev.type \in {"PlanNames", "PlanRow"} => ev.names \in Names
         /\ ev.type = "Check" => ev.name \in STRING
         /\ ev.type \in {"Hook", "Package"} => ev.index \in Nat /\ ev.total \in Nat
BY DEF ScreenEvent, HookKind

\* Where a line of the screen leaves its section.
Moved(ev, r, q) ==
  q.screen_section = IF ev.type \in HookKind THEN ev.type
                     ELSE IF ev.type = "Processing" THEN None ELSE r.screen_section

\* The line that begins a hook of a section.
LEMMA HookLineIs ==
  ASSUME NEW f \in Feeds, FeedsOK, NEW k \in HookKind, NEW h \in DOMAIN f.screen,
         Begins(f.screen, h, k)
  PROVE  LET begun == f.screen[h]
         IN  /\ begun.index \in Nat /\ begun.total \in Nat
             /\ 1 <= begun.index /\ begun.index <= begun.total /\ begun.total = Len(f.facts[k])
             /\ begun.desc = f.facts[k][begun.index].desc
             /\ \A g \in 1..(h - 1) : Begins(f.screen, g, k) => f.screen[g].index < begun.index
<1>1. f \in Feed /\ ScreenOK(f)
  BY DEF FeedsOK
<1>2. f.screen[h] \in ScreenEvent /\ f.screen[h].type = "Hook"
  BY <1>1 DEF Feed, Begins
<1>3. f.screen[h].index \in Nat /\ f.screen[h].total \in Nat
  BY <1>2, EventFields
<1>4. /\ f.screen[h].index \in 1..f.screen[h].total /\ f.screen[h].total = Len(f.facts[k])
      /\ f.screen[h].desc = f.facts[k][f.screen[h].index].desc
      /\ \A g \in 1..(h - 1) : Begins(f.screen, g, k) => f.screen[g].index < f.screen[h].index
  BY <1>1 DEF ScreenOK
<1> QED
  BY <1>3, <1>4

\* A line of the screen keeps the picture true; only a section moves the section.
LEMMA ScreenKeeps ==
  ASSUME NEW f \in Feeds, FeedsOK, NEW n \in Nat, NEW m, NEW r, Core(f, n, m, r),
         SectionKnown(f, n, r), n + 1 \in DOMAIN f.screen, NEW ev,
         \/ ev = f.screen[n + 1]
         \/ f.screen[n + 1].type = "Db" /\ ev.type = "Other" /\ ev.text \in Text
  PROVE  Told(f, n, m, r, apply_screen(r, ev)) /\ Moved(ev, r, apply_screen(r, ev))
<1> DEFINE q == apply_screen(r, ev)
           shut == [r EXCEPT !.optdeps_for = None, !.in_names = ev.type = "PlanNames"]
           e == IF ev.type = "Other" THEN r ELSE shut
<1>0. PictureShape(r) /\ f \in Feed
  BY DEF Core, FeedsOK
<1>1. f.screen[n + 1] \in ScreenEvent
  BY <1>0 DEF Feed
<1>2. /\ ev.type \in {"SyncStart", "UpgradeStart", "NothingToDo", "RetrieveStart", "Processing",
                       "PreHooks", "PostHooks", "Warning", "Error", "Pacnew", "Other", "Db",
                       "PlanHeader", "PlanNames", "PlanRow", "PlanTotal", "Prompt", "DownloadTotal", "Check",
                       "Optdepends", "Hook", "Package"}
      /\ ev.type \in {"Other", "Db"} => ev.text \in Text
      /\ ev.type = "PlanHeader" => ev.count \in Nat
      /\ ev.type \in {"PlanNames", "PlanRow"} => ev.names \in Names
      /\ ev.type = "Check" => ev.name \in STRING
      /\ ev.type \in {"Hook", "Package"} => ev.index \in Nat /\ ev.total \in Nat
  BY <1>1, EventFields
<1>3. ev.type # "Other" => ev = f.screen[n + 1]
  OBVIOUS
<1>4. Alike(r, e)
  <2>1. DOMAIN r = DOMAIN New /\ {"optdeps_for", "in_names"} \subseteq DOMAIN New
        /\ Relevant \cup {"hooks", "named"} \subseteq DOMAIN New \ {"optdeps_for", "in_names"}
    BY <1>0 DEF PictureShape, New, Relevant
  <2>2. DOMAIN shut = DOMAIN New /\ \A a \in DOMAIN New \ {"optdeps_for", "in_names"} : shut[a] = r[a]
    BY <2>1
  <2> HIDE DEF shut
  <2>3. Alike(r, shut) /\ Alike(r, r)
    BY <1>0, <2>1, <2>2, FieldsAside, AlikeItself
  <2> QED
    BY <2>3
<1>5. q = CASE ev.type = "SyncStart" -> enter(e, "Sync")
            [] ev.type = "Db" -> [e EXCEPT !.dbs = @ \cup {ev.name},
                                           !.phases["Sync"].done = Cardinality(e.dbs \cup {ev.name})]
            [] ev.type \in {"UpgradeStart", "NothingToDo"} -> enter(e, "Plan")
            [] ev.type = "Warning" -> [note(e, "Warning", ev.text) EXCEPT
                                          !.warning_at = @ \cup {Len(e.lines)}]
            [] ev.type = "Error" -> note(e, "Error", ev.text)
            [] ev.type = "Pacnew" -> note(e, "Pacnew", ev.text)
            [] ev.type = "PlanHeader" -> [enter(e, "Plan") EXCEPT !.phases["Plan"].total = ev.count]
            [] ev.type \in {"PlanNames", "PlanRow"} -> add_names(e, ev.names)
            [] ev.type = "PlanTotal" -> e
            [] ev.type = "Prompt" -> [e EXCEPT !.prompt = ev.text]
            [] ev.type = "RetrieveStart" ->
                  [enter(e, "Download") EXCEPT !.phases["Download"].total =
                      IF e.packages = {} THEN NoTotal ELSE Cardinality(e.packages)]
            [] ev.type = "DownloadTotal" ->
                  [enter(e, "Download") EXCEPT !.phases["Download"].done = ev.done,
                                               !.phases["Download"].total = ev.total]
            [] ev.type = "Check" -> apply_check(e, ev.name)
            [] ev.type \in HookKind -> apply_section(e, ev.type)
            [] ev.type = "Processing" -> apply_section(e, "Packages")
            [] ev.type = "Hook" -> screen_hook_line(e, ev.index, ev.total, ev.desc)
            [] ev.type = "Package" -> apply_package(e, ev)
            [] ev.type = "Optdepends" -> [e EXCEPT !.optdeps_for = ev.name]
            [] ev.type = "Other" -> other(e, ev.text)
  BY DEF apply_screen
<1> HIDE DEF q, e
<1>6. Kept(f, n, m, r, e) /\ Core(f, n, m, e) /\ PictureShape(e)
  <2>1. Kept(f, n, m, r, e)
    BY <1>4, AlikeIsKept
  <2> QED
    BY <2>1 DEF Kept, Told, Core
<1>7. \A x : Told(f, n, m, e, x) => Told(f, n, m, r, x)
  BY <1>6, ToldAgain DEF Kept
<1>8. SUFFICES ASSUME ev.type \notin HookKind \cup {"Processing"} PROVE Kept(f, n, m, e, q)
  <2>1. CASE ev.type \in HookKind
    <3>1. q = apply_section(e, ev.type)
      BY <1>5, <2>1 DEF HookKind
    <3>2. ev.type \in PhaseKind
      BY <2>1, Kinds
    <3>3. Told(f, n, m, e, q) /\ q.screen_section = ev.type
      BY <1>0, <1>6, <2>1, <3>1, <3>2, SectionKeeps
    <3> QED
      BY <1>7, <2>1, <3>3 DEF q, Moved
  <2>2. CASE ev.type = "Processing"
    <3>1. q = apply_section(e, "Packages")
      BY <1>5, <2>2 DEF HookKind
    <3>2. "Packages" \in PhaseKind /\ "Packages" \notin HookKind /\ ev.type \notin HookKind
      BY <2>2, Kinds DEF HookKind
    <3>3. Told(f, n, m, e, q) /\ q.screen_section = None
      BY <1>0, <1>6, <3>1, <3>2, SectionKeeps
    <3> QED
      BY <1>7, <2>2, <3>2, <3>3 DEF q, Moved
  <2>3. CASE ev.type \notin HookKind \cup {"Processing"}
    <3>1. Kept(f, n, m, e, q)
      BY <1>8, <2>3
    <3> QED
      BY <1>6, <1>7, <2>3, <3>1 DEF Kept, Moved, q
  <2> QED
    BY <2>1, <2>2, <2>3
<1>9. {"Sync", "Plan", "Download", "Checks"} \subseteq PhaseKind \ HookKind
  BY Kinds DEF HookKind
<1>10. CASE ev.type \in {"SyncStart", "UpgradeStart", "NothingToDo"}
  <2>1. q = enter(e, "Sync") \/ q = enter(e, "Plan")
    BY Zenon, <1>5, <1>10 DEF HookKind
  <2>2. "Sync" \in PhaseKind /\ "Plan" \in PhaseKind
    BY <1>9
  <2> QED
    BY <1>0, <1>6, <2>1, <2>2, EnterIsKept
<1>11. CASE ev.type = "Db"
  <2>1. q = WithDb(e, ev.name)
    BY <1>5, <1>11 DEF HookKind, WithDb
  <2>2. /\ Core(f, n, m, q) /\ Forwards(e, q) /\ q.screen_section = e.screen_section
        /\ q.finished = e.finished
    BY <1>6, <2>1, DbKeeps
  <2> QED
    BY <2>2 DEF Kept, Told
<1>12. CASE ev.type \in {"Error", "Pacnew"}
  <2>1. q = note(e, "Error", ev.text) \/ q = note(e, "Pacnew", ev.text)
    BY <1>5, <1>12 DEF HookKind
  <2> QED
    BY <1>6, <2>1, NoteIsAside, AlikeIsKept
<1>13. CASE ev.type = "Warning"
  <2> DEFINE noted == note(e, "Warning", ev.text)
  <2>1. q = [noted EXCEPT !.warning_at = @ \cup {Len(e.lines)}]
    BY <1>5, <1>13 DEF HookKind
  <2>2. Alike(e, noted)
    BY <1>6, NoteIsAside
  <2>3. PictureShape(noted)
    BY <1>6, <2>2, AlikeShape
  <2> HIDE DEF noted
  <2>4. /\ DOMAIN noted = DOMAIN New
        /\ Relevant \cup {"hooks", "named"} \subseteq DOMAIN New \ {"warning_at"}
    BY <2>3 DEF PictureShape, New, Relevant
  <2>5. DOMAIN q = DOMAIN New /\ \A a \in DOMAIN New \ {"warning_at"} : q[a] = noted[a]
    BY <2>1, <2>4
  <2>6. Alike(noted, q)
    BY <2>3, <2>4, <2>5, FieldsAside
  <2>7. Alike(e, q)
    BY <2>2, <2>6, AlikeAgain
  <2> QED
    BY <1>6, <2>7, AlikeIsKept
<1>14. CASE ev.type = "PlanHeader"
  <2>1. q = [enter(e, "Plan") EXCEPT !.phases["Plan"].total = ev.count]
    BY <1>5, <1>14 DEF HookKind
  <2>2. ev.count \in Nat \cup {NoTotal} /\ "Plan" \in PhaseKind \ HookKind
    BY <1>2, <1>9, <1>14
  <2> QED
    BY <1>0, <1>6, <2>1, <2>2, EnterWithTotal
<1>23. CASE ev.type = "PlanTotal"
  <2>1. q = e
    BY <1>5, <1>23 DEF HookKind
  <2>2. Alike(e, q)
    BY <1>6, <2>1, AlikeItself
  <2> QED
    BY <1>6, <2>2, AlikeIsKept
<1>15. CASE ev.type \in {"PlanNames", "PlanRow"}
  <2>1. q = add_names(e, ev.names) /\ ev.names \in Names
    BY <1>2, <1>5, <1>15 DEF HookKind
  <2>2. /\ Core(f, n, m, q) /\ Forwards(e, q) /\ q.screen_section = e.screen_section
        /\ q.finished = e.finished
    BY <1>6, <2>1, NamesKeep
  <2> QED
    BY <2>2 DEF Kept, Told
<1>16. CASE ev.type \in {"Prompt", "Optdepends"}
  <2>1. q = [e EXCEPT !.prompt = ev.text] \/ q = [e EXCEPT !.optdeps_for = ev.name]
    BY Zenon, <1>5, <1>16 DEF HookKind
  <2>2. /\ DOMAIN e = DOMAIN New /\ {"prompt", "optdeps_for"} \subseteq DOMAIN New
        /\ Relevant \cup {"hooks", "named"} \subseteq DOMAIN New \ {"prompt", "optdeps_for"}
    BY <1>6 DEF PictureShape, New, Relevant
  <2>3. DOMAIN q = DOMAIN New /\ \A a \in DOMAIN New \ {"prompt", "optdeps_for"} : q[a] = e[a]
    BY <2>1, <2>2
  <2>4. Alike(e, q)
    BY <1>6, <2>2, <2>3, FieldsAside
  <2> QED
    BY <1>6, <2>4, AlikeIsKept
<1>17. CASE ev.type = "RetrieveStart"
  <2> DEFINE t == IF e.packages = {} THEN NoTotal ELSE Cardinality(e.packages)
  <2>1. q = [enter(e, "Download") EXCEPT !.phases["Download"].total = t]
    BY <1>5, <1>17 DEF HookKind
  <2>2. t \in Nat \cup {NoTotal}
    BY <1>6, FS_CardinalityType DEF PictureShape
  <2> HIDE DEF t
  <2>3. "Download" \in PhaseKind \ HookKind
    BY <1>9
  <2> QED
    BY <1>0, <1>6, <2>1, <2>2, <2>3, EnterWithTotal
<1>18. CASE ev.type = "DownloadTotal"
  <2>1. /\ ev = f.screen[n + 1] /\ f.screen[n + 1].type = "DownloadTotal"
        /\ q = [enter(e, "Download") EXCEPT !.phases["Download"].done = f.screen[n + 1].done,
                                            !.phases["Download"].total = f.screen[n + 1].total]
    BY <1>3, <1>5, <1>18 DEF HookKind
  <2> QED
    BY Zenon, <1>6, <2>1, DownloadIsKept
<1>19. CASE ev.type = "Check"
  <2>1. /\ ev = f.screen[n + 1] /\ f.screen[n + 1].type = "Check" /\ ev.name \in STRING
        /\ q = apply_check(e, ev.name)
    BY <1>2, <1>3, <1>5, <1>19 DEF HookKind
  <2>2. /\ Core(f, n, m, q) /\ Forwards(e, q)
        /\ q.screen_section = e.screen_section /\ q.finished = e.finished
    BY <1>0, <1>6, <2>1, CheckKeeps
  <2> QED
    BY <2>2 DEF Kept, Told
<1>20. CASE ev.type = "Hook"
  <2>1. /\ ev = f.screen[n + 1] /\ q = screen_hook_line(e, ev.index, ev.total, ev.desc)
        /\ ev.index \in Nat /\ ev.total \in Nat
    BY <1>2, <1>3, <1>5, <1>20 DEF HookKind
  <2>2. e.screen_section = r.screen_section
    BY <1>6 DEF Kept
  <2>3. e.screen_section \in HookKind \cup {None}
    BY <2>2 DEF SectionKnown
  <2>4. ASSUME e.screen_section \in HookKind
        PROVE  ev.index <= ev.total /\ ev.total = Len(f.facts[e.screen_section])
    <3>1. InSection(f.screen, n + 1, e.screen_section)
      BY <2>2, <2>4 DEF SectionKnown
    <3> QED
      BY <1>2, <1>20, <2>1, <2>4, <3>1, HookLineIs DEF Begins
  <2>5. Told(f, n, m, e, q) /\ q.screen_section = e.screen_section
    BY <1>0, <1>6, <2>1, <2>3, <2>4, HookLineKeeps
  <2> QED
    BY <2>5 DEF Kept
<1>21. CASE ev.type = "Package"
  <2>1. /\ ev = f.screen[n + 1] /\ q = apply_package(e, ev)
        /\ ev.index \in Nat /\ ev.total \in Nat
    BY <1>2, <1>3, <1>5, <1>21 DEF HookKind
  <2>2. f.facts.changed
    BY <1>21, <2>1 DEF FeedsOK, RunOK, Shows
  <2>3. /\ Core(f, n, m, q) /\ Forwards(e, q)
        /\ q.screen_section = e.screen_section /\ q.finished = e.finished
    BY <1>0, <1>6, <2>1, <2>2, PackageKeeps
  <2> QED
    BY <2>3 DEF Kept, Told
<1>22. CASE ev.type = "Other"
  <2>1. q = other(e, ev.text) /\ ev.text \in Text
    BY <1>2, <1>5, <1>22 DEF HookKind
  <2>2. e.screen_section \in HookKind \cup {None}
    BY <1>6 DEF Kept, SectionKnown
  <2>3. /\ Core(f, n, m, q) /\ Forwards(e, q) /\ q.screen_section = e.screen_section
        /\ q.finished = e.finished
    BY <1>6, <2>1, <2>2, OtherKeeps
  <2> QED
    BY <2>3 DEF Kept, Told
<1> QED
  BY <1>2, <1>8, <1>10, <1>11, <1>12, <1>13, <1>14, <1>15, <1>16, <1>17, <1>18, <1>19, <1>20, <1>21,
     <1>22, <1>23 DEF HookKind

\* A database line read as any other keeps its text.
LEMMA DbAsOther ==
  ASSUME NEW ev \in ScreenEvent, ev.type = "Db"
  PROVE  /\ [ev EXCEPT !.type = "Other"].type = "Other"
         /\ [ev EXCEPT !.type = "Other"].text = ev.text /\ ev.text \in Text
<1>1. ev \in [type : {"Db"}, name : STRING, text : Text]
  BY DEF ScreenEvent, HookKind
<1> QED
  BY <1>1

\* A line more: the downloads to come are fewer, the checks seen no fewer.
LEMMA Advance ==
  ASSUME NEW f \in Feed, NEW n \in Nat, NEW m, NEW r, Core(f, n, m, r), n + 1 \in DOMAIN f.screen
  PROVE  Core(f, n + 1, m, r)
<1>1. Downloaded(f, n + 1, r)
  <2>1. \A i \in ((n + 1) + 1)..Len(f.screen) : i \in (n + 1)..Len(f.screen)
    BY DEF Feed
  <2> QED
    BY <2>1 DEF Core, Downloaded
<1>2. IsFiniteSet(1..(n + 1)) /\ ChecksIn(f, n + 1) \subseteq 1..(n + 1)
  BY FS_Interval DEF ChecksIn
<1>3. IsFiniteSet(ChecksIn(f, n + 1))
  BY <1>2, FS_Subset
<1>4. ChecksIn(f, n) \subseteq ChecksIn(f, n + 1)
  BY DEF ChecksIn
<1>5. /\ Cardinality(ChecksIn(f, n)) \in Nat /\ Cardinality(ChecksIn(f, n + 1)) \in Nat
      /\ Cardinality(ChecksIn(f, n)) <= Cardinality(ChecksIn(f, n + 1))
  BY <1>3, <1>4, NoSmaller
<1>6. r.phases["Checks"].done \in Nat
  BY Shape, Kinds DEF Core
<1>7. r.phases["Checks"].done <= Cardinality(ChecksIn(f, n + 1))
  BY <1>5, <1>6 DEF Core, ChecksFit
<1>8. ChecksFit(f, n + 1, r)
  BY <1>7 DEF ChecksFit
<1> QED
  BY <1>1, <1>8 DEF Core

\* Settling a line.
LEMMA SettleKeeps ==
  ASSUME NEW f \in Feeds, FeedsOK, NEW n \in Nat, NEW m, NEW r, Core(f, n, m, r),
         SectionKnown(f, n, r), n + 1 \in DOMAIN f.screen
  PROVE  LET q == apply_line(r, f.screen[n + 1])
         IN  Told(f, n + 1, m, r, q) /\ SectionKnown(f, n + 1, q)
<1> DEFINE ev == IF f.screen[n + 1].type = "Db" /\ current(r) # "Sync"
                 THEN [f.screen[n + 1] EXCEPT !.type = "Other"] ELSE f.screen[n + 1]
           e == [r EXCEPT !.lines = Append(@, f.screen[n + 1])]
           q == apply_line(r, f.screen[n + 1])
<1>0. PictureShape(r) /\ f \in Feed
  BY DEF Core, FeedsOK
<1>1. f.screen[n + 1] \in ScreenEvent
  BY <1>0 DEF Feed
<1>2. \/ ev = f.screen[n + 1]
      \/ f.screen[n + 1].type = "Db" /\ ev.type = "Other" /\ ev.text \in Text
  BY <1>1, DbAsOther
<1>3. q = apply_screen(e, ev)
  BY DEF apply_line
<1> HIDE DEF ev, e
<1>4. Alike(r, e)
  <2>1. /\ DOMAIN r = DOMAIN New /\ "lines" \in DOMAIN New
        /\ Relevant \cup {"hooks", "named"} \subseteq DOMAIN New \ {"lines"}
    BY <1>0 DEF PictureShape, New, Relevant
  <2>2. DOMAIN e = DOMAIN New /\ \A a \in DOMAIN New \ {"lines"} : e[a] = r[a]
    BY <2>1 DEF e
  <2> QED
    BY <1>0, <2>1, <2>2, FieldsAside
<1>5. Kept(f, n, m, r, e)
  BY <1>4, AlikeIsKept
<1>6. Core(f, n, m, e) /\ SectionKnown(f, n, e) /\ e.screen_section = r.screen_section
  BY <1>5 DEF Kept, Told, SectionKnown
<1> HIDE DEF q
<1>7. /\ Told(f, n, m, e, q)
      /\ q.screen_section = IF ev.type \in HookKind THEN ev.type
                            ELSE IF ev.type = "Processing" THEN None ELSE e.screen_section
  <2>1. Told(f, n, m, e, apply_screen(e, ev)) /\ Moved(ev, e, apply_screen(e, ev))
    BY <1>2, <1>6, ScreenKeeps
  <2> QED
    BY <1>3, <2>1 DEF Moved
<1>8. Told(f, n, m, r, q)
  BY <1>5, <1>7, ToldAgain DEF Kept
<1>9. Told(f, n + 1, m, r, q)
  BY <1>0, <1>8, Advance DEF Told
<1>10. ev.type \in HookKind \cup {"Processing"} \/ f.screen[n + 1].type \in HookKind \cup {"Processing"}
         => ev = f.screen[n + 1]
  BY <1>2 DEF HookKind
<1>11. SectionKnown(f, n + 1, q)
  <2>1. q.screen_section \in HookKind \cup {None}
    BY <1>6, <1>7 DEF SectionKnown
  <2>2. ASSUME q.screen_section \in HookKind
        PROVE  InSection(f.screen, (n + 1) + 1, q.screen_section)
    <3>1. CASE ev.type \in HookKind
      <4>1. n + 1 \in 1..((n + 1) + 1 - 1) /\ f.screen[n + 1].type = q.screen_section
        BY <1>7, <1>10, <3>1
      <4>2. \A j \in ((n + 1) + 1)..((n + 1) + 1 - 1) : f.screen[j].type \notin HookKind \cup {"Processing"}
        OBVIOUS
      <4> QED
        BY <4>1, <4>2 DEF InSection
    <3>2. CASE ev.type \notin HookKind
      <4>1. ev.type # "Processing" /\ q.screen_section = e.screen_section
        BY <1>7, <2>2, <3>2 DEF HookKind, None
      <4>2. f.screen[n + 1].type \notin HookKind \cup {"Processing"}
        BY <1>10, <3>2, <4>1
      <4>3. InSection(f.screen, n + 1, q.screen_section)
        BY <1>6, <2>2, <4>1 DEF SectionKnown
      <4>4. PICK h \in 1..((n + 1) - 1) :
               /\ f.screen[h].type = q.screen_section
               /\ \A j \in (h + 1)..((n + 1) - 1) : f.screen[j].type \notin HookKind \cup {"Processing"}
        BY <4>3 DEF InSection
      <4>5. h \in 1..((n + 1) + 1 - 1)
        OBVIOUS
      <4>6. \A j \in (h + 1)..((n + 1) + 1 - 1) : f.screen[j].type \notin HookKind \cup {"Processing"}
        <5>1. \A j \in (h + 1)..((n + 1) + 1 - 1) : j = n + 1 \/ j \in (h + 1)..((n + 1) - 1)
          OBVIOUS
        <5> QED
          BY <4>2, <4>4, <5>1
      <4> QED
        BY <4>4, <4>5, <4>6 DEF InSection
    <3> QED
      BY <3>1, <3>2
  <2> QED
    BY <2>1, <2>2 DEF SectionKnown
<1> QED
  BY <1>9, <1>11 DEF q

-----------------------------------------------------------------------------
(* A line of the log.                                                      *)

\* The log told that the run has begun, or how far it is.
LEMMA LogPut ==
  ASSUME NEW f, NEW n, NEW m, NEW r, NEW q, Core(f, n, m, r), DOMAIN q = DOMAIN New,
         \A a \in DOMAIN New \ {"log_seen", "tx_started", "tx_completed"} : q[a] = r[a],
         q.log_seen \in BOOLEAN, q.tx_started \in BOOLEAN,
         r.log_seen => q.log_seen, r.tx_started => q.tx_started,
         q.log_seen => f.log # <<>>, q.tx_started => f.facts.changed
  PROVE  Kept(f, n, m, r, q) /\ q.hooks = r.hooks
<1>1. PictureShape(r)
  BY DEF Core
<1>2. /\ q.phases = r.phases /\ q.dbs = r.dbs /\ q.packages = r.packages /\ q.named = r.named
      /\ q.hooks = r.hooks /\ q.finished = r.finished /\ q.saw_package = r.saw_package
      /\ q.screen_section = r.screen_section
  BY DEF New
<1>3. PictureShape(q)
  BY <1>1, <1>2 DEF PictureShape
<1>4. Ordered(q) /\ Listed(q) /\ HooksFit(f, q) /\ Downloaded(f, n, q) /\ ChecksFit(f, n, q)
  BY <1>2 DEF Core, Ordered, Place, Listed, HooksFit, Downloaded, ChecksFit
<1>5. ToldByLog(f, m, q)
  BY <1>2 DEF Core, ToldByLog
<1>6. Forwards(r, q)
  BY <1>1, <1>2, Shape DEF Forwards, Place
<1> QED
  BY <1>2, <1>3, <1>4, <1>5, <1>6 DEF Kept, Told, Core

\* A hook's file begins none.
LEMMA FilePut ==
  ASSUME NEW hooks, ListShape(hooks), NEW i \in DOMAIN hooks, NEW file
  PROVE  /\ ListShape([hooks EXCEPT ![i].file = file])
         /\ StartedIn([hooks EXCEPT ![i].file = file]) = StartedIn(hooks)
         /\ i \in DOMAIN [hooks EXCEPT ![i].file = file]
<1> DEFINE new == [hooks EXCEPT ![i].file = file]
<1>1. DOMAIN new = DOMAIN hooks
  OBVIOUS
<1>2. DOMAIN hooks[i] = {"desc", "file", "started", "ended", "notes"}
  BY DEF ListShape, HookShape
<1>3. \A j \in DOMAIN hooks : /\ DOMAIN new[j] = DOMAIN hooks[j]
                             /\ new[j].started = hooks[j].started /\ new[j].ended = hooks[j].ended
  BY <1>2
<1>4. Len(hooks) \in Nat /\ DOMAIN hooks = 1..Len(hooks) /\ \A j \in DOMAIN hooks : HookShape(hooks[j])
  BY DEF ListShape
<1> HIDE DEF new
<1>5. Len(new) = Len(hooks)
  BY <1>1, <1>4, LengthOf
<1>6. \A j \in DOMAIN new : HookShape(new[j])
  BY <1>1, <1>3, <1>4 DEF HookShape
<1>7. ListShape(new)
  BY <1>1, <1>4, <1>5, <1>6 DEF ListShape
<1>8. StartedIn(new) = StartedIn(hooks)
  BY <1>1, <1>3 DEF StartedIn
<1> QED
  BY <1>1, <1>7, <1>8 DEF new

\* A hook named by the log.
LEMMA LogHookKeeps ==
  ASSUME NEW r, PictureShape(r), NEW file
  PROVE  Alike(r, log_hook(r, file))
<1> DEFINE kind == IF r.tx_completed THEN "PostHooks" ELSE "PreHooks"
           i == r.named[kind] + 1
           longer == hook_at(r.hooks[kind], i)
           list == [longer EXCEPT ![i].file = file]
           named == [r.named EXCEPT ![kind] = i]
           e == [r EXCEPT !.named[kind] = i, !.hooks[kind] = [hook_at(@, i) EXCEPT ![i].file = file]]
           skip == \/ r.tx_started /\ ~r.tx_completed
                   \/ \E j \in DOMAIN r.hooks[kind] : r.hooks[kind][j].file = file
<1>1. CASE skip
  <2>1. log_hook(r, file) = r
    BY <1>1 DEF log_hook
  <2> QED
    BY <2>1, AlikeItself
<1>2. CASE ~skip
  <2>1. log_hook(r, file) = reclassify(e, kind, i)
    BY <1>2 DEF log_hook
  <2>2. kind \in HookKind
    BY DEF HookKind
  <2> HIDE DEF kind
  <2>3. r.named \in [HookKind -> Nat] /\ i \in Nat /\ i > 0
    BY <2>2 DEF PictureShape
  <2>4. named \in [HookKind -> Nat]
    BY <2>3
  <2>5. ListShape(r.hooks[kind]) /\ DOMAIN r.hooks = HookKind
    BY <2>2, ListsAre
  <2>6. DOMAIN r = DOMAIN New /\ {"hooks", "named"} \subseteq DOMAIN New
        /\ Relevant \subseteq DOMAIN New \ {"hooks", "named"}
    BY DEF PictureShape, New, Relevant
  <2> HIDE DEF i
  <2>7. /\ ListShape(longer) /\ StartedIn(longer) = StartedIn(r.hooks[kind]) /\ i \in DOMAIN longer
    BY <2>3, <2>5, MadeLongEnough
  <2>8. /\ DOMAIN e = DOMAIN New /\ e.named = named /\ e.hooks = [r.hooks EXCEPT ![kind] = list]
        /\ \A a \in DOMAIN New \ {"hooks", "named"} : e[a] = r[a]
    BY <2>6
  <2> HIDE DEF longer, named, e
  <2>9. ListShape(list) /\ StartedIn(list) = StartedIn(longer) /\ i \in DOMAIN list
    BY <2>7, FilePut
  <2> HIDE DEF list
  <2>10. (\A a \in Relevant : e[a] = r[a]) /\ e.named \in [HookKind -> Nat]
    BY <2>4, <2>6, <2>8
  <2>11. Alike(r, e)
    <3>1. StartedIn(list) = StartedIn(r.hooks[kind])
      BY <2>7, <2>9
    <3> QED
      BY <2>2, <2>8, <2>9, <2>10, <3>1, ListPut
  <2>12. PictureShape(e)
    BY <2>11, AlikeShape
  <2>13. i \in DOMAIN e.hooks[kind]
    BY <2>2, <2>5, <2>8, <2>9
  <2>14. Alike(e, reclassify(e, kind, i))
    BY <2>2, <2>12, <2>13, Reclassified
  <2> QED
    BY <2>1, <2>11, <2>14, AlikeAgain
<1> QED
  BY <1>1, <1>2

\* A package the log names is one of the run's.
LEMMA LogPackageKeeps ==
  ASSUME NEW f, NEW n, NEW m, NEW r, Core(f, n, m, r), NEW name
  PROVE  Kept(f, n, m, r, [r EXCEPT !.packages = @ \cup {name}, !.done = @ \cup {name}])
<1> DEFINE all == r.packages \cup {name}
           q == [r EXCEPT !.packages = @ \cup {name}, !.done = @ \cup {name}]
<1>1. PictureShape(r)
  BY DEF Core
<1>2. IsFiniteSet(r.packages)
  BY <1>1 DEF PictureShape
<1>3. IsFiniteSet(all)
  BY <1>2, FS_AddElement
<1>4. /\ Cardinality(r.packages) \in Nat /\ Cardinality(all) \in Nat
      /\ Cardinality(r.packages) <= Cardinality(all)
  BY <1>3, NoSmaller
<1> HIDE DEF all
<1>5. DOMAIN r = DOMAIN New /\ {"packages", "done"} \subseteq DOMAIN New
  BY <1>1 DEF PictureShape, New
<1>6. /\ DOMAIN q = DOMAIN New /\ q.packages = all
      /\ \A a \in DOMAIN New \ {"packages", "done"} : q[a] = r[a]
  BY <1>5 DEF all
<1> HIDE DEF q
<1>7. /\ q.phases = r.phases /\ q.dbs = r.dbs /\ q.named = r.named /\ q.hooks = r.hooks
      /\ q.tx_started = r.tx_started /\ q.log_seen = r.log_seen /\ q.finished = r.finished
      /\ q.saw_package = r.saw_package /\ q.screen_section = r.screen_section
  BY <1>6 DEF New
<1>8. PictureShape(q)
  BY <1>1, <1>3, <1>6, <1>7 DEF PictureShape
<1>9. Ordered(q) /\ HooksFit(f, q) /\ Downloaded(f, n, q) /\ ChecksFit(f, n, q) /\ ToldByLog(f, m, q)
  BY <1>7 DEF Core, Ordered, Place, HooksFit, Downloaded, ChecksFit, ToldByLog
<1>10. Listed(q)
  <2>1. /\ r.phases["Plan"].done \in Nat /\ r.phases["Plan"].done <= Cardinality(r.packages)
        /\ r.phases["Sync"].done <= Cardinality(r.dbs)
    BY <1>1, Shape, Kinds DEF Core, Listed
  <2> QED
    BY <1>4, <1>6, <1>7, <2>1 DEF Listed
<1>11. Forwards(r, q)
  BY <1>1, <1>7, Shape DEF Forwards, Place
<1> QED
  BY <1>7, <1>8, <1>9, <1>10, <1>11 DEF Kept, Told, Core, q

\* What the log says, by its type.
LEMMA LogFields ==
  ASSUME NEW ev \in LogEvent
  PROVE  ev.type \in {"RunStart", "TxStarted", "TxCompleted", "Other", "HookRunning", "Package"}
BY DEF LogEvent

\* A line of the log keeps the picture true.
LEMMA LogKeeps ==
  ASSUME NEW f \in Feeds, FeedsOK, NEW n, NEW m \in Nat, NEW r, Core(f, n, m, r), m + 1 \in DOMAIN f.log
  PROVE  LET q == apply_log(r, f.log[m + 1])
         IN  Kept(f, n, m + 1, r, q)
<1> DEFINE ev == f.log[m + 1]
           opening == ev.type \in {"RunStart", "TxStarted", "TxCompleted"}
           seen == r.log_seen \/ opening
           e == [r EXCEPT !.log_seen = @ \/ opening]
           begun == [e EXCEPT !.tx_started = TRUE]
           over == [e EXCEPT !.tx_completed = TRUE]
           q == apply_log(r, f.log[m + 1])
<1>0. PictureShape(r) /\ f \in Feed /\ r.log_seen \in BOOLEAN /\ r.tx_started \in BOOLEAN
  BY DEF Core, FeedsOK, PictureShape
<1>1. ev \in LogEvent /\ f.log # <<>>
  BY <1>0 DEF Feed
<1>2. ev.type \in {"RunStart", "TxStarted", "TxCompleted", "Other", "HookRunning", "Package"}
  BY <1>1, LogFields
<1>3. q = CASE ev.type = "TxStarted" -> enter(begun, "Packages")
            [] ev.type = "TxCompleted" -> enter(over, "PostHooks")
            [] ev.type = "HookRunning" -> log_hook(e, ev.file)
            [] ev.type = "Package" -> [e EXCEPT !.packages = @ \cup {ev.name}, !.done = @ \cup {ev.name}]
            [] ev.type \in {"RunStart", "Other"} -> e
  BY DEF apply_log
<1>4. DOMAIN r = DOMAIN New /\ {"log_seen", "tx_started", "tx_completed"} \subseteq DOMAIN New
  BY <1>0 DEF PictureShape, New
<1>5. /\ DOMAIN e = DOMAIN New /\ e.log_seen = seen /\ e.tx_started = r.tx_started
      /\ \A a \in DOMAIN New \ {"log_seen", "tx_started", "tx_completed"} : e[a] = r[a]
  BY <1>4
<1>6. /\ seen \in BOOLEAN /\ (r.log_seen => seen) /\ (opening => seen)
  OBVIOUS
<1> HIDE DEF q, e, seen
<1>7. ToldByLog(f, m, r)
  BY DEF Core
<1>8. (r.tx_started => f.facts.changed) /\ (ev.type = "TxStarted" => f.facts.changed)
  <2>1. r.tx_started => f.facts.changed
    BY <1>7 DEF ToldByLog
  <2>2. ev.type = "TxStarted" => Shows(f.log, {"TxStarted"})
    BY DEF Shows
  <2> QED
    BY <2>1, <2>2 DEF FeedsOK, RunOK
<1>9. Kept(f, n, m, r, e) /\ Core(f, n, m, e)
  <2>1. Kept(f, n, m, r, e)
    BY <1>0, <1>1, <1>5, <1>6, <1>8, LogPut
  <2> QED
    BY <2>1 DEF Kept, Told
<1>10. \A x : Kept(f, n, m, e, x) => Kept(f, n, m, r, x)
  BY <1>9, ToldAgain DEF Kept
<1>11. PictureShape(e)
  BY <1>9 DEF Core
<1> DEFINE Good(x) == /\ Kept(f, n, m, r, x) /\ x.log_seen = seen
                      /\ (r.tx_started \/ ev.type = "TxStarted" => x.tx_started)
<1>12. Good(q)
  <2>1. CASE ev.type = "TxStarted"
    <3>1. q = enter(begun, "Packages")
      BY <1>3, <2>1
    <3>2. /\ DOMAIN begun = DOMAIN New /\ begun.log_seen = seen /\ begun.tx_started = TRUE
          /\ \A a \in DOMAIN New \ {"log_seen", "tx_started", "tx_completed"} : begun[a] = e[a]
      BY <1>4, <1>5
    <3> HIDE DEF begun
    <3>3. Kept(f, n, m, e, begun)
      <4>1. /\ begun.log_seen \in BOOLEAN /\ begun.tx_started \in BOOLEAN
            /\ (e.log_seen => begun.log_seen) /\ (e.tx_started => begun.tx_started)
            /\ (begun.log_seen => f.log # <<>>) /\ (begun.tx_started => f.facts.changed)
        BY <1>1, <1>5, <1>6, <1>8, <2>1, <3>2
      <4> QED
        BY <1>9, <3>2, <4>1, LogPut
    <3>4. "Packages" \in PhaseKind /\ Core(f, n, m, begun)
      BY <3>3, Kinds DEF Kept, Told
    <3>5. Kept(f, n, m, begun, q)
      BY <1>0, <3>1, <3>4, EnterIsKept
    <3>6. Beside({"phases", "hooks"}, begun, q)
      BY <1>0, <3>1, <3>4, EnterKeeps
    <3>7. q.log_seen = seen /\ q.tx_started = TRUE
      BY <3>2, <3>6 DEF Beside, New
    <3>8. Kept(f, n, m, e, q)
      BY <1>9, <3>3, <3>5, ToldAgain DEF Kept
    <3> QED
      BY <1>10, <3>7, <3>8
  <2>2. CASE ev.type = "TxCompleted"
    <3>1. q = enter(over, "PostHooks")
      BY <1>3, <2>2
    <3>2. /\ DOMAIN over = DOMAIN New /\ over.log_seen = seen /\ over.tx_started = r.tx_started
          /\ \A a \in DOMAIN New \ {"log_seen", "tx_started", "tx_completed"} : over[a] = e[a]
      BY <1>4, <1>5
    <3> HIDE DEF over
    <3>3. Kept(f, n, m, e, over)
      <4>1. /\ over.log_seen \in BOOLEAN /\ over.tx_started \in BOOLEAN
            /\ (e.log_seen => over.log_seen) /\ (e.tx_started => over.tx_started)
            /\ (over.log_seen => f.log # <<>>) /\ (over.tx_started => f.facts.changed)
        BY <1>0, <1>1, <1>5, <1>6, <1>8, <3>2
      <4> QED
        BY <1>9, <3>2, <4>1, LogPut
    <3>4. "PostHooks" \in PhaseKind /\ Core(f, n, m, over)
      BY <3>3, Kinds DEF Kept, Told
    <3>5. Kept(f, n, m, over, q)
      BY <1>0, <3>1, <3>4, EnterIsKept
    <3>6. Beside({"phases", "hooks"}, over, q)
      BY <1>0, <3>1, <3>4, EnterKeeps
    <3>7. q.log_seen = seen /\ q.tx_started = r.tx_started
      BY <3>2, <3>6 DEF Beside, New
    <3>8. Kept(f, n, m, e, q)
      BY <1>9, <3>3, <3>5, ToldAgain DEF Kept
    <3> QED
      BY <1>10, <2>2, <3>7, <3>8
  <2>3. CASE ev.type = "HookRunning"
    <3>1. q = log_hook(e, ev.file)
      BY <1>3, <2>3
    <3>2. Alike(e, q)
      BY <1>11, <3>1, LogHookKeeps
    <3>3. Kept(f, n, m, e, q)
      BY <1>9, <3>2, AlikeIsKept
    <3>4. q.log_seen = e.log_seen /\ q.tx_started = e.tx_started
      BY <3>2 DEF Alike, Relevant
    <3> QED
      BY <1>5, <1>10, <2>3, <3>3, <3>4
  <2>4. CASE ev.type = "Package"
    <3>1. q = [e EXCEPT !.packages = @ \cup {ev.name}, !.done = @ \cup {ev.name}]
      BY <1>3, <2>4
    <3>2. Kept(f, n, m, e, [e EXCEPT !.packages = @ \cup {ev.name}, !.done = @ \cup {ev.name}])
      BY Zenon, <1>9, LogPackageKeeps
    <3>3. Kept(f, n, m, e, q)
      BY <3>1, <3>2
    <3>4. q.log_seen = e.log_seen /\ q.tx_started = e.tx_started
      <4>1. {"log_seen", "tx_started"} \subseteq DOMAIN New
        BY DEF New
      <4> QED
        BY <1>5, <3>1, <4>1
    <3> QED
      BY <1>5, <1>10, <2>4, <3>3, <3>4
  <2>5. CASE ev.type \in {"RunStart", "Other"}
    <3>1. q = e
      BY <1>3, <2>5
    <3> QED
      BY <1>5, <1>9, <2>5, <3>1
  <2> QED
    BY <1>2, <2>1, <2>2, <2>3, <2>4, <2>5
<1>13. ToldByLog(f, m + 1, q)
  <2>1. ToldByLog(f, m, q)
    BY <1>12 DEF Kept, Told, Core
  <2>2. ASSUME NEW i \in 1..(m + 1)
        PROVE  /\ f.log[i].type = "TxStarted" => q.tx_started
               /\ f.log[i].type \in {"RunStart", "TxStarted", "TxCompleted"} => q.log_seen
    <3>1. i \in 1..m \/ i = m + 1
      OBVIOUS
    <3>2. CASE i \in 1..m
      BY <2>1, <3>2 DEF ToldByLog
    <3>3. CASE i = m + 1
      BY <1>6, <1>12, <3>3
    <3> QED
      BY <3>1, <3>2, <3>3
  <2> QED
    BY <2>1, <2>2 DEF ToldByLog
<1> QED
  BY <1>12, <1>13 DEF Kept, Told, Core, q

-----------------------------------------------------------------------------
(* The end of the run.                                                     *)

\* Every hook begun is counted, and over.
HooksOver(r) ==
  \A k \in HookKind :
      /\ r.phases[k].done >= Started(r.hooks[k])
      /\ \A i \in DOMAIN r.hooks[k] : r.hooks[k][i].started => r.hooks[k][i].ended

\* The end keeps the picture true, and closes every hook.
LEMMA FinishKeeps ==
  ASSUME NEW f \in Feed, NEW n, NEW m, NEW r, Core(f, n, m, r)
  PROVE  LET q == finish(r, f.exit)
         IN  /\ Core(f, n, m, q) /\ Forwards(r, q)
             /\ q.finished = TRUE /\ q.exit = f.exit /\ q.screen_section = r.screen_section
             /\ HooksOver(q)
<1> DEFINE e == end_running(r, Len(PHASES) + 1)
           closed == [k \in HookKind |-> Closed(e.hooks[k])]
           Counted(k) == IF k \in HookKind
                         THEN [e.phases[k] EXCEPT !.done = Larger(@, Started(e.hooks[k]))]
                         ELSE e.phases[k]
           phases == [k \in PhaseKind |-> Counted(k)]
           q == finish(r, f.exit)
<1>1. Len(PHASES) + 1 \in Nat
  BY Kinds
<1>2. /\ Core(f, n, m, e) /\ Forwards(r, e)
      /\ e.screen_section = r.screen_section
  <2>1. /\ Core(f, n, m, e) /\ Forwards(r, e) /\ Beside({"phases", "hooks"}, r, e)
    BY <1>1, EndKeeps
  <2> QED
    BY <2>1 DEF New, Beside
<1>3. PICK notes : q = [e EXCEPT !.finished = TRUE, !.exit = f.exit, !.hooks = closed,
                                 !.phases = phases, !.notes = notes]
  BY Zenon DEF finish
<1> HIDE DEF e, q, closed, phases
<1>4. PictureShape(e) /\ PictureShape(r)
  BY <1>2 DEF Core
<1>5. /\ DOMAIN e = DOMAIN New
      /\ {"finished", "exit", "hooks", "phases", "notes"} \subseteq DOMAIN New
  BY <1>4 DEF PictureShape, New
<1>6. /\ DOMAIN q = DOMAIN New /\ q.finished = TRUE /\ q.exit = f.exit /\ q.hooks = closed
      /\ q.phases = phases
      /\ \A a \in DOMAIN New \ {"finished", "exit", "hooks", "phases", "notes"} : q[a] = e[a]
  BY <1>3, <1>5
<1>7. /\ q.dbs = e.dbs /\ q.packages = e.packages /\ q.named = e.named
      /\ q.tx_started = e.tx_started /\ q.log_seen = e.log_seen
      /\ q.saw_package = e.saw_package /\ q.screen_section = e.screen_section
  BY <1>6 DEF New
<1>8. \A k \in HookKind :
         /\ ListShape(e.hooks[k]) /\ Started(e.hooks[k]) \in Nat
         /\ ListShape(q.hooks[k]) /\ StartedIn(q.hooks[k]) = StartedIn(e.hooks[k])
         /\ Started(q.hooks[k]) = Started(e.hooks[k])
         /\ \A i \in DOMAIN q.hooks[k] : q.hooks[k][i].started => q.hooks[k][i].ended
  <2>1. TAKE k \in HookKind
  <2>2. ListShape(e.hooks[k])
    BY <1>4, ListsAre
  <2>3. q.hooks[k] = Closed(e.hooks[k])
    BY <1>6 DEF closed
  <2>4. /\ ListShape(q.hooks[k]) /\ StartedIn(q.hooks[k]) = StartedIn(e.hooks[k])
        /\ \A i \in DOMAIN q.hooks[k] : q.hooks[k][i].started => q.hooks[k][i].ended
    BY <2>2, <2>3, ClosedHooks
  <2>5. Started(q.hooks[k]) = Started(e.hooks[k])
    BY <2>4 DEF Started, StartedIn
  <2>6. Started(e.hooks[k]) \in Nat
    BY <2>2, StartedIsNat
  <2> QED
    BY <2>2, <2>4, <2>5, <2>6
<1>9. \A k \in PhaseKind :
         /\ q.phases[k] \in PhaseShape
         /\ q.phases[k].state = e.phases[k].state /\ q.phases[k].total = e.phases[k].total
         /\ q.phases[k].detail = e.phases[k].detail
         /\ q.phases[k].done >= e.phases[k].done
         /\ k \notin HookKind => q.phases[k].done = e.phases[k].done
         /\ k \in HookKind => q.phases[k].done = Larger(e.phases[k].done, Started(e.hooks[k]))
  <2>1. TAKE k \in PhaseKind
  <2>2. /\ e.phases[k] \in PhaseShape /\ e.phases[k].done \in Nat
    BY <1>4, Shape
  <2>3. CASE k \notin HookKind
    <3>1. q.phases[k] = e.phases[k]
      BY <1>6, <2>3 DEF phases
    <3> QED
      BY <2>2, <2>3, <3>1
  <2>4. CASE k \in HookKind
    <3> DEFINE d == Larger(e.phases[k].done, Started(e.hooks[k]))
               p == e.phases[k]
    <3>1. d \in Nat /\ d >= p.done
      BY <1>8, <2>2, <2>4 DEF Larger
    <3>2. q.phases[k] = [p EXCEPT !.done = d]
      BY <1>6, <2>4 DEF phases
    <3>3. p = [state |-> p.state, done |-> p.done, total |-> p.total, detail |-> p.detail]
      BY <1>4, PhaseIs
    <3> HIDE DEF d, p
    <3>4. q.phases[k] = [state |-> p.state, done |-> d, total |-> p.total, detail |-> p.detail]
      BY <3>2, <3>3
    <3>5. p \in PhaseShape
      BY <2>2 DEF p
    <3>6. q.phases[k] \in PhaseShape
      BY <3>1, <3>4, <3>5 DEF PhaseShape
    <3>7. /\ q.phases[k].state = p.state /\ q.phases[k].total = p.total
          /\ q.phases[k].detail = p.detail /\ q.phases[k].done = d
      BY <3>4
    <3> QED
      BY <2>4, <3>1, <3>6, <3>7 DEF d, p
  <2> QED
    BY <2>3, <2>4
<1>10. PictureShape(q)
  <2>1. DOMAIN q.hooks = HookKind
    BY <1>6 DEF closed
  <2>2. HooksShape(q.hooks)
    BY <1>8, <2>1 DEF HooksShape, ListShape
  <2>3. q.phases \in [PhaseKind -> PhaseShape]
    BY <1>6, <1>9 DEF phases
  <2> QED
    BY <1>4, <1>6, <1>7, <2>2, <2>3 DEF PictureShape, PhaseShape
<1>11. \A k \in PhaseKind : Place(q, k) = Place(e, k)
  BY <1>9 DEF Place
<1>12. Ordered(q)
  BY <1>2, <1>11, Places, Kinds DEF Core, Ordered
<1>13. {"Sync", "Plan", "Download", "Checks"} \subseteq PhaseKind \ HookKind
  BY Kinds DEF HookKind
<1>14. Listed(q) /\ Downloaded(f, n, q) /\ ChecksFit(f, n, q) /\ ToldByLog(f, m, q)
  BY <1>2, <1>7, <1>9, <1>13 DEF Core, Listed, Downloaded, ChecksFit, ToldByLog
<1>15. HooksFit(f, q)
  <2>1. SUFFICES ASSUME NEW k \in HookKind
        PROVE  \/ /\ q.phases[k].total = NoTotal /\ q.phases[k].done = 0
                  /\ StartedIn(q.hooks[k]) = {}
               \/ /\ q.phases[k].total = Len(f.facts[k]) /\ q.phases[k].done <= q.phases[k].total
                  /\ StartedIn(q.hooks[k]) \subseteq 1..Len(f.facts[k])
    BY DEF HooksFit
  <2>2. k \in PhaseKind
    BY Kinds
  <2>3. e.phases[k].done \in Nat /\ Len(f.facts[k]) \in Nat
    BY <1>4, <2>2, Shape DEF Feed, HookKind
  <2>4. /\ q.phases[k].total = e.phases[k].total
        /\ q.phases[k].done = Larger(e.phases[k].done, Started(e.hooks[k]))
        /\ StartedIn(q.hooks[k]) = StartedIn(e.hooks[k])
    BY <1>8, <1>9, <2>2
  <2>5. CASE /\ e.phases[k].total = NoTotal /\ e.phases[k].done = 0 /\ StartedIn(e.hooks[k]) = {}
    <3>1. Started(e.hooks[k]) \in Nat /\ Started(e.hooks[k]) <= 0
      BY <2>5, StartedCount, 0 \in Nat
    <3> QED
      BY <2>4, <2>5, <3>1 DEF Larger
  <2>6. CASE /\ e.phases[k].total = Len(f.facts[k]) /\ e.phases[k].done <= e.phases[k].total
             /\ StartedIn(e.hooks[k]) \subseteq 1..Len(f.facts[k])
    <3>1. Started(e.hooks[k]) \in Nat /\ Started(e.hooks[k]) <= Len(f.facts[k])
      BY <2>3, <2>6, StartedCount
    <3> QED
      BY <2>3, <2>4, <2>6, <3>1 DEF Larger
  <2> QED
    BY <1>2, <2>5, <2>6 DEF Core, HooksFit
<1>16. Core(f, n, m, q)
  BY <1>10, <1>12, <1>14, <1>15 DEF Core
<1>17. Forwards(e, q)
  <2>1. \A k \in PhaseKind : Place(q, k) = Place(e, k) /\ q.phases[k].done >= e.phases[k].done
    BY <1>9, <1>11
  <2> QED
    BY <2>1 DEF Forwards
<1>18. Forwards(r, q)
  BY <1>2, <1>4, <1>10, <1>17, ForwardsAgain
<1>19. \A k \in HookKind : q.phases[k].done >= Started(q.hooks[k])
  <2>1. TAKE k \in HookKind
  <2>2. k \in PhaseKind
    BY Kinds
  <2>3. e.phases[k].done \in Nat /\ Started(e.hooks[k]) \in Nat
    BY <1>4, <1>8, <2>2, Shape
  <2> QED
    BY <1>8, <1>9, <2>2, <2>3 DEF Larger
<1> QED
  BY <1>2, <1>6, <1>7, <1>8, <1>16, <1>18, <1>19 DEF q, HooksOver

-----------------------------------------------------------------------------
(* The lines of a run: what holds of them.                                 *)

\* The notes of the hooks with a word, those of them that are Plain, the lines
\* listed as unknown, and the lines of the screen that say it.
NotesWith(r, w) == {x \in HookNotes(r) : NoteAt(r, x).text.word = w}
PlainWith(r, w) == {x \in NotesWith(r, w) : NoteAt(r, x).kind = "Plain"}
ListedWith(r, w) == {u \in r.unknown : u.text.word = w}
SaidWith(f, n, w) ==
  {i \in 1..n : f.screen[i].type \in {"Other", "Db"} /\ f.screen[i].text.word = w}

\* What the screen printed after line h, up to line i.
Printed(f, h, i) == {j \in (h + 1)..i : Prints(f.screen[j])}

\* The hooks of section k the log has named.
NamedIn(f, m, k) == {j \in 1..m : NamesHook(f.log, j, k)}

LinesRead(f, n, r) == r.lines = [i \in 1..n |-> f.screen[i]]

\* Where the screen is: the section and the hook that the last lines say.
SectionIs(f, n, r) ==
  /\ r.screen_section \in HookKind \cup {None}
  /\ \A k \in HookKind : InSection(f.screen, n + 1, k) <=> r.screen_section = k
  /\ r.screen_section \in HookKind =>
        \E j \in idx(r.screen_section)..Len(PHASES) : Place(r, PHASES[j]) # "Pending"

\* The screen is in the hook that line h began.
InHook(f, n, h, k) == Begins(f.screen, h, k) /\ \A j \in (h + 1)..n : f.screen[j].type \notin HookKind \cup {"Processing", "Hook"}

HookIs(f, n, r) ==
  /\ r.screen_hook \in Nat
  /\ r.screen_section \in HookKind /\ r.screen_hook # 0 =>
        \E h \in 1..n : InHook(f, n, h, r.screen_section)
  /\ \A k \in HookKind : \A h \in 1..n : InHook(f, n, h, k) =>
        /\ r.screen_section = k /\ r.screen_hook = f.screen[h].index
        /\ r.screen_hook \in DOMAIN r.hooks[k]
        /\ Len(r.hooks[k][r.screen_hook].notes) = Cardinality(Printed(f, h, n))
        /\ r.optdeps_for = None /\ r.in_names = FALSE

LogIs(f, m, r) ==
  /\ r.tx_started = \E j \in 1..m : f.log[j].type = "TxStarted"
  /\ r.tx_completed = \E j \in 1..m : f.log[j].type = "TxCompleted"
  /\ \A k \in HookKind : r.named[k] = Cardinality(NamedIn(f, m, k))

\* A hook is one of pacman's, and its notes are what that one printed first.
HookOwn(f, n, k, i, h) ==
  /\ i \in DOMAIN f.facts[k]
  /\ h.file \in {None, f.facts[k][i].file} /\ h.desc \in {None, f.facts[k][i].desc}
  /\ Len(h.notes) \in Nat /\ Len(h.notes) <= Len(f.facts[k][i].prints)
  /\ h.notes = [j \in 1..Len(h.notes) |->
        [kind |-> hook_note_kind(f.facts[k][i].prints[j], h), text |-> f.facts[k][i].prints[j]]]
  /\ Len(h.notes) > 0 => \E b \in 1..n : Begins(f.screen, b, k) /\ f.screen[b].index = i

HooksOwn(f, n, r) ==
  \A k \in HookKind : \A i \in DOMAIN r.hooks[k] :
      /\ HookOwn(f, n, k, i, r.hooks[k][i])
      /\ r.hooks[k][i].file # None => i <= r.named[k]

UnknownIs(f, n, r) ==
  /\ IsFiniteSet(r.unknown)
  /\ \A u \in r.unknown :
        /\ u.at \in 1..n /\ f.screen[u.at].type \in {"Other", "Db"}
        /\ u = [text |-> f.screen[u.at].text, at |-> u.at]

WordsKept(f, n, r) ==
  \A w \in f.facts.words :
      /\ IsFiniteSet(NotesWith(r, w))
      /\ Cardinality(SaidWith(f, n, w)) = Cardinality(NotesWith(r, w))
      /\ Cardinality(ListedWith(r, w)) = Cardinality(PlainWith(r, w))

Lines(f, n, m, r) ==
  /\ LinesRead(f, n, r) /\ SectionIs(f, n, r) /\ HookIs(f, n, r) /\ LogIs(f, m, r)
  /\ HooksOwn(f, n, r) /\ UnknownIs(f, n, r) /\ WordsKept(f, n, r)

LinesInv == Lines(feed, screen_read, log_read, run)

-----------------------------------------------------------------------------
(* Steps that tell nothing of the lines.                                   *)

\* What the lines of a run read and write; the rest tells of phases and counts.
LineFields ==
  {"lines", "unknown", "named", "screen_section", "screen_hook", "tx_started", "tx_completed"}

\* The hooks have the same files, descriptions and notes.
HooksAlike(a, b) ==
  \A k \in HookKind :
      /\ DOMAIN b[k] = DOMAIN a[k]
      /\ \A i \in DOMAIN a[k] : /\ b[k][i].file = a[k][i].file /\ b[k][i].desc = a[k][i].desc
                                /\ b[k][i].notes = a[k][i].notes

\* A step that tells nothing of the lines.
Silent(r, q) == (\A a \in LineFields : q[a] = r[a]) /\ HooksAlike(r.hooks, q.hooks)

\* A step that leaves these fields alone as well.
Beyond == LineFields \cup {"hooks", "optdeps_for", "in_names"}
Idle(r, q) == \A a \in Beyond : q[a] = r[a]

\* These fields are ones of the picture, and none of those that tell of phases.
LEMMA FieldsThere ==
  /\ Beyond \subseteq DOMAIN New
  /\ Beyond \cap {"phases", "dbs", "packages", "done", "prompt", "notes", "warning_at", "log_seen",
                  "finished", "exit", "saw_package"} = {}
BY DEF Beyond, LineFields, New

\* A step that leaves the lines' fields alone tells nothing of the lines.
LEMMA IdleIsSilent ==
  ASSUME NEW r, NEW q, Idle(r, q)
  PROVE  Silent(r, q) /\ q.optdeps_for = r.optdeps_for /\ q.in_names = r.in_names
BY DEF Idle, Silent, HooksAlike, Beyond

\* Two such steps are one.
LEMMA SilentAgain ==
  ASSUME NEW r, NEW e, NEW q, Silent(r, e), Silent(e, q)
  PROVE  Silent(r, q)
BY DEF Silent, HooksAlike

\* Closing hooks changes none of their texts.
LEMMA ClosedTexts ==
  ASSUME NEW hooks, ListShape(hooks)
  PROVE  /\ DOMAIN Closed(hooks) = DOMAIN hooks
         /\ \A i \in DOMAIN hooks :
               /\ Closed(hooks)[i].file = hooks[i].file /\ Closed(hooks)[i].desc = hooks[i].desc
               /\ Closed(hooks)[i].notes = hooks[i].notes
<1>1. DOMAIN Closed(hooks) = DOMAIN hooks
  BY DEF Closed
<1>2. ASSUME NEW i \in DOMAIN hooks
      PROVE  /\ Closed(hooks)[i].file = hooks[i].file /\ Closed(hooks)[i].desc = hooks[i].desc
             /\ Closed(hooks)[i].notes = hooks[i].notes
  <2>1. Closed(hooks)[i] = [hooks[i] EXCEPT !.ended = hooks[i].ended \/ hooks[i].started]
    BY DEF Closed
  <2>2. DOMAIN hooks[i] = {"desc", "file", "started", "ended", "notes"}
    BY DEF ListShape, HookShape
  <2> QED
    BY <2>1, <2>2
<1> QED
  BY <1>1, <1>2

\* Ending phases tells nothing of the lines.
LEMMA EndIsSilent ==
  ASSUME NEW r, PictureShape(r), NEW upto \in Nat
  PROVE  LET q == end_running(r, upto)
         IN  /\ Silent(r, q) /\ DOMAIN q = DOMAIN New
             /\ \A a \in Beyond \ {"hooks"} : q[a] = r[a]
<1> DEFINE q == end_running(r, upto)
<1>1. /\ DOMAIN q = DOMAIN New
      /\ \A a \in DOMAIN New \ {"phases", "hooks"} : q[a] = r[a]
      /\ \A k \in HookKind : q.hooks[k] \in {r.hooks[k], Closed(r.hooks[k])}
  BY EndFields
<1> HIDE DEF q
<1>2. \A a \in Beyond \ {"hooks"} : q[a] = r[a]
  BY <1>1, FieldsThere
<1>3. LineFields \subseteq Beyond \ {"hooks"}
  BY DEF Beyond, LineFields
<1>4. ASSUME NEW k \in HookKind
      PROVE  /\ DOMAIN q.hooks[k] = DOMAIN r.hooks[k]
             /\ \A i \in DOMAIN r.hooks[k] :
                   /\ q.hooks[k][i].file = r.hooks[k][i].file
                   /\ q.hooks[k][i].desc = r.hooks[k][i].desc
                   /\ q.hooks[k][i].notes = r.hooks[k][i].notes
  <2>1. ListShape(r.hooks[k])
    BY ListsAre
  <2>2. CASE q.hooks[k] = r.hooks[k]
    BY <2>2
  <2>3. CASE q.hooks[k] = Closed(r.hooks[k])
    BY <2>1, <2>3, ClosedTexts
  <2> QED
    BY <1>1, <2>2, <2>3
<1>5. HooksAlike(r.hooks, q.hooks)
  BY <1>4 DEF HooksAlike
<1> QED
  BY <1>1, <1>2, <1>3, <1>5 DEF Silent, q

\* Nor does entering one.
LEMMA EnterIsSilent ==
  ASSUME NEW r, PictureShape(r), NEW kind \in PhaseKind
  PROVE  LET q == enter(r, kind)
         IN  /\ Silent(r, q) /\ DOMAIN q = DOMAIN New
             /\ \A a \in Beyond \ {"hooks"} : q[a] = r[a]
<1> DEFINE q == enter(r, kind) e == end_running(r, idx(kind))
<1>1. DOMAIN r = DOMAIN New
  BY DEF PictureShape
<1>2. CASE q = r
  <2>1. Silent(r, r)
    BY DEF Silent, HooksAlike
  <2> QED
    BY <1>1, <1>2, <2>1
<1>3. CASE q = [e EXCEPT !.phases[kind].state = "Running"]
  <2>1. idx(kind) \in Nat
    BY Places
  <2>2. /\ Silent(r, e) /\ DOMAIN e = DOMAIN New
        /\ \A a \in Beyond \ {"hooks"} : e[a] = r[a]
    BY <2>1, EndIsSilent
  <2> HIDE DEF e, q
  <2>3. DOMAIN q = DOMAIN New /\ Idle(e, q)
    BY <1>3, <2>2, FieldsThere DEF Idle
  <2>4. Silent(e, q)
    BY <2>3, IdleIsSilent
  <2>5. \A a \in Beyond \ {"hooks"} : q[a] = r[a]
    BY <2>2, <2>3 DEF Idle
  <2> QED
    BY <2>2, <2>3, <2>4, <2>5, SilentAgain DEF q
<1> QED
  BY <1>2, <1>3 DEF enter

\* The lines that speak of hooks, or of nothing that is known.
\* A line that speaks of something else leaves the hooks' lines alone.
LEMMA ScreenIsSilent ==
  ASSUME NEW r, PictureShape(r), NEW ev,
         ev.type \in {"SyncStart", "UpgradeStart", "NothingToDo", "RetrieveStart", "Warning",
                      "Error", "Pacnew", "Db", "PlanHeader", "PlanNames", "PlanRow", "PlanTotal", "Prompt",
                      "DownloadTotal", "Check", "Optdepends", "Package"}
  PROVE  LET q == apply_screen(r, ev)
         IN  /\ Silent(r, q)
             /\ ev.type # "Optdepends" => q.optdeps_for = None
             /\ q.in_names = (ev.type = "PlanNames")
<1> DEFINE q == apply_screen(r, ev)
           shut == [r EXCEPT !.optdeps_for = None, !.in_names = ev.type = "PlanNames"]
           e == IF ev.type = "Other" THEN r ELSE shut
           Fits(x) == /\ Silent(r, x) /\ x.in_names = (ev.type = "PlanNames")
                      /\ ev.type # "Optdepends" => x.optdeps_for = None
<1>1. q = CASE ev.type = "SyncStart" -> enter(e, "Sync")
            [] ev.type = "Db" -> [e EXCEPT !.dbs = @ \cup {ev.name},
                                           !.phases["Sync"].done = Cardinality(e.dbs \cup {ev.name})]
            [] ev.type \in {"UpgradeStart", "NothingToDo"} -> enter(e, "Plan")
            [] ev.type = "Warning" -> [note(e, "Warning", ev.text) EXCEPT
                                          !.warning_at = @ \cup {Len(e.lines)}]
            [] ev.type = "Error" -> note(e, "Error", ev.text)
            [] ev.type = "Pacnew" -> note(e, "Pacnew", ev.text)
            [] ev.type = "PlanHeader" -> [enter(e, "Plan") EXCEPT !.phases["Plan"].total = ev.count]
            [] ev.type \in {"PlanNames", "PlanRow"} -> add_names(e, ev.names)
            [] ev.type = "PlanTotal" -> e
            [] ev.type = "Prompt" -> [e EXCEPT !.prompt = ev.text]
            [] ev.type = "RetrieveStart" ->
                  [enter(e, "Download") EXCEPT !.phases["Download"].total =
                      IF e.packages = {} THEN NoTotal ELSE Cardinality(e.packages)]
            [] ev.type = "DownloadTotal" ->
                  [enter(e, "Download") EXCEPT !.phases["Download"].done = ev.done,
                                               !.phases["Download"].total = ev.total]
            [] ev.type = "Check" -> apply_check(e, ev.name)
            [] ev.type \in HookKind -> apply_section(e, ev.type)
            [] ev.type = "Processing" -> apply_section(e, "Packages")
            [] ev.type = "Hook" -> screen_hook_line(e, ev.index, ev.total, ev.desc)
            [] ev.type = "Package" -> apply_package(e, ev)
            [] ev.type = "Optdepends" -> [e EXCEPT !.optdeps_for = ev.name]
            [] ev.type = "Other" -> other(e, ev.text)
  BY DEF apply_screen
<1>2. DOMAIN r = DOMAIN New /\ {"optdeps_for", "in_names"} \subseteq DOMAIN New
  BY DEF PictureShape, New
<1>3. /\ DOMAIN e = DOMAIN New /\ e.optdeps_for = None /\ e.in_names = (ev.type = "PlanNames")
      /\ \A a \in DOMAIN New \ {"optdeps_for", "in_names"} : e[a] = r[a]
  BY <1>2
<1> HIDE DEF e
<1>4. Silent(r, e)
  <2>1. LineFields \cup {"hooks"} \subseteq DOMAIN New \ {"optdeps_for", "in_names"}
    BY DEF LineFields, New
  <2> QED
    BY <1>3, <2>1 DEF Silent, HooksAlike
<1>5. Fits(e)
  BY <1>3, <1>4
<1>6. PictureShape(e)
  <2>1. \A a \in Relevant \cup {"hooks", "named"} : e[a] = r[a]
    BY <1>3 DEF Relevant, New
  <2>2. Alike(r, e)
    BY <1>3, <2>1, FieldsAside
  <2> QED
    BY <2>2, AlikeShape
<1>7. ASSUME NEW x, Fits(x), NEW y, Idle(x, y) PROVE Fits(y)
  BY <1>7, IdleIsSilent, SilentAgain
<1>8. ASSUME NEW kind \in PhaseKind PROVE Fits(enter(e, kind)) /\ DOMAIN enter(e, kind) = DOMAIN New
  <2>1. /\ Silent(e, enter(e, kind)) /\ DOMAIN enter(e, kind) = DOMAIN New
        /\ \A a \in Beyond \ {"hooks"} : enter(e, kind)[a] = e[a]
    BY <1>6, EnterIsSilent
  <2>2. {"optdeps_for", "in_names"} \subseteq Beyond \ {"hooks"}
    BY DEF Beyond, LineFields
  <2> QED
    BY <1>3, <1>4, <2>1, <2>2, SilentAgain
<1>9. {"Sync", "Plan", "Download", "Checks", "Packages"} \subseteq PhaseKind
  BY Kinds
<1> HIDE DEF q, Fits
<1>10. CASE ev.type \in {"SyncStart", "UpgradeStart", "NothingToDo"}
  <2>1. q = enter(e, "Sync") \/ q = enter(e, "Plan")
    BY Zenon, <1>1, <1>10 DEF HookKind
  <2>2. Fits(q)
    BY <1>8, <1>9, <2>1
  <2> QED
    BY <2>2 DEF Fits, q
<1>11. CASE ev.type \in {"Db", "Warning", "Error", "Pacnew", "Prompt", "PlanNames", "PlanRow", "PlanTotal"}
  <2>1. Idle(e, q)
    <3>1. CASE ev.type = "Db"
      BY <1>1, <1>3, <3>1, FieldsThere DEF Idle, HookKind
    <3>2. CASE ev.type \in {"Error", "Pacnew"}
      BY <1>1, <1>3, <3>2, FieldsThere DEF Idle, note, HookKind
    <3>3. CASE ev.type = "Warning"
      <4>1. DOMAIN note(e, "Warning", ev.text) = DOMAIN New /\ Idle(e, note(e, "Warning", ev.text))
        BY <1>3, FieldsThere DEF Idle, note, HookKind
      <4> DEFINE x == note(e, "Warning", ev.text)
      <4>2. q = [x EXCEPT !.warning_at = @ \cup {Len(e.lines)}]
        BY <1>1, <3>3 DEF HookKind
      <4> HIDE DEF x
      <4>3. Idle(x, q)
        BY <4>1, <4>2, FieldsThere DEF Idle, x
      <4> QED
        BY <4>1, <4>3 DEF Idle, x
    <3>4. CASE ev.type = "Prompt"
      BY <1>1, <1>3, <3>4, FieldsThere DEF Idle, HookKind
    <3>5. CASE ev.type \in {"PlanNames", "PlanRow"}
      BY <1>1, <1>3, <3>5, FieldsThere DEF Idle, add_names, HookKind
    <3>6. CASE ev.type = "PlanTotal"
      BY <1>1, <1>3, <3>6, FieldsThere DEF Idle, HookKind
    <3> QED
      BY <1>11, <3>1, <3>2, <3>3, <3>4, <3>5, <3>6
  <2>2. Fits(q)
    BY <1>5, <1>7, <2>1
  <2> QED
    BY <2>2 DEF Fits, q
<1>12. CASE ev.type \in {"PlanHeader", "RetrieveStart", "DownloadTotal", "Check", "Package"}
  <2>1. PICK kind \in PhaseKind : Idle(enter(e, kind), q)
    <3>1. CASE ev.type = "PlanHeader"
      <4> DEFINE x == enter(e, "Plan")
      <4>1. DOMAIN x = DOMAIN New
        BY <1>8, <1>9
      <4>2. q = [x EXCEPT !.phases["Plan"].total = ev.count]
        BY <1>1, <3>1 DEF HookKind
      <4> HIDE DEF x
      <4>3. Idle(x, q)
        BY <4>1, <4>2, FieldsThere DEF Idle, HookKind
      <4> QED
        BY <1>9, <4>3 DEF x
    <3>2. CASE ev.type \in {"RetrieveStart", "DownloadTotal"}
      <4> DEFINE x == enter(e, "Download")
      <4>1. DOMAIN x = DOMAIN New
        BY <1>8, <1>9
      <4>2. \/ q = [x EXCEPT !.phases["Download"].total =
                       IF e.packages = {} THEN NoTotal ELSE Cardinality(e.packages)]
            \/ q = [x EXCEPT !.phases["Download"].done = ev.done,
                             !.phases["Download"].total = ev.total]
        BY Zenon, <1>1, <3>2 DEF HookKind
      <4> HIDE DEF x
      <4>3. Idle(x, q)
        BY <4>1, <4>2, FieldsThere DEF Idle, HookKind
      <4> QED
        BY <1>9, <4>3 DEF x
    <3>3. CASE ev.type = "Check"
      <4> DEFINE x == enter(e, "Checks")
      <4>1. DOMAIN x = DOMAIN New
        BY <1>8, <1>9
      <4>2. q = [x EXCEPT !.phases["Checks"].done = IF x.phases["Checks"].detail = ev.name THEN @ ELSE @ + 1,
                          !.phases["Checks"].detail = ev.name]
        BY <1>1, <3>3 DEF apply_check, HookKind
      <4> HIDE DEF x
      <4>3. Idle(x, q)
        BY <4>1, <4>2, FieldsThere DEF Idle, HookKind
      <4> QED
        BY <1>9, <4>3 DEF x
    <3>4. CASE ev.type = "Package"
      <4> DEFINE x == enter(e, "Packages")
      <4>1. DOMAIN x = DOMAIN New
        BY <1>8, <1>9
      <4>2. q = [x EXCEPT !.saw_package = TRUE, !.packages = @ \cup {ev.name},
                          !.done = IF ev.full THEN @ \cup {ev.name} ELSE @,
                          !.phases["Packages"].done = Larger(@, ev.index),
                          !.phases["Packages"].total = ev.total]
        BY <1>1, <3>4 DEF apply_package, HookKind
      <4> HIDE DEF x
      <4>3. Idle(x, q)
        BY <4>1, <4>2, FieldsThere DEF Idle, HookKind
      <4> QED
        BY <1>9, <4>3 DEF x
    <3> QED
      BY <1>12, <3>1, <3>2, <3>3, <3>4
  <2>2. Fits(q)
    BY <1>7, <1>8, <2>1
  <2> QED
    BY <2>2 DEF Fits, q
<1>13. CASE ev.type = "Optdepends"
  <2>1. q = [e EXCEPT !.optdeps_for = ev.name]
    BY <1>1, <1>13 DEF HookKind
  <2>2. q.in_names = e.in_names /\ \A a \in LineFields \cup {"hooks"} : q[a] = e[a]
    BY <1>3, <2>1 DEF LineFields, New
  <2>3. Silent(e, q)
    BY <2>2 DEF Silent, HooksAlike
  <2> QED
    BY <1>3, <1>4, <1>13, <2>2, <2>3, SilentAgain DEF q
<1> QED
  BY <1>10, <1>11, <1>12, <1>13

\* The section a line opens has been reached.
LEMMA SectionReached ==
  ASSUME NEW r, PictureShape(r), NEW kind \in PhaseKind
  PROVE  LET q == apply_section(r, kind)
         IN  \E j \in idx(kind)..Len(PHASES) : Place(q, PHASES[j]) # "Pending"
<1> DEFINE x == enter(r, kind) e == end_running(r, idx(kind))
           q == apply_section(r, kind)
<1>1. idx(kind) \in 1..7 /\ PHASES[idx(kind)] = kind /\ Len(PHASES) = 7
  BY Places, Kinds
<1>2. DOMAIN x = DOMAIN New
  BY EnterIsSilent
<1>3. \E j \in idx(kind)..Len(PHASES) : Place(x, PHASES[j]) # "Pending"
  <2>1. CASE \E i \in idx(kind)..Len(PHASES) : r.phases[PHASES[i]].state # "Pending"
    <3>1. x = r
      BY <2>1 DEF enter
    <3> QED
      BY <2>1, <3>1 DEF Place
  <2>2. CASE ~\E i \in idx(kind)..Len(PHASES) : r.phases[PHASES[i]].state # "Pending"
    <3>1. x = [e EXCEPT !.phases[kind].state = "Running"]
      BY <2>2 DEF enter
    <3>2. idx(kind) \in Nat
      BY <1>1
    <3>3. DOMAIN e = DOMAIN New /\ e.phases = [k \in PhaseKind |-> Ended(r, idx(kind), k)]
      BY <3>2, EndFields
    <3>6. Ended(r, idx(kind), kind) \in PhaseShape
      BY <3>2, EndedPhase
    <3> HIDE DEF e, x
    <3>4. x.phases[kind].state = "Running"
      BY <3>1, <3>3, <3>6 DEF New, PhaseShape
    <3>5. idx(kind) \in idx(kind)..Len(PHASES)
      BY <1>1
    <3> QED
      BY <1>1, <3>4, <3>5 DEF Place
  <2> QED
    BY <2>1, <2>2
<1>4. q = [x EXCEPT !.screen_section = IF kind \in HookKind THEN kind ELSE None, !.screen_hook = 0]
  BY DEF apply_section
<1> HIDE DEF x, q
<1>5. q.phases = x.phases
  BY <1>2, <1>4 DEF New
<1> QED
  BY <1>3, <1>5 DEF Place, q
\* The section a line opens, and nothing else of the lines.
LEMMA SectionSays ==
  ASSUME NEW r, PictureShape(r), NEW ev, ev.type \in HookKind \cup {"Processing"}
  PROVE  LET q == apply_screen(r, ev)
         IN  /\ \A a \in LineFields \ {"screen_section", "screen_hook"} : q[a] = r[a]
             /\ HooksAlike(r.hooks, q.hooks) /\ q.screen_hook = 0
             /\ q.screen_section = IF ev.type \in HookKind THEN ev.type ELSE None
             /\ ev.type \in HookKind =>
                  \E j \in idx(ev.type)..Len(PHASES) : Place(q, PHASES[j]) # "Pending"
<1> DEFINE kind == IF ev.type = "Processing" THEN "Packages" ELSE ev.type
           e == [r EXCEPT !.optdeps_for = None, !.in_names = ev.type = "PlanNames"]
           x == enter(e, kind)
           q == apply_screen(r, ev)
<1>1. q = apply_section(e, kind)
      /\ kind \in PhaseKind /\ (kind \in HookKind <=> ev.type \in HookKind)
      /\ (ev.type \in HookKind => kind = ev.type)
  BY Kinds DEF apply_screen, HookKind
<1> HIDE DEF kind
<1>2. DOMAIN r = DOMAIN New /\ {"optdeps_for", "in_names"} \subseteq DOMAIN New
  BY DEF PictureShape, New
<1>3. DOMAIN e = DOMAIN New /\ \A a \in DOMAIN New \ {"optdeps_for", "in_names"} : e[a] = r[a]
  BY <1>2
<1> HIDE DEF e, q
<1>4. Silent(r, e)
  <2>1. LineFields \cup {"hooks"} \subseteq DOMAIN New \ {"optdeps_for", "in_names"}
    BY DEF LineFields, New
  <2> QED
    BY <1>3, <2>1 DEF Silent, HooksAlike
<1>5. PictureShape(e)
  <2>1. \A a \in Relevant \cup {"hooks", "named"} : e[a] = r[a]
    BY <1>3 DEF Relevant, New
  <2>2. Alike(r, e)
    BY <1>3, <2>1, FieldsAside
  <2> QED
    BY <2>2, AlikeShape
<1>6. Silent(e, x) /\ DOMAIN x = DOMAIN New
  BY <1>1, <1>5, EnterIsSilent
<1>7. Silent(r, x)
  BY <1>4, <1>6, SilentAgain
<1>8. q = [x EXCEPT !.screen_section = IF kind \in HookKind THEN kind ELSE None, !.screen_hook = 0]
  BY <1>1 DEF apply_section
<1> HIDE DEF x
<1>9. /\ q.screen_section = IF kind \in HookKind THEN kind ELSE None
      /\ q.screen_hook = 0
      /\ \A a \in DOMAIN New \ {"screen_section", "screen_hook"} : q[a] = x[a]
  BY <1>6, <1>8 DEF New
<1>10. (LineFields \cup {"hooks"}) \ {"screen_section", "screen_hook"}
         \subseteq DOMAIN New \ {"screen_section", "screen_hook"}
  BY DEF LineFields, New
<1>11. /\ \A a \in LineFields \ {"screen_section", "screen_hook"} : q[a] = r[a]
       /\ q.hooks = x.hooks
  BY <1>7, <1>9, <1>10 DEF Silent
<1>12. \E j \in idx(kind)..Len(PHASES) : Place(q, PHASES[j]) # "Pending"
  BY <1>1, <1>5, SectionReached
<1> QED
  BY <1>1, <1>7, <1>9, <1>11, <1>12 DEF Silent, HooksAlike, q

-----------------------------------------------------------------------------
(* Counting.                                                               *)

\* One element more.
LEMMA OneMore ==
  ASSUME NEW S, IsFiniteSet(S), NEW x, x \notin S
  PROVE  /\ IsFiniteSet(S \cup {x}) /\ Cardinality(S) \in Nat
         /\ Cardinality(S \cup {x}) = Cardinality(S) + 1
BY FS_AddElement, FS_CardinalityType

\* As many are left as there are beyond those taken.
LEMMA Without ==
  ASSUME NEW S, IsFiniteSet(S), NEW T \in SUBSET S
  PROVE  /\ IsFiniteSet(T) /\ IsFiniteSet(S \ T)
         /\ Cardinality(S) \in Nat /\ Cardinality(T) \in Nat /\ Cardinality(T) <= Cardinality(S)
         /\ Cardinality(S \ T) = Cardinality(S) - Cardinality(T)
<1>1. IsFiniteSet(T) /\ IsFiniteSet(S \ T) /\ Cardinality(T) <= Cardinality(S)
  BY FS_Subset
<1>2. /\ (S \ T) \cup T = S /\ (S \ T) \cap T = {}
  OBVIOUS
<1>3. Cardinality((S \ T) \cup T) = Cardinality(S \ T) + Cardinality(T) - Cardinality((S \ T) \cap T)
  BY <1>1, FS_Union
<1>4. Cardinality(S) = Cardinality(S \ T) + Cardinality(T) - 0
  BY <1>2, <1>3, FS_EmptySet
<1>5. Cardinality(S) \in Nat /\ Cardinality(T) \in Nat /\ Cardinality(S \ T) \in Nat
  BY <1>1, FS_CardinalityType
<1> QED
  BY <1>1, <1>4, <1>5

\* Two sets that pair off are of one size.
LEMMA SameSize ==
  ASSUME NEW S, NEW T, IsFiniteSet(S), NEW g \in [S -> T],
         \A x, y \in S : g[x] = g[y] => x = y,
         \A z \in T : \E x \in S : g[x] = z
  PROVE  IsFiniteSet(T) /\ Cardinality(T) = Cardinality(S)
<1>1. g \in Bijection(S, T)
  BY DEF Bijection, Injection, Surjection, IsInjective
<1>2. ExistsBijection(S, T)
  BY <1>1 DEF ExistsBijection
<1> QED
  BY <1>2, FS_Bijection

\* The elements of U at or after u.
From(U, u) == {v \in U : v.at >= u.at}

\* Each with as many at or after it as its place from the end.
LEMMA PlacesFromTheEnd ==
  ASSUME NEW U, IsFiniteSet(U), \A u \in U : u.at \in Nat, \A u, v \in U : u.at = v.at => u = v
  PROVE  LET n == Cardinality(U)
             rank == [u \in U |-> Cardinality(From(U, u))]
         IN  /\ n \in Nat /\ rank \in [U -> 1..n]
             /\ \A u, v \in U : rank[u] = rank[v] => u = v
             /\ \A p \in 1..n : \E u \in U : rank[u] = p
<1> DEFINE n == Cardinality(U) rank == [u \in U |-> Cardinality(From(U, u))]
<1>1. n \in Nat
  BY FS_CardinalityType
<1>2. ASSUME NEW u \in U
      PROVE  /\ IsFiniteSet(From(U, u)) /\ Cardinality(From(U, u)) \in Nat
             /\ 1 <= Cardinality(From(U, u)) /\ Cardinality(From(U, u)) <= n
  <2>1. From(U, u) \in SUBSET U /\ u \in From(U, u)
    BY DEF From
  <2>2. /\ IsFiniteSet(From(U, u)) /\ Cardinality(From(U, u)) <= n
        /\ Cardinality(From(U, u)) \in Nat
    BY <2>1, FS_Subset, FS_CardinalityType
  <2>3. Cardinality(From(U, u)) # 0
    BY <2>1, <2>2, FS_EmptySet
  <2> HIDE DEF n
  <2> QED
    BY <2>2, <2>3
<1>3. ASSUME NEW u \in U, NEW v \in U, u.at < v.at
      PROVE  Cardinality(From(U, v)) < Cardinality(From(U, u))
  <2>1. u.at \in Nat /\ v.at \in Nat /\ \A x \in U : x.at \in Nat
    OBVIOUS
  <2>2. From(U, v) \in SUBSET From(U, u)
    BY <1>3, <2>1 DEF From
  <2>3. u \in From(U, u) /\ u \notin From(U, v)
    BY <1>3, <2>1 DEF From
  <2>4. /\ Cardinality(From(U, v)) <= Cardinality(From(U, u))
        /\ Cardinality(From(U, u)) = Cardinality(From(U, v)) => From(U, u) = From(U, v)
    BY <1>2, <2>2, FS_Subset
  <2>5. Cardinality(From(U, v)) \in Nat /\ Cardinality(From(U, u)) \in Nat
    BY <1>2
  <2> QED
    BY <2>3, <2>4, <2>5
<1>4. \A u \in U : rank[u] = Cardinality(From(U, u))
  OBVIOUS
<1>5. rank \in [U -> 1..n]
  <2>1. \A u \in U : Cardinality(From(U, u)) \in 1..n
    <3> HIDE DEF n
    <3> QED
      BY <1>1, <1>2
  <2> QED
    BY <2>1
<1>6. \A u, v \in U : rank[u] = rank[v] => u = v
  <2> SUFFICES ASSUME NEW u \in U, NEW v \in U, rank[u] = rank[v], u # v PROVE FALSE
    OBVIOUS
  <2>1. u.at \in Nat /\ v.at \in Nat /\ u.at # v.at
    OBVIOUS
  <2>2. u.at < v.at \/ v.at < u.at
    BY <2>1
  <2>3. Cardinality(From(U, u)) # Cardinality(From(U, v))
    <3>1. Cardinality(From(U, u)) \in Nat /\ Cardinality(From(U, v)) \in Nat
      BY <1>2
    <3> QED
      BY <1>3, <2>2, <3>1
  <2> QED
    BY <1>4, <2>3
<1>7. rank \in Injection(U, 1..n)
  <2> HIDE DEF rank, n
  <2> QED
    BY <1>5, <1>6 DEF Injection, IsInjective
<1>8. IsFiniteSet(1..n) /\ Cardinality(1..n) = n
  BY <1>1, FS_Interval
<1>9. rank \in Surjection(U, 1..n)
  BY <1>7, <1>8, FS_Injection
<1>10. \A p \in 1..n : \E u \in U : rank[u] = p
  <2> HIDE DEF rank, n
  <2> QED
    BY <1>9 DEF Surjection
<1> QED
  BY <1>1, <1>5, <1>6, <1>10

\* Taking the last c of a set leaves all the others.
LEMMA LastTaken ==
  ASSUME NEW U, IsFiniteSet(U), NEW c \in Nat, c <= Cardinality(U),
         \A u \in U : u.at \in Nat, \A u, v \in U : u.at = v.at => u = v
  PROVE  Cardinality({u \in U : Cardinality(From(U, u)) > c}) = Cardinality(U) - c
<1> DEFINE n == Cardinality(U)
           rank == [u \in U |-> Cardinality(From(U, u))]
           left == {u \in U : Cardinality(From(U, u)) > c}
           place == [u \in left |-> rank[u]]
<1>1. /\ n \in Nat /\ rank \in [U -> 1..n]
      /\ \A u, v \in U : rank[u] = rank[v] => u = v
      /\ \A p \in 1..n : \E u \in U : rank[u] = p
  BY PlacesFromTheEnd
<1>2. \A u \in U : Cardinality(From(U, u)) = rank[u]
  OBVIOUS
<1>3. left = {u \in U : rank[u] > c}
  BY <1>2
<1>4. c <= n
  OBVIOUS
<1> HIDE DEF rank, n, left
<1>5. left \in SUBSET U /\ IsFiniteSet(left)
  BY <1>3, FS_Subset
<1>6. \A u \in left : rank[u] \in (c + 1)..n
  BY <1>1, <1>3
<1>7. place \in [left -> (c + 1)..n]
  BY <1>6
<1>8. \A u, v \in left : place[u] = place[v] => u = v
  BY <1>1, <1>5
<1>9. \A p \in (c + 1)..n : \E u \in left : place[u] = p
  <2>1. TAKE p \in (c + 1)..n
  <2>2. p \in 1..n /\ p > c
    BY <1>1
  <2>3. PICK u \in U : rank[u] = p
    BY <1>1, <2>2
  <2>4. u \in left
    BY <1>3, <2>2, <2>3
  <2> QED
    BY <2>3, <2>4
<1> HIDE DEF place
<1>10. Cardinality((c + 1)..n) = Cardinality(left)
  BY <1>5, <1>7, <1>8, <1>9, SameSize
<1>11. Cardinality((c + 1)..n) = n - c
  <2>1. c + 1 \in Int /\ n \in Int
    BY <1>1
  <2>2. Cardinality((c + 1)..n) = IF c + 1 > n THEN 0 ELSE n - (c + 1) + 1
    BY <2>1, FS_Interval
  <2> QED
    BY <1>1, <1>4, <2>2
<1> QED
  BY <1>10, <1>11 DEF n, left

-----------------------------------------------------------------------------
(* The notes of the hooks.                                                 *)

NotesOf(r, k, i) == r.hooks[k][i].notes

\* Note n of hook i of section k has the word w; it is Plain.
Says(r, w, k, i, n) ==
  i \in DOMAIN r.hooks[k] /\ n \in DOMAIN NotesOf(r, k, i) /\ NotesOf(r, k, i)[n].text.word = w
SaysPlain(r, w, k, i, n) == Says(r, w, k, i, n) /\ NotesOf(r, k, i)[n].kind = "Plain"

\* Where the notes with a word are.
LEMMA NoteIn ==
  ASSUME NEW r, NEW w, NEW k \in HookKind, NEW i, NEW n
  PROVE  /\ <<k, i, n>> \in NotesWith(r, w) <=> Says(r, w, k, i, n)
         /\ <<k, i, n>> \in PlainWith(r, w) <=> SaysPlain(r, w, k, i, n)
<1> DEFINE x == <<k, i, n>>
<1>1. NoteAt(r, x) = NotesOf(r, k, i)[n]
  BY DEF NoteAt, NotesOf
<1>2. x \in HookNotes(r) <=> i \in DOMAIN r.hooks[k] /\ n \in DOMAIN NotesOf(r, k, i)
  BY DEF HookNotes, NotesOf
<1> HIDE DEF x
<1>3. x \in NotesWith(r, w) <=> x \in HookNotes(r) /\ NoteAt(r, x).text.word = w
  BY DEF NotesWith
<1>4. x \in PlainWith(r, w) <=> x \in NotesWith(r, w) /\ NoteAt(r, x).kind = "Plain"
  BY DEF PlainWith
<1> QED
  BY <1>1, <1>2, <1>3, <1>4 DEF x, Says, SaysPlain

\* A note is at one place of one hook.
LEMMA NoteOf ==
  ASSUME NEW r, NEW w, NEW x \in NotesWith(r, w)
  PROVE  \E k \in HookKind : \E i, n : x = <<k, i, n>>
<1>1. x \in HookNotes(r)
  BY DEF NotesWith
<1> QED
  BY <1>1 DEF HookNotes

\* The Plain notes are among the notes.
LEMMA PlainIsNote ==
  ASSUME NEW r, NEW w
  PROVE  PlainWith(r, w) \in SUBSET NotesWith(r, w)
BY DEF PlainWith

\* The hooks q has more than r have printed nothing, and the others the same.
SameNotes(r, q) ==
  \A k \in HookKind :
      /\ DOMAIN r.hooks[k] \subseteq DOMAIN q.hooks[k]
      /\ \A i \in DOMAIN r.hooks[k] : NotesOf(q, k, i) = NotesOf(r, k, i)
      /\ \A i \in DOMAIN q.hooks[k] \ DOMAIN r.hooks[k] : NotesOf(q, k, i) = <<>>

\* Notes left alone are the same notes.
LEMMA NotesStay ==
  ASSUME NEW r, NEW q, SameNotes(r, q), NEW w
  PROVE  NotesWith(q, w) = NotesWith(r, w) /\ PlainWith(q, w) = PlainWith(r, w)
<1>1. ASSUME NEW k \in HookKind, NEW i, NEW n
      PROVE  /\ <<k, i, n>> \in NotesWith(q, w) <=> <<k, i, n>> \in NotesWith(r, w)
             /\ <<k, i, n>> \in PlainWith(q, w) <=> <<k, i, n>> \in PlainWith(r, w)
  <2>1. \/ i \in DOMAIN r.hooks[k] /\ i \in DOMAIN q.hooks[k] /\ NotesOf(q, k, i) = NotesOf(r, k, i)
        \/ i \notin DOMAIN r.hooks[k] /\ i \in DOMAIN q.hooks[k] /\ NotesOf(q, k, i) = <<>>
        \/ i \notin DOMAIN r.hooks[k] /\ i \notin DOMAIN q.hooks[k]
    BY DEF SameNotes
  <2>2. n \notin DOMAIN <<>>
    OBVIOUS
  <2>3. /\ Says(q, w, k, i, n) <=> Says(r, w, k, i, n)
        /\ SaysPlain(q, w, k, i, n) <=> SaysPlain(r, w, k, i, n)
    BY <2>1, <2>2 DEF Says, SaysPlain
  <2> QED
    BY <2>3, NoteIn
<1>2. NotesWith(q, w) = NotesWith(r, w)
  BY <1>1, NoteOf
<1>3. PlainWith(q, w) = PlainWith(r, w)
  <2>1. PlainWith(q, w) \subseteq NotesWith(q, w) /\ PlainWith(r, w) \subseteq NotesWith(r, w)
    BY PlainIsNote
  <2> QED
    BY <1>1, <2>1, NoteOf
<1> QED
  BY <1>2, <1>3

\* Hooks with the same texts have the same notes.
LEMMA AlikeNotes ==
  ASSUME NEW r, NEW q, HooksAlike(r.hooks, q.hooks)
  PROVE  SameNotes(r, q)
BY DEF HooksAlike, SameNotes, NotesOf

\* The other hooks and their notes.
OtherNotes(r, q, kind, i) ==
  \A k \in HookKind :
      /\ DOMAIN q.hooks[k] = DOMAIN r.hooks[k]
      /\ \A j \in DOMAIN r.hooks[k] : k # kind \/ j # i => NotesOf(q, k, j) = NotesOf(r, k, j)

\* One note more.
MoreNotes(r, q, kind, i, l) ==
  /\ i \in DOMAIN r.hooks[kind] /\ l \in Nat /\ OtherNotes(r, q, kind, i)
  /\ DOMAIN NotesOf(r, kind, i) = 1..l /\ DOMAIN NotesOf(q, kind, i) = 1..(l + 1)
  /\ \A n \in 1..l : NotesOf(q, kind, i)[n] = NotesOf(r, kind, i)[n]

\* A note more is one note more with its word, and with no other.
LEMMA NoteAdded ==
  ASSUME NEW r, NEW q, NEW kind \in HookKind, NEW i, NEW l, MoreNotes(r, q, kind, i, l), NEW w
  PROVE  LET at == <<kind, i, l + 1>> x == NotesOf(q, kind, i)[l + 1]
         IN  /\ at \notin NotesWith(r, w)
             /\ NotesWith(q, w) = IF x.text.word = w THEN NotesWith(r, w) \cup {at} ELSE NotesWith(r, w)
             /\ PlainWith(q, w) = IF x.text.word = w /\ x.kind = "Plain"
                                  THEN PlainWith(r, w) \cup {at} ELSE PlainWith(r, w)
<1> DEFINE at == <<kind, i, l + 1>> x == NotesOf(q, kind, i)[l + 1]
<1>0. /\ i \in DOMAIN r.hooks[kind] /\ l \in Nat /\ OtherNotes(r, q, kind, i)
      /\ DOMAIN NotesOf(r, kind, i) = 1..l /\ DOMAIN NotesOf(q, kind, i) = 1..(l + 1)
      /\ \A n \in 1..l : NotesOf(q, kind, i)[n] = NotesOf(r, kind, i)[n]
  BY DEF MoreNotes
<1>1. l + 1 \notin 1..l /\ l + 1 \in 1..(l + 1) /\ \A n : n \in 1..(l + 1) <=> n \in 1..l \/ n = l + 1
  BY <1>0
<1>2. DOMAIN q.hooks[kind] = DOMAIN r.hooks[kind]
  BY <1>0 DEF OtherNotes
<1>3. at \notin NotesWith(r, w) /\ at \notin PlainWith(r, w)
  <2>1. ~Says(r, w, kind, i, l + 1)
    BY <1>0, <1>1 DEF Says
  <2> QED
    BY <2>1, NoteIn DEF SaysPlain
<1>4. /\ at \in NotesWith(q, w) <=> x.text.word = w
      /\ at \in PlainWith(q, w) <=> x.text.word = w /\ x.kind = "Plain"
  <2>1. /\ Says(q, w, kind, i, l + 1) <=> x.text.word = w
        /\ SaysPlain(q, w, kind, i, l + 1) <=> x.text.word = w /\ x.kind = "Plain"
    BY <1>0, <1>1, <1>2 DEF Says, SaysPlain
  <2> QED
    BY <2>1, NoteIn
<1>5. ASSUME NEW k \in HookKind, NEW j, NEW n, <<k, j, n>> # at
      PROVE  /\ <<k, j, n>> \in NotesWith(q, w) <=> <<k, j, n>> \in NotesWith(r, w)
             /\ <<k, j, n>> \in PlainWith(q, w) <=> <<k, j, n>> \in PlainWith(r, w)
  <2>1. CASE k = kind /\ j = i
    <3>1. n # l + 1
      BY <1>5, <2>1
    <3>2. n \in DOMAIN NotesOf(q, k, j) <=> n \in DOMAIN NotesOf(r, k, j)
      BY <1>0, <1>1, <2>1, <3>1
    <3>3. n \in DOMAIN NotesOf(r, k, j) => NotesOf(q, k, j)[n] = NotesOf(r, k, j)[n]
      BY <1>0, <2>1
    <3>4. /\ Says(q, w, k, j, n) <=> Says(r, w, k, j, n)
          /\ SaysPlain(q, w, k, j, n) <=> SaysPlain(r, w, k, j, n)
      BY <1>0, <1>2, <2>1, <3>2, <3>3 DEF Says, SaysPlain
    <3> QED
      BY <3>4, NoteIn
  <2>2. CASE k # kind \/ j # i
    <3>1. /\ j \in DOMAIN q.hooks[k] <=> j \in DOMAIN r.hooks[k]
          /\ j \in DOMAIN r.hooks[k] => NotesOf(q, k, j) = NotesOf(r, k, j)
      BY <1>0, <2>2 DEF OtherNotes
    <3>2. /\ Says(q, w, k, j, n) <=> Says(r, w, k, j, n)
          /\ SaysPlain(q, w, k, j, n) <=> SaysPlain(r, w, k, j, n)
      BY <3>1 DEF Says, SaysPlain
    <3> QED
      BY <3>2, NoteIn
  <2> QED
    BY <2>1, <2>2
<1> HIDE DEF at, x
<1>6. PlainWith(q, w) \subseteq NotesWith(q, w) /\ PlainWith(r, w) \subseteq NotesWith(r, w)
  BY PlainIsNote
<1>7. ASSUME NEW y, y # at
      PROVE  /\ y \in NotesWith(q, w) <=> y \in NotesWith(r, w)
             /\ y \in PlainWith(q, w) <=> y \in PlainWith(r, w)
  <2>1. CASE y \in NotesWith(q, w) \cup NotesWith(r, w)
    <3>1. PICK k, j, n : k \in HookKind /\ y = <<k, j, n>>
      BY <2>1, NoteOf
    <3> QED
      BY <1>5, <1>7, <3>1
  <2>2. CASE y \notin NotesWith(q, w) \cup NotesWith(r, w)
    BY <1>6, <2>2
  <2> QED
    BY <2>1, <2>2
<1>8. NotesWith(q, w) = IF x.text.word = w THEN NotesWith(r, w) \cup {at} ELSE NotesWith(r, w)
  <2>1. CASE x.text.word = w
    <3>1. NotesWith(q, w) = NotesWith(r, w) \cup {at}
      BY <1>4, <1>7, <2>1
    <3> QED
      BY <2>1, <3>1
  <2>2. CASE x.text.word # w
    <3>0. at \notin NotesWith(q, w) /\ at \notin NotesWith(r, w)
      BY <1>3, <1>4, <2>2
    <3>1. ASSUME NEW y PROVE y \in NotesWith(q, w) <=> y \in NotesWith(r, w)
      <4>1. CASE y = at
        BY <3>0, <4>1
      <4>2. CASE y # at
        BY <1>7, <4>2
      <4> QED
        BY <4>1, <4>2
    <3>2. NotesWith(q, w) = NotesWith(r, w)
      BY <3>1
    <3> QED
      BY <2>2, <3>2
  <2> QED
    BY <2>1, <2>2
<1>9. PlainWith(q, w) = IF x.text.word = w /\ x.kind = "Plain"
                        THEN PlainWith(r, w) \cup {at} ELSE PlainWith(r, w)
  <2>1. CASE x.text.word = w /\ x.kind = "Plain"
    <3>1. PlainWith(q, w) = PlainWith(r, w) \cup {at}
      BY <1>4, <1>7, <2>1
    <3> QED
      BY <2>1, <3>1
  <2>2. CASE ~(x.text.word = w /\ x.kind = "Plain")
    <3>0. at \notin PlainWith(q, w) /\ at \notin PlainWith(r, w)
      BY <1>3, <1>4, <2>2
    <3>1. ASSUME NEW y PROVE y \in PlainWith(q, w) <=> y \in PlainWith(r, w)
      <4>1. CASE y = at
        BY <3>0, <4>1
      <4>2. CASE y # at
        BY <1>7, <4>2
      <4> QED
        BY <4>1, <4>2
    <3>2. PlainWith(q, w) = PlainWith(r, w)
      BY <3>1
    <3> QED
      BY <2>2, <3>2
  <2> QED
    BY <2>1, <2>2
<1> QED
  BY <1>3, <1>8, <1>9 DEF at, x

\* The notes that are no longer Plain.
Reread(r, q, kind, i, w) ==
  {n \in DOMAIN NotesOf(r, kind, i) :
      /\ NotesOf(r, kind, i)[n].text.word = w
      /\ NotesOf(r, kind, i)[n].kind = "Plain" /\ NotesOf(q, kind, i)[n].kind # "Plain"}

\* One hook's notes read again.
LEMMA NotesReread ==
  ASSUME NEW r, NEW q, NEW kind \in HookKind, NEW i \in DOMAIN r.hooks[kind],
         DOMAIN NotesOf(q, kind, i) = DOMAIN NotesOf(r, kind, i),
         \A n \in DOMAIN NotesOf(r, kind, i) :
            /\ NotesOf(q, kind, i)[n].text = NotesOf(r, kind, i)[n].text
            /\ NotesOf(q, kind, i)[n].kind = "Plain" => NotesOf(r, kind, i)[n].kind = "Plain",
         OtherNotes(r, q, kind, i), NEW w, IsFiniteSet(NotesWith(r, w))
  PROVE  LET lost == Reread(r, q, kind, i, w)
         IN  /\ NotesWith(q, w) = NotesWith(r, w)
             /\ Cardinality(lost) \in Nat /\ Cardinality(lost) <= Cardinality(PlainWith(r, w))
             /\ Cardinality(PlainWith(q, w)) = Cardinality(PlainWith(r, w)) - Cardinality(lost)
<1> DEFINE lost == Reread(r, q, kind, i, w)
           gone == {x \in PlainWith(r, w) : x \notin PlainWith(q, w)}
           back == [x \in gone |-> x[3]]
<1>1. DOMAIN q.hooks[kind] = DOMAIN r.hooks[kind]
  BY DEF OtherNotes
<1>2. ASSUME NEW k \in HookKind, NEW j, NEW n
      PROVE  /\ <<k, j, n>> \in NotesWith(q, w) <=> <<k, j, n>> \in NotesWith(r, w)
             /\ <<k, j, n>> \in PlainWith(q, w) => <<k, j, n>> \in PlainWith(r, w)
             /\ <<k, j, n>> \in gone <=> k = kind /\ j = i /\ n \in lost
  <2>0. <<k, j, n>> \in gone <=> SaysPlain(r, w, k, j, n) /\ ~SaysPlain(q, w, k, j, n)
    BY NoteIn
  <2> HIDE DEF gone
  <2>1. CASE k = kind /\ j = i
    <3>1. /\ Says(q, w, k, j, n) <=> Says(r, w, k, j, n)
          /\ SaysPlain(q, w, k, j, n) => SaysPlain(r, w, k, j, n)
          /\ SaysPlain(r, w, k, j, n) /\ ~SaysPlain(q, w, k, j, n) <=> n \in lost
      BY <1>1, <2>1 DEF Says, SaysPlain, Reread
    <3> QED
      BY <2>0, <2>1, <3>1, NoteIn
  <2>2. CASE k # kind \/ j # i
    <3>1. /\ j \in DOMAIN q.hooks[k] <=> j \in DOMAIN r.hooks[k]
          /\ j \in DOMAIN r.hooks[k] => NotesOf(q, k, j) = NotesOf(r, k, j)
      BY <2>2 DEF OtherNotes
    <3>2. /\ Says(q, w, k, j, n) <=> Says(r, w, k, j, n)
          /\ SaysPlain(q, w, k, j, n) <=> SaysPlain(r, w, k, j, n)
      BY <3>1 DEF Says, SaysPlain
    <3> QED
      BY <2>0, <2>2, <3>2, NoteIn
  <2> QED
    BY <2>1, <2>2
<1> HIDE DEF lost
<1>3. NotesWith(q, w) = NotesWith(r, w)
  <2>1. \A k \in HookKind : \A j, n : <<k, j, n>> \in NotesWith(q, w) <=> <<k, j, n>> \in NotesWith(r, w)
    BY Zenon, <1>2
  <2>2. \A y : y \in NotesWith(q, w) <=> y \in NotesWith(r, w)
    <3>1. TAKE y
    <3>2. CASE y \in NotesWith(q, w) \cup NotesWith(r, w)
      <4>1. PICK k, j, n : k \in HookKind /\ y = <<k, j, n>>
        BY <3>2, NoteOf
      <4> QED
        BY <2>1, <4>1
    <3> QED
      BY <3>2
  <2> QED
    BY <2>2
<1>4. PlainWith(q, w) \subseteq NotesWith(q, w) /\ PlainWith(r, w) \subseteq NotesWith(r, w)
  BY PlainIsNote
<1>5. PlainWith(q, w) = PlainWith(r, w) \ gone /\ gone \in SUBSET PlainWith(r, w)
  <2>1. \A x \in PlainWith(q, w) : x \in PlainWith(r, w)
    <3>1. TAKE x \in PlainWith(q, w)
    <3>2. PICK k, j, n : k \in HookKind /\ x = <<k, j, n>>
      BY <1>4, NoteOf
    <3> QED
      BY <1>2, <3>2
  <2> QED
    BY <2>1
<1>6. \A x \in gone : x[3] \in lost /\ x = <<kind, i, x[3]>>
  <2>1. TAKE x \in gone
  <2>2. PICK k, j, n : k \in HookKind /\ x = <<k, j, n>>
    BY <1>4, NoteOf
  <2> QED
    BY <1>2, <2>2
<1>7. \A n \in lost : <<kind, i, n>> \in gone /\ <<kind, i, n>>[3] = n
  BY <1>2
<1>8. IsFiniteSet(PlainWith(r, w))
  BY <1>4, FS_Subset
<1>9. /\ IsFiniteSet(gone) /\ Cardinality(gone) \in Nat
      /\ Cardinality(gone) <= Cardinality(PlainWith(r, w))
      /\ Cardinality(PlainWith(r, w) \ gone) = Cardinality(PlainWith(r, w)) - Cardinality(gone)
  BY <1>5, <1>8, Without
<1> HIDE DEF gone
<1>10. back \in [gone -> lost]
  BY <1>6
<1>11. \A x, y \in gone : back[x] = back[y] => x = y
  BY <1>6
<1>12. \A n \in lost : \E x \in gone : back[x] = n
  BY <1>7
<1> HIDE DEF back
<1>13. Cardinality(lost) = Cardinality(gone)
  BY <1>9, <1>10, <1>11, <1>12, SameSize
<1> QED
  BY <1>3, <1>5, <1>9, <1>13 DEF lost

-----------------------------------------------------------------------------
(* One line further down the screen.                                       *)

\* The lines that open a section of the screen.
Openings == HookKind \cup {"Processing"}

\* One line further, the screen is in the section that line opens, or where it was.
LEMMA SectionFurther ==
  ASSUME NEW f, NEW n \in Nat, NEW k \in HookKind
  PROVE  InSection(f.screen, (n + 1) + 1, k) <=>
            IF f.screen[n + 1].type \in Openings THEN f.screen[n + 1].type = k
            ELSE InSection(f.screen, n + 1, k)
<1>1. (n + 1) + 1 - 1 = n + 1 /\ (n + 1) - 1 = n
  OBVIOUS
<1>2. \A h : h \in 1..(n + 1) <=> h \in 1..n \/ h = n + 1
  OBVIOUS
<1>3. /\ \A h \in 1..n : \A j : j \in (h + 1)..(n + 1) <=> j \in (h + 1)..n \/ j = n + 1
      /\ \A h \in 1..n : n + 1 \notin (h + 1)..n
      /\ \A j : j \notin ((n + 1) + 1)..(n + 1)
  OBVIOUS
<1>4. InSection(f.screen, (n + 1) + 1, k) <=>
        \E h \in 1..(n + 1) : /\ f.screen[h].type = k
                              /\ \A j \in (h + 1)..(n + 1) : f.screen[j].type \notin Openings
  BY <1>1 DEF InSection, Openings
<1>5. InSection(f.screen, n + 1, k) <=>
        \E h \in 1..n : f.screen[h].type = k /\ \A j \in (h + 1)..n : f.screen[j].type \notin Openings
  BY <1>1 DEF InSection, Openings
<1>6. CASE f.screen[n + 1].type \in Openings
  BY <1>2, <1>3, <1>4, <1>6
<1>7. CASE f.screen[n + 1].type \notin Openings
  <2>1. f.screen[n + 1].type # k
    BY <1>7 DEF Openings
  <2> QED
    BY <1>2, <1>3, <1>4, <1>5, <1>7, <2>1
<1> QED
  BY <1>6, <1>7

\* What ends a hook's lines.
Endings == HookKind \cup {"Processing", "Hook"}

\* One line further, a hook goes on unless that line ends it.
LEMMA HookFurther ==
  ASSUME NEW f, NEW n \in Nat, NEW k
  PROVE  /\ \A h \in 1..n : InHook(f, n + 1, h, k) <=>
               InHook(f, n, h, k) /\ f.screen[n + 1].type \notin Endings
         /\ InHook(f, n + 1, n + 1, k) <=> Begins(f.screen, n + 1, k)
<1>1. \A h \in 1..n : \A j : j \in (h + 1)..(n + 1) <=> j \in (h + 1)..n \/ j = n + 1
  OBVIOUS
<1>2. \A j : j \notin ((n + 1) + 1)..(n + 1)
  OBVIOUS
<1> QED
  BY <1>1, <1>2 DEF InHook, Endings

\* A hook prints finitely many lines.
LEMMA PrintedIsFinite ==
  ASSUME NEW f, NEW n \in Nat, NEW h \in Nat
  PROVE  IsFiniteSet(Printed(f, h, n)) /\ Cardinality(Printed(f, h, n)) \in Nat
<1>1. IsFiniteSet((h + 1)..n)
  BY FS_Interval
<1>2. Printed(f, h, n) \in SUBSET ((h + 1)..n)
  BY DEF Printed
<1> QED
  BY <1>1, <1>2, FS_Subset, FS_CardinalityType

\* One line further, a hook printed one line more if the line is its.
LEMMA PrintedFurther ==
  ASSUME NEW f, NEW n \in Nat, NEW h \in 1..n
  PROVE  /\ Cardinality(Printed(f, h, n)) \in Nat
         /\ Cardinality(Printed(f, h, n + 1)) =
              IF Prints(f.screen[n + 1]) THEN Cardinality(Printed(f, h, n)) + 1
              ELSE Cardinality(Printed(f, h, n))
<1>1. \A j : j \in (h + 1)..(n + 1) <=> j \in (h + 1)..n \/ j = n + 1
  OBVIOUS
<1>2. n + 1 \notin (h + 1)..n /\ h \in Nat
  OBVIOUS
<1>3. IsFiniteSet(Printed(f, h, n)) /\ n + 1 \notin Printed(f, h, n)
  BY <1>2, PrintedIsFinite DEF Printed
<1>4. CASE Prints(f.screen[n + 1])
  <2>1. Printed(f, h, n + 1) = Printed(f, h, n) \cup {n + 1}
    BY <1>1, <1>4 DEF Printed
  <2> QED
    BY <1>3, <1>4, <2>1, OneMore
<1>5. CASE ~Prints(f.screen[n + 1])
  <2>1. Printed(f, h, n + 1) = Printed(f, h, n)
    BY <1>1, <1>5 DEF Printed
  <2> QED
    BY <1>2, <1>5, <2>1, PrintedIsFinite
<1> QED
  BY <1>4, <1>5

\* One line further, a word was said once more if the line says it.
LEMMA SaidFurther ==
  ASSUME NEW f, NEW n \in Nat, NEW w
  PROVE  /\ Cardinality(SaidWith(f, n, w)) \in Nat
         /\ Cardinality(SaidWith(f, n + 1, w)) =
              IF f.screen[n + 1].type \in {"Other", "Db"} /\ f.screen[n + 1].text.word = w
              THEN Cardinality(SaidWith(f, n, w)) + 1 ELSE Cardinality(SaidWith(f, n, w))
<1> DEFINE says == f.screen[n + 1].type \in {"Other", "Db"} /\ f.screen[n + 1].text.word = w
<1>1. \A j : j \in 1..(n + 1) <=> j \in 1..n \/ j = n + 1
  OBVIOUS
<1>2. n + 1 \notin 1..n /\ IsFiniteSet(1..n)
  BY FS_Interval
<1>3. IsFiniteSet(SaidWith(f, n, w)) /\ n + 1 \notin SaidWith(f, n, w)
  <2>1. SaidWith(f, n, w) \in SUBSET (1..n)
    BY DEF SaidWith
  <2> QED
    BY <1>2, <2>1, FS_Subset
<1>4. Cardinality(SaidWith(f, n, w)) \in Nat
  BY <1>3, FS_CardinalityType
<1>5. CASE says
  <2>1. SaidWith(f, n + 1, w) = SaidWith(f, n, w) \cup {n + 1}
    BY <1>1, <1>5 DEF SaidWith
  <2>2. Cardinality(SaidWith(f, n + 1, w)) = Cardinality(SaidWith(f, n, w)) + 1
    BY <1>3, <2>1, OneMore
  <2> QED
    BY <1>4, <1>5, <2>2
<1>6. CASE ~says
  <2>1. SaidWith(f, n + 1, w) = SaidWith(f, n, w)
    BY <1>1, <1>6 DEF SaidWith
  <2> QED
    BY <1>4, <1>6, <2>1
<1> QED
  BY <1>5, <1>6

\* One line further, that line is the last of those read.
LEMMA LinesFurther ==
  ASSUME NEW f, NEW n \in Nat, NEW r, NEW q, LinesRead(f, n, r),
         q.lines = Append(r.lines, f.screen[n + 1])
  PROVE  LinesRead(f, n + 1, q) /\ Len(q.lines) = n + 1
<1>1. r.lines = [i \in 1..n |-> f.screen[i]] /\ Len(r.lines) = n
  BY DEF LinesRead
<1>2. q.lines = [i \in 1..(n + 1) |-> f.screen[i]]
  BY <1>1
<1> QED
  BY <1>2 DEF LinesRead

\* What a hook's lines are, in any run pacman may write.
LEMMA InAHook ==
  ASSUME NEW f \in Feeds, FeedsOK, NEW n \in Nat, n + 1 \in DOMAIN f.screen,
         NEW k \in HookKind, NEW h \in 1..n, InHook(f, n + 1, h, k)
  PROVE  LET ev == f.screen[n + 1] hook == f.facts[k][f.screen[h].index]
             upto == Cardinality(Printed(f, h, n + 1))
         IN  /\ ev.type \notin {"PlanNames", "Optdepends"}
             /\ Prints(ev) => upto \in DOMAIN hook.prints /\ ev.text = hook.prints[upto]
<1>1. f \in Feed /\ ScreenOK(f)
  BY DEF FeedsOK
<1>2. h \in DOMAIN f.screen /\ h < n + 1
  BY <1>1 DEF Feed
<1>3. Begins(f.screen, h, k) /\ Under(f.screen, n + 1, h)
  BY <1>2 DEF InHook, Under
<1> QED
  BY ZenonT(30), <1>1, <1>2, <1>3 DEF ScreenOK, Printed

\* A word of a hook is printed by a hook.
LEMMA WordsUnder ==
  ASSUME NEW f \in Feeds, FeedsOK, NEW n \in Nat, n + 1 \in DOMAIN f.screen,
         f.screen[n + 1].type \in {"Other", "Db"}, f.screen[n + 1].text.word \in f.facts.words
  PROVE  /\ Prints(f.screen[n + 1])
         /\ \E k \in HookKind : \E h \in 1..n : InHook(f, n, h, k)
<1>1. f \in Feed /\ ScreenOK(f)
  BY DEF FeedsOK
<1>2. PICK k \in HookKind, h \in 1..(n + 1) : Begins(f.screen, h, k) /\ Under(f.screen, n + 1, h)
  BY <1>1 DEF ScreenOK
<1>3. h \in 1..n /\ InHook(f, n + 1, h, k)
  BY <1>2 DEF Under, InHook
<1>4. InHook(f, n, h, k)
  BY <1>3, HookFurther
<1> QED
  BY <1>1, <1>3, <1>4 DEF ScreenOK

-----------------------------------------------------------------------------
(* Steps that leave the hooks' lines alone.                                *)

\* A hook with the same texts is the same one, and stays one.
LEMMA OwnStays ==
  ASSUME NEW f, NEW n \in Nat, NEW n2 \in Nat, n <= n2, NEW k, NEW i, NEW h, NEW g,
         HookOwn(f, n, k, i, h), g.file = h.file, g.desc = h.desc, g.notes = h.notes
  PROVE  HookOwn(f, n2, k, i, g)
<1>1. \A t : hook_note_kind(t, g) = hook_note_kind(t, h)
  BY DEF hook_note_kind
<1>2. Len(g.notes) > 0 => \E b \in 1..n2 : Begins(f.screen, b, k) /\ f.screen[b].index = i
  <2>1. \A b \in 1..n : b \in 1..n2
    OBVIOUS
  <2> QED
    BY <2>1 DEF HookOwn
<1> QED
  BY <1>1, <1>2 DEF HookOwn

\* Hooks with the same texts are still pacman's, further on.
LEMMA HooksStay ==
  ASSUME NEW f, NEW n \in Nat, NEW n2 \in Nat, n <= n2, NEW r, NEW q, HooksOwn(f, n, r),
         HooksAlike(r.hooks, q.hooks), q.named = r.named
  PROVE  HooksOwn(f, n2, q)
<1> SUFFICES ASSUME NEW k \in HookKind, NEW i \in DOMAIN q.hooks[k]
             PROVE  /\ HookOwn(f, n2, k, i, q.hooks[k][i])
                    /\ q.hooks[k][i].file # None => i <= q.named[k]
  BY DEF HooksOwn
<1>1. /\ i \in DOMAIN r.hooks[k] /\ q.hooks[k][i].file = r.hooks[k][i].file
      /\ q.hooks[k][i].desc = r.hooks[k][i].desc /\ q.hooks[k][i].notes = r.hooks[k][i].notes
  BY DEF HooksAlike
<1>2. HookOwn(f, n, k, i, r.hooks[k][i]) /\ (r.hooks[k][i].file # None => i <= r.named[k])
  BY <1>1 DEF HooksOwn
<1>3. HookOwn(f, n2, k, i, q.hooks[k][i])
  BY <1>1, <1>2, OwnStays
<1> QED
  BY <1>1, <1>2, <1>3

\* A section still open is one that was reached, further on.
LEMMA SectionStays ==
  ASSUME NEW f, NEW n, NEW r, NEW q, SectionIs(f, n, r), q.screen_section = r.screen_section,
         Forwards(r, q), PictureShape(r)
  PROVE  SectionIs(f, n, q)
<1>1. \A k \in PhaseKind : Place(r, k) # "Pending" => Place(q, k) # "Pending"
  BY Shape DEF Forwards, Place
<1>2. r.screen_section \in HookKind =>
        \E j \in idx(r.screen_section)..Len(PHASES) : Place(q, PHASES[j]) # "Pending"
  <2>1. HAVE r.screen_section \in HookKind
  <2>2. PICK j \in idx(r.screen_section)..Len(PHASES) : Place(r, PHASES[j]) # "Pending"
    BY <2>1 DEF SectionIs
  <2>3. idx(r.screen_section) \in 1..7 /\ Len(PHASES) = 7
    BY <2>1, Places, Kinds
  <2>4. PHASES[j] \in PhaseKind
    BY <2>3, Places
  <2> QED
    BY <1>1, <2>2, <2>4
<1> QED
  BY <1>2 DEF SectionIs

\* While the screen is in a hook, no list of pacman's own is open.
NoListOpen(f, n, q) ==
  (\E k \in HookKind : \E h \in 1..n : InHook(f, n, h, k)) => q.optdeps_for = None /\ q.in_names = FALSE

\* A step that tells nothing of the lines.
LEMMA SilentKeeps ==
  ASSUME NEW f, NEW n \in Nat, NEW m, NEW r, NEW q, Lines(f, n, m, r), Silent(r, q),
         Forwards(r, q), PictureShape(r), NoListOpen(f, n, q)
  PROVE  Lines(f, n, m, q)
<1>1. /\ q.lines = r.lines /\ q.unknown = r.unknown /\ q.named = r.named
      /\ q.screen_section = r.screen_section /\ q.screen_hook = r.screen_hook
      /\ q.tx_started = r.tx_started /\ q.tx_completed = r.tx_completed
      /\ HooksAlike(r.hooks, q.hooks)
  BY DEF Silent, LineFields
<1>2. LinesRead(f, n, q) /\ LogIs(f, m, q) /\ UnknownIs(f, n, q)
  BY <1>1 DEF Lines, LinesRead, LogIs, UnknownIs
<1>3. SectionIs(f, n, q)
  BY <1>1, SectionStays DEF Lines
<1>4. HookIs(f, n, q)
  BY <1>1 DEF Lines, HookIs, NoListOpen, HooksAlike
<1>5. HooksOwn(f, n, q)
  BY <1>1, HooksStay DEF Lines
<1>6. WordsKept(f, n, q)
  <2>1. SameNotes(r, q)
    BY <1>1, AlikeNotes
  <2>2. \A w : NotesWith(q, w) = NotesWith(r, w) /\ PlainWith(q, w) = PlainWith(r, w)
    BY <2>1, NotesStay
  <2> QED
    BY <1>1, <2>2 DEF Lines, WordsKept, ListedWith
<1> QED
  BY <1>2, <1>3, <1>4, <1>5, <1>6 DEF Lines

\* A line that is not a hook's, and what it may leave unknown.
LEMMA LineAside ==
  ASSUME NEW f \in Feeds, FeedsOK, NEW n \in Nat, n + 1 \in DOMAIN f.screen, NEW m, NEW r, NEW q,
         Lines(f, n, m, r), PictureShape(r), Forwards(r, q),
         \A a \in LineFields \ {"lines", "unknown"} : q[a] = r[a], HooksAlike(r.hooks, q.hooks),
         q.lines = Append(r.lines, f.screen[n + 1]), f.screen[n + 1].type \notin Openings,
         f.screen[n + 1].type = "Hook" => \A k \in HookKind : ~InSection(f.screen, n + 1, k),
         \/ q.unknown = r.unknown
         \/ /\ f.screen[n + 1].type \in {"Other", "Db"}
            /\ q.unknown = r.unknown \cup {[text |-> f.screen[n + 1].text, at |-> n + 1]},
         NoListOpen(f, n + 1, q),
         Prints(f.screen[n + 1]) => ~\E k \in HookKind : \E h \in 1..n : InHook(f, n, h, k)
  PROVE  Lines(f, n + 1, m, q)
<1> DEFINE ev == f.screen[n + 1]
           u0 == [text |-> ev.text, at |-> n + 1]
<1>1. /\ q.named = r.named /\ q.screen_section = r.screen_section /\ q.screen_hook = r.screen_hook
      /\ q.tx_started = r.tx_started /\ q.tx_completed = r.tx_completed
  BY DEF LineFields
<1>2. LinesRead(f, n + 1, q) /\ LogIs(f, m, q)
  BY <1>1, LinesFurther DEF Lines, LogIs
<1>3. SectionIs(f, n + 1, q)
  <2>1. SectionIs(f, n, q)
    BY <1>1, SectionStays DEF Lines
  <2> QED
    BY <2>1, SectionFurther DEF SectionIs
<1>4. \A k \in HookKind : \A h \in 1..(n + 1) :
         InHook(f, n + 1, h, k) => h \in 1..n /\ InHook(f, n, h, k)
  <2>1. \A h \in 1..(n + 1) : h \in 1..n \/ h = n + 1
    OBVIOUS
  <2>2. \A k \in HookKind : ~InHook(f, n + 1, n + 1, k)
    BY HookFurther DEF Begins
  <2>3. \A k \in HookKind : \A h \in 1..n : InHook(f, n + 1, h, k) => InHook(f, n, h, k)
    BY HookFurther
  <2> QED
    BY <2>1, <2>2, <2>3
<1>5. \A k \in HookKind : \A h \in 1..n : InHook(f, n, h, k) => InHook(f, n + 1, h, k)
  <2> SUFFICES ASSUME NEW k \in HookKind, NEW h \in 1..n, InHook(f, n, h, k)
               PROVE  InHook(f, n + 1, h, k)
    OBVIOUS
  <2>1. InSection(f.screen, n + 1, k)
    BY DEF Lines, HookIs, SectionIs
  <2>2. ev.type \notin Endings
    BY <2>1 DEF Openings, Endings
  <2> QED
    BY <2>2, HookFurther
<1>6. HookIs(f, n + 1, q)
  <2>1. HookIs(f, n, r)
    BY DEF Lines
  <2>2. q.screen_section \in HookKind /\ q.screen_hook # 0 =>
          \E h \in 1..(n + 1) : InHook(f, n + 1, h, q.screen_section)
    <3>1. \A h \in 1..n : h \in 1..(n + 1)
      OBVIOUS
    <3> QED
      BY <1>1, <1>5, <2>1, <3>1 DEF HookIs
  <2>3. ASSUME NEW k \in HookKind, NEW h \in 1..(n + 1), InHook(f, n + 1, h, k)
        PROVE  /\ q.screen_section = k /\ q.screen_hook = f.screen[h].index
               /\ q.screen_hook \in DOMAIN q.hooks[k]
               /\ Len(q.hooks[k][q.screen_hook].notes) = Cardinality(Printed(f, h, n + 1))
               /\ q.optdeps_for = None /\ q.in_names = FALSE
    <3>1. h \in 1..n /\ InHook(f, n, h, k)
      BY <1>4, <2>3
    <3>2. ~Prints(ev)
      BY <3>1
    <3>3. Cardinality(Printed(f, h, n + 1)) = Cardinality(Printed(f, h, n))
      BY <3>1, <3>2, PrintedFurther
    <3>4. /\ r.screen_section = k /\ r.screen_hook = f.screen[h].index
          /\ r.screen_hook \in DOMAIN r.hooks[k]
          /\ Len(r.hooks[k][r.screen_hook].notes) = Cardinality(Printed(f, h, n))
      BY <2>1, <3>1 DEF HookIs
    <3>5. q.optdeps_for = None /\ q.in_names = FALSE
      BY <2>3 DEF NoListOpen
    <3> QED
      BY <1>1, <3>3, <3>4, <3>5 DEF HooksAlike
  <2> QED
    BY <1>1, <2>1, <2>2, <2>3 DEF HookIs
<1>7. HooksOwn(f, n + 1, q)
  BY <1>1, HooksStay DEF Lines
<1>8. UnknownIs(f, n + 1, q)
  <2>1. UnknownIs(f, n, r) /\ IsFiniteSet(r.unknown)
    BY DEF Lines, UnknownIs
  <2>2. \A i \in 1..n : i \in 1..(n + 1)
    OBVIOUS
  <2>3. n + 1 \in 1..(n + 1)
    OBVIOUS
  <2>4. CASE q.unknown = r.unknown
    BY <2>1, <2>2, <2>4 DEF UnknownIs
  <2>5. CASE ev.type \in {"Other", "Db"} /\ q.unknown = r.unknown \cup {u0}
    <3>2. u0.at = n + 1 /\ u0.text = ev.text
      OBVIOUS
    <3> HIDE DEF u0
    <3>0. IsFiniteSet(r.unknown \cup {u0})
      BY <2>1, FS_AddElement
    <3>1. IsFiniteSet(q.unknown)
      BY <2>5, <3>0
    <3> QED
      BY <2>1, <2>2, <2>3, <2>5, <3>1, <3>2 DEF UnknownIs, u0
  <2> QED
    BY <2>4, <2>5
<1>9. WordsKept(f, n + 1, q)
  <2>1. SameNotes(r, q)
    BY AlikeNotes
  <2>2. \A w : NotesWith(q, w) = NotesWith(r, w) /\ PlainWith(q, w) = PlainWith(r, w)
    BY <2>1, NotesStay
  <2>3. ~(ev.type \in {"Other", "Db"} /\ ev.text.word \in f.facts.words)
    BY WordsUnder
  <2>4. ASSUME NEW w \in f.facts.words
        PROVE  /\ Cardinality(SaidWith(f, n + 1, w)) = Cardinality(SaidWith(f, n, w))
               /\ ListedWith(q, w) = ListedWith(r, w)
    <3>1. ~(ev.type \in {"Other", "Db"} /\ ev.text.word = w)
      BY <2>3
    <3>2. ListedWith(q, w) = ListedWith(r, w)
      BY <3>1 DEF ListedWith
    <3> QED
      BY <3>1, <3>2, SaidFurther
  <2> QED
    BY <2>2, <2>4 DEF Lines, WordsKept
<1> QED
  BY <1>2, <1>3, <1>6, <1>7, <1>8, <1>9 DEF Lines

\* The line that opens a section.
LEMMA LineOpens ==
  ASSUME NEW f \in Feeds, NEW n \in Nat, n + 1 \in DOMAIN f.screen, NEW m, NEW r, NEW q,
         Lines(f, n, m, r), PictureShape(r),
         \A a \in LineFields \ {"lines", "screen_section", "screen_hook"} : q[a] = r[a],
         HooksAlike(r.hooks, q.hooks),
         q.lines = Append(r.lines, f.screen[n + 1]), f.screen[n + 1].type \in Openings,
         q.screen_hook = 0,
         q.screen_section = IF f.screen[n + 1].type \in HookKind THEN f.screen[n + 1].type ELSE None,
         q.screen_section \in HookKind =>
            \E j \in idx(q.screen_section)..Len(PHASES) : Place(q, PHASES[j]) # "Pending"
  PROVE  Lines(f, n + 1, m, q)
<1> DEFINE ev == f.screen[n + 1]
<1>1. /\ q.named = r.named /\ q.unknown = r.unknown
      /\ q.tx_started = r.tx_started /\ q.tx_completed = r.tx_completed
  BY DEF LineFields
<1>2. LinesRead(f, n + 1, q) /\ LogIs(f, m, q)
  BY <1>1, LinesFurther DEF Lines, LogIs
<1>3. SectionIs(f, n + 1, q)
  <2>1. \A k \in HookKind : InSection(f.screen, (n + 1) + 1, k) <=> ev.type = k
    BY SectionFurther
  <2>2. \A k \in HookKind : q.screen_section = k <=> ev.type = k
    BY DEF HookKind, None
  <2> QED
    BY <2>1, <2>2 DEF SectionIs
<1>4. HookIs(f, n + 1, q)
  <2>1. \A h \in 1..(n + 1) : h \in 1..n \/ h = n + 1
    OBVIOUS
  <2>2. \A k \in HookKind : \A h \in 1..(n + 1) : ~InHook(f, n + 1, h, k)
    BY <2>1, HookFurther DEF Begins, Endings, Openings, HookKind
  <2> QED
    BY <2>2 DEF HookIs
<1>5. HooksOwn(f, n + 1, q)
  BY <1>1, HooksStay DEF Lines
<1>6. UnknownIs(f, n + 1, q)
  <2>1. \A i \in 1..n : i \in 1..(n + 1)
    OBVIOUS
  <2> QED
    BY <1>1, <2>1 DEF Lines, UnknownIs
<1>7. WordsKept(f, n + 1, q)
  <2>1. SameNotes(r, q)
    BY AlikeNotes
  <2>2. \A w : NotesWith(q, w) = NotesWith(r, w) /\ PlainWith(q, w) = PlainWith(r, w)
    BY <2>1, NotesStay
  <2>3. \A w : Cardinality(SaidWith(f, n + 1, w)) = Cardinality(SaidWith(f, n, w))
    BY ZenonT(30), SaidFurther DEF Openings, HookKind
  <2> QED
    BY <1>1, <2>2, <2>3 DEF Lines, WordsKept, ListedWith
<1> QED
  BY <1>2, <1>3, <1>4, <1>5, <1>6, <1>7 DEF Lines

-----------------------------------------------------------------------------
(* A hook that learns what it is.                                          *)

\* What reading a hook's notes again changes.
LEMMA RereadSays ==
  ASSUME NEW r, PictureShape(r), NEW kind \in HookKind, NEW i \in DOMAIN r.hooks[kind]
  PROVE  LET q == reclassify(r, kind, i)
             h == r.hooks[kind][i]
         IN  /\ DOMAIN q = DOMAIN New
             /\ \A a \in DOMAIN New \ {"hooks", "unknown"} : q[a] = r[a]
             /\ OtherNotes(r, q, kind, i)
             /\ \A k \in HookKind : \A j \in DOMAIN r.hooks[k] :
                   /\ q.hooks[k][j].file = r.hooks[k][j].file
                   /\ q.hooks[k][j].desc = r.hooks[k][j].desc
             /\ NotesOf(q, kind, i) =
                   [n \in DOMAIN h.notes |->
                      [h.notes[n] EXCEPT !.kind = hook_note_kind(h.notes[n].text, h)]]
             /\ q.unknown = unclaimed(r.unknown, h.notes, NotesOf(q, kind, i))
<1> DEFINE h == r.hooks[kind][i]
           again == [n \in DOMAIN h.notes |->
                       [h.notes[n] EXCEPT !.kind = hook_note_kind(h.notes[n].text, h)]]
           left == unclaimed(r.unknown, h.notes, again)
           q == reclassify(r, kind, i)
           list == [r.hooks[kind] EXCEPT ![i].notes = again]
<1>1. q = [r EXCEPT !.hooks[kind][i].notes = again, !.unknown = left]
  <2> HIDE DEF left
  <2>1. left = unclaimed(r.unknown, h.notes, again)
    BY DEF left
  <2> QED
    BY <2>1 DEF reclassify
<1> HIDE DEF again, left
<1>2. ListShape(r.hooks[kind]) /\ DOMAIN r.hooks = HookKind
  BY ListsAre
<1>3. DOMAIN r = DOMAIN New /\ {"hooks", "unknown"} \subseteq DOMAIN New
  BY DEF PictureShape, New
<1> HIDE DEF q
<1>4. /\ DOMAIN q = DOMAIN New
      /\ \A a \in DOMAIN New \ {"hooks", "unknown"} : q[a] = r[a]
      /\ q.hooks = [r.hooks EXCEPT ![kind] = list] /\ q.unknown = left
  BY <1>1, <1>3
<1>5. DOMAIN h = {"desc", "file", "started", "ended", "notes"}
  BY <1>2 DEF ListShape, HookShape
<1>6. /\ DOMAIN list = DOMAIN r.hooks[kind]
      /\ list[i] = [h EXCEPT !.notes = again]
      /\ \A j \in DOMAIN r.hooks[kind] \ {i} : list[j] = r.hooks[kind][j]
  OBVIOUS
<1>7. list[i].notes = again /\ list[i].file = h.file /\ list[i].desc = h.desc
  BY <1>5, <1>6
<1> HIDE DEF list
<1>8. q.hooks[kind] = list /\ \A k \in HookKind \ {kind} : q.hooks[k] = r.hooks[k]
  BY <1>2, <1>4
<1>9. NotesOf(q, kind, i) = again
  BY <1>7, <1>8 DEF NotesOf
<1>10. OtherNotes(r, q, kind, i)
  BY <1>6, <1>8 DEF OtherNotes, NotesOf
<1>11. \A k \in HookKind : \A j \in DOMAIN r.hooks[k] :
          q.hooks[k][j].file = r.hooks[k][j].file /\ q.hooks[k][j].desc = r.hooks[k][j].desc
  BY <1>6, <1>7, <1>8
<1> QED
  BY Zenon, <1>4, <1>9, <1>10, <1>11 DEF again, left, q

\* No note, nothing to take from the unknown lines.
LEMMA NothingClaimed ==
  ASSUME NEW unknown, IsFiniteSet(unknown), \A u \in unknown : u.at \in Nat
  PROVE  unclaimed(unknown, <<>>, <<>>) = unknown
<1> DEFINE claims(w) == {n \in DOMAIN <<>> : /\ <<>>[n].text.word = w
                           /\ <<>>[n].kind = "Plain" /\ <<>>[n].kind # "Plain"}
           behind(u) == {v \in unknown : v.text.word = u.text.word /\ v.at >= u.at}
<1>1. \A w : claims(w) = {}
  OBVIOUS
<1>2. ASSUME NEW u \in unknown PROVE Cardinality(behind(u)) > Cardinality(claims(u.text.word))
  <2>1. behind(u) \in SUBSET unknown /\ u \in behind(u)
    OBVIOUS
  <2>2. IsFiniteSet(behind(u)) /\ behind(u) # {}
    BY <2>1, FS_Subset
  <2> HIDE DEF behind
  <2>3. Cardinality(behind(u)) \in Nat /\ Cardinality(behind(u)) # 0
    BY <2>2, FS_CardinalityType, FS_EmptySet
  <2>4. Cardinality(claims(u.text.word)) = 0
    BY <1>1, FS_EmptySet
  <2> HIDE DEF claims
  <2> QED
    BY <2>3, <2>4
<1> QED
  BY <1>2 DEF unclaimed

\* The texts of the hooks of q are those of r's, but for hook i of a section,
\* and for hooks that r does not have, of which q knows nothing.
NewHook(r, q, kind, i) ==
  \A k \in HookKind :
      /\ DOMAIN r.hooks[k] \subseteq DOMAIN q.hooks[k]
      /\ k # kind => DOMAIN q.hooks[k] = DOMAIN r.hooks[k]
      /\ \A j \in DOMAIN q.hooks[k] \ DOMAIN r.hooks[k] : j \in 1..i
      /\ \A j \in DOMAIN q.hooks[k] : k # kind \/ j # i =>
            LET old == IF j \in DOMAIN r.hooks[k] THEN r.hooks[k][j] ELSE NoHook
            IN  /\ q.hooks[k][j].file = old.file /\ q.hooks[k][j].desc = old.desc
                /\ q.hooks[k][j].notes = old.notes

\* What the line that begins a hook says of it.
LEMMA HookLineSays ==
  ASSUME NEW r, PictureShape(r), r.screen_section \in HookKind,
         NEW index \in Nat \ {0}, NEW total, NEW desc,
         index \in DOMAIN r.hooks[r.screen_section] => r.hooks[r.screen_section][index].notes = <<>>,
         IsFiniteSet(r.unknown), \A u \in r.unknown : u.at \in Nat
  PROVE  LET q == screen_hook_line(r, index, total, desc)
             kind == r.screen_section
         IN  /\ \A a \in Beyond \ {"hooks", "screen_hook"} : q[a] = r[a]
             /\ q.screen_hook = index /\ NewHook(r, q, kind, index)
             /\ index \in DOMAIN q.hooks[kind]
             /\ q.hooks[kind][index].desc = desc /\ q.hooks[kind][index].notes = <<>>
             /\ q.hooks[kind][index].file =
                  IF index \in DOMAIN r.hooks[kind] THEN r.hooks[kind][index].file ELSE None
<1> DEFINE kind == r.screen_section
           over == [j \in DOMAIN r.hooks[kind] |->
                       IF j < index /\ r.hooks[kind][j].started
                       THEN [r.hooks[kind][j] EXCEPT !.ended = TRUE] ELSE r.hooks[kind][j]]
           list == hook_at(over, index)
           begun == [list EXCEPT ![index].desc = desc, ![index].started = TRUE]
           first == [r EXCEPT !.hooks[kind] = begun]
           seen == reclassify(first, kind, index)
           q == screen_hook_line(r, index, total, desc)
<1>1. kind \in HookKind /\ index > 0 /\ ~(index = 0 \/ kind = None)
  BY DEF HookKind, None
<1>2. q = [seen EXCEPT !.screen_hook = index,
                       !.phases[kind].done = Larger(@, index - 1),
                       !.phases[kind].total = total]
  BY Zenon, <1>1 DEF screen_hook_line
<1> HIDE DEF q, seen
<1>3. ListShape(r.hooks[kind]) /\ DOMAIN r.hooks = HookKind
  BY <1>1, ListsAre
<1>4. ListShape(over)
  BY <1>3, EarlierEnded
<1>5. /\ DOMAIN over = DOMAIN r.hooks[kind] /\ Len(over) = Len(r.hooks[kind])
      /\ \A j \in DOMAIN over : /\ over[j].file = r.hooks[kind][j].file
                               /\ over[j].desc = r.hooks[kind][j].desc
                               /\ over[j].notes = r.hooks[kind][j].notes
  <2>1. DOMAIN over = DOMAIN r.hooks[kind]
    OBVIOUS
  <2>2. \A j \in DOMAIN r.hooks[kind] : DOMAIN r.hooks[kind][j] = {"desc", "file", "started", "ended", "notes"}
    BY <1>3 DEF ListShape, HookShape
  <2>3. \A j \in DOMAIN r.hooks[kind] :
           over[j] \in {r.hooks[kind][j], [r.hooks[kind][j] EXCEPT !.ended = TRUE]}
    OBVIOUS
  <2>4. Len(over) = Len(r.hooks[kind])
    <3>1. Len(r.hooks[kind]) \in Nat /\ DOMAIN r.hooks[kind] = 1..Len(r.hooks[kind])
      BY <1>3 DEF ListShape
    <3> HIDE DEF over
    <3> QED
      BY <2>1, <3>1, LengthOf
  <2> HIDE DEF over
  <2> QED
    BY <2>1, <2>2, <2>3, <2>4
<1> HIDE DEF over, kind
<1>6. ListShape(list) /\ index \in DOMAIN list
  BY <1>1, <1>4, MadeLongEnough
<1>7. /\ \A j : j \in DOMAIN list <=> j \in DOMAIN over \/ j \in 1..index
      /\ \A j \in DOMAIN list : list[j] = IF j \in DOMAIN over THEN over[j] ELSE NoHook
  <2>1. Len(over) \in Nat /\ DOMAIN over = 1..Len(over)
    BY <1>4 DEF ListShape
  <2>2. \A j : j \in 1..Larger(index, Len(over)) <=> j \in 1..Len(over) \/ j \in 1..index
    BY <2>1 DEF Larger
  <2>3. \A j \in 1..Larger(index, Len(over)) : j <= Len(over) <=> j \in 1..Len(over)
    BY <2>1 DEF Larger
  <2> QED
    BY <2>1, <2>2, <2>3 DEF hook_at
<1> HIDE DEF list
<1>8. ListShape(begun) /\ index \in DOMAIN begun
  BY Zenon, <1>6, HookBegun
<1>9. /\ DOMAIN begun = DOMAIN list
      /\ \A j \in DOMAIN list \ {index} : begun[j] = list[j]
      /\ begun[index].desc = desc /\ begun[index].file = list[index].file
      /\ begun[index].notes = list[index].notes
  <2>1. DOMAIN list[index] = {"desc", "file", "started", "ended", "notes"}
    BY <1>6 DEF ListShape, HookShape
  <2> DEFINE told == [list[index] EXCEPT !.desc = desc]
  <2>2. DOMAIN told = {"desc", "file", "started", "ended", "notes"} /\ told.desc = desc
        /\ told.file = list[index].file /\ told.notes = list[index].notes
    BY <2>1
  <2>3. begun = [list EXCEPT ![index] = [told EXCEPT !.started = TRUE]]
    OBVIOUS
  <2> HIDE DEF told, begun
  <2> QED
    BY <1>6, <2>2, <2>3
<1> HIDE DEF begun
<1>10. DOMAIN r = DOMAIN New /\ "hooks" \in DOMAIN New
  BY DEF PictureShape, New
<1>11. /\ DOMAIN first = DOMAIN New
       /\ \A a \in DOMAIN New \ {"hooks"} : first[a] = r[a]
       /\ first.hooks = [r.hooks EXCEPT ![kind] = begun]
  BY <1>10
<1> HIDE DEF first
<1>12. /\ DOMAIN first.hooks = HookKind /\ first.hooks[kind] = begun
       /\ \A k \in HookKind \ {kind} : first.hooks[k] = r.hooks[k]
  BY <1>1, <1>3, <1>11
<1>13. PictureShape(first)
  <2>1. HooksShape(first.hooks)
    BY <1>8, <1>12 DEF PictureShape, HooksShape, ListShape
  <2>2. /\ first.phases = r.phases /\ first.dbs = r.dbs /\ first.packages = r.packages
        /\ first.named = r.named /\ first.tx_started = r.tx_started /\ first.log_seen = r.log_seen
        /\ first.finished = r.finished /\ first.saw_package = r.saw_package
    BY <1>11 DEF New
  <2> QED
    BY <1>11, <2>1, <2>2 DEF PictureShape
<1>14. index \in DOMAIN first.hooks[kind]
  BY <1>8, <1>12
<1> DEFINE h == first.hooks[kind][index]
<1>15. h.notes = <<>>
  <2>1. list[index].notes = <<>>
    BY <1>5, <1>6, <1>7 DEF NoHook, kind
  <2> QED
    BY <1>9, <1>12, <2>1
<1>16. /\ DOMAIN seen = DOMAIN New
       /\ \A a \in DOMAIN New \ {"hooks", "unknown"} : seen[a] = first[a]
       /\ OtherNotes(first, seen, kind, index)
       /\ \A k \in HookKind : \A j \in DOMAIN first.hooks[k] :
             seen.hooks[k][j].file = first.hooks[k][j].file /\ seen.hooks[k][j].desc = first.hooks[k][j].desc
       /\ NotesOf(seen, kind, index) =
             [n \in DOMAIN h.notes |-> [h.notes[n] EXCEPT !.kind = hook_note_kind(h.notes[n].text, h)]]
       /\ seen.unknown = unclaimed(first.unknown, h.notes, NotesOf(seen, kind, index))
  BY <1>1, <1>13, <1>14, RereadSays DEF seen
<1>17. NotesOf(seen, kind, index) = <<>>
  BY <1>15, <1>16
<1>18. first.unknown = r.unknown
  BY <1>11 DEF New
<1>19. seen.unknown = r.unknown
  BY <1>15, <1>16, <1>17, <1>18, NothingClaimed
<1>20. /\ DOMAIN q = DOMAIN New /\ q.screen_hook = index
       /\ \A a \in DOMAIN New \ {"screen_hook", "phases"} : q[a] = seen[a]
  <2>1. {"screen_hook", "phases"} \subseteq DOMAIN New
    BY DEF New
  <2> QED
    BY Zenon, <1>2, <1>16, <2>1 DEF New
<1>21. q.hooks = seen.hooks
  BY <1>20 DEF New
<1>22. \A a \in Beyond \ {"hooks", "screen_hook"} : q[a] = r[a]
  <2>1. ASSUME NEW a \in Beyond \ {"hooks", "screen_hook"} PROVE q[a] = r[a]
    <3>1. a \in DOMAIN New \ {"screen_hook", "phases"} /\ a \in DOMAIN New \ {"hooks"}
      BY FieldsThere
    <3>2. CASE a = "unknown"
      BY <1>19, <1>20, <3>1, <3>2
    <3>3. CASE a # "unknown"
      BY <1>11, <1>16, <1>20, <3>1, <3>3
    <3> QED
      BY <3>2, <3>3
  <2> QED
    BY <2>1
<1>23. \A k \in HookKind : DOMAIN q.hooks[k] = DOMAIN first.hooks[k]
  BY <1>16, <1>21 DEF OtherNotes
<1>24. \A k \in HookKind : \A j \in DOMAIN first.hooks[k] :
          /\ q.hooks[k][j].file = first.hooks[k][j].file /\ q.hooks[k][j].desc = first.hooks[k][j].desc
          /\ q.hooks[k][j].notes = first.hooks[k][j].notes
  <2>1. ASSUME NEW k \in HookKind, NEW j \in DOMAIN first.hooks[k]
        PROVE q.hooks[k][j].notes = first.hooks[k][j].notes
    <3>1. CASE k = kind /\ j = index
      BY <1>15, <1>17, <1>21, <3>1 DEF NotesOf
    <3>2. CASE k # kind \/ j # index
      BY <1>16, <1>21, <3>2 DEF OtherNotes, NotesOf
    <3> QED
      BY <3>1, <3>2
  <2> QED
    BY <1>16, <1>21, <2>1
<1> HIDE DEF h
<1>25. NewHook(r, q, kind, index)
  <2> SUFFICES ASSUME NEW k \in HookKind
        PROVE  /\ DOMAIN r.hooks[k] \subseteq DOMAIN q.hooks[k]
               /\ k # kind => DOMAIN q.hooks[k] = DOMAIN r.hooks[k]
               /\ \A j \in DOMAIN q.hooks[k] \ DOMAIN r.hooks[k] : j \in 1..index
               /\ \A j \in DOMAIN q.hooks[k] : k # kind \/ j # index =>
                     LET old == IF j \in DOMAIN r.hooks[k] THEN r.hooks[k][j] ELSE NoHook
                     IN  /\ q.hooks[k][j].file = old.file /\ q.hooks[k][j].desc = old.desc
                         /\ q.hooks[k][j].notes = old.notes
    BY DEF NewHook
  <2>1. CASE k # kind
    <3>1. first.hooks[k] = r.hooks[k]
      BY <1>12, <2>1
    <3> QED
      BY <1>23, <1>24, <2>1, <3>1
  <2>2. CASE k = kind
    <3>1. DOMAIN q.hooks[kind] = DOMAIN list
      BY <1>1, <1>9, <1>12, <1>23
    <3>2. \A j \in DOMAIN list \ {index} :
             LET old == IF j \in DOMAIN r.hooks[k] THEN r.hooks[k][j] ELSE NoHook
             IN  /\ q.hooks[k][j].file = old.file /\ q.hooks[k][j].desc = old.desc
                 /\ q.hooks[k][j].notes = old.notes
      <4>1. TAKE j \in DOMAIN list \ {index}
      <4>2. first.hooks[kind][j] = list[j]
        BY <1>9, <1>12
      <4>3. /\ q.hooks[kind][j].file = list[j].file /\ q.hooks[kind][j].desc = list[j].desc
            /\ q.hooks[kind][j].notes = list[j].notes
        BY <1>1, <1>9, <1>12, <1>24, <4>2
      <4> QED
        BY <1>5, <1>7, <2>2, <4>3
    <3> QED
      BY <1>5, <1>7, <2>2, <3>1, <3>2
  <2> QED
    BY <2>1, <2>2
<1>26. /\ index \in DOMAIN q.hooks[kind] /\ q.hooks[kind][index].desc = desc
       /\ q.hooks[kind][index].notes = <<>>
  BY <1>1, <1>9, <1>12, <1>14, <1>15, <1>23, <1>24 DEF h
<1>27. q.hooks[kind][index].file = IF index \in DOMAIN r.hooks[kind] THEN r.hooks[kind][index].file ELSE None
  <2>1. q.hooks[kind][index].file = list[index].file
    BY <1>1, <1>9, <1>12, <1>14, <1>24
  <2>2. NoHook.file = None
    BY DEF NoHook
  <2> QED
    BY <1>5, <1>6, <1>7, <2>1, <2>2
<1> QED
  BY <1>20, <1>22, <1>25, <1>26, <1>27 DEF q, kind

\* The picture when the line that begins a hook is read: nothing that one prints
\* was read yet; and what it is after.
HookUnread(r, index) ==
  /\ r.screen_section \in HookKind
  /\ index \in DOMAIN r.hooks[r.screen_section] => r.hooks[r.screen_section][index].notes = <<>>
  /\ IsFiniteSet(r.unknown) /\ \A u \in r.unknown : u.at \in Nat
HookRead(r, q, kind, index, desc) ==
  /\ \A a \in Beyond \ {"hooks", "screen_hook"} : q[a] = r[a]
  /\ q.screen_hook = index /\ NewHook(r, q, kind, index)
  /\ index \in DOMAIN q.hooks[kind]
  /\ q.hooks[kind][index].desc = desc /\ q.hooks[kind][index].notes = <<>>
  /\ q.hooks[kind][index].file =
       IF index \in DOMAIN r.hooks[kind] THEN r.hooks[kind][index].file ELSE None

\* The same, of what it says as a whole.
LEMMA HookIsRead ==
  ASSUME NEW r, PictureShape(r), NEW index \in Nat \ {0}, HookUnread(r, index), NEW total, NEW desc
  PROVE  HookRead(r, screen_hook_line(r, index, total, desc), r.screen_section, index, desc)
<1> DEFINE q == screen_hook_line(r, index, total, desc)
<1>1. /\ r.screen_section \in HookKind
      /\ index \in DOMAIN r.hooks[r.screen_section] => r.hooks[r.screen_section][index].notes = <<>>
      /\ IsFiniteSet(r.unknown) /\ \A u \in r.unknown : u.at \in Nat
  BY DEF HookUnread
<1>2. /\ \A a \in Beyond \ {"hooks", "screen_hook"} : q[a] = r[a]
      /\ q.screen_hook = index /\ NewHook(r, q, r.screen_section, index)
      /\ index \in DOMAIN q.hooks[r.screen_section]
      /\ q.hooks[r.screen_section][index].desc = desc
      /\ q.hooks[r.screen_section][index].notes = <<>>
      /\ q.hooks[r.screen_section][index].file =
           IF index \in DOMAIN r.hooks[r.screen_section]
           THEN r.hooks[r.screen_section][index].file ELSE None
  BY <1>1, HookLineSays
<1> QED
  BY <1>2 DEF HookRead

\* The hooks of a run pacman may write.
LEMMA FactsAre ==
  ASSUME NEW f \in Feeds, FeedsOK, NEW k \in HookKind
  PROVE  /\ Len(f.facts[k]) \in Nat /\ DOMAIN f.facts[k] = 1..Len(f.facts[k])
         /\ \A i \in DOMAIN f.facts[k] : /\ Len(f.facts[k][i].prints) \in Nat
                                         /\ DOMAIN f.facts[k][i].prints = 1..Len(f.facts[k][i].prints)
                                         /\ f.facts[k][i].file # None
<1>1. f \in Feed /\ LogOK(f)
  BY DEF FeedsOK
<1>2. f.facts[k] \in Seq(Hook)
  BY <1>1 DEF Feed, HookKind
<1>3. \A i \in DOMAIN f.facts[k] : f.facts[k][i] \in Hook
  BY <1>2
<1>4. \A i \in DOMAIN f.facts[k] : f.facts[k][i].prints \in Seq(Text)
  BY <1>3 DEF Hook
<1> QED
  BY <1>1, <1>2, <1>4 DEF LogOK

\* A hook of pacman's that printed nothing yet.
LEMMA OwnEmpty ==
  ASSUME NEW f \in Feeds, FeedsOK, NEW n, NEW k \in HookKind, NEW i \in DOMAIN f.facts[k], NEW h,
         h.file = None \/ h.file = f.facts[k][i].file,
         h.desc = None \/ h.desc = f.facts[k][i].desc, h.notes = <<>>
  PROVE  HookOwn(f, n, k, i, h)
<1>1. Len(h.notes) = 0 /\ Len(f.facts[k][i].prints) \in Nat
  BY FactsAre
<1>2. h.notes = [j \in 1..Len(h.notes) |->
        [kind |-> hook_note_kind(f.facts[k][i].prints[j], h), text |-> f.facts[k][i].prints[j]]]
  BY <1>1
<1> QED
  BY <1>1, <1>2 DEF HookOwn

\* A hook that has not begun has printed nothing.
LEMMA NothingYet ==
  ASSUME NEW f \in Feeds, FeedsOK, NEW n \in Nat, n + 1 \in DOMAIN f.screen, NEW r,
         HooksOwn(f, n, r), NEW k \in HookKind, Begins(f.screen, n + 1, k),
         f.screen[n + 1].index \in DOMAIN r.hooks[k]
  PROVE  r.hooks[k][f.screen[n + 1].index].notes = <<>>
<1> DEFINE i == f.screen[n + 1].index h == r.hooks[k][i]
<1>1. /\ i \in Nat /\ \A g \in 1..((n + 1) - 1) : Begins(f.screen, g, k) => f.screen[g].index < i
  BY HookLineIs
<1>2. HookOwn(f, n, k, i, h)
  BY DEF HooksOwn
<1>3. ~\E b \in 1..n : Begins(f.screen, b, k) /\ f.screen[b].index = i
  BY <1>1
<1>4. Len(h.notes) \in Nat /\ ~(Len(h.notes) > 0)
  BY ZenonT(30), <1>2, <1>3 DEF HookOwn
<1>5. Len(h.notes) = 0
  BY <1>4
<1>6. h.notes = [j \in 1..Len(h.notes) |->
        [kind |-> hook_note_kind(f.facts[k][i].prints[j], h), text |-> f.facts[k][i].prints[j]]]
  BY ZenonT(30), <1>2 DEF HookOwn
<1>7. h.notes = [j \in 1..0 |->
        [kind |-> hook_note_kind(f.facts[k][i].prints[j], h), text |-> f.facts[k][i].prints[j]]]
  BY <1>5, <1>6
<1> QED
  BY <1>7

\* The line that begins a hook.
LEMMA LineBegins ==
  ASSUME NEW f \in Feeds, FeedsOK, NEW n \in Nat, n + 1 \in DOMAIN f.screen, NEW m, NEW r, NEW q,
         Lines(f, n, m, r), PictureShape(r), Forwards(r, q),
         NEW kind \in HookKind, Begins(f.screen, n + 1, kind), r.screen_section = kind,
         \A a \in LineFields \ {"lines", "screen_hook"} : q[a] = r[a],
         q.lines = Append(r.lines, f.screen[n + 1]),
         NEW i, i = f.screen[n + 1].index, q.screen_hook = i,
         NewHook(r, q, kind, i), i \in DOMAIN q.hooks[kind],
         q.hooks[kind][i].desc = f.screen[n + 1].desc, q.hooks[kind][i].notes = <<>>,
         q.hooks[kind][i].file = IF i \in DOMAIN r.hooks[kind] THEN r.hooks[kind][i].file ELSE None,
         q.optdeps_for = None, q.in_names = FALSE
  PROVE  Lines(f, n + 1, m, q)
<1> DEFINE ev == f.screen[n + 1]
<1>1. /\ q.named = r.named /\ q.unknown = r.unknown /\ q.screen_section = r.screen_section
      /\ q.tx_started = r.tx_started /\ q.tx_completed = r.tx_completed
  BY DEF LineFields
<1>2. LinesRead(f, n + 1, q) /\ LogIs(f, m, q)
  BY <1>1, LinesFurther DEF Lines, LogIs
<1>3. ev.type = "Hook" /\ ev.type \notin Openings /\ ev.type \in Endings
  BY DEF Begins, Openings, Endings, HookKind
<1>4. SectionIs(f, n + 1, q)
  <2>1. SectionIs(f, n, q)
    BY <1>1, SectionStays DEF Lines
  <2> QED
    BY <1>3, <2>1, SectionFurther DEF SectionIs
<1>5. /\ i \in Nat /\ 1 <= i /\ i <= ev.total /\ ev.total = Len(f.facts[kind])
      /\ ev.desc = f.facts[kind][i].desc
  BY ZenonT(30), HookLineIs
<1>6. Len(f.facts[kind]) \in Nat /\ DOMAIN f.facts[kind] = 1..Len(f.facts[kind])
  BY ZenonT(30), FactsAre
<1>7. \A k \in HookKind : \A h \in 1..(n + 1) : InHook(f, n + 1, h, k) <=> h = n + 1 /\ k = kind
  <2>1. \A h \in 1..(n + 1) : h \in 1..n \/ h = n + 1
    OBVIOUS
  <2>2. \A k \in HookKind : \A h \in 1..n : ~InHook(f, n + 1, h, k) /\ h # n + 1
    BY <1>3, HookFurther
  <2>3. \A k \in HookKind : InHook(f, n + 1, n + 1, k) <=> k = kind
    <3>1. \A k \in HookKind : InSection(f.screen, n + 1, k) <=> r.screen_section = k
      BY DEF Lines, SectionIs
    <3>2. \A k \in HookKind : InHook(f, n + 1, n + 1, k) <=> InSection(f.screen, n + 1, k)
      BY ZenonT(30), <1>3, HookFurther DEF Begins
    <3> QED
      BY <3>1, <3>2
  <2> QED
    BY <2>1, <2>2, <2>3
<1>8. HookIs(f, n + 1, q)
  <2>1. Printed(f, n + 1, n + 1) = {}
    BY DEF Printed
  <2>2. Len(q.hooks[kind][i].notes) = Cardinality(Printed(f, n + 1, n + 1))
    BY <2>1, FS_EmptySet
  <2>3. n + 1 \in 1..(n + 1)
    OBVIOUS
  <2> QED
    BY ZenonT(30), <1>1, <1>5, <1>7, <2>2, <2>3 DEF HookIs
<1>9. HooksOwn(f, n + 1, q)
  <2> SUFFICES ASSUME NEW k \in HookKind, NEW j \in DOMAIN q.hooks[k]
               PROVE  /\ HookOwn(f, n + 1, k, j, q.hooks[k][j])
                      /\ q.hooks[k][j].file # None => j <= q.named[k]
    BY DEF HooksOwn
  <2>1. \A l \in DOMAIN r.hooks[k] :
           HookOwn(f, n, k, l, r.hooks[k][l]) /\ (r.hooks[k][l].file # None => l <= r.named[k])
    BY DEF Lines, HooksOwn
  <2>2. CASE k = kind /\ j = i
    <3>1. j \in DOMAIN f.facts[k]
      BY <1>5, <1>6, <2>2
    <3>2. q.hooks[k][j].file = None \/ q.hooks[k][j].file = f.facts[k][j].file
      BY ZenonT(30), <2>1, <2>2 DEF HookOwn
    <3>3. q.hooks[k][j].desc = f.facts[k][j].desc /\ q.hooks[k][j].notes = <<>>
      BY <1>5, <2>2
    <3>4. HookOwn(f, n + 1, k, j, q.hooks[k][j])
      BY <3>1, <3>2, <3>3, OwnEmpty
    <3> QED
      BY ZenonT(30), <1>1, <2>1, <2>2, <3>4
  <2>3. CASE (k # kind \/ j # i) /\ j \in DOMAIN r.hooks[k]
    <3>1. /\ q.hooks[k][j].file = r.hooks[k][j].file /\ q.hooks[k][j].desc = r.hooks[k][j].desc
          /\ q.hooks[k][j].notes = r.hooks[k][j].notes
      BY <2>3 DEF NewHook
    <3>2. n + 1 \in Nat /\ n <= n + 1
      OBVIOUS
    <3>3. HookOwn(f, n + 1, k, j, q.hooks[k][j])
      BY <2>1, <2>3, <3>1, <3>2, OwnStays
    <3> QED
      BY <1>1, <2>1, <2>3, <3>1, <3>3
  <2>4. CASE (k # kind \/ j # i) /\ j \notin DOMAIN r.hooks[k]
    <3>1. k = kind /\ j \in 1..i
      BY <2>4 DEF NewHook
    <3>2. q.hooks[k][j].file = NoHook.file /\ q.hooks[k][j].desc = NoHook.desc /\ q.hooks[k][j].notes = NoHook.notes
      BY <2>4 DEF NewHook
    <3>3. q.hooks[k][j].file = None /\ q.hooks[k][j].desc = None /\ q.hooks[k][j].notes = <<>>
      BY <3>2 DEF NoHook
    <3>4. j \in DOMAIN f.facts[k]
      BY <1>5, <1>6, <3>1
    <3> QED
      BY <3>3, <3>4, OwnEmpty
  <2> QED
    BY <2>2, <2>3, <2>4
<1>10. UnknownIs(f, n + 1, q)
  <2>1. \A l \in 1..n : l \in 1..(n + 1)
    OBVIOUS
  <2> QED
    BY <1>1, <2>1 DEF Lines, UnknownIs
<1>11. WordsKept(f, n + 1, q)
  <2>1. SameNotes(r, q)
    <3> SUFFICES ASSUME NEW k \in HookKind
                 PROVE  /\ DOMAIN r.hooks[k] \subseteq DOMAIN q.hooks[k]
                        /\ \A j \in DOMAIN r.hooks[k] : NotesOf(q, k, j) = NotesOf(r, k, j)
                        /\ \A j \in DOMAIN q.hooks[k] \ DOMAIN r.hooks[k] : NotesOf(q, k, j) = <<>>
      BY DEF SameNotes
    <3>1. DOMAIN r.hooks[k] \subseteq DOMAIN q.hooks[k]
      BY DEF NewHook
    <3>2. i \in DOMAIN r.hooks[kind] => r.hooks[kind][i].notes = <<>>
      <4>1. HooksOwn(f, n, r)
        BY DEF Lines
      <4>2. f.screen[n + 1].index \in DOMAIN r.hooks[kind] => r.hooks[kind][f.screen[n + 1].index].notes = <<>>
        BY ZenonT(30), <4>1, NothingYet
      <4> QED
        BY <4>2
    <3>3. \A j \in DOMAIN q.hooks[k] : k # kind \/ j # i =>
             q.hooks[k][j].notes = (IF j \in DOMAIN r.hooks[k] THEN r.hooks[k][j] ELSE NoHook).notes
      BY DEF NewHook
    <3>4. NoHook.notes = <<>>
      BY DEF NoHook
    <3> QED
      BY Zenon, <3>1, <3>2, <3>3, <3>4 DEF NotesOf
  <2>2. \A w : NotesWith(q, w) = NotesWith(r, w) /\ PlainWith(q, w) = PlainWith(r, w)
    BY <2>1, NotesStay
  <2>3. \A w : Cardinality(SaidWith(f, n + 1, w)) = Cardinality(SaidWith(f, n, w))
    BY ZenonT(30), <1>3, SaidFurther
  <2> QED
    BY Zenon, <1>1, <2>2, <2>3 DEF Lines, WordsKept, ListedWith
<1> QED
  BY <1>2, <1>4, <1>8, <1>9, <1>10, <1>11 DEF Lines

\* Nothing but the notes of one hook is told anew.
NotesOnly(r, q, kind, i) ==
  /\ OtherNotes(r, q, kind, i)
  /\ \A k \in HookKind : \A j \in DOMAIN r.hooks[k] :
        q.hooks[k][j].file = r.hooks[k][j].file /\ q.hooks[k][j].desc = r.hooks[k][j].desc

\* What n lines hold, the line after them is not among.
LEMMA UpTo ==
  ASSUME NEW n \in Nat
  PROVE  /\ \A j : j \in 1..(n + 1) <=> j \in 1..n \/ j = n + 1
         /\ n + 1 \notin 1..n /\ n + 1 \in 1..(n + 1) /\ n + 1 \in Nat /\ n <= n + 1
OBVIOUS

\* A hook with one line more of what pacman's printed.
PrintsMore(f, n, k, i, h, g, x) ==
  /\ HookOwn(f, n, k, i, h) /\ g.file = h.file /\ g.desc = h.desc /\ g.notes = Append(h.notes, x)
  /\ Len(h.notes) + 1 \in DOMAIN f.facts[k][i].prints
  /\ LET t == f.facts[k][i].prints[Len(h.notes) + 1]
     IN  x = [kind |-> hook_note_kind(t, h), text |-> t]
  /\ \E b \in 1..(n + 1) : Begins(f.screen, b, k) /\ f.screen[b].index = i

\* A hook that is pacman's and prints a line keeps it as the next of its notes.
LEMMA OwnPrints ==
  ASSUME NEW f \in Feeds, FeedsOK, NEW n \in Nat, NEW k \in HookKind, NEW i, NEW h, NEW g, NEW x,
         PrintsMore(f, n, k, i, h, g, x)
  PROVE  LET l == Len(h.notes)
         IN  /\ HookOwn(f, n + 1, k, i, g) /\ Len(g.notes) = l + 1
             /\ DOMAIN h.notes = 1..l /\ DOMAIN g.notes = 1..(l + 1)
             /\ \A j \in 1..l : g.notes[j] = h.notes[j]
             /\ g.notes[l + 1] = x
<1> DEFINE prints == f.facts[k][i].prints
           NoteOn(j) == [kind |-> hook_note_kind(prints[j], h), text |-> prints[j]]
           l == Len(h.notes)
<1>0. /\ HookOwn(f, n, k, i, h) /\ g.file = h.file /\ g.desc = h.desc /\ g.notes = Append(h.notes, x)
      /\ l + 1 \in DOMAIN prints /\ x = NoteOn(l + 1)
      /\ \E b \in 1..(n + 1) : Begins(f.screen, b, k) /\ f.screen[b].index = i
  BY DEF PrintsMore
<1>1. /\ l \in Nat /\ l <= Len(prints) /\ h.notes = [j \in 1..l |-> NoteOn(j)]
      /\ i \in DOMAIN f.facts[k]
      /\ h.file \in {None, f.facts[k][i].file} /\ h.desc \in {None, f.facts[k][i].desc}
  BY ZenonT(30), <1>0 DEF HookOwn
<1>2. Len(prints) \in Nat /\ l + 1 \in 1..Len(prints)
  BY ZenonT(30), <1>0, <1>1, FactsAre
<1>3. \A s : hook_note_kind(s, g) = hook_note_kind(s, h)
  BY Zenon, <1>0 DEF hook_note_kind
<1>4. g.notes = Append(h.notes, x) /\ x = NoteOn(l + 1)
  BY <1>0
<1> HIDE DEF NoteOn, l
<1>5. g.notes = [j \in 1..(l + 1) |-> NoteOn(j)]
  BY <1>1, <1>4
<1>6. Len(g.notes) = l + 1 /\ l + 1 \in Nat /\ l + 1 <= Len(prints)
  BY <1>1, <1>2, <1>5
<1>7. g.notes = [j \in 1..Len(g.notes) |-> [kind |-> hook_note_kind(prints[j], g), text |-> prints[j]]]
  BY <1>3, <1>5, <1>6 DEF NoteOn
<1>8. HookOwn(f, n + 1, k, i, g)
  BY Zenon, <1>0, <1>1, <1>6, <1>7 DEF HookOwn
<1>9. DOMAIN h.notes = 1..l /\ DOMAIN g.notes = 1..(l + 1)
  BY <1>1, <1>5
<1>10. l + 1 \in 1..(l + 1) /\ \A j \in 1..l : j \in 1..(l + 1)
  BY <1>1, UpTo
<1>11. \A j \in 1..l : g.notes[j] = h.notes[j]
  BY <1>1, <1>5, <1>10
<1>12. g.notes[l + 1] = x
  BY <1>4, <1>5, <1>10
<1> QED
  BY <1>6, <1>8, <1>9, <1>11, <1>12 DEF l

\* A line the hook on the screen printed, read as what it is.
LineOf(f, n, r, q, k, i, t, x) ==
  /\ i = r.screen_hook /\ t = f.screen[n + 1].text
  /\ x = [kind |-> hook_note_kind(t, r.hooks[k][i]), text |-> t]
  /\ \A a \in LineFields \ {"lines", "unknown"} : q[a] = r[a]
  /\ q.lines = Append(r.lines, f.screen[n + 1])
  /\ NotesOnly(r, q, k, i) /\ q.hooks[k][i].notes = Append(r.hooks[k][i].notes, x)
  /\ q.unknown = IF x.kind = "Plain" THEN r.unknown \cup {[text |-> t, at |-> n + 1]} ELSE r.unknown
  /\ q.optdeps_for = None /\ q.in_names = FALSE

\* A line that a hook prints.
LEMMA LineHooked ==
  ASSUME NEW f \in Feeds, FeedsOK, NEW n \in Nat, n + 1 \in DOMAIN f.screen, NEW m, NEW r, NEW q,
         Lines(f, n, m, r), PictureShape(r), Forwards(r, q),
         NEW k \in HookKind, NEW h \in 1..n, InHook(f, n, h, k),
         Prints(f.screen[n + 1]), NEW i, NEW t, NEW x, LineOf(f, n, r, q, k, i, t, x)
  PROVE  Lines(f, n + 1, m, q)
<1> DEFINE ev == f.screen[n + 1]
           u0 == [text |-> t, at |-> n + 1]
           l == Len(r.hooks[k][i].notes)
<1>0. /\ \A j : j \in 1..(n + 1) <=> j \in 1..n \/ j = n + 1
      /\ n + 1 \notin 1..n /\ n + 1 \in 1..(n + 1) /\ n + 1 \in Nat /\ n <= n + 1
  BY UpTo
<1>1. /\ q.named = r.named /\ q.screen_section = r.screen_section /\ q.screen_hook = r.screen_hook
      /\ q.tx_started = r.tx_started /\ q.tx_completed = r.tx_completed
      /\ q.lines = Append(r.lines, f.screen[n + 1])
      /\ i = r.screen_hook /\ t = ev.text
      /\ x.text = t /\ x = [kind |-> hook_note_kind(t, r.hooks[k][i]), text |-> t]
      /\ q.hooks[k][i].notes = Append(r.hooks[k][i].notes, x)
      /\ NotesOnly(r, q, k, i) /\ q.optdeps_for = None /\ q.in_names = FALSE
  BY ZenonT(30) DEF LineFields, LineOf
<1>2. LinesRead(f, n + 1, q) /\ LogIs(f, m, q)
  BY ZenonT(30), <1>1, LinesFurther DEF Lines, LogIs
<1>3. ev.type \in {"Other", "Db"} /\ ev.type \notin Openings /\ ev.type \notin Endings
  BY DEF Prints, Openings, Endings, HookKind
<1>4. SectionIs(f, n + 1, q)
  <2>1. SectionIs(f, n, q)
    BY Zenon, <1>1, SectionStays DEF Lines
  <2> QED
    BY <1>3, <2>1, SectionFurther DEF SectionIs
<1>5. \A kk \in HookKind : \A g \in 1..(n + 1) :
         InHook(f, n + 1, g, kk) => g \in 1..n /\ InHook(f, n, g, kk)
  <2>1. \A g \in 1..(n + 1) : g \in 1..n \/ g = n + 1
    BY <1>0
  <2>2. \A kk \in HookKind : ~InHook(f, n + 1, n + 1, kk)
    BY <1>3, HookFurther DEF Begins, Endings
  <2>3. \A kk \in HookKind : \A g \in 1..n : InHook(f, n + 1, g, kk) => InHook(f, n, g, kk)
    BY HookFurther
  <2> QED
    BY <2>1, <2>2, <2>3
<1>6. InHook(f, n + 1, h, k)
  BY Zenon, <1>3, HookFurther
<1>7. HookIs(f, n, r)
  BY DEF Lines
<1>8. /\ r.screen_section = k /\ i = f.screen[h].index /\ i \in DOMAIN r.hooks[k]
      /\ l = Cardinality(Printed(f, h, n))
  BY Zenon, <1>1, <1>7 DEF HookIs
<1>9. \A kk \in HookKind : \A g \in 1..n : InHook(f, n, g, kk) =>
         kk = k /\ Cardinality(Printed(f, g, n)) = l /\ f.screen[g].index = i
  BY <1>7, <1>8 DEF HookIs
<1>10. l \in Nat /\ l + 1 = Cardinality(Printed(f, h, n + 1))
  BY <1>8, PrintedFurther
<1>11. l + 1 \in DOMAIN f.facts[k][i].prints /\ t = f.facts[k][i].prints[l + 1]
  <2>1. Cardinality(Printed(f, h, n + 1)) \in DOMAIN f.facts[k][f.screen[h].index].prints
        /\ ev.text = f.facts[k][f.screen[h].index].prints[Cardinality(Printed(f, h, n + 1))]
    BY <1>6, InAHook
  <2> QED
    BY ZenonT(30), <1>1, <1>8, <1>10, <2>1
<1>12. /\ DOMAIN q.hooks[k] = DOMAIN r.hooks[k]
       /\ q.hooks[k][i].file = r.hooks[k][i].file /\ q.hooks[k][i].desc = r.hooks[k][i].desc
  BY ZenonT(30), <1>1, <1>8 DEF NotesOnly, OtherNotes
<1>13. /\ HookOwn(f, n + 1, k, i, q.hooks[k][i]) /\ Len(q.hooks[k][i].notes) = l + 1
       /\ DOMAIN r.hooks[k][i].notes = 1..l /\ DOMAIN q.hooks[k][i].notes = 1..(l + 1)
       /\ \A j \in 1..l : q.hooks[k][i].notes[j] = r.hooks[k][i].notes[j]
       /\ q.hooks[k][i].notes[l + 1] = x
  <2>1. HookOwn(f, n, k, i, r.hooks[k][i])
    BY <1>8 DEF Lines, HooksOwn
  <2>2. h \in 1..(n + 1) /\ Begins(f.screen, h, k)
    BY <1>0 DEF InHook
  <2> DEFINE a == r.hooks[k][i] b == q.hooks[k][i]
  <2>3. /\ HookOwn(f, n, k, i, a) /\ b.file = a.file /\ b.desc = a.desc /\ l = Len(a.notes)
        /\ b.notes = Append(a.notes, x)
        /\ x = [kind |-> hook_note_kind(t, a), text |-> t]
    BY ZenonT(30), <1>1, <1>12, <2>1
  <2> HIDE DEF a, b
  <2>4. \E g \in 1..(n + 1) : Begins(f.screen, g, k) /\ f.screen[g].index = i
    BY <1>8, <2>2
  <2>5. PrintsMore(f, n, k, i, a, b, x)
    BY ZenonT(30), <1>11, <2>3, <2>4 DEF PrintsMore
  <2> HIDE DEF l
  <2>6. /\ HookOwn(f, n + 1, k, i, b) /\ Len(b.notes) = Len(a.notes) + 1
        /\ DOMAIN a.notes = 1..Len(a.notes) /\ DOMAIN b.notes = 1..(Len(a.notes) + 1)
        /\ \A j \in 1..Len(a.notes) : b.notes[j] = a.notes[j]
        /\ b.notes[Len(a.notes) + 1] = x
    BY <2>5, OwnPrints
  <2> QED
    BY ZenonT(30), <2>3, <2>6 DEF a, b
<1> HIDE DEF l
<1>14. HookIs(f, n + 1, q)
  <2>1. h \in 1..(n + 1)
    BY <1>0
  <2>2. \A kk \in HookKind : \A g \in 1..(n + 1) : InHook(f, n + 1, g, kk) =>
           kk = k /\ Cardinality(Printed(f, g, n + 1)) = l + 1 /\ f.screen[g].index = i
    <3> SUFFICES ASSUME NEW kk \in HookKind, NEW g \in 1..(n + 1), InHook(f, n + 1, g, kk)
                 PROVE  kk = k /\ Cardinality(Printed(f, g, n + 1)) = l + 1 /\ f.screen[g].index = i
      OBVIOUS
    <3>1. g \in 1..n /\ InHook(f, n, g, kk)
      BY <1>5
    <3>2. kk = k /\ Cardinality(Printed(f, g, n)) = l /\ f.screen[g].index = i
      BY <1>9, <3>1
    <3> QED
      BY <3>1, <3>2, PrintedFurther
  <2> QED
    BY Zenon, <1>1, <1>6, <1>7, <1>8, <1>12, <1>13, <2>1, <2>2 DEF HookIs
<1>15. HooksOwn(f, n + 1, q)
  <2> SUFFICES ASSUME NEW kk \in HookKind, NEW j \in DOMAIN q.hooks[kk]
               PROVE  /\ HookOwn(f, n + 1, kk, j, q.hooks[kk][j])
                      /\ q.hooks[kk][j].file # None => j <= q.named[kk]
    BY DEF HooksOwn
  <2>1. /\ j \in DOMAIN r.hooks[kk]
        /\ q.hooks[kk][j].file = r.hooks[kk][j].file /\ q.hooks[kk][j].desc = r.hooks[kk][j].desc
    BY ZenonT(30), <1>1 DEF NotesOnly, OtherNotes
  <2>2. HookOwn(f, n, kk, j, r.hooks[kk][j]) /\ (r.hooks[kk][j].file # None => j <= r.named[kk])
    BY <2>1 DEF Lines, HooksOwn
  <2>3. CASE kk = k /\ j = i
    BY ZenonT(30), <1>1, <1>13, <2>1, <2>2, <2>3
  <2>4. CASE kk # k \/ j # i
    <3>1. q.hooks[kk][j].notes = r.hooks[kk][j].notes
      BY Zenon, <1>1, <2>1, <2>4 DEF NotesOnly, OtherNotes, NotesOf
    <3>2. n + 1 \in Nat /\ n <= n + 1
      BY <1>0
    <3>3. HookOwn(f, n + 1, kk, j, q.hooks[kk][j])
      BY <2>1, <2>2, <3>1, <3>2, OwnStays
    <3> QED
      BY ZenonT(30), <1>1, <2>1, <2>2, <3>3
  <2> QED
    BY <2>3, <2>4
<1>16. IsFiniteSet(r.unknown) /\ \A u \in r.unknown : u.at \in 1..n
  BY DEF Lines, UnknownIs
<1>17. u0.at = n + 1 /\ u0.text = t
  OBVIOUS
<1>18. q.unknown = IF x.kind = "Plain" THEN r.unknown \cup {u0} ELSE r.unknown
  BY ZenonT(30) DEF LineOf
<1>19. u0 = [text |-> f.screen[u0.at].text, at |-> u0.at]
  BY Zenon, <1>1
<1> HIDE DEF u0
<1>20. u0 \notin r.unknown
  BY <1>0, <1>16, <1>17
<1>21. UnknownIs(f, n + 1, q)
  <2>1. \A j \in 1..n : j \in 1..(n + 1)
    BY <1>0
  <2>2. n + 1 \in 1..(n + 1)
    BY <1>0
  <2>3. IsFiniteSet(r.unknown \cup {u0})
    BY <1>16, FS_AddElement
  <2>4. IsFiniteSet(q.unknown)
    BY <1>16, <1>18, <2>3
  <2>5. ASSUME NEW u \in q.unknown
        PROVE  /\ u.at \in 1..(n + 1) /\ f.screen[u.at].type \in {"Other", "Db"}
               /\ u = [text |-> f.screen[u.at].text, at |-> u.at]
    <3>1. CASE u = u0
      BY <1>3, <1>17, <1>19, <2>2, <3>1
    <3>2. CASE u # u0
      <4>1. u \in r.unknown
        BY <1>18, <3>2
      <4> QED
        BY <2>1, <4>1 DEF Lines, UnknownIs
    <3> QED
      BY <3>1, <3>2
  <2> QED
    BY <2>4, <2>5 DEF UnknownIs
<1>22. x.text = t
  BY Zenon, <1>1
<1>23. WordsKept(f, n + 1, q)
  <2> SUFFICES ASSUME NEW w \in f.facts.words
               PROVE  /\ IsFiniteSet(NotesWith(q, w))
                      /\ Cardinality(SaidWith(f, n + 1, w)) = Cardinality(NotesWith(q, w))
                      /\ Cardinality(ListedWith(q, w)) = Cardinality(PlainWith(q, w))
    BY DEF WordsKept
  <2> DEFINE at == <<k, i, l + 1>>
  <2>1. /\ IsFiniteSet(NotesWith(r, w))
        /\ Cardinality(SaidWith(f, n, w)) = Cardinality(NotesWith(r, w))
        /\ Cardinality(ListedWith(r, w)) = Cardinality(PlainWith(r, w))
    BY DEF Lines, WordsKept
  <2>2. /\ at \notin NotesWith(r, w)
        /\ NotesWith(q, w) = IF x.text.word = w THEN NotesWith(r, w) \cup {at} ELSE NotesWith(r, w)
        /\ PlainWith(q, w) = IF x.text.word = w /\ x.kind = "Plain"
                             THEN PlainWith(r, w) \cup {at} ELSE PlainWith(r, w)
    <3>1. /\ DOMAIN NotesOf(r, k, i) = 1..l /\ DOMAIN NotesOf(q, k, i) = 1..(l + 1)
          /\ \A j \in 1..l : NotesOf(q, k, i)[j] = NotesOf(r, k, i)[j]
          /\ NotesOf(q, k, i)[l + 1] = x
      BY <1>13 DEF NotesOf
    <3>2. OtherNotes(r, q, k, i)
      BY Zenon, <1>1 DEF NotesOnly
    <3>3. l \in Nat /\ i \in DOMAIN r.hooks[k]
      BY <1>8, <1>10
    <3>4. MoreNotes(r, q, k, i, l)
      BY <3>1, <3>2, <3>3 DEF MoreNotes
    <3> DEFINE y == NotesOf(q, k, i)[l + 1]
    <3>5. /\ at \notin NotesWith(r, w)
          /\ NotesWith(q, w) = IF y.text.word = w THEN NotesWith(r, w) \cup {at} ELSE NotesWith(r, w)
          /\ PlainWith(q, w) = IF y.text.word = w /\ y.kind = "Plain"
                               THEN PlainWith(r, w) \cup {at} ELSE PlainWith(r, w)
      BY <3>4, NoteAdded
    <3> QED
      BY <3>1, <3>5
  <2> HIDE DEF at
  <2>3. PlainWith(r, w) \in SUBSET NotesWith(r, w)
    BY PlainIsNote
  <2>4. IsFiniteSet(PlainWith(r, w)) /\ at \notin PlainWith(r, w)
    BY <2>1, <2>2, <2>3, FS_Subset
  <2>5. ListedWith(r, w) \in SUBSET r.unknown
    BY DEF ListedWith
  <2>6. IsFiniteSet(ListedWith(r, w)) /\ u0 \notin ListedWith(r, w)
    BY <1>16, <1>20, <2>5, FS_Subset
  <2>7. Cardinality(SaidWith(f, n + 1, w)) =
           IF t.word = w THEN Cardinality(SaidWith(f, n, w)) + 1 ELSE Cardinality(SaidWith(f, n, w))
    <3>1. ev.type \in {"Other", "Db"} /\ ev.text = t
      BY Zenon, <1>1, <1>3
    <3> QED
      BY <3>1, SaidFurther
  <2>8. CASE t.word # w
    <3>1. NotesWith(q, w) = NotesWith(r, w) /\ PlainWith(q, w) = PlainWith(r, w)
      BY <1>22, <2>2, <2>8
    <3>2. ListedWith(q, w) = ListedWith(r, w)
      BY <1>17, <1>18, <2>8 DEF ListedWith
    <3> QED
      BY <2>1, <2>7, <2>8, <3>1, <3>2
  <2>9. CASE t.word = w
    <3>1. NotesWith(q, w) = NotesWith(r, w) \cup {at}
      BY <1>22, <2>2, <2>9
    <3>2. /\ IsFiniteSet(NotesWith(q, w))
          /\ Cardinality(NotesWith(q, w)) = Cardinality(NotesWith(r, w)) + 1
      BY <2>1, <2>2, <3>1, OneMore
    <3>3. CASE x.kind = "Plain"
      <4>1. PlainWith(q, w) = PlainWith(r, w) \cup {at}
        BY <1>22, <2>2, <2>9, <3>3
      <4>2. ListedWith(q, w) = ListedWith(r, w) \cup {u0}
        BY <1>17, <1>18, <2>9, <3>3 DEF ListedWith
      <4>3. Cardinality(PlainWith(q, w)) = Cardinality(PlainWith(r, w)) + 1
        BY <2>4, <4>1, OneMore
      <4>4. Cardinality(ListedWith(q, w)) = Cardinality(ListedWith(r, w)) + 1
        BY <2>6, <4>2, OneMore
      <4> QED
        BY <2>1, <2>7, <2>9, <3>2, <4>3, <4>4
    <3>4. CASE x.kind # "Plain"
      <4>1. PlainWith(q, w) = PlainWith(r, w)
        BY <2>2, <3>4
      <4>2. ListedWith(q, w) = ListedWith(r, w)
        BY <1>18, <3>4 DEF ListedWith
      <4> QED
        BY <2>1, <2>7, <2>9, <3>2, <4>1, <4>2
    <3> QED
      BY <3>3, <3>4
  <2> QED
    BY <2>8, <2>9
<1> QED
  BY <1>2, <1>4, <1>14, <1>15, <1>21, <1>23 DEF Lines

\* While the databases are read, or the packages, no hook prints.
LEMMA NoHookYet ==
  ASSUME NEW f, NEW n, NEW m, NEW r, Lines(f, n, m, r), PictureShape(r), Ordered(r),
         current(r) \in {"Sync", "Download"}
  PROVE  ~\E k \in HookKind : \E h \in 1..n : InHook(f, n, h, k)
<1> SUFFICES ASSUME NEW k \in HookKind, NEW h \in 1..n, InHook(f, n, h, k) PROVE FALSE
  OBVIOUS
<1> DEFINE running == {i \in DOMAIN PHASES : r.phases[PHASES[i]].state = "Running"}
<1>1. DOMAIN PHASES = 1..7 /\ Len(PHASES) = 7
  BY Kinds
<1>2. current(r) = IF running = {} THEN None ELSE PHASES[CHOOSE i \in running : \A j \in running : j <= i]
  BY DEF current
<1>3. running # {}
  BY <1>2 DEF None
<1>4. PICK c \in running : TRUE
  BY <1>3
<1>5. \A i, j \in running : i = j
  <2>1. \A i, j \in 1..7 : i < j /\ Place(r, PHASES[j]) # "Pending" => Place(r, PHASES[i]) # "Running"
    BY <1>1 DEF Ordered
  <2> QED
    BY <1>1, <2>1 DEF Place
<1>6. (CHOOSE i \in running : \A j \in running : j <= i) = c
  BY <1>1, <1>4, <1>5
<1>7. PHASES[c] \in {"Sync", "Download"} /\ c \in 1..7
  BY Zenon, <1>1, <1>2, <1>3, <1>6
<1>8. c < 5
  BY <1>7 DEF PHASES
<1>9. PICK j \in idx(k)..Len(PHASES) : Place(r, PHASES[j]) # "Pending"
  BY DEF Lines, HookIs, SectionIs
<1>10. idx(k) \in 1..7 /\ PHASES[idx(k)] = k
  BY Kinds, Places
<1>11. idx(k) >= 5
  BY <1>10 DEF PHASES, HookKind
<1>12. j \in DOMAIN PHASES /\ c < j
  BY <1>1, <1>7, <1>8, <1>9, <1>10, <1>11
<1>13. Place(r, PHASES[c]) # "Running"
  BY <1>1, <1>7, <1>9, <1>12 DEF Ordered
<1> QED
  BY <1>13 DEF Place

\* What a line no classifier knew does to the picture.
LinesApart(r, q) == (\A a \in LineFields \ {"unknown"} : q[a] = r[a])
                 /\ q.optdeps_for = None /\ q.in_names = FALSE
\* Whether the screen is in a hook of the picture, and a line noted there.
Hooked(r) == r.screen_section \in HookKind /\ r.screen_hook \in DOMAIN r.hooks[r.screen_section]
NotedAs(r, q, t) ==
  LET k == r.screen_section i == r.screen_hook
      x == [kind |-> hook_note_kind(t, r.hooks[k][i]), text |-> t]
  IN  /\ NotesOnly(r, q, k, i) /\ q.hooks[k][i].notes = Append(r.hooks[k][i].notes, x)
      /\ q.unknown = IF x.kind = "Plain"
                     THEN r.unknown \cup {[text |-> t, at |-> Len(r.lines)]} ELSE r.unknown

\* What a line no classifier knew does to the lines.
LEMMA OtherSays ==
  ASSUME NEW r, PictureShape(r), r.screen_section \in HookKind \cup {None}, r.screen_hook \in Nat, NEW t
  PROVE  LET q == other(r, t)
         IN  \/ (r.optdeps_for # None \/ r.in_names # FALSE) /\ Silent(r, q)
             \/ /\ t.means = "quiet" \/ current(r) = "Download"
                /\ Silent(r, q) /\ LinesApart(r, q)
             \/ /\ ~Hooked(r) /\ LinesApart(r, q) /\ q.hooks = r.hooks
                /\ q.unknown = r.unknown \cup {[text |-> t, at |-> Len(r.lines)]}
             \/ Hooked(r) /\ t.means # "quiet" /\ LinesApart(r, q) /\ NotedAs(r, q, t)
<1> DEFINE kind == r.screen_section
           i == r.screen_hook
           shut == [r EXCEPT !.optdeps_for = None]
           told == [shut EXCEPT !.in_names = FALSE]
           dependency == r.optdeps_for # None /\ t.indented
           listed == r.in_names /\ (t.means = "names" \/ t.word = "")
           quiet == t.means = "quiet" \/ download_row(told, t)
           hooked == kind # None /\ i \in 1..Len(r.hooks[kind])
           k == hook_note_kind(t, r.hooks[kind][i])
           noted == [told EXCEPT !.hooks[kind][i].notes = Append(@, [kind |-> k, text |-> t])]
           q == other(r, t)
<1>1. /\ dependency => q = note(r, "Optdepends", t)
      /\ ~dependency /\ listed => q = add_names(shut, t.names)
      /\ ~dependency /\ ~listed /\ quiet => q = told
      /\ ~dependency /\ ~listed /\ ~quiet /\ ~hooked => q = unknown_line(told, t)
      /\ ~dependency /\ ~listed /\ ~quiet /\ hooked =>
            q = IF k = "Plain" THEN unknown_line(noted, t) ELSE noted
  BY DEF other
<1>2. DOMAIN r = DOMAIN New /\ {"optdeps_for", "in_names", "hooks", "unknown", "phases", "lines"} \subseteq DOMAIN New
  BY DEF PictureShape, New
<1>3. /\ DOMAIN shut = DOMAIN New /\ \A a \in DOMAIN New \ {"optdeps_for"} : shut[a] = r[a]
  BY <1>2
<1> HIDE DEF shut
<1>4. /\ DOMAIN told = DOMAIN New /\ told.optdeps_for = None /\ told.in_names = FALSE
      /\ \A a \in DOMAIN New \ {"optdeps_for", "in_names"} : told[a] = r[a]
  <2>1. shut.optdeps_for = None
    BY <1>2 DEF shut
  <2> QED
    BY <1>2, <1>3, <2>1
<1>5. /\ LineFields \cup {"hooks", "phases"} \subseteq DOMAIN New \ {"optdeps_for", "in_names"}
      /\ {"hooks", "phases"} \cap LineFields = {}
  BY DEF LineFields, New
<1>6. \A x : Silent(r, x) <=> (\A a \in LineFields : x[a] = r[a]) /\ HooksAlike(r.hooks, x.hooks)
  BY DEF Silent
<1>7. HooksAlike(r.hooks, r.hooks)
  BY DEF HooksAlike
<1>8. Silent(r, told) /\ LinesApart(r, told) /\ told.hooks = r.hooks /\ told.unknown = r.unknown
      /\ told.lines = r.lines /\ current(told) = current(r)
  <2>1. told.phases = r.phases /\ told.hooks = r.hooks /\ \A a \in LineFields : told[a] = r[a]
    BY <1>4, <1>5
  <2>2. "unknown" \in LineFields /\ "lines" \in LineFields
    BY DEF LineFields
  <2> HIDE DEF told
  <2>3. current(told) = current(r)
    BY <2>1 DEF current
  <2> QED
    BY <1>4, <1>6, <1>7, <2>1, <2>2, <2>3 DEF LinesApart
<1>9. hooked <=> Hooked(r)
  <2>1. \A kk \in HookKind : DOMAIN r.hooks[kk] = 1..Len(r.hooks[kk])
    BY ListsAre DEF ListShape
  <2>2. None \notin HookKind
    BY DEF HookKind, None
  <2> QED
    BY <2>1, <2>2 DEF Hooked
<1> HIDE DEF told, q
<1>10. CASE dependency
  <2>1. q = note(r, "Optdepends", t)
    BY Zenon, <1>1, <1>10
  <2>2. Idle(r, q)
    BY <1>2, <2>1, FieldsThere DEF Idle, note
  <2>3. Silent(r, q)
    BY <2>2, IdleIsSilent
  <2> QED
    BY Zenon, <1>10, <2>3 DEF q
<1>11. CASE ~dependency /\ listed
  <2>1. q = add_names(shut, t.names)
    BY <1>1, <1>11
  <2>2. /\ \A a \in LineFields \cup {"hooks"} : q[a] = shut[a]
    BY <1>3, <2>1, FieldsThere DEF add_names, Beyond, LineFields
  <2>3. \A a \in LineFields \cup {"hooks"} : q[a] = r[a]
    BY <1>3, <1>5, <2>2
  <2>4. Silent(r, q)
    BY <1>6, <1>7, <2>3
  <2> QED
    BY <1>11, <2>4 DEF q
<1>12. CASE ~dependency /\ ~listed /\ quiet
  <2>1. q = told
    BY Zenon, <1>1, <1>12
  <2>2. t.means = "quiet" \/ current(r) = "Download"
    BY <1>8, <1>12 DEF download_row
  <2> QED
    BY Zenon, <1>8, <2>1, <2>2 DEF q
<1>13. CASE ~dependency /\ ~listed /\ ~quiet /\ ~hooked
  <2>1. q = unknown_line(told, t)
    BY Zenon, <1>1, <1>13
  <2>2. /\ \A a \in DOMAIN New \ {"unknown"} : q[a] = told[a]
        /\ q.unknown = told.unknown \cup {[text |-> t, at |-> Len(told.lines)]}
    BY <1>2, <1>4, <2>1 DEF unknown_line
  <2>3. q.hooks = r.hooks /\ LinesApart(r, q)
    <3>1. LineFields \ {"unknown"} \subseteq DOMAIN New \ {"unknown"}
          /\ {"hooks", "optdeps_for", "in_names"} \subseteq DOMAIN New \ {"unknown"}
      BY DEF LineFields, New
    <3> QED
      BY <1>8, <2>2, <3>1 DEF LinesApart
  <2> QED
    BY Zenon, <1>8, <1>9, <1>13, <2>2, <2>3 DEF q
<1>14. CASE ~dependency /\ ~listed /\ ~quiet /\ hooked
  <2>1. q = IF k = "Plain" THEN unknown_line(noted, t) ELSE noted
    BY Zenon, <1>1, <1>14
  <2>2. kind \in HookKind /\ i \in DOMAIN r.hooks[kind]
    BY <1>9, <1>14 DEF Hooked
  <2> DEFINE x == [kind |-> k, text |-> t]
             list == [r.hooks[kind] EXCEPT ![i].notes = Append(@, x)]
             h == r.hooks[kind][i]
  <2>3. /\ DOMAIN noted = DOMAIN New /\ \A a \in DOMAIN New \ {"hooks"} : noted[a] = told[a]
        /\ noted.hooks = [r.hooks EXCEPT ![kind] = list]
    BY <1>2, <1>4, <1>8
  <2> HIDE DEF noted
  <2>4. ListShape(r.hooks[kind]) /\ DOMAIN r.hooks = HookKind
    BY <2>2, ListsAre
  <2>5. DOMAIN h = {"desc", "file", "started", "ended", "notes"}
    BY <2>2, <2>4 DEF ListShape, HookShape
  <2> DEFINE more == [h EXCEPT !.notes = Append(h.notes, x)]
  <2>6. /\ DOMAIN list = DOMAIN r.hooks[kind] /\ list[i] = more
        /\ \A j \in DOMAIN r.hooks[kind] \ {i} : list[j] = r.hooks[kind][j]
    BY <2>2
  <2> HIDE DEF x, h
  <2>15. more.notes = Append(h.notes, x) /\ more.file = h.file /\ more.desc = h.desc
    BY <2>5
  <2> HIDE DEF more
  <2>7. list[i].notes = Append(h.notes, x) /\ list[i].file = h.file /\ list[i].desc = h.desc
    BY Zenon, <2>6, <2>15
  <2> USE DEF h
  <2> HIDE DEF list
  <2>8. noted.hooks[kind] = list /\ \A kk \in HookKind \ {kind} : noted.hooks[kk] = r.hooks[kk]
    BY <2>2, <2>3, <2>4
  <2>9. q.hooks = noted.hooks /\ (\A a \in DOMAIN New \ {"hooks", "unknown"} : q[a] = told[a])
        /\ q.unknown = IF k = "Plain" THEN told.unknown \cup {[text |-> t, at |-> Len(told.lines)]}
                       ELSE told.unknown
    <3>1. noted.unknown = told.unknown /\ noted.lines = told.lines
      BY <1>2, <2>3
    <3>2. CASE k = "Plain"
      <4>1. q = [noted EXCEPT !.unknown = @ \cup {[text |-> t, at |-> Len(noted.lines)]}]
        BY <2>1, <3>2 DEF unknown_line
      <4> QED
        BY <1>2, <2>3, <3>1, <3>2, <4>1
    <3>3. CASE k # "Plain"
      BY <1>2, <2>1, <2>3, <3>1, <3>3
    <3> QED
      BY <3>2, <3>3
  <2>10. LinesApart(r, q)
    <3>1. (LineFields \ {"unknown"}) \cup {"optdeps_for", "in_names"} \subseteq DOMAIN New \ {"hooks", "unknown"}
      BY DEF LineFields, New
    <3> QED
      BY <1>8, <2>9, <3>1 DEF LinesApart
  <2>11. NotesOnly(r, q, kind, i) /\ q.hooks[kind][i].notes = Append(r.hooks[kind][i].notes, x)
    <3>1. OtherNotes(r, q, kind, i)
      BY <2>6, <2>8, <2>9 DEF OtherNotes, NotesOf
    <3>2. \A kk \in HookKind : \A j \in DOMAIN r.hooks[kk] :
             q.hooks[kk][j].file = r.hooks[kk][j].file /\ q.hooks[kk][j].desc = r.hooks[kk][j].desc
      BY <2>6, <2>7, <2>8, <2>9
    <3> QED
      BY ZenonT(30), <2>7, <2>8, <2>9, <3>1, <3>2 DEF NotesOnly
  <2>12. x.kind = k
    BY DEF x
  <2>13. NotedAs(r, q, t)
    BY Zenon, <1>8, <2>9, <2>11, <2>12 DEF NotedAs, x
  <2> QED
    BY Zenon, <1>9, <1>14, <2>10, <2>13 DEF q
<1> QED
  BY <1>10, <1>11, <1>12, <1>13, <1>14

-----------------------------------------------------------------------------
(* A settled line.                                                         *)

\* The run with one line more of its screen, that was not looked at yet.
Arrived(f, n, r, e) ==
  /\ DOMAIN e = DOMAIN New /\ e.lines = Append(r.lines, f.screen[n + 1])
  /\ \A a \in DOMAIN New \ {"lines"} : e[a] = r[a]

\* A line that arrived is appended before it is looked at.
LEMMA ArrivedIs ==
  ASSUME NEW f, NEW n \in Nat, NEW m, NEW r, PictureShape(r), Lines(f, n, m, r), NEW e, Arrived(f, n, r, e)
  PROVE  /\ PictureShape(e) /\ current(e) = current(r) /\ Len(e.lines) = n + 1
         /\ \A a \in (Beyond \ {"lines"}) : e[a] = r[a]
<1>1. /\ {"lines", "phases"} \subseteq DOMAIN New /\ Beyond \subseteq DOMAIN New
      /\ Relevant \cup {"hooks", "named"} \subseteq DOMAIN New \ {"lines"}
  BY FieldsThere DEF New, Relevant
<1>2. \A a \in Relevant \cup {"hooks", "named"} : e[a] = r[a]
  BY <1>1 DEF Arrived
<1>3. Alike(r, e)
  BY <1>2, FieldsAside DEF Arrived
<1>4. PictureShape(e)
  BY <1>3, AlikeShape
<1>5. current(e) = current(r)
  <2>1. e.phases = r.phases
    BY <1>2 DEF Relevant
  <2> QED
    BY <2>1 DEF current
<1>6. LinesRead(f, n, r)
  BY DEF Lines
<1>7. Len(e.lines) = n + 1
  BY <1>6, LinesFurther DEF Arrived
<1> QED
  BY <1>1, <1>4, <1>5, <1>7 DEF Arrived

\* Only the line that begins a hook can be the first of its lines.
LEMMA HookFromBefore ==
  ASSUME NEW f, NEW n \in Nat, f.screen[n + 1].type # "Hook", NEW k \in HookKind,
         NEW h \in 1..(n + 1), InHook(f, n + 1, h, k)
  PROVE  h \in 1..n /\ InHook(f, n, h, k)
<1>1. h \in 1..n \/ h = n + 1
  OBVIOUS
<1>2. ~InHook(f, n + 1, n + 1, k)
  BY HookFurther DEF Begins
<1> QED
  BY <1>1, <1>2, HookFurther

\* A line that speaks of no hook.
LEMMA LineSilent ==
  ASSUME NEW f \in Feeds, FeedsOK, NEW n \in Nat, n + 1 \in DOMAIN f.screen, NEW m, NEW r, NEW e,
         Lines(f, n, m, r), PictureShape(r), Ordered(r), Arrived(f, n, r, e),
         f.screen[n + 1].type \in {"SyncStart", "UpgradeStart", "NothingToDo", "RetrieveStart",
                      "Warning", "Error", "Pacnew", "Db", "PlanHeader", "PlanNames", "PlanRow", "PlanTotal", "Prompt",
                      "DownloadTotal", "Check", "Optdepends", "Package"},
         f.screen[n + 1].type = "Db" => current(r) = "Sync",
         Forwards(r, apply_screen(e, f.screen[n + 1]))
  PROVE  Lines(f, n + 1, m, apply_screen(e, f.screen[n + 1]))
<1> DEFINE ev == f.screen[n + 1]
           q == apply_screen(e, f.screen[n + 1])
<1>1. /\ PictureShape(e) /\ \A a \in Beyond \ {"lines"} : e[a] = r[a]
  BY ArrivedIs
<1>2. /\ Silent(e, q) /\ (ev.type # "Optdepends" => q.optdeps_for = None)
      /\ q.in_names = (ev.type = "PlanNames")
  BY <1>1, ScreenIsSilent
<1> HIDE DEF q
<1>3. /\ \A a \in LineFields \ {"lines", "unknown"} : q[a] = r[a]
      /\ q.unknown = r.unknown /\ q.lines = Append(r.lines, ev) /\ HooksAlike(r.hooks, q.hooks)
  <2>1. LineFields \cup {"hooks"} \subseteq Beyond /\ "hooks" # "lines" /\ "unknown" # "lines"
        /\ {"unknown", "lines"} \subseteq LineFields
    BY DEF Beyond, LineFields
  <2> QED
    BY <1>1, <1>2, <2>1 DEF Silent, Arrived
<1>4. NoListOpen(f, n + 1, q)
  <2> SUFFICES ASSUME NEW k \in HookKind, NEW h \in 1..(n + 1), InHook(f, n + 1, h, k)
               PROVE  q.optdeps_for = None /\ q.in_names = FALSE
    BY DEF NoListOpen
  <2>1. h \in 1..n
    BY HookFromBefore
  <2>2. ev.type \notin {"PlanNames", "Optdepends"}
    BY <2>1, InAHook
  <2> QED
    BY <1>2, <2>2
<1>5. Prints(ev) => ~\E k \in HookKind : \E h \in 1..n : InHook(f, n, h, k)
  BY NoHookYet DEF Prints
<1>6. ev.type \notin Openings /\ ev.type # "Hook"
  BY DEF Openings, HookKind
<1>7. Lines(f, n + 1, m, q)
  BY <1>3, <1>4, <1>5, <1>6, LineAside DEF q
<1> QED
  BY <1>7 DEF q

\* The line that opens a section.
LEMMA LineOpening ==
  ASSUME NEW f \in Feeds, NEW n \in Nat, n + 1 \in DOMAIN f.screen, NEW m, NEW r, NEW e,
         Lines(f, n, m, r), PictureShape(r), Arrived(f, n, r, e), f.screen[n + 1].type \in Openings
  PROVE  Lines(f, n + 1, m, apply_screen(e, f.screen[n + 1]))
<1> DEFINE ev == f.screen[n + 1]
           q == apply_screen(e, f.screen[n + 1])
<1>1. /\ PictureShape(e) /\ \A a \in Beyond \ {"lines"} : e[a] = r[a]
  BY ArrivedIs
<1>2. /\ \A a \in LineFields \ {"screen_section", "screen_hook"} : q[a] = e[a]
      /\ HooksAlike(e.hooks, q.hooks) /\ q.screen_hook = 0
      /\ q.screen_section = IF ev.type \in HookKind THEN ev.type ELSE None
      /\ ev.type \in HookKind => \E j \in idx(ev.type)..Len(PHASES) : Place(q, PHASES[j]) # "Pending"
  BY <1>1, SectionSays DEF Openings
<1> HIDE DEF q
<1>3. /\ \A a \in LineFields \ {"lines", "screen_section", "screen_hook"} : q[a] = r[a]
      /\ q.lines = Append(r.lines, ev) /\ HooksAlike(r.hooks, q.hooks)
  <2>1. LineFields \cup {"hooks"} \subseteq Beyond /\ "hooks" # "lines"
        /\ "lines" \in LineFields \ {"screen_section", "screen_hook"}
    BY DEF Beyond, LineFields
  <2> QED
    BY <1>1, <1>2, <2>1 DEF Arrived
<1>4. q.screen_section \in HookKind =>
        \E j \in idx(q.screen_section)..Len(PHASES) : Place(q, PHASES[j]) # "Pending"
  BY <1>2 DEF HookKind, None
<1>5. Lines(f, n + 1, m, q)
  BY <1>2, <1>3, <1>4, LineOpens
<1> QED
  BY <1>5 DEF q

\* The line that begins a hook, in a section or in none.
LEMMA LineOfAHook ==
  ASSUME NEW f \in Feeds, FeedsOK, NEW n \in Nat, n + 1 \in DOMAIN f.screen, NEW m, NEW r, NEW e,
         Lines(f, n, m, r), PictureShape(r), Arrived(f, n, r, e), f.screen[n + 1].type = "Hook",
         Forwards(r, apply_screen(e, f.screen[n + 1]))
  PROVE  Lines(f, n + 1, m, apply_screen(e, f.screen[n + 1]))
<1>0. Lines(f, n, m, r) /\ PictureShape(r) /\ Arrived(f, n, r, e) /\ n \in Nat
  OBVIOUS
<1>1. /\ PictureShape(e) /\ \A a \in Beyond \ {"lines"} : e[a] = r[a]
  BY ONLY <1>0, ArrivedIs
<1> DEFINE ev == f.screen[n + 1]
           shut == [e EXCEPT !.optdeps_for = None, !.in_names = ev.type = "PlanNames"]
           q == apply_screen(e, f.screen[n + 1])
           kind == r.screen_section
           i == ev.index
<1>2. q = screen_hook_line(shut, ev.index, ev.total, ev.desc)
  BY DEF apply_screen, HookKind
<1>3. /\ DOMAIN shut = DOMAIN New /\ shut.optdeps_for = None /\ shut.in_names = FALSE
      /\ \A a \in DOMAIN New \ {"optdeps_for", "in_names"} : shut[a] = e[a]
  <2>1. {"optdeps_for", "in_names"} \subseteq DOMAIN New
    BY DEF New
  <2> QED
    BY <2>1 DEF Arrived
<1> HIDE DEF shut, q
<1>4. PictureShape(shut)
  <2>1. \A a \in Relevant \cup {"hooks", "named"} : shut[a] = e[a]
    BY <1>3 DEF Relevant, New
  <2>2. Alike(e, shut)
    BY <1>1, <1>3, <2>1, FieldsAside
  <2> QED
    BY <1>1, <2>2, AlikeShape
<1>5. /\ \A a \in LineFields \ {"lines"} : shut[a] = r[a]
      /\ shut.hooks = r.hooks /\ shut.lines = Append(r.lines, ev)
  <2>1. /\ LineFields \ {"lines"} \subseteq (Beyond \ {"lines"}) \cap (DOMAIN New \ {"optdeps_for", "in_names"})
        /\ "hooks" \in (Beyond \ {"lines"}) \cap (DOMAIN New \ {"optdeps_for", "in_names"})
        /\ "lines" \in DOMAIN New \ {"optdeps_for", "in_names"}
    BY DEF Beyond, LineFields, New
  <2> QED
    BY <1>1, <1>3, <2>1 DEF Arrived
<1>6. /\ {"unknown", "screen_section", "screen_hook"} \subseteq LineFields \ {"lines"}
      /\ shut.unknown = r.unknown /\ shut.screen_section = kind
  <2>1. {"unknown", "screen_section", "screen_hook"} \subseteq LineFields \ {"lines"}
    BY DEF LineFields
  <2> QED
    BY <1>5, <2>1
<1>7. /\ kind \in HookKind \cup {None}
      /\ \A k \in HookKind : InSection(f.screen, n + 1, k) <=> kind = k
  BY DEF Lines, SectionIs
<1>8. CASE kind = None
  <2>1. q = shut
    BY <1>2, <1>6, <1>8 DEF screen_hook_line
  <2>2. \A k \in HookKind : ~InSection(f.screen, n + 1, k)
    BY <1>7, <1>8 DEF HookKind, None
  <2>3. NoListOpen(f, n + 1, q) /\ HooksAlike(r.hooks, q.hooks)
    BY <1>3, <1>5, <2>1 DEF NoListOpen, HooksAlike
  <2>4. ev.type \notin Openings /\ ~Prints(ev)
    BY DEF Openings, HookKind, Prints
  <2>5. /\ \A a \in LineFields \ {"lines", "unknown"} : q[a] = r[a]
        /\ q.unknown = r.unknown /\ q.lines = Append(r.lines, ev)
    BY <1>5, <1>6, <2>1
  <2>6. Lines(f, n + 1, m, q)
    BY <2>2, <2>3, <2>4, <2>5, LineAside DEF q
  <2> QED
    BY <2>6 DEF q
<1>9. CASE kind \in HookKind
  <2>1. Begins(f.screen, n + 1, kind)
    BY <1>7, <1>9 DEF Begins
  <2>2. i \in Nat \ {0}
    BY <1>9, <2>1, HookLineIs
  <2>3. i \in DOMAIN r.hooks[kind] => r.hooks[kind][i].notes = <<>>
    BY <1>9, <2>1, NothingYet DEF Lines
  <2>4. IsFiniteSet(r.unknown) /\ \A u \in r.unknown : u.at \in Nat
    BY DEF Lines, UnknownIs
  <2>5. /\ \A a \in Beyond \ {"hooks", "screen_hook"} : q[a] = shut[a]
        /\ q.screen_hook = i /\ NewHook(shut, q, kind, i)
        /\ i \in DOMAIN q.hooks[kind]
        /\ q.hooks[kind][i].desc = ev.desc /\ q.hooks[kind][i].notes = <<>>
        /\ q.hooks[kind][i].file =
             IF i \in DOMAIN shut.hooks[kind] THEN shut.hooks[kind][i].file ELSE None
    <3>1. HookUnread(shut, i) /\ shut.screen_section = kind
      BY <1>5, <1>6, <1>9, <2>3, <2>4 DEF HookUnread
    <3>2. q = screen_hook_line(shut, i, ev.total, ev.desc)
      BY <1>2
    <3> HIDE DEF i, kind, ev
    <3>3. HookRead(shut, q, kind, i, ev.desc)
      BY ONLY <1>4, <2>2, <3>1, <3>2, HookIsRead
    <3> QED
      BY <3>3 DEF HookRead
  <2>6. /\ \A a \in LineFields \ {"lines", "screen_hook"} : q[a] = r[a]
        /\ q.lines = Append(r.lines, ev) /\ q.optdeps_for = None /\ q.in_names = FALSE
    <3>1. /\ LineFields \cup {"optdeps_for", "in_names"} \subseteq Beyond
          /\ "lines" \in LineFields /\ "hooks" \notin LineFields /\ "screen_hook" # "lines"
          /\ {"optdeps_for", "in_names"} \cap {"hooks", "screen_hook"} = {}
      BY DEF Beyond, LineFields
    <3> QED
      BY <1>3, <1>5, <2>5, <3>1
  <2>7. NewHook(r, q, kind, i)
    <3> HIDE DEF i, kind
    <3>1. r.hooks = shut.hooks /\ NewHook(shut, q, kind, i)
      BY <1>5, <2>5
    <3> QED
      BY <3>1 DEF NewHook
  <2>8. Lines(f, n + 1, m, q)
    BY Zenon, <1>5, <1>9, <2>1, <2>5, <2>6, <2>7, LineBegins DEF q
  <2> QED
    BY <2>8 DEF q
<1> QED
  BY <1>7, <1>8, <1>9

\* A line no classifier knew, or that looks like a database's.
LEMMA LineOther ==
  ASSUME NEW f \in Feeds, FeedsOK, NEW n \in Nat, n + 1 \in DOMAIN f.screen, NEW m, NEW r, NEW e,
         Lines(f, n, m, r), PictureShape(r), Ordered(r), Arrived(f, n, r, e),
         f.screen[n + 1].type \in {"Other", "Db"},
         Forwards(r, other(e, f.screen[n + 1].text))
  PROVE  Lines(f, n + 1, m, other(e, f.screen[n + 1].text))
<1>0. Lines(f, n, m, r) /\ PictureShape(r) /\ Arrived(f, n, r, e) /\ n \in Nat
  OBVIOUS
<1>1. /\ PictureShape(e) /\ current(e) = current(r) /\ Len(e.lines) = n + 1
      /\ \A a \in Beyond \ {"lines"} : e[a] = r[a]
  BY ONLY <1>0, ArrivedIs
<1>2. /\ LineFields \cup {"hooks"} \subseteq Beyond /\ {"hooks", "lines"} \subseteq Beyond
      /\ {"unknown", "screen_section", "screen_hook"} \subseteq LineFields \ {"lines"}
      /\ "lines" \in LineFields \ {"unknown"} /\ "hooks" \notin LineFields
      /\ {"optdeps_for", "in_names", "hooks"} \subseteq Beyond \ {"lines"}
  BY DEF Beyond, LineFields
<1>3. /\ \A a \in LineFields \ {"lines"} : e[a] = r[a]
      /\ e.hooks = r.hooks /\ e.lines = Append(r.lines, f.screen[n + 1])
      /\ e.unknown = r.unknown /\ e.screen_section = r.screen_section
      /\ e.screen_hook = r.screen_hook
      /\ e.optdeps_for = r.optdeps_for /\ e.in_names = r.in_names
  BY <1>1, <1>2 DEF Arrived
<1>4. HookIs(f, n, r) /\ SectionIs(f, n, r)
  BY DEF Lines
<1>5. e.screen_section \in HookKind \cup {None} /\ e.screen_hook \in Nat
  BY <1>3, <1>4 DEF HookIs, SectionIs
<1>6. f.screen[n + 1].type \notin Openings /\ f.screen[n + 1].type # "Hook"
  BY DEF Openings, HookKind
<1> DEFINE ev == f.screen[n + 1]
           t == ev.text
           q == other(e, t)
           none == ~\E k \in HookKind : \E h \in 1..n : InHook(f, n, h, k)
           told(u) == /\ \A a \in LineFields \ {"lines", "unknown"} : q[a] = r[a]
                      /\ q.lines = Append(r.lines, ev) /\ HooksAlike(r.hooks, q.hooks)
                      /\ q.unknown = u
<1> HIDE DEF q, t
<1>7. \/ (e.optdeps_for # None \/ e.in_names # FALSE) /\ Silent(e, q)
      \/ (t.means = "quiet" \/ current(e) = "Download") /\ Silent(e, q) /\ LinesApart(e, q)
      \/ /\ ~Hooked(e) /\ LinesApart(e, q) /\ q.hooks = e.hooks
         /\ q.unknown = e.unknown \cup {[text |-> t, at |-> Len(e.lines)]}
      \/ Hooked(e) /\ t.means # "quiet" /\ LinesApart(e, q) /\ NotedAs(e, q, t)
  BY ONLY <1>1, <1>5, OtherSays DEF q
<1>8. ASSUME none PROVE NoListOpen(f, n + 1, q)
  BY <1>6, <1>8, HookFromBefore DEF NoListOpen
<1>9. ASSUME Silent(e, q) PROVE told(r.unknown)
  BY <1>2, <1>3, <1>9 DEF Silent
<1>10. LinesApart(e, q) => q.optdeps_for = None /\ q.in_names = FALSE
  BY DEF LinesApart
<1>11. ASSUME NoListOpen(f, n + 1, q), Prints(ev) => none,
              told(r.unknown) \/ told(r.unknown \cup {[text |-> ev.text, at |-> n + 1]})
       PROVE  Lines(f, n + 1, m, q)
  BY ZenonT(30), <1>6, <1>11, LineAside DEF q, t
<1>12. CASE (e.optdeps_for # None \/ e.in_names # FALSE) /\ Silent(e, q)
  <2>1. none
    BY Zenon, <1>3, <1>4, <1>12 DEF HookIs
  <2> QED
    BY Zenon, <1>8, <1>9, <1>11, <1>12, <2>1 DEF q, t
<1>13. CASE (t.means = "quiet" \/ current(e) = "Download") /\ Silent(e, q) /\ LinesApart(e, q)
  <2>1. Prints(ev) => none
    BY <1>1, <1>13, NoHookYet DEF Prints, t
  <2>2. NoListOpen(f, n + 1, q)
    BY <1>10, <1>13 DEF NoListOpen
  <2> QED
    BY Zenon, <1>9, <1>11, <1>13, <2>1, <2>2 DEF q, t
<1>14. CASE /\ ~Hooked(e) /\ LinesApart(e, q) /\ q.hooks = e.hooks
            /\ q.unknown = e.unknown \cup {[text |-> t, at |-> Len(e.lines)]}
  <2>1. none
    BY <1>3, <1>4, <1>14 DEF HookIs, Hooked
  <2>2. NoListOpen(f, n + 1, q)
    BY <1>10, <1>14 DEF NoListOpen
  <2>3. told(r.unknown \cup {[text |-> ev.text, at |-> n + 1]})
    BY <1>1, <1>2, <1>3, <1>14 DEF LinesApart, HooksAlike, t
  <2> QED
    BY <1>11, <2>1, <2>2, <2>3 DEF q, t
<1>15. CASE Hooked(e) /\ t.means # "quiet" /\ LinesApart(e, q) /\ NotedAs(e, q, t)
  <2> DEFINE k == r.screen_section
             i == r.screen_hook
             x == [kind |-> hook_note_kind(t, r.hooks[k][i]), text |-> t]
  <2>1. k \in HookKind /\ i \in DOMAIN r.hooks[k]
    BY <1>3, <1>15 DEF Hooked
  <2>2. i # 0
    <3>1. DOMAIN r.hooks[k] = 1..Len(r.hooks[k])
      BY <2>1, ListsAre DEF ListShape
    <3> QED
      BY <2>1, <3>1
  <2>3. PICK h \in 1..n : InHook(f, n, h, k)
    BY <1>4, <2>1, <2>2 DEF HookIs
  <2>4. Prints(ev)
    BY <1>15 DEF Prints, t
  <2>5. /\ NotesOnly(e, q, k, i) /\ q.hooks[k][i].notes = Append(e.hooks[k][i].notes, x)
        /\ q.unknown = IF x.kind = "Plain"
                       THEN r.unknown \cup {[text |-> t, at |-> n + 1]} ELSE r.unknown
    BY ZenonT(30), <1>1, <1>3, <1>15 DEF NotedAs
  <2> HIDE DEF k, i, x
  <2>6. NotesOnly(r, q, k, i) /\ q.hooks[k][i].notes = Append(r.hooks[k][i].notes, x)
    BY <1>3, <2>5 DEF NotesOnly, OtherNotes, NotesOf
  <2>7. \A a \in LineFields \ {"lines", "unknown"} : q[a] = r[a]
    BY <1>3, <1>15 DEF LinesApart
  <2>8. q.lines = Append(r.lines, f.screen[n + 1])
    BY <1>2, <1>3, <1>15 DEF LinesApart
  <2>9. LineOf(f, n, r, q, k, i, t, x)
    BY Zenon, <1>10, <1>15, <2>5, <2>6, <2>7, <2>8 DEF LineOf, k, i, t, x
  <2>10. Lines(f, n + 1, m, q)
    <3>1. k \in HookKind
      BY <2>1
    <3> QED
      BY <2>3, <2>4, <2>9, <3>1, LineHooked DEF q, t
  <2> QED
    BY <2>10 DEF q, t
<1> QED
  BY <1>7, <1>12, <1>13, <1>14, <1>15

\* A line settled is kept where it belongs.
LEMMA LineSettles ==
  ASSUME NEW f \in Feeds, FeedsOK, NEW n \in Nat, n + 1 \in DOMAIN f.screen, NEW m, NEW r,
         Lines(f, n, m, r), PictureShape(r), Ordered(r),
         Forwards(r, apply_line(r, f.screen[n + 1]))
  PROVE  Lines(f, n + 1, m, apply_line(r, f.screen[n + 1]))
<1> DEFINE line == f.screen[n + 1]
           e == [r EXCEPT !.lines = Append(@, line)]
           read == IF line.type = "Db" /\ current(r) # "Sync"
                   THEN [line EXCEPT !.type = "Other"] ELSE line
           loose == line.type = "Other" \/ (line.type = "Db" /\ current(r) # "Sync")
           q == apply_line(r, line)
<1>1. q = apply_screen(e, read)
  BY DEF apply_line
<1>2. line \in ScreenEvent
  BY DEF FeedsOK, Feed
<1>3. DOMAIN r = DOMAIN New /\ "lines" \in DOMAIN New
  BY DEF PictureShape, New
<1>4. Arrived(f, n, r, e)
  BY <1>3 DEF Arrived
<1>5. line.type \in {"SyncStart", "UpgradeStart", "NothingToDo", "RetrieveStart", "Processing",
                     "PreHooks", "PostHooks", "Warning", "Error", "Pacnew", "Other", "Db",
                     "PlanHeader", "PlanNames", "PlanRow", "PlanTotal", "Prompt", "DownloadTotal", "Check",
                     "Optdepends", "Hook", "Package"}
  BY <1>2, EventFields
<1>6. line.type = "Db" /\ current(r) # "Sync" => read.type = "Other" /\ read.text = line.text
  BY <1>2, DbAsOther
<1>7. \A ev : ev.type = "Other" => apply_screen(e, ev) = other(e, ev.text)
  BY DEF apply_screen, HookKind
<1>10. /\ ~loose => read = line
       /\ loose => line.type \in {"Other", "Db"} /\ read.text = line.text /\ read.type = "Other"
  <2>1. line.type = "Other" => read = line
    OBVIOUS
  <2>2. ~loose => read = line
    OBVIOUS
  <2> QED
    BY <1>6, <2>1, <2>2
<1>11. ~loose => line.type # "Other" /\ (line.type = "Db" => current(r) = "Sync")
  OBVIOUS
<1> HIDE DEF e, q, read, loose, line
<1>8. CASE loose
  <2>1. q = other(e, line.text)
    BY <1>1, <1>7, <1>8, <1>10
  <2>2. Lines(f, n + 1, m, q)
    BY <1>4, <1>8, <1>10, <2>1, LineOther DEF q, line
  <2> QED
    BY <2>2 DEF q, line
<1>9. CASE ~loose
  <2>1. q = apply_screen(e, line) /\ Forwards(r, apply_screen(e, line))
    <3>1. q = apply_screen(e, line)
      BY <1>1, <1>9, <1>10
    <3> QED
      BY <3>1 DEF q, line
  <2>2. CASE line.type \in Openings
    BY <1>4, <2>1, <2>2, LineOpening DEF q, line
  <2>3. CASE line.type = "Hook"
    BY <1>4, <2>1, <2>3, LineOfAHook DEF q, line
  <2>4. CASE line.type \notin Openings \cup {"Hook"}
    <3>1. line.type \in {"SyncStart", "UpgradeStart", "NothingToDo", "RetrieveStart", "Warning",
                        "Error", "Pacnew", "Db", "PlanHeader", "PlanNames", "PlanRow", "PlanTotal", "Prompt",
                        "DownloadTotal", "Check", "Optdepends", "Package"}
      <4>1. line.type # "Other"
        BY <1>9, <1>11
      <4>2. line.type \notin {"PreHooks", "PostHooks", "Processing", "Hook"}
        BY <2>4 DEF Openings, HookKind
      <4> QED
        BY <1>5, <4>1, <4>2
    <3>2. line.type = "Db" => current(r) = "Sync"
      BY <1>9, <1>11
    <3>3. Lines(f, n + 1, m, apply_screen(e, line))
      BY <1>4, <2>1, <3>1, <3>2, LineSilent DEF line
    <3> QED
      BY <2>1, <3>3 DEF q, line
  <2> QED
    BY <2>2, <2>3, <2>4
<1> QED
  BY <1>8, <1>9 DEF line

-----------------------------------------------------------------------------
(* What the log names.                                                     *)

\* Hook i of a list, or one nothing is known of.
OldHook(r, kind, i) == IF i \in DOMAIN r.hooks[kind] THEN r.hooks[kind][i] ELSE NoHook

\* Hook i of a section, and it only, is given a file.
FileGiven(r, q, kind, i, file) ==
  /\ NewHook(r, q, kind, i) /\ i \in DOMAIN q.hooks[kind] /\ q.hooks[kind][i].file = file
  /\ q.hooks[kind][i].desc = OldHook(r, kind, i).desc
  /\ q.hooks[kind][i].notes = OldHook(r, kind, i).notes

\* A hook whose file is told has it, and its notes are read with it.
LEMMA HookNamed ==
  ASSUME NEW r, PictureShape(r), NEW kind \in HookKind, NEW i \in Nat \ {0}, NEW file
  PROVE  LET q == [r EXCEPT !.named[kind] = i, !.hooks[kind] = [hook_at(@, i) EXCEPT ![i].file = file]]
         IN  /\ PictureShape(q) /\ \A a \in DOMAIN New \ {"hooks", "named"} : q[a] = r[a]
             /\ q.named[kind] = i /\ \A k \in HookKind \ {kind} : q.named[k] = r.named[k]
             /\ FileGiven(r, q, kind, i, file)
<1> DEFINE list == hook_at(r.hooks[kind], i)
           given == [list EXCEPT ![i].file = file]
           named == [r.named EXCEPT ![kind] = i]
           q == [r EXCEPT !.named[kind] = i, !.hooks[kind] = [hook_at(@, i) EXCEPT ![i].file = file]]
<1>1. ListShape(r.hooks[kind]) /\ DOMAIN r.hooks = HookKind
  BY ListsAre
<1>2. ListShape(list) /\ i \in DOMAIN list
  BY <1>1, MadeLongEnough
<1>3. /\ \A j : j \in DOMAIN list <=> j \in DOMAIN r.hooks[kind] \/ j \in 1..i
      /\ \A j \in DOMAIN list : list[j] = OldHook(r, kind, j)
  <2> DEFINE old == r.hooks[kind]
  <2>1. Len(old) \in Nat /\ DOMAIN old = 1..Len(old)
    BY <1>1 DEF ListShape
  <2> HIDE DEF old
  <2>2. \A j : j \in 1..Larger(i, Len(old)) <=> j \in 1..Len(old) \/ j \in 1..i
    BY <2>1 DEF Larger
  <2>3. \A j \in 1..Larger(i, Len(old)) : j <= Len(old) <=> j \in 1..Len(old)
    BY <2>1 DEF Larger
  <2>4. /\ \A j : j \in DOMAIN hook_at(old, i) <=> j \in DOMAIN old \/ j \in 1..i
        /\ \A j \in DOMAIN hook_at(old, i) : hook_at(old, i)[j] = IF j \in DOMAIN old THEN old[j] ELSE NoHook
    BY <2>1, <2>2, <2>3 DEF hook_at
  <2> QED
    BY <2>4 DEF old, OldHook
<1>4. ListShape(given) /\ i \in DOMAIN given
  BY <1>2, FilePut
<1>5. DOMAIN r = DOMAIN New /\ {"hooks", "named"} \subseteq DOMAIN New /\ r.named \in [HookKind -> Nat]
  BY DEF PictureShape, New
<1>6. /\ DOMAIN q = DOMAIN New /\ q.named = named /\ q.hooks = [r.hooks EXCEPT ![kind] = given]
      /\ \A a \in DOMAIN New \ {"hooks", "named"} : q[a] = r[a]
  BY <1>5
<1>7. /\ DOMAIN given = DOMAIN list /\ given[i].file = file
      /\ given[i].desc = OldHook(r, kind, i).desc /\ given[i].notes = OldHook(r, kind, i).notes
      /\ \A j \in DOMAIN list \ {i} : given[j] = OldHook(r, kind, j)
  <2>1. DOMAIN list[i] = {"desc", "file", "started", "ended", "notes"}
    BY <1>2 DEF ListShape, HookShape
  <2>2. /\ DOMAIN given = DOMAIN list /\ given[i] = [list[i] EXCEPT !.file = file]
        /\ \A j \in DOMAIN list \ {i} : given[j] = list[j]
    BY <1>2
  <2> HIDE DEF given, list
  <2> QED
    BY <1>2, <1>3, <2>1, <2>2
<1>8. named \in [HookKind -> Nat] /\ named[kind] = i /\ \A k \in HookKind \ {kind} : named[k] = r.named[k]
  BY <1>5
<1> HIDE DEF q, given, named, list
<1>9. /\ DOMAIN q.hooks = HookKind /\ q.hooks[kind] = given
      /\ \A k \in HookKind \ {kind} : q.hooks[k] = r.hooks[k]
  BY <1>1, <1>6
<1>10. PictureShape(q)
  <2>1. HooksShape(q.hooks)
    BY <1>4, <1>9 DEF PictureShape, HooksShape, ListShape
  <2>2. /\ q.phases = r.phases /\ q.dbs = r.dbs /\ q.packages = r.packages
        /\ q.tx_started = r.tx_started /\ q.log_seen = r.log_seen
        /\ q.finished = r.finished /\ q.saw_package = r.saw_package
    BY <1>6 DEF New
  <2> QED
    BY <1>6, <1>8, <2>1, <2>2 DEF PictureShape
<1>11. NewHook(r, q, kind, i)
  <2> SUFFICES ASSUME NEW k \in HookKind
        PROVE  /\ DOMAIN r.hooks[k] \subseteq DOMAIN q.hooks[k]
               /\ k # kind => DOMAIN q.hooks[k] = DOMAIN r.hooks[k]
               /\ \A j \in DOMAIN q.hooks[k] \ DOMAIN r.hooks[k] : j \in 1..i
               /\ \A j \in DOMAIN q.hooks[k] : k # kind \/ j # i =>
                     LET old == IF j \in DOMAIN r.hooks[k] THEN r.hooks[k][j] ELSE NoHook
                     IN  /\ q.hooks[k][j].file = old.file /\ q.hooks[k][j].desc = old.desc
                         /\ q.hooks[k][j].notes = old.notes
    BY DEF NewHook
  <2>1. CASE k # kind
    BY <1>9, <2>1
  <2>2. CASE k = kind
    BY <1>3, <1>7, <1>9, <2>2 DEF OldHook
  <2> QED
    BY <2>1, <2>2
<1> QED
  BY <1>4, <1>6, <1>7, <1>8, <1>9, <1>10, <1>11 DEF FileGiven, q

\* A hook given a file has the notes it had.
LEMMA GivenNotes ==
  ASSUME NEW r, NEW q, NEW kind \in HookKind, NEW i, NEW file, FileGiven(r, q, kind, i, file)
  PROVE  SameNotes(r, q)
<1> SUFFICES ASSUME NEW k \in HookKind
      PROVE  /\ DOMAIN r.hooks[k] \subseteq DOMAIN q.hooks[k]
             /\ \A j \in DOMAIN r.hooks[k] : NotesOf(q, k, j) = NotesOf(r, k, j)
             /\ \A j \in DOMAIN q.hooks[k] \ DOMAIN r.hooks[k] : NotesOf(q, k, j) = <<>>
  BY DEF SameNotes
<1>1. DOMAIN r.hooks[k] \subseteq DOMAIN q.hooks[k]
  BY DEF FileGiven, NewHook
<1>2. ASSUME NEW j \in DOMAIN q.hooks[k] PROVE q.hooks[k][j].notes = OldHook(r, k, j).notes
  <2>1. CASE k = kind /\ j = i
    BY <2>1 DEF FileGiven
  <2>2. CASE k # kind \/ j # i
    BY <2>2 DEF FileGiven, NewHook, OldHook
  <2> QED
    BY <2>1, <2>2
<1>3. NoHook.notes = <<>>
  BY DEF NoHook
<1> QED
  BY <1>1, <1>2, <1>3 DEF NotesOf, OldHook

\* Of the unknown lines with a word, the last are taken: one for each note.
LEMMA StillListed ==
  ASSUME NEW r, NEW q, NEW kind, NEW i, NEW w,
         q.unknown = unclaimed(r.unknown, NotesOf(r, kind, i), NotesOf(q, kind, i))
  PROVE  /\ q.unknown \subseteq r.unknown
         /\ ListedWith(q, w) = {u \in ListedWith(r, w) :
               Cardinality(From(ListedWith(r, w), u)) > Cardinality(Reread(r, q, kind, i, w))}
<1> DEFINE claims(v) == {n \in DOMAIN NotesOf(r, kind, i) :
                           /\ NotesOf(r, kind, i)[n].text.word = v
                           /\ NotesOf(r, kind, i)[n].kind = "Plain"
                           /\ NotesOf(q, kind, i)[n].kind # "Plain"}
           behind(u) == {v \in r.unknown : v.text.word = u.text.word /\ v.at >= u.at}
<1>1. q.unknown = {u \in r.unknown : Cardinality(behind(u)) > Cardinality(claims(u.text.word))}
  BY DEF unclaimed
<1>2. ASSUME NEW u \in ListedWith(r, w)
      PROVE  behind(u) = From(ListedWith(r, w), u) /\ claims(u.text.word) = Reread(r, q, kind, i, w)
  BY DEF ListedWith, From, Reread
<1> HIDE DEF claims, behind
<1>3. ListedWith(q, w) = {u \in ListedWith(r, w) : Cardinality(behind(u)) > Cardinality(claims(u.text.word))}
  BY <1>1 DEF ListedWith
<1> QED
  BY <1>1, <1>2, <1>3

\* The hooks the log has named, a line further.
LEMMA NamedFurther ==
  ASSUME NEW f, NEW m \in Nat, NEW k
  PROVE  /\ Cardinality(NamedIn(f, m, k)) \in Nat
         /\ Cardinality(NamedIn(f, m + 1, k)) =
              IF NamesHook(f.log, m + 1, k) THEN Cardinality(NamedIn(f, m, k)) + 1
              ELSE Cardinality(NamedIn(f, m, k))
<1>1. (\A j : j \in 1..(m + 1) <=> j \in 1..m \/ j = m + 1) /\ m + 1 \notin 1..m /\ IsFiniteSet(1..m)
  BY FS_Interval, UpTo
<1>2. NamedIn(f, m, k) \in SUBSET (1..m)
  BY DEF NamedIn
<1>3. IsFiniteSet(NamedIn(f, m, k)) /\ m + 1 \notin NamedIn(f, m, k)
  BY <1>1, <1>2, FS_Subset
<1>4. Cardinality(NamedIn(f, m, k)) \in Nat
  BY <1>3, FS_CardinalityType
<1>5. CASE NamesHook(f.log, m + 1, k)
  <2>1. NamedIn(f, m + 1, k) = NamedIn(f, m, k) \cup {m + 1}
    BY <1>1, <1>5 DEF NamedIn
  <2>2. Cardinality(NamedIn(f, m + 1, k)) = Cardinality(NamedIn(f, m, k)) + 1
    BY <1>3, <2>1, OneMore
  <2> QED
    BY <1>4, <1>5, <2>2
<1>6. CASE ~NamesHook(f.log, m + 1, k)
  <2>1. NamedIn(f, m + 1, k) = NamedIn(f, m, k)
    BY <1>1, <1>6 DEF NamedIn
  <2> QED
    BY <1>4, <1>6, <2>1
<1> QED
  BY <1>5, <1>6

\* The hook old is given its file: that is h, and its notes read again are g's.
ReadWithFile(f, k, i, old, h, g) ==
  /\ i \in DOMAIN f.facts[k] /\ old.file = None
  /\ h.file = f.facts[k][i].file /\ h.desc = old.desc /\ h.notes = old.notes
  /\ g.file = h.file /\ g.desc = h.desc
  /\ g.notes = [j \in DOMAIN h.notes |-> [h.notes[j] EXCEPT !.kind = hook_note_kind(h.notes[j].text, h)]]

\* A file tells more of what a hook prints, never less.
LEMMA OwnLearns ==
  ASSUME FeedsOK, NEW f, NEW n, NEW k, NEW i, NEW old, NEW h, NEW g,
         HookOwn(f, n, k, i, old), ReadWithFile(f, k, i, old, h, g)
  PROVE  /\ HookOwn(f, n, k, i, g) /\ DOMAIN g.notes = DOMAIN old.notes /\ Len(g.notes) = Len(old.notes)
         /\ \A j \in DOMAIN old.notes :
              /\ g.notes[j].text = old.notes[j].text
              /\ g.notes[j].kind = "Plain" => old.notes[j].kind = "Plain"
<1> DEFINE prints == f.facts[k][i].prints
           l == Len(old.notes)
<1>1. /\ l \in Nat /\ l <= Len(prints) /\ i \in DOMAIN f.facts[k]
      /\ old.notes = [j \in 1..l |-> [kind |-> hook_note_kind(prints[j], old), text |-> prints[j]]]
      /\ old.desc \in {None, f.facts[k][i].desc}
      /\ (l > 0 => \E b \in 1..n : Begins(f.screen, b, k) /\ f.screen[b].index = i)
  BY DEF HookOwn
<1>2. /\ DOMAIN old.notes = 1..l
      /\ \A j \in 1..l : /\ old.notes[j].text = prints[j]
                         /\ old.notes[j].kind = hook_note_kind(prints[j], old)
                         /\ DOMAIN old.notes[j] = {"kind", "text"}
  <2> HIDE DEF l, prints
  <2> QED
    BY <1>1
<1>3. /\ h.notes = old.notes
      /\ g.notes = [j \in DOMAIN h.notes |-> [h.notes[j] EXCEPT !.kind = hook_note_kind(h.notes[j].text, h)]]
      /\ old.file = None /\ h.file = f.facts[k][i].file /\ h.desc = old.desc
      /\ g.file = h.file /\ g.desc = h.desc
  BY DEF ReadWithFile
<1>4. \A t : hook_note_kind(t, g) = hook_note_kind(t, h)
  BY <1>3 DEF hook_note_kind
<1> HIDE DEF l, prints
<1>5. DOMAIN g.notes = 1..l
  BY <1>2, <1>3
<1>6. ASSUME NEW j \in 1..l
      PROVE  /\ g.notes[j] = [kind |-> hook_note_kind(prints[j], g), text |-> prints[j]]
             /\ g.notes[j].text = prints[j] /\ g.notes[j].kind = hook_note_kind(prints[j], g)
  <2>1. g.notes[j] = [old.notes[j] EXCEPT !.kind = hook_note_kind(old.notes[j].text, h)]
    BY <1>2, <1>3
  <2>2. old.notes[j] = [kind |-> hook_note_kind(prints[j], old), text |-> prints[j]]
    BY <1>1
  <2>3. hook_note_kind(old.notes[j].text, h) = hook_note_kind(prints[j], g)
    BY <1>2, <1>4
  <2> QED
    BY <2>1, <2>2, <2>3
<1>7. g.notes = [j \in 1..l |-> [kind |-> hook_note_kind(prints[j], g), text |-> prints[j]]]
  <2>1. g.notes = [j \in 1..l |-> g.notes[j]]
    BY <1>2, <1>3
  <2> QED
    BY <1>6, <2>1
<1>8. Len(g.notes) = l
  BY <1>1, <1>5, LengthOf
<1>9. ASSUME NEW t PROVE hook_note_kind(t, g) = "Plain" => hook_note_kind(t, old) = "Plain"
  <2>1. g.desc = old.desc /\ None \notin Rebuilds
    BY <1>3 DEF FeedsOK
  <2>2. {g.file, g.desc} \cap Rebuilds = {} => {old.file, old.desc} \cap Rebuilds = {}
    BY <1>3, <2>1
  <2> QED
    BY <2>2 DEF hook_note_kind
<1>10. HookOwn(f, n, k, i, g)
  <2>1. g.file \in {None, f.facts[k][i].file} /\ g.desc \in {None, f.facts[k][i].desc}
    BY <1>1, <1>3
  <2> QED
    BY <1>1, <1>7, <1>8, <2>1 DEF HookOwn, prints
<1> QED
  BY ZenonT(30), <1>2, <1>5, <1>6, <1>8, <1>9, <1>10 DEF l

\* What the log says of a hook it names.
LEMMA NamedIsIts ==
  ASSUME NEW f \in Feeds, FeedsOK, NEW m \in Nat, m + 1 \in DOMAIN f.log, NEW k \in HookKind,
         NamesHook(f.log, m + 1, k)
  PROVE  LET i == Cardinality(NamedIn(f, m, k)) + 1
         IN  /\ i \in DOMAIN f.facts[k] /\ f.log[m + 1].file = f.facts[k][i].file
             /\ Cardinality(NamedIn(f, m + 1, k)) = i
<1>1. LogOK(f)
  BY DEF FeedsOK
<1>2. LET i == Cardinality(NamedIn(f, m + 1, k))
      IN  i \in DOMAIN f.facts[k] /\ f.log[m + 1].file = f.facts[k][i].file
  BY <1>1 DEF LogOK, NamedIn
<1>3. Cardinality(NamedIn(f, m + 1, k)) = Cardinality(NamedIn(f, m, k)) + 1
  BY NamedFurther
<1> QED
  BY <1>2, <1>3

\* From r, hook i of a section is given a file (that is x) and read again (q).
Learned(r, x, q, kind, i, file) ==
  /\ FileGiven(r, x, kind, i, file) /\ NotesOnly(x, q, kind, i)
  /\ NotesOf(q, kind, i) =
       [n \in DOMAIN NotesOf(x, kind, i) |->
          [NotesOf(x, kind, i)[n] EXCEPT
              !.kind = hook_note_kind(NotesOf(x, kind, i)[n].text, x.hooks[kind][i])]]
  /\ x.unknown = r.unknown /\ q.unknown = unclaimed(x.unknown, NotesOf(x, kind, i), NotesOf(q, kind, i))
  /\ q.named[kind] = i /\ \A k \in HookKind \ {kind} : q.named[k] = r.named[k]
  /\ \A a \in LineFields \ {"unknown", "named"} : q[a] = r[a]
  /\ q.optdeps_for = r.optdeps_for /\ q.in_names = r.in_names

\* Line m + 1 of the log names the next hook of a section, and that is learned.
NamesNext(f, m, r, x, q, kind, i) ==
  /\ m + 1 \in DOMAIN f.log /\ NamesHook(f.log, m + 1, kind)
  /\ i = r.named[kind] + 1 /\ Learned(r, x, q, kind, i, f.log[m + 1].file)

\* The hooks keep their notes.
AsManyNotes(r, q) ==
  \A k \in HookKind : \A j \in DOMAIN r.hooks[k] :
      j \in DOMAIN q.hooks[k] /\ Len(NotesOf(q, k, j)) = Len(NotesOf(r, k, j))

\* The notes of a hook read again, fewer of them Plain.
LessPlain(r, q, kind, i) ==
  /\ i \in DOMAIN r.hooks[kind] /\ DOMAIN NotesOf(q, kind, i) = DOMAIN NotesOf(r, kind, i)
  /\ \A j \in DOMAIN NotesOf(r, kind, i) :
        /\ NotesOf(q, kind, i)[j].text = NotesOf(r, kind, i)[j].text
        /\ NotesOf(q, kind, i)[j].kind = "Plain" => NotesOf(r, kind, i)[j].kind = "Plain"

\* The hooks, when the log names one.
LEMMA HooksLearned ==
  ASSUME NEW f \in Feeds, FeedsOK, NEW n, NEW m \in Nat, NEW r, NEW x, NEW q,
         Lines(f, n, m, r), NEW kind \in HookKind, NEW i, NamesNext(f, m, r, x, q, kind, i)
  PROVE  /\ i = Cardinality(NamedIn(f, m + 1, kind)) /\ HooksOwn(f, n, q)
         /\ AsManyNotes(r, q) /\ LessPlain(x, q, kind, i)
<1> DEFINE file == f.log[m + 1].file
           old == OldHook(r, kind, i)
           h == x.hooks[kind][i]
           g == q.hooks[kind][i]
<1>0. FeedsOK
  OBVIOUS
<1>17. /\ m + 1 \in DOMAIN f.log /\ NamesHook(f.log, m + 1, kind)
       /\ i = r.named[kind] + 1 /\ Learned(r, x, q, kind, i, f.log[m + 1].file)
  BY DEF NamesNext
<1>1. HooksOwn(f, n, r) /\ LogIs(f, m, r)
  BY DEF Lines
<1>2. i = Cardinality(NamedIn(f, m, kind)) + 1 /\ Cardinality(NamedIn(f, m, kind)) \in Nat
  BY <1>1, <1>17, NamedFurther DEF LogIs
<1>3. /\ i \in DOMAIN f.facts[kind] /\ file = f.facts[kind][i].file
      /\ Cardinality(NamedIn(f, m + 1, kind)) = i
  BY <1>2, <1>17, NamedIsIts
<1>4. i \in Nat \ {0} /\ ~(i <= r.named[kind]) /\ r.named[kind] <= i
  BY <1>1, <1>2, <1>17 DEF LogIs
<1>5. DOMAIN f.facts[kind] = 1..Len(f.facts[kind]) /\ Len(f.facts[kind]) \in Nat
  BY FactsAre
<1>6. \A j \in 1..i : j \in DOMAIN f.facts[kind]
  BY <1>3, <1>4, <1>5
<1>7. /\ FileGiven(r, x, kind, i, file) /\ NotesOnly(x, q, kind, i)
      /\ NewHook(r, x, kind, i) /\ i \in DOMAIN x.hooks[kind]
      /\ q.named[kind] = i /\ \A k \in HookKind \ {kind} : q.named[k] = r.named[k]
  BY <1>17 DEF Learned, FileGiven
<1>8. NoHook.file = None /\ NoHook.desc = None /\ NoHook.notes = <<>>
  BY DEF NoHook
<1>9. HookOwn(f, n, kind, i, old) /\ old.file = None
  <2>1. CASE i \in DOMAIN r.hooks[kind]
    BY <1>1, <1>4, <2>1 DEF HooksOwn, OldHook
  <2>2. CASE i \notin DOMAIN r.hooks[kind]
    <3>1. old = NoHook
      BY <2>2 DEF OldHook
    <3> QED
      BY <1>3, <1>8, <3>1, OwnEmpty
  <2> QED
    BY <2>1, <2>2
<1>10. ReadWithFile(f, kind, i, old, h, g)
  <2>1. h.file = file /\ h.desc = old.desc /\ h.notes = old.notes
    BY <1>7 DEF FileGiven
  <2>2. g.file = h.file /\ g.desc = h.desc
    BY <1>7 DEF NotesOnly
  <2>3. g.notes = [j \in DOMAIN h.notes |-> [h.notes[j] EXCEPT !.kind = hook_note_kind(h.notes[j].text, h)]]
    BY Zenon, <1>17 DEF Learned, NotesOf
  <2> QED
    BY <1>3, <1>9, <2>1, <2>2, <2>3 DEF ReadWithFile
<1>11. /\ HookOwn(f, n, kind, i, g) /\ DOMAIN g.notes = DOMAIN old.notes
       /\ Len(g.notes) = Len(old.notes) /\ h.notes = old.notes
       /\ \A j \in DOMAIN old.notes : /\ g.notes[j].text = old.notes[j].text
                                      /\ g.notes[j].kind = "Plain" => old.notes[j].kind = "Plain"
  <2> HIDE DEF old, h, g, file
  <2>1. h.notes = old.notes
    BY <1>10 DEF ReadWithFile
  <2> QED
    BY ONLY <1>0, <1>9, <1>10, <2>1, OwnLearns
<1>12. \A k \in HookKind : DOMAIN q.hooks[k] = DOMAIN x.hooks[k]
  BY <1>7 DEF NotesOnly, OtherNotes
<1>13. ASSUME NEW k \in HookKind, NEW j \in DOMAIN q.hooks[k], k # kind \/ j # i
       PROVE  /\ q.hooks[k][j].file = OldHook(r, k, j).file
              /\ q.hooks[k][j].desc = OldHook(r, k, j).desc
              /\ q.hooks[k][j].notes = OldHook(r, k, j).notes
  <2>1. j \in DOMAIN x.hooks[k]
    BY <1>12
  <2>2. /\ x.hooks[k][j].file = OldHook(r, k, j).file
        /\ x.hooks[k][j].desc = OldHook(r, k, j).desc
        /\ x.hooks[k][j].notes = OldHook(r, k, j).notes
    BY <1>7, <1>13, <2>1 DEF NewHook, OldHook
  <2>3. q.hooks[k][j].notes = x.hooks[k][j].notes
    BY <1>7, <1>13, <2>1 DEF NotesOnly, OtherNotes, NotesOf
  <2> QED
    BY <1>7, <2>1, <2>2, <2>3 DEF NotesOnly
<1> HIDE DEF old, h, g, file
<1>14. HooksOwn(f, n, q)
  <2> SUFFICES ASSUME NEW k \in HookKind, NEW j \in DOMAIN q.hooks[k]
               PROVE  /\ HookOwn(f, n, k, j, q.hooks[k][j])
                      /\ q.hooks[k][j].file # None => j <= q.named[k]
    BY DEF HooksOwn
  <2>1. CASE k = kind /\ j = i
    <3>1. q.hooks[k][j] = g /\ q.named[k] = i /\ j = i
      BY <1>7, <2>1 DEF g
    <3>2. i <= i
      BY <1>4
    <3> QED
      BY <1>11, <2>1, <3>1, <3>2
  <2>2. CASE ~(k = kind /\ j = i)
    <3>1. /\ q.hooks[k][j].file = OldHook(r, k, j).file
          /\ q.hooks[k][j].desc = OldHook(r, k, j).desc
          /\ q.hooks[k][j].notes = OldHook(r, k, j).notes
      BY <1>13, <2>2
    <3>2. CASE j \in DOMAIN r.hooks[k]
      <4>1. HookOwn(f, n, k, j, r.hooks[k][j]) /\ (r.hooks[k][j].file # None => j <= r.named[k])
        BY <1>1, <3>2 DEF HooksOwn
      <4>2. OldHook(r, k, j) = r.hooks[k][j]
        BY <3>2 DEF OldHook
      <4>3. \A t : hook_note_kind(t, q.hooks[k][j]) = hook_note_kind(t, r.hooks[k][j])
        BY <3>1, <4>2 DEF hook_note_kind
      <4>4. HookOwn(f, n, k, j, q.hooks[k][j])
        BY ZenonT(30), <3>1, <4>1, <4>2, <4>3 DEF HookOwn
      <4>5. q.hooks[k][j].file # None => j <= r.named[k]
        BY <3>1, <4>1, <4>2
      <4>6. j <= r.named[k] => j <= q.named[k]
        <5>1. CASE k # kind
          BY <1>7, <5>1
        <5>2. CASE k = kind
          <6>1. r.named[kind] \in Nat /\ i \in Nat /\ i = r.named[kind] + 1
            BY <1>1, <1>2, <1>17 DEF LogIs
          <6>2. DOMAIN f.facts[k] = 1..Len(f.facts[k])
            BY FactsAre
          <6>3. j \in Int
            BY <4>1, <6>2 DEF HookOwn
          <6> QED
            BY <1>7, <5>2, <6>1, <6>3
        <5> QED
          BY <5>1, <5>2
      <4> QED
        BY <4>4, <4>5, <4>6
    <3>3. CASE j \notin DOMAIN r.hooks[k]
      <4>1. OldHook(r, k, j) = NoHook
        BY <3>3 DEF OldHook
      <4>2. k = kind /\ j \in 1..i
        BY <1>7, <1>12, <3>3 DEF NewHook
      <4>3. j \in DOMAIN f.facts[k]
        BY <1>6, <4>2
      <4>4. HookOwn(f, n, k, j, q.hooks[k][j])
        BY <1>8, <3>1, <4>1, <4>3, OwnEmpty
      <4> QED
        BY <1>8, <3>1, <4>1, <4>4
    <3> QED
      BY <3>2, <3>3
  <2> QED
    BY <2>1, <2>2
<1>15. ASSUME NEW k \in HookKind, NEW j \in DOMAIN r.hooks[k]
       PROVE  j \in DOMAIN q.hooks[k] /\ Len(NotesOf(q, k, j)) = Len(NotesOf(r, k, j))
  <2>1. j \in DOMAIN q.hooks[k] /\ OldHook(r, k, j) = r.hooks[k][j]
    BY <1>7, <1>12 DEF NewHook, OldHook
  <2>2. CASE k = kind /\ j = i
    BY <1>11, <2>1, <2>2 DEF NotesOf, old, g
  <2>3. CASE ~(k = kind /\ j = i)
    BY <1>13, <2>1, <2>3 DEF NotesOf
  <2> QED
    BY <2>1, <2>2, <2>3
<1>16. /\ DOMAIN NotesOf(q, kind, i) = DOMAIN NotesOf(x, kind, i)
       /\ \A j \in DOMAIN NotesOf(x, kind, i) :
            /\ NotesOf(q, kind, i)[j].text = NotesOf(x, kind, i)[j].text
            /\ NotesOf(q, kind, i)[j].kind = "Plain" => NotesOf(x, kind, i)[j].kind = "Plain"
  BY <1>11 DEF NotesOf, g, h
<1> QED
  BY <1>3, <1>7, <1>14, <1>15, <1>16 DEF AsManyNotes, LessPlain

\* The unknown lines are told apart by where they are.
LEMMA UnknownApart ==
  ASSUME NEW f, NEW n \in Nat, NEW r, UnknownIs(f, n, r), NEW w
  PROVE  LET U == ListedWith(r, w)
         IN  /\ IsFiniteSet(U) /\ \A u \in U : u.at \in Nat
             /\ \A u, v \in U : u.at = v.at => u = v
<1>1. ListedWith(r, w) \in SUBSET r.unknown
  BY DEF ListedWith
<1>2. IsFiniteSet(ListedWith(r, w))
  BY <1>1, FS_Subset DEF UnknownIs
<1>3. \A u \in r.unknown : u.at \in Nat /\ u = [text |-> f.screen[u.at].text, at |-> u.at]
  BY DEF UnknownIs
<1>4. \A u, v \in r.unknown : u.at = v.at => u = v
  BY <1>3
<1> QED
  BY <1>1, <1>2, <1>3, <1>4

\* Of a word, as many are taken from the unknown lines as are no longer Plain.
LEMMA WordsLearned ==
  ASSUME NEW f \in Feeds, FeedsOK, NEW n \in Nat, NEW r, NEW x, NEW q,
         UnknownIs(f, n, r), NEW kind \in HookKind, NEW i, NEW file, Learned(r, x, q, kind, i, file),
         LessPlain(x, q, kind, i), NEW w, IsFiniteSet(NotesWith(r, w)),
         Cardinality(ListedWith(r, w)) = Cardinality(PlainWith(r, w))
  PROVE  /\ NotesWith(q, w) = NotesWith(r, w)
         /\ Cardinality(ListedWith(q, w)) = Cardinality(PlainWith(q, w))
<1> DEFINE U == ListedWith(r, w)
           c == Cardinality(Reread(x, q, kind, i, w))
<1>1. NotesWith(x, w) = NotesWith(r, w) /\ PlainWith(x, w) = PlainWith(r, w)
  <2>1. SameNotes(r, x)
    BY GivenNotes DEF Learned
  <2> QED
    BY <2>1, NotesStay
<1>2. i \in DOMAIN x.hooks[kind] /\ OtherNotes(x, q, kind, i)
  BY DEF Learned, FileGiven, NotesOnly
<1>3. /\ NotesWith(q, w) = NotesWith(x, w) /\ c \in Nat /\ c <= Cardinality(PlainWith(x, w))
      /\ Cardinality(PlainWith(q, w)) = Cardinality(PlainWith(x, w)) - c
  BY <1>1, <1>2, NotesReread DEF LessPlain
<1>4. ListedWith(x, w) = U
  BY DEF Learned, ListedWith
<1>5. ListedWith(q, w) = {u \in U : Cardinality(From(U, u)) > c}
  <2>1. q.unknown = unclaimed(x.unknown, NotesOf(x, kind, i), NotesOf(q, kind, i))
    BY DEF Learned
  <2> QED
    BY <1>4, <2>1, StillListed
<1>6. /\ IsFiniteSet(U) /\ (\A u \in U : u.at \in Nat)
      /\ \A u, v \in U : u.at = v.at => u = v
  BY UnknownApart
<1>7. c <= Cardinality(U)
  BY <1>1, <1>3
<1> HIDE DEF U, c
<1>8. Cardinality({u \in U : Cardinality(From(U, u)) > c}) = Cardinality(U) - c
  BY <1>3, <1>6, <1>7, LastTaken
<1> QED
  BY <1>1, <1>3, <1>5, <1>8 DEF U

\* The log names a hook.
LEMMA LogNames ==
  ASSUME NEW f \in Feeds, FeedsOK, NEW n \in Nat, NEW m \in Nat,
         NEW r, NEW x, NEW q, Lines(f, n, m, r), PictureShape(r), Forwards(r, q),
         NEW kind \in HookKind, NEW i, NamesNext(f, m, r, x, q, kind, i),
         \A k \in HookKind \ {kind} : ~NamesHook(f.log, m + 1, k)
  PROVE  Lines(f, n, m + 1, q)
<1>10. NamesHook(f.log, m + 1, kind) /\ Learned(r, x, q, kind, i, f.log[m + 1].file)
  BY DEF NamesNext
<1>1. /\ q.lines = r.lines /\ q.screen_section = r.screen_section /\ q.screen_hook = r.screen_hook
      /\ q.tx_started = r.tx_started /\ q.tx_completed = r.tx_completed
      /\ q.optdeps_for = r.optdeps_for /\ q.in_names = r.in_names
      /\ q.named[kind] = i /\ \A k \in HookKind \ {kind} : q.named[k] = r.named[k]
  BY <1>10 DEF Learned, LineFields
<1>2. /\ i = Cardinality(NamedIn(f, m + 1, kind)) /\ HooksOwn(f, n, q)
      /\ AsManyNotes(r, q) /\ LessPlain(x, q, kind, i)
  BY HooksLearned
<1>3. LinesRead(f, n, q)
  BY <1>1 DEF Lines, LinesRead
<1>4. SectionIs(f, n, q)
  BY <1>1, SectionStays DEF Lines
<1>5. HookIs(f, n, q)
  <2>1. HookIs(f, n, r)
    BY DEF Lines
  <2>2. ASSUME NEW k \in HookKind, NEW h \in 1..n, InHook(f, n, h, k)
        PROVE  /\ q.screen_section = k /\ q.screen_hook = f.screen[h].index
               /\ q.screen_hook \in DOMAIN q.hooks[k]
               /\ Len(q.hooks[k][q.screen_hook].notes) = Cardinality(Printed(f, h, n))
               /\ q.optdeps_for = None /\ q.in_names = FALSE
    <3>1. /\ r.screen_section = k /\ r.screen_hook = f.screen[h].index
          /\ r.screen_hook \in DOMAIN r.hooks[k]
          /\ Len(r.hooks[k][r.screen_hook].notes) = Cardinality(Printed(f, h, n))
          /\ r.optdeps_for = None /\ r.in_names = FALSE
      BY <2>1, <2>2 DEF HookIs
    <3>2. /\ r.screen_hook \in DOMAIN q.hooks[k]
          /\ Len(q.hooks[k][r.screen_hook].notes) = Len(r.hooks[k][r.screen_hook].notes)
      BY <1>2, <3>1 DEF AsManyNotes, NotesOf
    <3> QED
      BY <1>1, <3>1, <3>2
  <2> QED
    BY <1>1, <2>1, <2>2 DEF HookIs
<1>6. LogIs(f, m + 1, q)
  <2>1. \A j : j \in 1..(m + 1) <=> j \in 1..m \/ j = m + 1
    BY UpTo
  <2>2. f.log[m + 1].type = "HookRunning"
    BY <1>10 DEF NamesHook
  <2>3. LogIs(f, m, r)
    BY DEF Lines
  <2>4. /\ q.tx_started = \E j \in 1..(m + 1) : f.log[j].type = "TxStarted"
        /\ q.tx_completed = \E j \in 1..(m + 1) : f.log[j].type = "TxCompleted"
    BY <1>1, <2>1, <2>2, <2>3 DEF LogIs
  <2>5. ASSUME NEW k \in HookKind PROVE q.named[k] = Cardinality(NamedIn(f, m + 1, k))
    <3>1. CASE k = kind
      BY <1>1, <1>2, <3>1
    <3>2. CASE k # kind
      BY <1>1, <2>3, <3>2, NamedFurther DEF LogIs
    <3> QED
      BY <3>1, <3>2
  <2> QED
    BY <2>4, <2>5 DEF LogIs
<1>7. UnknownIs(f, n, r) /\ WordsKept(f, n, r)
  BY DEF Lines
<1>8. UnknownIs(f, n, q)
  <2>1. q.unknown \in SUBSET r.unknown
    BY <1>10 DEF Learned, unclaimed
  <2>2. IsFiniteSet(q.unknown)
    BY <1>7, <2>1, FS_Subset DEF UnknownIs
  <2> QED
    BY <1>7, <2>1, <2>2 DEF UnknownIs
<1>9. WordsKept(f, n, q)
  <2> SUFFICES ASSUME NEW w \in f.facts.words
               PROVE  /\ IsFiniteSet(NotesWith(q, w))
                      /\ Cardinality(SaidWith(f, n, w)) = Cardinality(NotesWith(q, w))
                      /\ Cardinality(ListedWith(q, w)) = Cardinality(PlainWith(q, w))
    BY DEF WordsKept
  <2>1. /\ IsFiniteSet(NotesWith(r, w))
        /\ Cardinality(SaidWith(f, n, w)) = Cardinality(NotesWith(r, w))
        /\ Cardinality(ListedWith(r, w)) = Cardinality(PlainWith(r, w))
    BY <1>7 DEF WordsKept
  <2>2. /\ NotesWith(q, w) = NotesWith(r, w)
        /\ Cardinality(ListedWith(q, w)) = Cardinality(PlainWith(q, w))
    BY <1>2, <1>7, <1>10, <2>1, WordsLearned
  <2> QED
    BY <2>1, <2>2
<1> QED
  BY <1>2, <1>3, <1>4, <1>5, <1>6, <1>8, <1>9 DEF Lines

\* A line of the log that names no hook.
LEMMA LogFlags ==
  ASSUME NEW f, NEW m \in Nat, NEW r, NEW q, LogIs(f, m, r), f.log[m + 1].type # "HookRunning",
         q.named = r.named,
         q.tx_started = (r.tx_started \/ f.log[m + 1].type = "TxStarted"),
         q.tx_completed = (r.tx_completed \/ f.log[m + 1].type = "TxCompleted")
  PROVE  LogIs(f, m + 1, q)
<1>1. \A j : j \in 1..(m + 1) <=> j \in 1..m \/ j = m + 1
  BY UpTo
<1>2. /\ r.tx_started = \E j \in 1..m : f.log[j].type = "TxStarted"
      /\ r.tx_completed = \E j \in 1..m : f.log[j].type = "TxCompleted"
  BY DEF LogIs
<1>3. q.tx_started = \E j \in 1..(m + 1) : f.log[j].type = "TxStarted"
  BY <1>1, <1>2
<1>4. q.tx_completed = \E j \in 1..(m + 1) : f.log[j].type = "TxCompleted"
  BY <1>1, <1>2
<1>5. \A k \in HookKind : q.named[k] = Cardinality(NamedIn(f, m + 1, k))
  <2>1. \A k : ~NamesHook(f.log, m + 1, k)
    BY DEF NamesHook
  <2> QED
    BY <2>1, NamedFurther DEF LogIs
<1> QED
  BY <1>3, <1>4, <1>5 DEF LogIs

\* A line of the log that names no hook tells nothing of the screen's lines.
LEMMA LogStays ==
  ASSUME NEW f, NEW n \in Nat, NEW m \in Nat, NEW r, NEW q, Lines(f, n, m, r),
         Forwards(r, q), PictureShape(r), LogIs(f, m + 1, q),
         \A a \in LineFields \ {"tx_started", "tx_completed"} : q[a] = r[a],
         HooksAlike(r.hooks, q.hooks), q.optdeps_for = r.optdeps_for, q.in_names = r.in_names
  PROVE  Lines(f, n, m + 1, q)
<1>1. /\ q.lines = r.lines /\ q.unknown = r.unknown /\ q.named = r.named
      /\ q.screen_section = r.screen_section /\ q.screen_hook = r.screen_hook
  BY DEF LineFields
<1>2. LinesRead(f, n, q) /\ UnknownIs(f, n, q)
  BY <1>1 DEF Lines, LinesRead, UnknownIs
<1>3. SectionIs(f, n, q)
  BY <1>1, SectionStays DEF Lines
<1>4. HookIs(f, n, q)
  BY <1>1 DEF Lines, HookIs, HooksAlike
<1>5. HooksOwn(f, n, q)
  BY <1>1, HooksStay DEF Lines
<1>6. WordsKept(f, n, q)
  <2>1. SameNotes(r, q)
    BY <1>1, AlikeNotes
  <2>2. \A w : NotesWith(q, w) = NotesWith(r, w) /\ PlainWith(q, w) = PlainWith(r, w)
    BY <2>1, NotesStay
  <2> QED
    BY <1>1, <2>2 DEF Lines, WordsKept, ListedWith
<1> QED
  BY <1>2, <1>3, <1>4, <1>5, <1>6 DEF Lines

\* The section of the hook that a line of the log names.
SectionNamed(r) == IF r.tx_completed THEN "PostHooks" ELSE "PreHooks"

\* The log names the next hook, or none that counts; it never names one twice.
LEMMA NextIsNamed ==
  ASSUME NEW f \in Feeds, FeedsOK, NEW n, NEW m \in Nat, m + 1 \in DOMAIN f.log, NEW r,
         Lines(f, n, m, r), f.log[m + 1].type = "HookRunning"
  PROVE  /\ (r.tx_started /\ ~r.tx_completed) => \A k \in HookKind : ~NamesHook(f.log, m + 1, k)
         /\ ~(r.tx_started /\ ~r.tx_completed) =>
              /\ NamesHook(f.log, m + 1, SectionNamed(r))
              /\ \A k \in HookKind \ {SectionNamed(r)} : ~NamesHook(f.log, m + 1, k)
              /\ \A j \in DOMAIN r.hooks[SectionNamed(r)] :
                    r.hooks[SectionNamed(r)][j].file # f.log[m + 1].file
<1>1. LogIs(f, m, r) /\ HooksOwn(f, n, r)
  BY DEF Lines
<1>2. (m + 1) - 1 = m
  OBVIOUS
<1>3. /\ r.tx_started <=> ShownBefore(f.log, m + 1, {"TxStarted"})
      /\ r.tx_completed <=> ShownBefore(f.log, m + 1, {"TxCompleted"})
      /\ (r.tx_started \/ r.tx_completed) <=> ShownBefore(f.log, m + 1, {"TxStarted", "TxCompleted"})
  BY <1>1, <1>2 DEF LogIs, ShownBefore
<1>4. /\ NamesHook(f.log, m + 1, "PostHooks") <=> r.tx_completed
      /\ NamesHook(f.log, m + 1, "PreHooks") <=> ~(r.tx_started \/ r.tx_completed)
  BY <1>3 DEF NamesHook
<1>5. SUFFICES ASSUME ~(r.tx_started /\ ~r.tx_completed)
      PROVE  /\ NamesHook(f.log, m + 1, SectionNamed(r))
             /\ \A k \in HookKind \ {SectionNamed(r)} : ~NamesHook(f.log, m + 1, k)
             /\ \A j \in DOMAIN r.hooks[SectionNamed(r)] :
                   r.hooks[SectionNamed(r)][j].file # f.log[m + 1].file
  BY <1>4 DEF HookKind
<1>6. /\ NamesHook(f.log, m + 1, SectionNamed(r)) /\ SectionNamed(r) \in HookKind
      /\ \A k \in HookKind \ {SectionNamed(r)} : ~NamesHook(f.log, m + 1, k)
  BY <1>4, <1>5 DEF HookKind, SectionNamed
<1> DEFINE kind == SectionNamed(r)
           i == Cardinality(NamedIn(f, m, kind)) + 1
<1> HIDE DEF kind
<1>7. /\ i \in DOMAIN f.facts[kind] /\ f.log[m + 1].file = f.facts[kind][i].file
  BY <1>6, NamedIsIts DEF kind
<1>8. kind \in HookKind /\ r.named[kind] = Cardinality(NamedIn(f, m, kind)) /\ r.named[kind] \in Nat
  BY <1>1, <1>6, NamedFurther DEF LogIs, kind
<1>9. ASSUME NEW j \in DOMAIN r.hooks[kind], r.hooks[kind][j].file = f.log[m + 1].file PROVE FALSE
  <2>1. /\ j \in DOMAIN f.facts[kind] /\ r.hooks[kind][j].file \in {None, f.facts[kind][j].file}
        /\ (r.hooks[kind][j].file # None => j <= r.named[kind])
    BY <1>1, <1>8 DEF HooksOwn, HookOwn
  <2>2. f.log[m + 1].file # None
    BY <1>7, <1>8, FactsAre
  <2>3. f.facts[kind][j].file = f.facts[kind][i].file
    BY <1>7, <1>9, <2>1, <2>2
  <2>4. LogOK(f)
    BY DEF FeedsOK
  <2>5. j = i
    BY <1>7, <1>8, <2>1, <2>3, <2>4 DEF LogOK
  <2>6. j <= r.named[kind]
    BY <1>9, <2>1, <2>2
  <2> QED
    BY <1>8, <2>5, <2>6
<1> QED
  BY <1>6, <1>9 DEF kind

\* A line of the log that names a hook.
LEMMA LogHooks ==
  ASSUME NEW f \in Feeds, FeedsOK, NEW n \in Nat, NEW m \in Nat, m + 1 \in DOMAIN f.log,
         NEW r, NEW e, Lines(f, n, m, r), PictureShape(r), PictureShape(e),
         \A a \in Beyond : e[a] = r[a], f.log[m + 1].type = "HookRunning",
         Forwards(r, log_hook(e, f.log[m + 1].file))
  PROVE  Lines(f, n, m + 1, log_hook(e, f.log[m + 1].file))
<1> DEFINE file == f.log[m + 1].file
           kind == SectionNamed(r)
           i == r.named[kind] + 1
           q == log_hook(e, file)
           x == [e EXCEPT !.named[kind] = i, !.hooks[kind] = [hook_at(@, i) EXCEPT ![i].file = file]]
<1>1. /\ e.hooks = r.hooks /\ e.named = r.named /\ e.tx_started = r.tx_started
      /\ e.tx_completed = r.tx_completed /\ e.unknown = r.unknown
      /\ e.optdeps_for = r.optdeps_for /\ e.in_names = r.in_names
      /\ \A a \in LineFields : e[a] = r[a]
  BY DEF Beyond, LineFields
<1>2. LogIs(f, m, r)
  BY DEF Lines
<1>3. CASE r.tx_started /\ ~r.tx_completed
  <2>1. q = e
    BY <1>1, <1>3 DEF log_hook
  <2>2. LogIs(f, m + 1, e)
    <3>1. \A k \in HookKind : ~NamesHook(f.log, m + 1, k)
      BY <1>3, NextIsNamed
    <3>2. \A k \in HookKind : r.named[k] = Cardinality(NamedIn(f, m + 1, k))
      BY <1>2, <3>1, NamedFurther DEF LogIs
    <3>3. \A j : j \in 1..(m + 1) <=> j \in 1..m \/ j = m + 1
      BY UpTo
    <3> QED
      BY <1>1, <1>2, <3>2, <3>3 DEF LogIs
  <2>3. HooksAlike(r.hooks, e.hooks)
    BY <1>1 DEF HooksAlike
  <2> HIDE DEF q
  <2>4. Lines(f, n, m + 1, e)
    BY <1>1, <2>1, <2>2, <2>3, LogStays DEF q
  <2> QED
    BY <2>1, <2>4 DEF q
<1>4. CASE ~(r.tx_started /\ ~r.tx_completed)
  <2>1. /\ NamesHook(f.log, m + 1, kind)
        /\ \A k \in HookKind \ {kind} : ~NamesHook(f.log, m + 1, k)
        /\ \A j \in DOMAIN r.hooks[kind] : r.hooks[kind][j].file # file
    BY Zenon, <1>4, NextIsNamed
  <2>2. q = reclassify(x, kind, i)
    BY Zenon, <1>1, <1>4, <2>1 DEF log_hook, SectionNamed
  <2>3. kind \in HookKind
    BY DEF HookKind, SectionNamed
  <2> HIDE DEF kind, q
  <2>4. i \in Nat \ {0}
    BY <1>2, <2>3, NamedFurther DEF LogIs
  <2> HIDE DEF i, file
  <2>5. /\ PictureShape(x) /\ \A a \in DOMAIN New \ {"hooks", "named"} : x[a] = e[a]
        /\ x.named[kind] = i /\ \A k \in HookKind \ {kind} : x.named[k] = e.named[k]
        /\ FileGiven(e, x, kind, i, file)
    BY ZenonT(30), <2>3, <2>4, HookNamed
  <2> HIDE DEF x
  <2>6. FileGiven(r, x, kind, i, file)
    BY <1>1, <2>5 DEF FileGiven, NewHook, OldHook
  <2>7. i \in DOMAIN x.hooks[kind]
    BY <2>6 DEF FileGiven
  <2>8. /\ \A a \in DOMAIN New \ {"hooks", "unknown"} : q[a] = x[a]
        /\ NotesOnly(x, q, kind, i)
        /\ NotesOf(q, kind, i) =
             [j \in DOMAIN NotesOf(x, kind, i) |->
                [NotesOf(x, kind, i)[j] EXCEPT
                    !.kind = hook_note_kind(NotesOf(x, kind, i)[j].text, x.hooks[kind][i])]]
        /\ q.unknown = unclaimed(x.unknown, NotesOf(x, kind, i), NotesOf(q, kind, i))
    BY <2>2, <2>3, <2>5, <2>7, RereadSays DEF NotesOnly, NotesOf
  <2>9. LineFields \cup {"optdeps_for", "in_names"} \subseteq DOMAIN New \ {"hooks"}
        /\ "unknown" \in DOMAIN New /\ "named" \in DOMAIN New
    BY DEF LineFields, New
  <2>10. /\ \A a \in LineFields \ {"unknown", "named"} : q[a] = r[a]
         /\ q.optdeps_for = r.optdeps_for /\ q.in_names = r.in_names /\ x.unknown = r.unknown
    BY <1>1, <2>5, <2>8, <2>9
  <2>11. q.named[kind] = i /\ \A k \in HookKind \ {kind} : q.named[k] = r.named[k]
    BY <1>1, <2>5, <2>8, <2>9
  <2>12. Learned(r, x, q, kind, i, file)
    BY <2>6, <2>8, <2>10, <2>11 DEF Learned
  <2>13. NamesNext(f, m, r, x, q, kind, i)
    BY <2>1, <2>12 DEF NamesNext, i, file
  <2>14. Lines(f, n, m + 1, q)
    <3>1. Forwards(r, q)
      BY DEF q, file
    <3> QED
      BY <2>1, <2>3, <2>13, <3>1, LogNames
  <2> QED
    BY <2>14 DEF q, file
<1> QED
  BY <1>3, <1>4

\* A line of the log keeps every line where it belongs.
LEMMA LogReads ==
  ASSUME NEW f \in Feeds, FeedsOK, NEW n \in Nat, NEW m \in Nat, m + 1 \in DOMAIN f.log,
         NEW r, Lines(f, n, m, r), PictureShape(r), Forwards(r, apply_log(r, f.log[m + 1]))
  PROVE  Lines(f, n, m + 1, apply_log(r, f.log[m + 1]))
<1> DEFINE ev == f.log[m + 1]
           opening == ev.type \in {"RunStart", "TxStarted", "TxCompleted"}
           e == [r EXCEPT !.log_seen = @ \/ opening]
           begun == [e EXCEPT !.tx_started = TRUE]
           over == [e EXCEPT !.tx_completed = TRUE]
           packed == [e EXCEPT !.packages = @ \cup {ev.name}, !.done = @ \cup {ev.name}]
           q == apply_log(r, ev)
<1>1. ev.type \in {"RunStart", "TxStarted", "TxCompleted", "Other", "HookRunning", "Package"}
  BY LogFields DEF FeedsOK, Feed
<1>2. q = CASE ev.type = "TxStarted" -> enter(begun, "Packages")
            [] ev.type = "TxCompleted" -> enter(over, "PostHooks")
            [] ev.type = "HookRunning" -> log_hook(e, ev.file)
            [] ev.type = "Package" -> packed
            [] ev.type \in {"RunStart", "Other"} -> e
  BY DEF apply_log
<1>3. /\ DOMAIN r = DOMAIN New /\ r.log_seen \in BOOLEAN /\ r.tx_started \in BOOLEAN
      /\ {"log_seen", "tx_started", "tx_completed", "packages", "done"} \subseteq DOMAIN New
  BY DEF PictureShape, New
<1>4. /\ DOMAIN e = DOMAIN New /\ e.log_seen \in BOOLEAN
      /\ \A a \in DOMAIN New \ {"log_seen"} : e[a] = r[a]
  BY <1>3
<1>5. /\ DOMAIN begun = DOMAIN New /\ begun.tx_started = TRUE
      /\ \A a \in DOMAIN New \ {"tx_started"} : begun[a] = e[a]
      /\ DOMAIN over = DOMAIN New /\ over.tx_completed = TRUE
      /\ \A a \in DOMAIN New \ {"tx_completed"} : over[a] = e[a]
      /\ DOMAIN packed = DOMAIN New
      /\ \A a \in DOMAIN New \ {"packages", "done"} : packed[a] = e[a]
  <2> HIDE DEF e
  <2> QED
    BY <1>3, <1>4
<1> HIDE DEF e, begun, over, packed, q
<1>6. /\ Beyond \subseteq DOMAIN New \ {"log_seen", "packages", "done"}
      /\ {"tx_started", "tx_completed", "named"} \subseteq LineFields
      /\ LineFields \subseteq Beyond /\ {"hooks", "optdeps_for", "in_names"} \subseteq Beyond \ LineFields
  BY DEF Beyond, LineFields, New
<1>7. \A a \in Beyond : e[a] = r[a] /\ packed[a] = r[a]
  BY <1>4, <1>5, <1>6
<1>8. /\ PictureShape(e) /\ PictureShape(begun) /\ PictureShape(over)
  <2>1. ASSUME NEW x, DOMAIN x = DOMAIN New, x.log_seen \in BOOLEAN, x.tx_started \in BOOLEAN,
               \A a \in DOMAIN New \ {"log_seen", "tx_started", "tx_completed"} : x[a] = r[a]
        PROVE  PictureShape(x)
    <3>1. /\ x.phases = r.phases /\ x.dbs = r.dbs /\ x.packages = r.packages /\ x.named = r.named
          /\ x.hooks = r.hooks /\ x.finished = r.finished /\ x.saw_package = r.saw_package
      BY <2>1 DEF New
    <3> QED
      BY <2>1, <3>1 DEF PictureShape
  <2>2. PictureShape(e)
    BY <1>3, <1>4, <2>1
  <2>3. PictureShape(begun)
    BY <1>3, <1>4, <1>5, <2>1
  <2>4. PictureShape(over)
    BY <1>3, <1>4, <1>5, <2>1
  <2> QED
    BY <2>2, <2>3, <2>4
<1>9. LogIs(f, m, r)
  BY DEF Lines
<1>10. Forwards(r, q)
  BY DEF q
<1>11. ASSUME \A a \in LineFields \ {"tx_started", "tx_completed"} : q[a] = r[a],
              HooksAlike(r.hooks, q.hooks), q.optdeps_for = r.optdeps_for, q.in_names = r.in_names,
              q.tx_started = (r.tx_started \/ ev.type = "TxStarted"),
              q.tx_completed = (r.tx_completed \/ ev.type = "TxCompleted"), ev.type # "HookRunning"
       PROVE  Lines(f, n, m + 1, q)
  <2>1. q.named = r.named
    BY <1>6, <1>11
  <2>2. LogIs(f, m + 1, q)
    BY <1>9, <1>11, <2>1, LogFlags
  <2> QED
    BY <1>10, <1>11, <2>2, LogStays
<1>12. r.tx_completed \in BOOLEAN
  BY <1>9 DEF LogIs
<1>13. Lines(f, n, m + 1, q)
  <2>1. CASE ev.type = "TxStarted"
    <3>1. q = enter(begun, "Packages")
      BY <1>2, <2>1
    <3>2. Silent(begun, q) /\ \A a \in Beyond \ {"hooks"} : q[a] = begun[a]
      BY <1>8, <3>1, EnterIsSilent, Kinds
    <3>3. begun.hooks = r.hooks /\ \A a \in Beyond \ {"tx_started"} : begun[a] = r[a]
      BY <1>4, <1>5, <1>6
    <3>4. HooksAlike(r.hooks, q.hooks)
      BY <3>2, <3>3 DEF Silent
    <3>5. /\ \A a \in LineFields \ {"tx_started", "tx_completed"} : q[a] = r[a]
          /\ q.optdeps_for = r.optdeps_for /\ q.in_names = r.in_names
          /\ q.tx_started = TRUE /\ q.tx_completed = r.tx_completed
      BY <1>5, <1>6, <3>2, <3>3
    <3> QED
      BY <1>11, <1>12, <2>1, <3>4, <3>5
  <2>2. CASE ev.type = "TxCompleted"
    <3>1. q = enter(over, "PostHooks")
      BY <1>2, <2>2
    <3>2. Silent(over, q) /\ \A a \in Beyond \ {"hooks"} : q[a] = over[a]
      BY <1>8, <3>1, EnterIsSilent, Kinds
    <3>3. over.hooks = r.hooks /\ \A a \in Beyond \ {"tx_completed"} : over[a] = r[a]
      BY <1>4, <1>5, <1>6
    <3>4. HooksAlike(r.hooks, q.hooks)
      BY <3>2, <3>3 DEF Silent
    <3>5. /\ \A a \in LineFields \ {"tx_started", "tx_completed"} : q[a] = r[a]
          /\ q.optdeps_for = r.optdeps_for /\ q.in_names = r.in_names
          /\ q.tx_completed = TRUE /\ q.tx_started = r.tx_started
      BY <1>5, <1>6, <3>2, <3>3
    <3> QED
      BY <1>3, <1>11, <2>2, <3>4, <3>5
  <2>3. CASE ev.type = "HookRunning"
    <3>1. q = log_hook(e, ev.file)
      BY <1>2, <2>3
    <3> QED
      BY <1>7, <1>8, <1>10, <2>3, <3>1, LogHooks
  <2>4. CASE ev.type \in {"Package", "RunStart", "Other"}
    <3>1. q = packed \/ q = e
      BY <1>2, <2>4
    <3>2. \A a \in Beyond : q[a] = r[a]
      BY <1>7, <3>1
    <3>3. HooksAlike(r.hooks, q.hooks)
      BY <1>6, <3>2 DEF HooksAlike
    <3>4. /\ \A a \in LineFields : q[a] = r[a]
          /\ q.optdeps_for = r.optdeps_for /\ q.in_names = r.in_names
          /\ q.tx_completed = r.tx_completed /\ q.tx_started = r.tx_started
      BY <1>6, <3>2
    <3> QED
      BY <1>3, <1>11, <1>12, <2>4, <3>3, <3>4
  <2> QED
    BY <1>1, <2>1, <2>2, <2>3, <2>4
<1> QED
  BY <1>13 DEF q

-----------------------------------------------------------------------------
(* A check looked at before it settled, and the end.                       *)

\* A check looked at before it settled tells nothing of the lines.
LEMMA LookKeeps ==
  ASSUME NEW f \in Feeds, NEW n \in Nat, NEW m, NEW r, Lines(f, n, m, r), PictureShape(r),
         NEW ev, ev.type = "Check", Forwards(r, apply_screen(r, ev))
  PROVE  Lines(f, n, m, apply_screen(r, ev))
<1> DEFINE q == apply_screen(r, ev)
<1>0. ev.type \in {"SyncStart", "UpgradeStart", "NothingToDo", "RetrieveStart", "Warning",
                  "Error", "Pacnew", "Db", "PlanHeader", "PlanNames", "PlanRow", "PlanTotal", "Prompt",
                  "DownloadTotal", "Check", "Optdepends", "Package"}
  OBVIOUS
<1>1. Silent(r, q) /\ q.optdeps_for = None /\ q.in_names = FALSE
  <2>1. /\ Silent(r, q) /\ (ev.type # "Optdepends" => q.optdeps_for = None)
        /\ q.in_names = (ev.type = "PlanNames")
    BY <1>0, ScreenIsSilent
  <2> HIDE DEF q
  <2>2. ev.type # "Optdepends" /\ (ev.type = "PlanNames") = FALSE
    OBVIOUS
  <2> QED
    BY <2>1, <2>2
<1>2. NoListOpen(f, n, q)
  BY <1>1 DEF NoListOpen
<1> QED
  BY <1>1, <1>2, SilentKeeps

\* The end closes hooks and phases, and leaves every line where it is.
LEMMA EndKeepsLines ==
  ASSUME NEW f \in Feeds, NEW n \in Nat, NEW m, NEW r, Lines(f, n, m, r), PictureShape(r),
         Core(f, n, m, r), FeedsOK, NEW exit, Forwards(r, finish(r, exit))
  PROVE  Lines(f, n, m, finish(r, exit))
<1> DEFINE e == end_running(r, Len(PHASES) + 1)
           closed == [k \in HookKind |-> Closed(e.hooks[k])]
           settled(x) == IF x.kind \in {"Error", "ErrorRecovered"}
                         THEN [x EXCEPT !.kind = IF exit = "0" THEN "ErrorRecovered" ELSE "Error"]
                         ELSE x
           phases == [k \in PhaseKind |->
                        IF k \in HookKind
                        THEN [e.phases[k] EXCEPT !.done = Larger(@, Started(e.hooks[k]))]
                        ELSE e.phases[k]]
           notes == [i \in DOMAIN e.notes |-> settled(e.notes[i])]
           q == finish(r, exit)
<1>1. Len(PHASES) + 1 \in Nat
  BY Kinds
<1>2. /\ Silent(r, e) /\ DOMAIN e = DOMAIN New
      /\ \A a \in Beyond \ {"hooks"} : e[a] = r[a]
  BY <1>1, EndIsSilent
<1>3. q = [e EXCEPT !.finished = TRUE, !.exit = exit, !.hooks = closed, !.phases = phases, !.notes = notes]
  BY DEF finish
<1>4. PictureShape(e)
  <2>1. f \in Feed
    BY DEF FeedsOK
  <2>2. Core(f, n, m, e)
    BY <1>1, <2>1, EndKeeps
  <2> QED
    BY <2>2 DEF Core
<1> HIDE DEF e, phases, notes, q
<1>5. /\ q.hooks = closed
      /\ \A a \in DOMAIN New \ {"finished", "exit", "hooks", "phases", "notes"} : q[a] = e[a]
  <2>1. {"finished", "exit", "hooks", "phases", "notes"} \subseteq DOMAIN New
    BY DEF New
  <2> HIDE DEF closed
  <2> QED
    BY <1>2, <1>3, <2>1
<1>6. Beyond \ {"hooks"} \subseteq DOMAIN New \ {"finished", "exit", "hooks", "phases", "notes"}
      /\ LineFields \subseteq Beyond \ {"hooks"} /\ {"optdeps_for", "in_names"} \subseteq Beyond \ {"hooks"}
  BY DEF Beyond, LineFields, New
<1>7. HooksAlike(e.hooks, q.hooks)
  <2>1. \A k \in HookKind : ListShape(e.hooks[k])
    BY <1>4, ListsAre
  <2>2. \A k \in HookKind : q.hooks[k] = Closed(e.hooks[k])
    BY <1>5
  <2> QED
    BY <2>1, <2>2, ClosedTexts DEF HooksAlike
<1>8. Silent(e, q)
  BY <1>5, <1>6, <1>7 DEF Silent
<1>9. Silent(r, q)
  BY <1>2, <1>8, SilentAgain
<1>10. q.optdeps_for = r.optdeps_for /\ q.in_names = r.in_names
  BY <1>2, <1>5, <1>6
<1>11. NoListOpen(f, n, q)
  BY <1>10 DEF Lines, HookIs, NoListOpen
<1>12. Lines(f, n, m, q)
  BY <1>9, <1>11, SilentKeeps DEF q
<1> QED
  BY <1>12 DEF q

\* Before anything is read there is nothing to keep.
LEMMA LinesBegin ==
  ASSUME NEW f \in Feeds
  PROVE  Lines(f, 0, 0, New)
<1>1. /\ New.lines = <<>> /\ New.unknown = {} /\ New.screen_section = None /\ New.screen_hook = 0
      /\ New.tx_started = FALSE /\ New.tx_completed = FALSE
      /\ New.named = [k \in HookKind |-> 0] /\ New.hooks = [k \in HookKind |-> <<>>]
  BY DEF New
<1>2. \A i : i \notin 1..0
  OBVIOUS
<1>3. LinesRead(f, 0, New)
  <2>1. [i \in 1..0 |-> f.screen[i]] = <<>>
    OBVIOUS
  <2> QED
    BY <1>1, <2>1 DEF LinesRead
<1>4. SectionIs(f, 0, New)
  <2>1. (0 + 1) - 1 = 0 /\ None \notin HookKind
    BY DEF HookKind, None
  <2>2. \A k \in HookKind : ~InSection(f.screen, 0 + 1, k)
    BY <1>2, <2>1 DEF InSection
  <2> QED
    BY <1>1, <2>1, <2>2 DEF SectionIs
<1>5. HookIs(f, 0, New)
  BY <1>1, <1>2 DEF HookIs
<1>6. LogIs(f, 0, New)
  <2>1. \A k \in HookKind : NamedIn(f, 0, k) = {}
    BY <1>2 DEF NamedIn
  <2> QED
    BY <1>1, <1>2, <2>1, FS_EmptySet DEF LogIs
<1>7. HooksOwn(f, 0, New)
  BY <1>1 DEF HooksOwn
<1>8. UnknownIs(f, 0, New)
  BY <1>1, FS_EmptySet DEF UnknownIs
<1>9. WordsKept(f, 0, New)
  <2> SUFFICES ASSUME NEW w
               PROVE  /\ NotesWith(New, w) = {} /\ PlainWith(New, w) = {}
                      /\ SaidWith(f, 0, w) = {} /\ ListedWith(New, w) = {}
    BY FS_EmptySet DEF WordsKept
  <2>1. HookNotes(New) = {}
    BY <1>1 DEF HookNotes
  <2> QED
    BY <1>1, <1>2, <2>1 DEF NotesWith, PlainWith, SaidWith, ListedWith
<1> QED
  BY <1>3, <1>4, <1>5, <1>6, <1>7, <1>8, <1>9 DEF Lines

-----------------------------------------------------------------------------
(* The theorems.                                                           *)

\* What the end leaves: everything was read, and every hook begun is over.
Settled ==
  run.finished => run.exit = feed.exit /\ log_read = Len(feed.log) /\ HooksOver(run)

RunInv ==
  /\ feed \in Feeds /\ screen_read \in 0..Len(feed.screen) /\ log_read \in 0..Len(feed.log)
  /\ Core(feed, screen_read, log_read, run)
  /\ SectionKnown(feed, screen_read, run)
  /\ Settled

\* Before anything is read the picture is true.
LEMMA RunBegins ==
  ASSUME FeedsOK, RunInit
  PROVE  RunInv
<1>1. /\ feed \in Feeds /\ feed \in Feed /\ screen_read = 0 /\ log_read = 0 /\ run = New
  BY DEF RunInit, FeedsOK
<1>2. Len(feed.screen) \in Nat /\ Len(feed.log) \in Nat /\ feed.screen \in Seq(ScreenEvent)
  BY <1>1 DEF Feed
<1>3. /\ New.phases = [k \in PhaseKind |-> [state |-> "Pending", done |-> 0, total |-> NoTotal, detail |-> None]]
      /\ New.dbs = {} /\ New.packages = {} /\ New.hooks = [k \in HookKind |-> <<>>]
      /\ New.named = [k \in HookKind |-> 0]
      /\ New.tx_started = FALSE /\ New.log_seen = FALSE /\ New.finished = FALSE
      /\ New.saw_package = FALSE /\ New.screen_section = None
  BY DEF New
<1>4. PictureShape(New)
  <2>1. [state |-> "Pending", done |-> 0, total |-> NoTotal, detail |-> None] \in PhaseShape
    BY DEF PhaseShape
  <2>2. New.phases \in [PhaseKind -> PhaseShape]
    BY <1>3, <2>1
  <2>3. HooksShape(New.hooks)
    BY <1>3 DEF HooksShape
  <2>4. IsFiniteSet(New.dbs) /\ IsFiniteSet(New.packages)
    BY <1>3, FS_EmptySet
  <2>5. New.named \in [HookKind -> Nat]
    BY <1>3
  <2>6. {New.tx_started, New.log_seen, New.finished, New.saw_package} \subseteq BOOLEAN
    BY <1>3
  <2> QED
    BY <2>2, <2>3, <2>4, <2>5, <2>6 DEF PictureShape, PhaseShape
<1>5. \A k \in PhaseKind : /\ New.phases[k].state = "Pending" /\ New.phases[k].done = 0
                          /\ New.phases[k].total = NoTotal
  BY <1>3
<1>6. Ordered(New)
  BY <1>5, Places, Kinds DEF Ordered, Place
<1>7. {"Sync", "Plan", "Download", "Checks"} \cup HookKind \subseteq PhaseKind
  BY Kinds
<1>8. Cardinality({}) = 0
  BY FS_EmptySet
<1>9. Listed(New)
  BY <1>3, <1>5, <1>7, <1>8 DEF Listed
<1>10. HooksFit(feed, New)
  <2>1. \A k \in HookKind : StartedIn(New.hooks[k]) = {}
    BY <1>3 DEF StartedIn
  <2> QED
    BY <1>5, <1>7, <2>1 DEF HooksFit
<1>11. Downloaded(feed, 0, New)
  <2>1. SUFFICES ASSUME NEW i \in (0 + 1)..Len(feed.screen), feed.screen[i].type = "DownloadTotal"
        PROVE  New.phases["Download"].done <= feed.screen[i].done
    BY DEF Downloaded
  <2>2. feed.screen[i] \in ScreenEvent
    BY <1>2
  <2>3. feed.screen[i].done \in Nat
    BY <2>1, <2>2 DEF ScreenEvent, HookKind
  <2> QED
    BY <1>5, <1>7, <2>3
<1>12. ChecksFit(feed, 0, New)
  <2>1. ChecksIn(feed, 0) = {}
    BY DEF ChecksIn
  <2>2. New.phases["Checks"].done = 0
    BY <1>5, <1>7
  <2>3. Cardinality(ChecksIn(feed, 0)) = 0
    BY <1>8, <2>1
  <2> QED
    BY <2>2, <2>3 DEF ChecksFit
<1>13. ToldByLog(feed, 0, New)
  BY <1>3 DEF ToldByLog
<1>14. Core(feed, 0, 0, New)
  BY <1>4, <1>6, <1>9, <1>10, <1>11, <1>12, <1>13 DEF Core
<1>15. SectionKnown(feed, 0, New)
  BY <1>3 DEF SectionKnown, HookKind, None
<1> QED
  BY <1>1, <1>2, <1>3, <1>14, <1>15 DEF RunInv, Settled

\* The end of the run at hand.
LEMMA EndIsTold ==
  ASSUME feed \in Feed, Core(feed, screen_read, log_read, run)
  PROVE  LET q == finish(run, feed.exit)
         IN  /\ Core(feed, screen_read, log_read, q) /\ Forwards(run, q)
             /\ q.finished = TRUE /\ q.exit = feed.exit /\ q.screen_section = run.screen_section
             /\ HooksOver(q)
BY FinishKeeps

\* A step of the run keeps the invariant and takes nothing back.
LEMMA RunSteps ==
  ASSUME FeedsOK, RunInv, RunNext
  PROVE  RunInv' /\ Forwards(run, run')
<1>1. /\ feed \in Feeds /\ feed \in Feed /\ Len(feed.screen) \in Nat /\ Len(feed.log) \in Nat
      /\ screen_read \in Nat /\ log_read \in Nat
      /\ screen_read \in 0..Len(feed.screen) /\ log_read \in 0..Len(feed.log)
      /\ Core(feed, screen_read, log_read, run) /\ SectionKnown(feed, screen_read, run)
      /\ DOMAIN feed.screen = 1..Len(feed.screen) /\ DOMAIN feed.log = 1..Len(feed.log)
  BY DEF RunInv, FeedsOK, Feed
<1>2. CASE Settle
  <2>1. /\ screen_read + 1 \in DOMAIN feed.screen
        /\ run' = apply_line(run, feed.screen[screen_read + 1]) /\ screen_read' = screen_read + 1
        /\ feed' = feed /\ log_read' = log_read /\ ~run.finished
    BY <1>1, <1>2 DEF Settle
  <2>2. /\ Told(feed, screen_read + 1, log_read, run, run')
        /\ SectionKnown(feed, screen_read + 1, run')
    BY <1>1, <2>1, SettleKeeps
  <2>3. Core(feed, screen_read + 1, log_read, run') /\ Forwards(run, run') /\ run'.finished = run.finished
    BY <2>2 DEF Told
  <2>4. Core(feed, screen_read, log_read, run)' /\ SectionKnown(feed, screen_read, run)'
    BY <2>1, <2>2, <2>3
  <2>5. Settled'
    BY <2>1, <2>3 DEF Settled
  <2>6. screen_read' \in 0..Len(feed.screen)
    BY <1>1, <2>1
  <2> QED
    BY <1>1, <2>1, <2>3, <2>4, <2>5, <2>6 DEF RunInv
<1>3. CASE Observe
  <2>1. /\ screen_read + 1 \in DOMAIN feed.screen /\ feed.screen[screen_read + 1].type = "Check"
        /\ run' = apply_screen(run, feed.screen[screen_read + 1]) /\ screen_read' = screen_read
        /\ feed' = feed /\ log_read' = log_read /\ ~run.finished
    BY <1>1, <1>3 DEF Observe
  <2> DEFINE ev == feed.screen[screen_read + 1]
  <2>2. Told(feed, screen_read, log_read, run, run') /\ Moved(ev, run, run')
    <3>1. Told(feed, screen_read, log_read, run, apply_screen(run, ev)) /\ Moved(ev, run, apply_screen(run, ev))
      BY <1>1, <2>1, ScreenKeeps
    <3> QED
      BY <2>1, <3>1
  <2>3. run'.screen_section = run.screen_section
    BY <2>1, <2>2 DEF HookKind, Moved
  <2>4. Core(feed, screen_read, log_read, run') /\ Forwards(run, run') /\ run'.finished = run.finished
    BY <2>2 DEF Told
  <2>5. SectionKnown(feed, screen_read, run')
    BY <1>1, <2>3 DEF SectionKnown
  <2>6. Core(feed, screen_read, log_read, run)' /\ SectionKnown(feed, screen_read, run)'
    BY <2>1, <2>4, <2>5
  <2>7. Settled'
    BY <2>1, <2>4 DEF Settled
  <2> QED
    BY <1>1, <2>1, <2>4, <2>6, <2>7 DEF RunInv
<1>4. CASE ReadLog
  <2>1. /\ log_read + 1 \in DOMAIN feed.log /\ run' = apply_log(run, feed.log[log_read + 1])
        /\ log_read' = log_read + 1
        /\ feed' = feed /\ screen_read' = screen_read /\ ~run.finished
    BY <1>1, <1>4 DEF ReadLog
  <2>2. Kept(feed, screen_read, log_read + 1, run, run')
    BY <1>1, <2>1, LogKeeps
  <2>3. /\ Core(feed, screen_read, log_read + 1, run') /\ Forwards(run, run')
        /\ run'.finished = run.finished /\ run'.screen_section = run.screen_section
    BY <2>2 DEF Kept, Told
  <2>4. SectionKnown(feed, screen_read, run')
    BY <1>1, <2>3 DEF SectionKnown
  <2>5. Core(feed, screen_read, log_read, run)' /\ SectionKnown(feed, screen_read, run)'
    BY <2>1, <2>3, <2>4
  <2>6. Settled'
    BY <2>1, <2>3 DEF Settled
  <2>7. log_read' \in 0..Len(feed.log)
    BY <1>1, <2>1
  <2> QED
    BY <1>1, <2>1, <2>3, <2>5, <2>6, <2>7 DEF RunInv
<1>5. CASE RunEnds
  <2>1. /\ log_read = Len(feed.log) /\ run' = finish(run, feed.exit)
        /\ feed' = feed /\ screen_read' = screen_read /\ log_read' = log_read
    BY <1>5 DEF RunEnds
  <2>2. /\ Core(feed, screen_read, log_read, run') /\ Forwards(run, run')
        /\ run'.finished = TRUE /\ run'.exit = feed.exit
        /\ run'.screen_section = run.screen_section /\ HooksOver(run')
    BY <1>1, <2>1, EndIsTold
  <2>3. SectionKnown(feed, screen_read, run')
    BY <1>1, <2>2 DEF SectionKnown
  <2>4. Core(feed, screen_read, log_read, run)' /\ SectionKnown(feed, screen_read, run)'
    BY <2>1, <2>2, <2>3
  <2>5. Settled'
    BY <2>1, <2>2 DEF Settled
  <2> QED
    BY <1>1, <2>1, <2>2, <2>4, <2>5 DEF RunInv
<1> QED
  BY <1>2, <1>3, <1>4, <1>5 DEF RunNext

\* The invariant tells that the picture is true.
LEMMA RunShows ==
  ASSUME FeedsOK, RunInv
  PROVE  PictureIsTrue /\ RunTypeOK
<1>1. /\ feed \in Feeds /\ feed \in Feed /\ Core(feed, screen_read, log_read, run)
      /\ Len(feed.screen) \in Nat /\ screen_read \in 0..Len(feed.screen)
      /\ DOMAIN feed.log = 1..Len(feed.log) /\ Settled
  BY DEF RunInv, FeedsOK, Feed
<1>2. PhasesInOrder
  BY <1>1 DEF Core, Ordered, PhasesInOrder
<1>3. HooksCounted
  <2>1. HooksFit(feed, run)
    BY <1>1 DEF Core
  <2>2. \A k \in HookKind : run.phases[k].total # NoTotal => run.phases[k].done <= run.phases[k].total
    BY <2>1 DEF HooksFit
  <2> QED
    BY <1>1, <2>2 DEF HooksCounted, Settled, HooksOver
<1>4. ChecksCountedOnce
  <2>0. ChecksIn(feed, Len(feed.screen)) \subseteq 1..Len(feed.screen)
    BY DEF ChecksIn
  <2>1. IsFiniteSet(1..Len(feed.screen))
    BY <1>1, FS_Interval
  <2>2. IsFiniteSet(ChecksIn(feed, Len(feed.screen)))
    BY <2>0, <2>1, FS_Subset
  <2> DEFINE all == Cardinality(ChecksIn(feed, Len(feed.screen)))
             until == Cardinality(ChecksIn(feed, screen_read))
             next == Cardinality(ChecksIn(feed, screen_read + 1))
  <2>3. ChecksIn(feed, screen_read) \subseteq ChecksIn(feed, Len(feed.screen))
    BY <1>1 DEF ChecksIn
  <2>4. until \in Nat /\ all \in Nat /\ until <= all
    BY <2>2, <2>3, NoSmaller
  <2>5. screen_read + 1 \in DOMAIN feed.screen => next \in Nat /\ next <= all
    <3>1. HAVE screen_read + 1 \in DOMAIN feed.screen
    <3>2. screen_read + 1 \in 1..Len(feed.screen)
      BY <1>1, <3>1 DEF Feed
    <3>3. ChecksIn(feed, screen_read + 1) \subseteq ChecksIn(feed, Len(feed.screen))
      BY <1>1, <3>2 DEF ChecksIn
    <3> QED
      BY <2>2, <3>3, NoSmaller
  <2>6. run.phases["Checks"].done \in Nat
    BY <1>1, Shape, Kinds DEF Core
  <2>7. \/ run.phases["Checks"].done <= until
        \/ screen_read + 1 \in DOMAIN feed.screen /\ run.phases["Checks"].done <= next
    BY <1>1 DEF Core, ChecksFit
  <2>8. run.phases["Checks"].done <= all
    BY <2>4, <2>5, <2>6, <2>7
  <2> QED
    BY <2>8 DEF ChecksCountedOnce, ChecksUpTo, ChecksIn
<1>5. OutcomeIsTrue
  <2>1. /\ run.saw_package \/ run.tx_started => feed.facts.changed
        /\ run.log_seen => feed.log # <<>>
    BY <1>1 DEF Core, ToldByLog
  <2>2. run.finished \in BOOLEAN /\ run.log_seen \in BOOLEAN /\ run.tx_started \in BOOLEAN /\ run.saw_package \in BOOLEAN
    BY <1>1 DEF Core, PictureShape
  <2>3. CASE ~run.finished
    <3>1. outcome(run) = "Running"
      BY <2>3 DEF outcome
    <3> QED
      BY <2>3, <3>1 DEF OutcomeIsTrue
  <2>4. CASE run.finished
    <3>1. log_read = Len(feed.log) /\ run.exit = feed.exit
      BY <1>1, <2>4 DEF Settled
    <3>2. feed.log # <<>> => run.log_seen
      <4>1. HAVE feed.log # <<>>
      <4>2. Shows(feed.log, {"RunStart", "TxStarted", "TxCompleted"})
        BY <1>1, <4>1 DEF FeedsOK, RunOK
      <4>3. PICK i \in 1..log_read : feed.log[i].type \in {"RunStart", "TxStarted", "TxCompleted"}
        BY <1>1, <3>1, <4>2 DEF Shows
      <4> QED
        BY <1>1, <4>3 DEF Core, ToldByLog
    <3>3. feed.facts.changed /\ feed.log # <<>> => run.tx_started
      <4>1. HAVE feed.facts.changed /\ feed.log # <<>>
      <4>2. Shows(feed.log, {"TxStarted"})
        BY <1>1, <4>1 DEF FeedsOK, RunOK
      <4>3. PICK i \in 1..log_read : feed.log[i].type = "TxStarted"
        BY <1>1, <3>1, <4>2 DEF Shows
      <4> QED
        BY <1>1, <4>3 DEF Core, ToldByLog
    <3>4. feed.facts.changed \in BOOLEAN
      BY <1>1 DEF Feed
    <3>5. CASE feed.exit # "0"
      <4>1. outcome(run) = "Failed"
        BY <2>4, <3>1, <3>5 DEF outcome
      <4> QED
        BY <3>5, <4>1 DEF OutcomeIsTrue
    <3>6. CASE feed.exit = "0" /\ run.log_seen /\ ~run.tx_started
      <4>1. outcome(run) = "NothingChanged"
        BY <2>4, <3>1, <3>6 DEF outcome
      <4> QED
        BY <2>1, <3>3, <3>6, <4>1 DEF OutcomeIsTrue
    <3>7. CASE feed.exit = "0" /\ (run.log_seen => run.tx_started) /\ (run.log_seen \/ run.saw_package)
      <4>1. outcome(run) = "Succeeded"
        BY <2>4, <3>1, <3>7 DEF outcome
      <4> QED
        BY <2>1, <3>7, <4>1 DEF OutcomeIsTrue
    <3>8. CASE feed.exit = "0" /\ ~run.log_seen /\ ~run.saw_package
      <4>1. outcome(run) = "Unknown"
        BY <2>4, <3>1, <3>8 DEF outcome
      <4> QED
        BY <3>2, <3>8, <4>1 DEF OutcomeIsTrue
    <3> QED
      BY <2>2, <3>5, <3>6, <3>7, <3>8
  <2> QED
    BY <2>3, <2>4
<1>6. RunTypeOK
  BY <1>1 DEF RunInv, Core, RunTypeOK
<1> QED
  BY <1>2, <1>3, <1>4, <1>5, <1>6 DEF PictureIsTrue

\* Every behaviour keeps the picture true.
LEMMA RunKeepsInv == ASSUME FeedsOK PROVE RunSpec => []RunInv
<1>1. RunInit => RunInv
  BY RunBegins
<1>2. RunInv /\ [RunNext]_runvars => RunInv'
  <2>1. ASSUME RunInv, UNCHANGED runvars PROVE RunInv'
    BY <2>1 DEF RunInv, runvars, Settled
  <2>2. ASSUME RunInv, RunNext PROVE RunInv'
    BY <2>2, RunSteps
  <2> QED
    BY <2>1, <2>2
<1> QED
  BY <1>1, <1>2, PTL DEF RunSpec

\* Every step keeps the lines.
LEMMA LinesSteps ==
  ASSUME FeedsOK, RunInv, LinesInv, RunNext
  PROVE  LinesInv'
<1>1. /\ feed \in Feeds /\ screen_read \in Nat /\ log_read \in Nat
      /\ Core(feed, screen_read, log_read, run) /\ PictureShape(run) /\ Ordered(run)
      /\ Lines(feed, screen_read, log_read, run)
  BY DEF RunInv, FeedsOK, Feed, Core, LinesInv
<1>2. Forwards(run, run')
  BY RunSteps
<1>3. DOMAIN feed.screen = 1..Len(feed.screen) /\ DOMAIN feed.log = 1..Len(feed.log)
      /\ Len(feed.screen) \in Nat /\ Len(feed.log) \in Nat
  BY <1>1 DEF FeedsOK, Feed
<1>4. CASE Settle
  <2>1. /\ screen_read + 1 \in DOMAIN feed.screen
        /\ run' = apply_line(run, feed.screen[screen_read + 1]) /\ screen_read' = screen_read + 1
        /\ feed' = feed /\ log_read' = log_read
    BY <1>1, <1>3, <1>4 DEF Settle
  <2>2. Forwards(run, apply_line(run, feed.screen[screen_read + 1]))
    BY <1>2, <2>1
  <2>3. Lines(feed, screen_read + 1, log_read, apply_line(run, feed.screen[screen_read + 1]))
    BY <1>1, <2>1, <2>2, LineSettles
  <2> QED
    BY <2>1, <2>3 DEF LinesInv
<1>5. CASE Observe
  <2>1. /\ feed.screen[screen_read + 1].type = "Check"
        /\ run' = apply_screen(run, feed.screen[screen_read + 1]) /\ screen_read' = screen_read
        /\ feed' = feed /\ log_read' = log_read
    BY <1>5 DEF Observe
  <2>2. Forwards(run, apply_screen(run, feed.screen[screen_read + 1]))
    BY <1>2, <2>1
  <2>3. Lines(feed, screen_read, log_read, apply_screen(run, feed.screen[screen_read + 1]))
    BY <1>1, <2>1, <2>2, LookKeeps
  <2> QED
    BY <2>1, <2>3 DEF LinesInv
<1>6. CASE ReadLog
  <2>1. /\ log_read + 1 \in DOMAIN feed.log /\ run' = apply_log(run, feed.log[log_read + 1])
        /\ log_read' = log_read + 1 /\ feed' = feed /\ screen_read' = screen_read
    BY <1>1, <1>3, <1>6 DEF ReadLog
  <2>2. Forwards(run, apply_log(run, feed.log[log_read + 1]))
    BY <1>2, <2>1
  <2>3. Lines(feed, screen_read, log_read + 1, apply_log(run, feed.log[log_read + 1]))
    BY <1>1, <2>1, <2>2, LogReads
  <2> QED
    BY <2>1, <2>3 DEF LinesInv
<1>7. CASE RunEnds
  <2>1. /\ run' = finish(run, feed.exit)
        /\ feed' = feed /\ screen_read' = screen_read /\ log_read' = log_read
    BY <1>7 DEF RunEnds
  <2>2. Forwards(run, finish(run, feed.exit))
    BY <1>2, <2>1
  <2>3. Lines(feed, screen_read, log_read, finish(run, feed.exit))
    BY <1>1, <2>2, EndKeepsLines
  <2> QED
    BY <2>1, <2>3 DEF LinesInv
<1> QED
  BY <1>4, <1>5, <1>6, <1>7 DEF RunNext

\* What holds of the lines tells that each is kept.
LEMMA LinesShow ==
  ASSUME FeedsOK, RunInv, LinesInv
  PROVE  RunLinesAreKept
<1>1. /\ feed \in Feeds /\ screen_read \in Nat /\ PictureShape(run) /\ RunOK(feed)
      /\ LinesRead(feed, screen_read, run) /\ HooksOwn(feed, screen_read, run)
      /\ UnknownIs(feed, screen_read, run) /\ WordsKept(feed, screen_read, run)
  BY DEF RunInv, FeedsOK, Feed, Core, LinesInv, Lines
<1>2. \A k \in HookKind : \A i \in DOMAIN run.hooks[k] :
         HookOwn(feed, screen_read, k, i, run.hooks[k][i])
  BY <1>1 DEF HooksOwn
<1>3. HooksPaired
  BY Zenon, <1>2 DEF HooksPaired, HookOwn
<1>4. ASSUME NEW k \in HookKind, NEW i \in DOMAIN run.hooks[k]
      PROVE  LET h == run.hooks[k][i]
                 prints == feed.facts[k][i].prints
             IN  /\ DOMAIN h.notes = 1..Len(h.notes) /\ Len(h.notes) \in Nat
                 /\ i \in DOMAIN feed.facts[k] /\ Len(h.notes) <= Len(prints)
                 /\ \A j \in DOMAIN h.notes : /\ h.notes[j].text = prints[j]
                                              /\ h.notes[j].kind = hook_note_kind(prints[j], h)
  <2>1. HookOwn(feed, screen_read, k, i, run.hooks[k][i])
    BY <1>2, <1>4
  <2> DEFINE h == run.hooks[k][i]
             prints == feed.facts[k][i].prints
             size == Len(h.notes)
  <2>2. /\ i \in DOMAIN feed.facts[k] /\ size \in Nat /\ size <= Len(prints)
        /\ h.notes = [j \in 1..size |-> [kind |-> hook_note_kind(prints[j], h), text |-> prints[j]]]
    BY <2>1 DEF HookOwn
  <2> HIDE DEF h, prints, size
  <2>3. DOMAIN h.notes = 1..size
    BY <2>2
  <2>4. \A j \in 1..size : h.notes[j] = [kind |-> hook_note_kind(prints[j], h), text |-> prints[j]]
    BY <2>2
  <2>5. ASSUME NEW j \in 1..size
        PROVE  h.notes[j].text = prints[j] /\ h.notes[j].kind = hook_note_kind(prints[j], h)
    <3> DEFINE kind == hook_note_kind(prints[j], h)
    <3>1. h.notes[j] = [kind |-> kind, text |-> prints[j]]
      BY <2>4, <2>5
    <3> HIDE DEF kind
    <3>2. h.notes[j].text = prints[j] /\ h.notes[j].kind = kind
      BY <3>1
    <3> QED
      BY <3>2 DEF kind
  <2> QED
    BY Zenon, <2>2, <2>3, <2>5 DEF h, prints, size
<1>5. OutputUnderItsHook
  <2>1. ASSUME NEW k \in HookKind, NEW i \in DOMAIN run.hooks[k]
        PROVE  /\ i \in DOMAIN feed.facts[k]
               /\ IsPrefix([n \in DOMAIN run.hooks[k][i].notes |-> run.hooks[k][i].notes[n].text],
                           feed.facts[k][i].prints)
    <3> DEFINE h == run.hooks[k][i]
               prints == feed.facts[k][i].prints
               texts == [n \in DOMAIN h.notes |-> h.notes[n].text]
               size == Len(h.notes)
    <3>1. /\ DOMAIN h.notes = 1..size /\ size \in Nat /\ i \in DOMAIN feed.facts[k]
          /\ size <= Len(prints) /\ \A j \in DOMAIN h.notes : h.notes[j].text = prints[j]
      BY <1>4, <2>1
    <3>2. DOMAIN prints = 1..Len(prints) /\ Len(prints) \in Nat
      BY <1>1, <2>1, <3>1, FactsAre
    <3> HIDE DEF h, prints, size
    <3>3. texts = [j \in 1..size |-> prints[j]]
      BY <3>1
    <3>4. SubSeq(prints, 1, size) = [j \in 1..size |-> prints[j]]
      BY <3>1, <3>2
    <3>5. texts = SubSeq(prints, 1, size) /\ DOMAIN texts = 1..size
      BY <3>3, <3>4
    <3>6. Len(texts) = size
      BY <3>1, <3>2, <3>3
    <3>7. IsPrefix(texts, prints)
      BY <3>1, <3>5, <3>6 DEF IsPrefix
    <3> QED
      BY <3>1, <3>7 DEF h, prints
  <2> QED
    BY <2>1 DEF OutputUnderItsHook
<1>6. ReadAsWhatItIs
  <2>1. ASSUME NEW k \in HookKind, NEW i \in DOMAIN run.hooks[k], NEW n \in DOMAIN run.hooks[k][i].notes
        PROVE  run.hooks[k][i].notes[n].kind
                 = hook_note_kind(run.hooks[k][i].notes[n].text, run.hooks[k][i])
    BY <1>4, <2>1
  <2> QED
    BY <2>1 DEF ReadAsWhatItIs
<1>7. NothingVanishes
  <2> DEFINE said(w) == {i \in DOMAIN run.lines :
                           run.lines[i].type \in {"Other", "Db"} /\ run.lines[i].text.word = w}
             listed(w) == {u \in run.unknown : u.text.word = w}
             kept(w) == {x \in HookNotes(run) : /\ NoteAt(run, x).text.word = w
                                                /\ NoteAt(run, x).kind # "Plain"}
  <2>1. DOMAIN run.lines = 1..screen_read /\ \A i \in 1..screen_read : run.lines[i] = feed.screen[i]
    BY <1>1 DEF LinesRead
  <2>2. ASSUME NEW w PROVE said(w) = SaidWith(feed, screen_read, w)
    BY <2>1 DEF SaidWith
  <2>3. \A u \in run.unknown :
           /\ u.at \in 1..screen_read /\ feed.screen[u.at].type \in {"Other", "Db"}
           /\ u = [text |-> feed.screen[u.at].text, at |-> u.at]
    BY <1>1 DEF UnknownIs
  <2>4. \A u \in run.unknown : u.at \in said(u.text.word)
    <3> SUFFICES ASSUME NEW u \in run.unknown PROVE u.at \in said(u.text.word)
      OBVIOUS
    <3>1. u.at \in 1..screen_read /\ feed.screen[u.at].type \in {"Other", "Db"}
          /\ u.text = feed.screen[u.at].text
      BY <2>3
    <3> QED
      BY <2>1, <3>1
  <2>5. \A u, v \in run.unknown : u # v => u.at # v.at
    BY <2>3
  <2>6. ASSUME NEW w \in feed.facts.words
        PROVE  Cardinality(said(w)) = Cardinality(listed(w)) + Cardinality(kept(w))
    <3>1. /\ IsFiniteSet(NotesWith(run, w))
          /\ Cardinality(SaidWith(feed, screen_read, w)) = Cardinality(NotesWith(run, w))
          /\ Cardinality(ListedWith(run, w)) = Cardinality(PlainWith(run, w))
      BY <1>1, <2>6 DEF WordsKept
    <3>2. listed(w) = ListedWith(run, w)
      BY DEF ListedWith
    <3>3. kept(w) = NotesWith(run, w) \ PlainWith(run, w)
      BY DEF NotesWith, PlainWith
    <3>4. said(w) = SaidWith(feed, screen_read, w)
      BY <2>2
    <3> HIDE DEF said, listed, kept
    <3>5. /\ Cardinality(NotesWith(run, w)) \in Nat /\ Cardinality(PlainWith(run, w)) \in Nat
          /\ Cardinality(NotesWith(run, w) \ PlainWith(run, w))
               = Cardinality(NotesWith(run, w)) - Cardinality(PlainWith(run, w))
      BY <3>1, PlainIsNote, Without
    <3> QED
      BY <3>1, <3>2, <3>3, <3>4, <3>5
  <2> QED
    BY <2>4, <2>5, <2>6 DEF NothingVanishes
<1> QED
  BY <1>3, <1>5, <1>6, <1>7 DEF RunLinesAreKept

\* Every behaviour keeps the lines.
LEMMA LinesKeepInv == ASSUME FeedsOK PROVE RunSpec => [](RunInv /\ LinesInv)
<1>1. RunInit => RunInv /\ LinesInv
  <2>1. ASSUME RunInit PROVE LinesInv
    <3>1. feed \in Feeds /\ screen_read = 0 /\ log_read = 0 /\ run = New
      BY <2>1 DEF RunInit
    <3>2. Lines(feed, 0, 0, New)
      BY <3>1, LinesBegin
    <3> QED
      BY <3>1, <3>2 DEF LinesInv
  <2> QED
    BY <2>1, RunBegins
<1>2. RunInv /\ LinesInv /\ [RunNext]_runvars => LinesInv'
  <2>1. ASSUME LinesInv, UNCHANGED runvars PROVE LinesInv'
    <3>1. feed' = feed /\ screen_read' = screen_read /\ log_read' = log_read /\ run' = run
      BY <2>1 DEF runvars
    <3>2. Lines(feed, screen_read, log_read, run)
      BY <2>1 DEF LinesInv
    <3> QED
      BY <3>1, <3>2 DEF LinesInv
  <2>2. ASSUME RunInv, LinesInv, RunNext PROVE LinesInv'
    BY <2>2, LinesSteps
  <2> QED
    BY <2>1, <2>2
<1>3. RunSpec => []RunInv
  BY RunKeepsInv
<1> QED
  BY <1>1, <1>2, <1>3, PTL DEF RunSpec

\* The picture has its shape, whatever is read first.
THEOREM RunTypes == ASSUME FeedsOK PROVE RunSpec => []RunTypeOK
<1>1. RunInv => RunTypeOK
  BY RunShows
<1>2. RunSpec => []RunInv
  BY RunKeepsInv
<1> QED
  BY <1>1, <1>2, PTL

\* The picture of a run is true of it however its screen and its log interleave,
\* and no step takes back what it told (model.rs).
THEOREM TheRunIsToldTruly == ASSUME FeedsOK PROVE RunSpec => RunIsTrue
<1>1. RunInv => PictureIsTrue
  BY RunShows
<1>2. RunInv /\ [RunNext]_runvars => [GoesForward]_runvars
  <2>1. ASSUME RunInv, RunNext PROVE GoesForward
    <3>1. Forwards(run, run')
      BY <2>1, RunSteps
    <3> QED
      BY <3>1 DEF Forwards, GoesForward, Place
  <2> QED
    BY <2>1
<1>3. RunSpec => []RunInv
  BY RunKeepsInv
<1>4. RunSpec => []PictureIsTrue
  BY <1>1, <1>3, PTL
<1>5. RunSpec => [][GoesForward]_runvars
  BY <1>2, <1>3, PTL DEF RunSpec
<1> QED
  BY <1>4, <1>5 DEF RunIsTrue

\* However the screen and the log of a run interleave, what a hook printed is
\* kept under that hook and no other, in order and read with all that is known of
\* the hook; and of each text hooks print, as many lines are listed as unknown as
\* came that no note shows (log_hook, screen_hook_line, other and reclassify of
\* model.rs).
THEOREM EveryLineIsKept == ASSUME FeedsOK PROVE RunSpec => []RunLinesAreKept
<1>1. RunInv /\ LinesInv => RunLinesAreKept
  BY LinesShow
<1>2. RunSpec => [](RunInv /\ LinesInv)
  BY LinesKeepInv
<1> QED
  BY <1>1, <1>2, PTL

=============================================================================
