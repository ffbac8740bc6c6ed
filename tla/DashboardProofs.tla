-------------------------- MODULE DashboardProofs --------------------------
(***************************************************************************)
(* Proofs about the dashboard while scans land, for any machine, any set   *)
(* of sources and any number of scans: the types, that a counted row shows *)
(* this scan's numbers and never changes again while it lasts; and that a  *)
(* carried row other than the aur's shows one earlier scan's.              *)
(***************************************************************************)
EXTENDS Dashboard, SequenceTheorems, TLAPS

\* The composition of one scan is a result.
LEMMA ComposeType ==
  ASSUME NEW k \in Nat, NEW L \in SUBSET Sources,
         NEW P \in SUBSET Report, NEW O \in SUBSET L, NEW U \in SUBSET L
  PROVE  compose(k, L, P, O, U) \in Result
<1>1. /\ \A S, s : Of(k, S, s) \in Seq(Nat)
      /\ \A S, T, s, t : Of(k, S, s) \o Of(k, T, t) \in Seq(Nat)
      /\ <<>> \in Seq(Nat)
  BY DEF Of
<1>2. Complete(L, P) \subseteq L
  BY DEF Complete
<1> QED
  BY <1>1, <1>2 DEF compose, Result

LEMMA ComposeSources ==
  ASSUME NEW k \in Nat, NEW L \in SUBSET Sources,
         NEW P \in SUBSET Report, NEW O \in SUBSET L, NEW U \in SUBSET L
  PROVE  /\ compose(k, L, P, O, U).sources = Sources
         /\ compose(k, L, P, O, U).last_scanned = Complete(L, P)
  BY DEF compose

LEMMA CompleteAreSources ==
  ASSUME NEW L \in SUBSET Sources, NEW P \in SUBSET Report
  PROVE  Complete(L, P) \subseteq Sources
  BY DEF Complete

\* The lists are held back long enough never to show the aur's packages as
\* pacman's.
LEMMA ComposeRows ==
  ASSUME NEW k \in Nat, NEW L \in SUBSET Sources,
         NEW P \in SUBSET Report, NEW O \in SUBSET L, NEW U \in SUBSET L,
         NEW s \in Sources
  PROVE  /\ compose(k, L, P, O, U).packages[s] =
                   IF s \in O \cap WithPackages(L, P) THEN <<k>> ELSE <<>>
         /\ compose(k, L, P, O, U).updates[s] =
                   IF s \in U \cap WithUpdates(L, P) THEN <<k>> ELSE <<>>
<1>1. ASSUME "pacman" \in WithPackages(L, P), "foreign" \notin P
      PROVE  Of(k, O, "aur") = <<>>
  BY <1>1, SimpleAssumption DEF WithPackages, pacman_done, Of, PacmanReports
<1>2. Of(k, O, s) \in Seq(Nat)
  BY DEF Of
<1>3. Of(k, O, s) \o <<>> = Of(k, O, s)
  BY <1>2, ConcatEmptySeq
<1> QED
  BY <1>1, <1>3 DEF compose, Of

\* A source that is complete has its lists, and stays complete.
LEMMA CompleteHasLists ==
  ASSUME NEW L, NEW P
  PROVE  Complete(L, P) \subseteq WithPackages(L, P) \cap WithUpdates(L, P)
  BY DEF Complete, WithPackages, WithUpdates, aur_done

LEMMA CompleteGrows ==
  ASSUME NEW L, NEW P, NEW Q, P \subseteq Q
  PROVE  Complete(L, P) \subseteq Complete(L, Q)
  BY DEF Complete, aur_done, pacman_done

\* What swapping a partial result in leaves on screen.
LEMMA PartialLands ==
  ASSUME BoardTypeOK, NEW r \in Result, replace_scan_partial(r)
  PROVE  /\ scan' \in Result
         /\ scan'.sources = r.sources /\ scan'.last_scanned = r.last_scanned
         /\ enabled' = r.sources /\ scanning' = TRUE
         /\ carried' = Carry(r) /\ Carry(r) \subseteq r.sources \ r.last_scanned
         /\ \A s \in Sources : s \notin carried' =>
              scan'.packages[s] = r.packages[s] /\ scan'.updates[s] = r.updates[s]
         /\ \A s \in carried' :
              /\ scan'.packages[s] = r.packages[s] \o scan.packages[s]
              /\ scan'.updates[s] = r.updates[s] \o scan.updates[s]
<1> DEFINE C == Carry(r)
           With(new, old) == [s \in Sources |-> IF s \in C THEN new[s] \o old[s] ELSE new[s]]
<1>1. /\ scan' = [r EXCEPT !.packages = With(r.packages, scan.packages),
                           !.updates = With(r.updates, scan.updates)]
      /\ enabled' = r.sources /\ scanning' = TRUE /\ carried' = C
  BY DEF replace_scan_partial, Result
<1>2. C \subseteq r.sources \ r.last_scanned
  BY DEF Carry
<1>3. \A new, old \in [Sources -> Seq(Nat)] : With(new, old) \in [Sources -> Seq(Nat)]
  <2>1. \A p, q \in Seq(Nat) : p \o q \in Seq(Nat)
    OBVIOUS
  <2> QED
    BY <2>1
<1>4. /\ r.packages \in [Sources -> Seq(Nat)] /\ r.updates \in [Sources -> Seq(Nat)]
      /\ scan.packages \in [Sources -> Seq(Nat)] /\ scan.updates \in [Sources -> Seq(Nat)]
  BY DEF BoardTypeOK, Result
<1>5. /\ With(r.packages, scan.packages) \in [Sources -> Seq(Nat)]
      /\ With(r.updates, scan.updates) \in [Sources -> Seq(Nat)]
  BY <1>3, <1>4
<1> HIDE DEF With
<1>6. /\ scan' \in Result
      /\ scan'.sources = r.sources /\ scan'.last_scanned = r.last_scanned
      /\ scan'.packages = With(r.packages, scan.packages)
      /\ scan'.updates = With(r.updates, scan.updates)
  BY <1>1, <1>5 DEF Result
<1>7. C \subseteq Sources
  BY <1>2 DEF Result
<1> QED
  BY <1>1, <1>2, <1>6, <1>7 DEF With

LEMMA LanesFacts ==
  ASSUME BoardTypeOK
  PROVE  lanes \in SUBSET Sources /\ scans \in Nat
  BY DashboardAssumption DEF BoardTypeOK, lanes

LEMMA ReportsType == ASSUME NEW L \in SUBSET Sources PROVE Reports(L) \in SUBSET Report
  BY DEF Reports, Report

LEMMA InitTyped == BoardInit => BoardTypeOK
<1> SUFFICES ASSUME BoardInit PROVE BoardTypeOK
  OBVIOUS
<1>1. lanes \in SUBSET Sources
  BY DashboardAssumption DEF BoardInit, lanes
<1>2. Nothing \in Result /\ Nothing.last_scanned = {} /\ Nothing.sources = {}
  <2>1. <<>> \in Seq(Nat)
    OBVIOUS
  <2> QED
    BY <2>1 DEF Nothing, Result
<1>3. CASE job = "none"
  <2>1. scan = compose(0, lanes, Reports(lanes), owned, pending) /\ scans = 0 /\ scanning = FALSE
    BY <1>3 DEF BoardInit
  <2>2. owned \in SUBSET lanes /\ pending \in SUBSET lanes /\ 0 \in Nat
    BY DEF BoardInit
  <2>a. scan \in Result
    BY <2>1, <2>2, <1>1, ReportsType, ComposeType
  <2>3. scan.last_scanned \subseteq scan.sources
    BY <2>1, <2>2, <1>1, ReportsType, ComposeSources, CompleteAreSources
  <2>4. scans \in 0..MaxScans
    BY <2>1, DashboardAssumption
  <2> QED
    BY <2>1, <2>a, <2>3, <2>4, <1>3 DEF BoardInit, BoardTypeOK
<1>4. CASE job # "none"
  <2>1. scan = Nothing /\ job = "started" /\ scanning = TRUE /\ scans = 1
    BY <1>4 DEF BoardInit
  <2>2. scans \in 0..MaxScans
    BY <2>1, DashboardAssumption
  <2> QED
    BY <2>1, <2>2, <1>1, <1>2, <1>4 DEF BoardInit, BoardTypeOK
<1> QED
  BY <1>3, <1>4

\* The result the event loop lands next: of this scan, and a result.
LEMMA NextResult ==
  ASSUME BoardTypeOK, NEW P \in SUBSET Report
  PROVE  LET r == compose(scans, lanes, P, owned, pending)
         IN  /\ r \in Result
             /\ r.sources = Sources
             /\ r.last_scanned = Complete(lanes, P)
             /\ r.last_scanned \subseteq r.sources
             /\ \A s \in Complete(lanes, P) :
                  s \in Sources /\ r.packages[s] = Found(owned, s)
                                /\ r.updates[s] = Found(pending, s)
<1>1. /\ owned \in SUBSET lanes /\ pending \in SUBSET lanes
  BY DEF BoardTypeOK
<1> DEFINE r == compose(scans, lanes, P, owned, pending)
<1>2. /\ r \in Result /\ r.sources = Sources
      /\ r.last_scanned = Complete(lanes, P) /\ r.last_scanned \subseteq r.sources
      /\ \A s \in Sources :
           /\ r.packages[s] = IF s \in owned \cap WithPackages(lanes, P) THEN <<scans>> ELSE <<>>
           /\ r.updates[s] = IF s \in pending \cap WithUpdates(lanes, P) THEN <<scans>> ELSE <<>>
  <2>1. lanes \in SUBSET Sources /\ scans \in Nat
    BY LanesFacts
  <2>2. r \in Result
    BY <1>1, <2>1, ComposeType
  <2>3. r.sources = Sources /\ r.last_scanned = Complete(lanes, P)
    BY <1>1, <2>1, ComposeSources
  <2>5. Complete(lanes, P) \subseteq Sources
    BY <2>1, CompleteAreSources
  <2>4. \A s \in Sources :
          /\ r.packages[s] = IF s \in owned \cap WithPackages(lanes, P) THEN <<scans>> ELSE <<>>
          /\ r.updates[s] = IF s \in pending \cap WithUpdates(lanes, P) THEN <<scans>> ELSE <<>>
    BY <1>1, <2>1, ComposeRows
  <2> QED
    BY <2>2, <2>3, <2>4, <2>5
<1> HIDE DEF r
<1>3. Complete(lanes, P) \subseteq WithPackages(lanes, P) \cap WithUpdates(lanes, P)
  BY CompleteHasLists
<1>4. \A s \in Complete(lanes, P) :
        s \in Sources /\ r.packages[s] = Found(owned, s) /\ r.updates[s] = Found(pending, s)
  BY <1>2, <1>3 DEF Found
<1> QED
  BY <1>2, <1>4 DEF r

LEMMA LandSourcesTyped == ASSUME BoardTypeOK, LandSources PROVE BoardTypeOK'
<1> DEFINE r == compose(scans, lanes, parts, owned, pending)
<1>1. r \in Result /\ r.last_scanned \subseteq r.sources
  BY NextResult DEF BoardTypeOK
<1>2. replace_scan_partial(r) /\ UNCHANGED <<machine, scans, parts, owned, pending>>
      /\ job' = "reporting"
  BY DEF LandSources
<1> HIDE DEF r
<1>3. /\ scan' \in Result /\ scan'.last_scanned \subseteq scan'.sources
      /\ carried' \subseteq scan'.sources \ scan'.last_scanned
      /\ enabled' \subseteq scan'.sources /\ scanning' = TRUE
  BY <1>1, <1>2, PartialLands
<1> QED
  BY <1>2, <1>3 DEF BoardTypeOK, lanes

LEMMA LandReportTyped ==
  ASSUME BoardTypeOK, NEW x \in Report, LandReport(x)
  PROVE  BoardTypeOK'
<1> DEFINE r == compose(scans, lanes, parts', owned, pending)
<1>1. parts' \in SUBSET Report
  BY DEF LandReport, BoardTypeOK
<1>2. r \in Result /\ r.last_scanned \subseteq r.sources
  BY <1>1, NextResult
<1>3. replace_scan_partial(r) /\ UNCHANGED <<machine, scans, job, owned, pending>>
      /\ job = "reporting"
  BY DEF LandReport
<1> HIDE DEF r
<1>4. /\ scan' \in Result /\ scan'.last_scanned \subseteq scan'.sources
      /\ carried' \subseteq scan'.sources \ scan'.last_scanned
      /\ enabled' \subseteq scan'.sources /\ scanning' = TRUE
  BY <1>2, <1>3, PartialLands
<1> QED
  BY <1>1, <1>3, <1>4 DEF BoardTypeOK, lanes

LEMMA TypesKept == ASSUME BoardTypeOK, [BoardNext]_boardvars PROVE BoardTypeOK'
<1>1. CASE LandSources
  BY <1>1, LandSourcesTyped
<1>2. ASSUME NEW x \in Report, LandReport(x) PROVE BoardTypeOK'
  BY <1>2, LandReportTyped
<1>3. CASE LandDone
  <2> DEFINE r == compose(scans, lanes, parts, owned, pending)
  <2>1. r \in Result /\ r.last_scanned \subseteq r.sources
    BY NextResult DEF BoardTypeOK
  <2>2. replace_scan(r) /\ UNCHANGED <<machine, scans, parts, owned, pending>> /\ job' = "none"
    BY <1>3 DEF LandDone
  <2> HIDE DEF r
  <2> QED
    BY <2>1, <2>2 DEF BoardTypeOK, replace_scan, lanes
<1>4. CASE LandError
  BY <1>4 DEF LandError, fail_scan, BoardTypeOK, lanes
<1>5. CASE LandVanished
  BY <1>5 DEF LandVanished, BoardTypeOK, lanes
<1>6. CASE RefreshBoard
  <2>1. scans' \in 0..MaxScans
    BY <1>6, DashboardAssumption DEF RefreshBoard, spawn_scan, BoardTypeOK
  <2>2. owned' \subseteq lanes' /\ pending' \subseteq owned' /\ parts' = {}
    BY <1>6 DEF RefreshBoard, spawn_scan, lanes
  <2> QED
    BY <1>6, <2>1, <2>2 DEF RefreshBoard, spawn_scan, BoardTypeOK, lanes
<1>7. ASSUME NEW s \in Sources, Toggle(s) PROVE BoardTypeOK'
  BY <1>7 DEF Toggle, worker, BoardTypeOK, lanes
<1>8. CASE UNCHANGED boardvars
  BY <1>8 DEF boardvars, worker, shown, BoardTypeOK, lanes
<1> QED
  BY <1>1, <1>2, <1>3, <1>4, <1>5, <1>6, <1>7, <1>8 DEF BoardNext

\* The types hold, and the scan flag is up exactly while a scan is under way.
THEOREM TypeCorrect == BoardSpec => []BoardTypeOK
  BY InitTyped, TypesKept, PTL DEF BoardSpec

-----------------------------------------------------------------------------
(* While results land, what is on screen is what the last of them said:    *)
(* the complete sources are its complete sources, and show its lists.      *)
OnScreen ==
  job = "reporting" =>
    /\ scan.last_scanned = Complete(lanes, parts)
    /\ \A s \in Complete(lanes, parts) : /\ scan.packages[s] = Found(owned, s)
                                         /\ scan.updates[s] = Found(pending, s)

LEMMA LandedOnScreen ==
  ASSUME BoardTypeOK, lanes' = lanes, scans' = scans, owned' = owned, pending' = pending,
         parts' \in SUBSET Report,
         replace_scan_partial(compose(scans, lanes, parts', owned, pending))
  PROVE  OnScreen'
<1> DEFINE r == compose(scans, lanes, parts', owned, pending)
<1>1. /\ r \in Result /\ r.last_scanned = Complete(lanes, parts')
      /\ \A s \in Complete(lanes, parts') :
           s \in Sources /\ r.packages[s] = Found(owned, s) /\ r.updates[s] = Found(pending, s)
  BY NextResult
<1>2. replace_scan_partial(r)
  OBVIOUS
<1> HIDE DEF r
<1>3. /\ scan'.last_scanned = r.last_scanned /\ carried' \cap r.last_scanned = {}
      /\ \A s \in Sources : s \notin carried' =>
           scan'.packages[s] = r.packages[s] /\ scan'.updates[s] = r.updates[s]
  BY <1>1, <1>2, PartialLands
<1>4. \A s \in Complete(lanes, parts') :
        scan'.packages[s] = Found(owned, s) /\ scan'.updates[s] = Found(pending, s)
  BY <1>1, <1>3
<1> QED
  BY <1>1, <1>3, <1>4 DEF OnScreen, Found

LEMMA OnScreenKept == ASSUME BoardTypeOK, OnScreen, [BoardNext]_boardvars PROVE OnScreen'
<1>1. CASE LandSources
  BY <1>1, LandedOnScreen DEF LandSources, BoardTypeOK, lanes
<1>2. ASSUME NEW x \in Report, LandReport(x) PROVE OnScreen'
  <2>1. parts' \in SUBSET Report
    BY <1>2 DEF LandReport, BoardTypeOK
  <2> QED
    BY <1>2, <2>1, LandedOnScreen DEF LandReport, lanes
<1>3. CASE LandDone \/ LandError \/ LandVanished
  BY <1>3 DEF LandDone, LandError, LandVanished, OnScreen
<1>4. CASE RefreshBoard
  BY <1>4 DEF RefreshBoard, spawn_scan, OnScreen
<1>5. ASSUME NEW s \in Sources, Toggle(s) PROVE OnScreen'
  BY <1>5 DEF Toggle, worker, OnScreen, lanes, Found
<1>6. CASE UNCHANGED boardvars
  BY <1>6 DEF boardvars, worker, shown, OnScreen, lanes, Found
<1> QED
  BY <1>1, <1>2, <1>3, <1>4, <1>5, <1>6 DEF BoardNext

LEMMA Landed == BoardSpec => [](BoardTypeOK /\ OnScreen)
<1>1. BoardInit => OnScreen
  BY DEF BoardInit, OnScreen
<1> QED
  BY <1>1, InitTyped, TypesKept, OnScreenKept, PTL DEF BoardSpec

LEMMA OnScreenCounts == BoardTypeOK /\ OnScreen => CountedIsThisScan
  BY DEF OnScreen, CountedIsThisScan, source_counted, BoardTypeOK

\* While results land, an unmarked row shows this scan's numbers, all of them
\* and nothing else.
THEOREM CountedRowsAreThisScan == BoardSpec => []CountedIsThisScan
  BY Landed, OnScreenCounts, PTL

-----------------------------------------------------------------------------
(* A counted row is final: a later result of the same scan finds the same  *)
(* source complete, and composes the same lists for it.                    *)
Final(s) ==
  (job = "reporting" /\ scans' = scans /\ source_counted(s))
    => /\ source_counted(s)'
       /\ scan'.packages[s] = scan.packages[s]
       /\ scan'.updates[s] = scan.updates[s]

LEMMA CountedIsFinal ==
  ASSUME BoardTypeOK, OnScreen, OnScreen', BoardTypeOK', [BoardNext]_boardvars, NEW s \in lanes,
         job = "reporting", scans' = scans, source_counted(s)
  PROVE  Final(s)
<1>1. /\ s \in Complete(lanes, parts) /\ s \in Sources
      /\ scan.packages[s] = Found(owned, s) /\ scan.updates[s] = Found(pending, s)
  BY LanesFacts DEF OnScreen, source_counted, BoardTypeOK
<1>2. ASSUME NEW x \in Report, LandReport(x) PROVE Final(s)
  <2>1. s \in Complete(lanes, parts') /\ lanes' = lanes /\ job' = "reporting"
    BY <1>1, <1>2, CompleteGrows DEF LandReport, lanes
  <2>2. s \in scan'.last_scanned /\ s \notin carried'
    BY <2>1 DEF OnScreen, BoardTypeOK
  <2>3. scan'.packages[s] = Found(owned, s) /\ scan'.updates[s] = Found(pending, s)
    BY <1>2, <2>1 DEF OnScreen, LandReport, Found
  <2> QED
    BY <1>1, <2>2, <2>3 DEF Final, source_counted
<1>3. CASE LandDone
  <2> DEFINE r == compose(scans, lanes, parts, owned, pending)
  <2>1. r.packages[s] = Found(owned, s) /\ r.updates[s] = Found(pending, s)
    BY <1>1, NextResult DEF BoardTypeOK
  <2>2. replace_scan(r)
    BY <1>3 DEF LandDone
  <2> HIDE DEF r
  <2> QED
    BY <1>1, <2>1, <2>2 DEF Final, source_counted, replace_scan
<1>4. CASE LandVanished
  BY <1>4 DEF Final, LandVanished, source_counted
<1>5. ASSUME NEW t \in Sources, Toggle(t) PROVE Final(s)
  BY <1>5 DEF Final, Toggle, source_counted
<1>6. CASE UNCHANGED boardvars
  BY <1>6 DEF Final, boardvars, shown, source_counted
<1>7. ~LandSources /\ ~LandError /\ ~RefreshBoard
  BY DEF LandSources, LandError, RefreshBoard
<1> QED
  BY <1>2, <1>3, <1>4, <1>5, <1>6, <1>7 DEF BoardNext

\* No result that lands after a source's own corrects its numbers.
THEOREM CountedNumbersAreFinal == BoardSpec => FinalOnceCounted
<1>1. BoardTypeOK /\ OnScreen /\ BoardTypeOK' /\ OnScreen' /\ [BoardNext]_boardvars
        => [\A s \in lanes : Final(s)]_boardvars
  BY CountedIsFinal DEF Final
<1>2. [\A s \in lanes : Final(s)]_boardvars
        => [\A s \in lanes :
              (job = "reporting" /\ scans' = scans /\ source_counted(s))
                => /\ source_counted(s)'
                   /\ scan'.packages[s] = scan.packages[s]
                   /\ scan'.updates[s] = scan.updates[s]]_boardvars
  BY DEF Final
<1> QED
  BY <1>1, <1>2, Landed, PTL DEF BoardSpec, FinalOnceCounted

-----------------------------------------------------------------------------
(* A partial result that is not final about a source other than the aur's  *)
(* has nothing of it, and the numbers carried for it stay one earlier      *)
(* scan's.                                                                 *)
Plain == Sources \ {"aur"}

Old(row, k) == \A i \in DOMAIN row : i = 1 /\ row[i] < k

OldRows(S, k) == \A s \in S : Old(scan.packages[s], k) /\ Old(scan.updates[s], k)

AllOld ==
  /\ OldRows(Plain, scans + 1)
  /\ job = "started" => OldRows(Plain, scans)
  /\ job = "reporting" => OldRows(Plain \ scan.last_scanned, scans)

LEMMA OldFacts ==
  ASSUME NEW k \in Nat
  PROVE  /\ Old(<<>>, k) /\ Old(<<k>>, k + 1)
         /\ \A row \in Seq(Nat) : Old(row, k) => Old(row, k + 1)
<1>1. DOMAIN <<k>> = {1} /\ <<k>>[1] = k /\ DOMAIN <<>> = {}
  OBVIOUS
<1>2. \A row \in Seq(Nat) : \A i \in DOMAIN row : row[i] \in Nat
  BY ElementOfSeq
<1> QED
  BY <1>1, <1>2 DEF Old

LEMMA ListsAreComplete ==
  ASSUME NEW L \in SUBSET Sources, NEW P \in SUBSET Report
  PROVE  /\ WithPackages(L, P) \cap Plain \subseteq Complete(L, P)
         /\ WithUpdates(L, P) \cap Plain \subseteq Complete(L, P)
  BY DEF Complete, WithPackages, WithUpdates, Plain

LEMMA LandedOld ==
  ASSUME BoardTypeOK, scans' = scans, NEW P \in SUBSET Report,
         OldRows(Plain \ Complete(lanes, P), scans), OldRows(Plain, scans + 1),
         job' = "reporting",
         replace_scan_partial(compose(scans, lanes, P, owned, pending))
  PROVE  AllOld'
<1> DEFINE r == compose(scans, lanes, P, owned, pending)
<1>1. scans \in Nat /\ lanes \in SUBSET Sources
      /\ owned \in SUBSET lanes /\ pending \in SUBSET lanes
  BY LanesFacts DEF BoardTypeOK
<1>2. /\ r \in Result /\ r.sources = Sources /\ r.last_scanned = Complete(lanes, P)
  BY NextResult
<1>3. /\ WithPackages(lanes, P) \cap Plain \subseteq Complete(lanes, P)
      /\ WithUpdates(lanes, P) \cap Plain \subseteq Complete(lanes, P)
  BY <1>1, ListsAreComplete
<1>4. \A s \in Sources :
        /\ r.packages[s] \in {<<>>, <<scans>>} /\ r.updates[s] \in {<<>>, <<scans>>}
        /\ s \in Plain \ Complete(lanes, P) => r.packages[s] = <<>> /\ r.updates[s] = <<>>
  <2>1. \A s \in Sources :
          /\ r.packages[s] = IF s \in owned \cap WithPackages(lanes, P) THEN <<scans>> ELSE <<>>
          /\ r.updates[s] = IF s \in pending \cap WithUpdates(lanes, P) THEN <<scans>> ELSE <<>>
    BY <1>1, ComposeRows
  <2> HIDE DEF r
  <2> QED
    BY <2>1, <1>3
<1>5. replace_scan_partial(r)
  OBVIOUS
<1> HIDE DEF r
<1>6. /\ scan'.last_scanned = Complete(lanes, P) /\ carried' \cap Complete(lanes, P) = {}
      /\ carried' \subseteq Sources
      /\ \A s \in Sources : s \notin carried' =>
           scan'.packages[s] = r.packages[s] /\ scan'.updates[s] = r.updates[s]
      /\ \A s \in carried' : /\ scan'.packages[s] = r.packages[s] \o scan.packages[s]
                             /\ scan'.updates[s] = r.updates[s] \o scan.updates[s]
  BY <1>2, <1>5, PartialLands
<1>7. \A s \in carried' \cap Plain : scan'.packages[s] = scan.packages[s] /\ scan'.updates[s] = scan.updates[s]
  <2>1. \A row \in Seq(Nat) : <<>> \o row = row
    BY ConcatEmptySeq
  <2>2. \A s \in Sources : scan.packages[s] \in Seq(Nat) /\ scan.updates[s] \in Seq(Nat)
    BY DEF BoardTypeOK, Result
  <2> SUFFICES ASSUME NEW s \in carried' \cap Plain
               PROVE  scan'.packages[s] = scan.packages[s] /\ scan'.updates[s] = scan.updates[s]
    OBVIOUS
  <2>3. s \in Sources /\ s \in Plain \ Complete(lanes, P)
    BY <1>6
  <2>4. r.packages[s] = <<>> /\ r.updates[s] = <<>>
    BY <1>4, <2>3
  <2>5. /\ scan'.packages[s] = <<>> \o scan.packages[s]
        /\ scan'.updates[s] = <<>> \o scan.updates[s]
    BY <1>6, <2>4
  <2> QED
    BY <2>1, <2>2, <2>3, <2>5
<1>8. \A s \in Plain : Old(scan'.packages[s], scans + 1) /\ Old(scan'.updates[s], scans + 1)
  <2> SUFFICES ASSUME NEW s \in Plain
               PROVE  Old(scan'.packages[s], scans + 1) /\ Old(scan'.updates[s], scans + 1)
    OBVIOUS
  <2>1. CASE s \in carried'
    BY <2>1, <1>7 DEF OldRows, Plain
  <2>2. CASE s \notin carried'
    <3>1. scan'.packages[s] \in {<<>>, <<scans>>} /\ scan'.updates[s] \in {<<>>, <<scans>>}
      BY <2>2, <1>4, <1>6 DEF Plain
    <3>2. Old(<<>>, scans + 1) /\ Old(<<scans>>, scans + 1)
      BY <1>1, scans + 1 \in Nat, OldFacts
    <3> QED
      BY <3>1, <3>2
  <2> QED
    BY <2>1, <2>2
<1>9. \A s \in Plain \ Complete(lanes, P) :
        Old(scan'.packages[s], scans) /\ Old(scan'.updates[s], scans)
  <2> SUFFICES ASSUME NEW s \in Plain \ Complete(lanes, P)
               PROVE  Old(scan'.packages[s], scans) /\ Old(scan'.updates[s], scans)
    OBVIOUS
  <2>1. CASE s \in carried'
    BY <2>1, <1>7 DEF OldRows, Plain
  <2>2. CASE s \notin carried'
    <3>1. scan'.packages[s] = <<>> /\ scan'.updates[s] = <<>>
      BY <2>2, <1>4, <1>6 DEF Plain
    <3>2. Old(<<>>, scans)
      BY <1>1, OldFacts
    <3> QED
      BY <3>1, <3>2
  <2> QED
    BY <2>1, <2>2
<1> QED
  BY <1>6, <1>8, <1>9 DEF AllOld, OldRows

LEMMA OldKept ==
  ASSUME BoardTypeOK, OnScreen, AllOld, [BoardNext]_boardvars
  PROVE  AllOld'
<1>1. CASE LandSources
  <2>1. OldRows(Plain \ Complete(lanes, parts), scans) /\ OldRows(Plain, scans + 1)
    BY <1>1 DEF LandSources, AllOld, OldRows
  <2> QED
    BY <1>1, <2>1, LandedOld DEF LandSources, BoardTypeOK
<1>2. ASSUME NEW x \in Report, LandReport(x) PROVE AllOld'
  <2>1. parts' \in SUBSET Report /\ Complete(lanes, parts) \subseteq Complete(lanes, parts')
    BY <1>2, CompleteGrows DEF LandReport, BoardTypeOK
  <2>2. OldRows(Plain \ Complete(lanes, parts'), scans) /\ OldRows(Plain, scans + 1)
    BY <1>2, <2>1 DEF LandReport, OnScreen, AllOld, OldRows
  <2> QED
    BY <1>2, <2>1, <2>2, LandedOld DEF LandReport
<1>3. CASE LandDone
  <2> DEFINE r == compose(scans, lanes, parts, owned, pending)
  <2>1. scans \in Nat /\ lanes \in SUBSET Sources /\ parts \in SUBSET Report
        /\ owned \in SUBSET lanes /\ pending \in SUBSET lanes
    BY LanesFacts DEF BoardTypeOK
  <2>2. \A s \in Sources :
          r.packages[s] \in {<<>>, <<scans>>} /\ r.updates[s] \in {<<>>, <<scans>>}
    <3>1. \A s \in Sources :
            /\ r.packages[s] = IF s \in owned \cap WithPackages(lanes, parts) THEN <<scans>> ELSE <<>>
            /\ r.updates[s] = IF s \in pending \cap WithUpdates(lanes, parts) THEN <<scans>> ELSE <<>>
      BY <2>1, ComposeRows
    <3> HIDE DEF r
    <3> QED
      BY <3>1
  <2>3. scan' = r /\ job' = "none" /\ scans' = scans
    BY <1>3 DEF LandDone, replace_scan
  <2>4. Old(<<>>, scans + 1) /\ Old(<<scans>>, scans + 1)
    BY <2>1, scans + 1 \in Nat, OldFacts
  <2> HIDE DEF r
  <2> QED
    BY <2>2, <2>3, <2>4 DEF AllOld, OldRows, Plain
<1>4. CASE LandError \/ LandVanished
  BY <1>4 DEF LandError, LandVanished, fail_scan, AllOld, OldRows
<1>5. CASE RefreshBoard
  <2>1. scans \in Nat /\ scans' = scans + 1 /\ job' = "started" /\ scan' = scan
    BY <1>5, LanesFacts DEF RefreshBoard, spawn_scan
  <2>2. \A s \in Sources : scan.packages[s] \in Seq(Nat) /\ scan.updates[s] \in Seq(Nat)
    BY DEF BoardTypeOK, Result
  <2>3. OldRows(Plain, scans + 1)
    BY DEF AllOld
  <2>4. OldRows(Plain, (scans + 1) + 1)
    <3>1. \A row \in Seq(Nat) : Old(row, scans + 1) => Old(row, (scans + 1) + 1)
      BY <2>1, scans + 1 \in Nat, OldFacts
    <3> QED
      BY <2>2, <2>3, <3>1 DEF OldRows, Plain
  <2> QED
    BY <2>1, <2>3, <2>4 DEF AllOld, OldRows
<1>6. ASSUME NEW s \in Sources, Toggle(s) PROVE AllOld'
  BY <1>6 DEF Toggle, worker, AllOld, OldRows
<1>7. CASE UNCHANGED boardvars
  BY <1>7 DEF boardvars, worker, shown, AllOld, OldRows
<1> QED
  BY <1>1, <1>2, <1>3, <1>4, <1>5, <1>6, <1>7 DEF BoardNext

LEMMA InitOld == BoardInit => AllOld
<1> SUFFICES ASSUME BoardInit PROVE AllOld
  OBVIOUS
<1>1. lanes \in SUBSET Sources
  BY DashboardAssumption DEF BoardInit, lanes
<1>2. Old(<<>>, 0) /\ Old(<<0>>, 0 + 1) /\ Old(<<>>, 0 + 1) /\ Old(<<>>, 1) /\ Old(<<>>, 1 + 1)
  BY 0 \in Nat, 0 + 1 \in Nat, 1 \in Nat, 1 + 1 \in Nat, OldFacts
<1>3. CASE job = "none"
  <2>1. scan = compose(0, lanes, Reports(lanes), owned, pending) /\ scans = 0
    BY <1>3 DEF BoardInit
  <2>2. owned \in SUBSET lanes /\ pending \in SUBSET lanes /\ 0 \in Nat
    BY DEF BoardInit
  <2>3. \A s \in Sources :
          scan.packages[s] \in {<<>>, <<0>>} /\ scan.updates[s] \in {<<>>, <<0>>}
    <3> DEFINE P == Reports(lanes)
    <3>1. P \in SUBSET Report
      BY <1>1, ReportsType
    <3>2. \A s \in Sources :
            /\ scan.packages[s] = IF s \in owned \cap WithPackages(lanes, P) THEN <<0>> ELSE <<>>
            /\ scan.updates[s] = IF s \in pending \cap WithUpdates(lanes, P) THEN <<0>> ELSE <<>>
      BY <2>1, <2>2, <1>1, <3>1, ComposeRows
    <3> HIDE DEF P
    <3> QED
      BY <3>2
  <2> QED
    BY <2>1, <2>3, <1>2, <1>3 DEF AllOld, OldRows, Plain
<1>4. CASE job # "none"
  <2>1. scan = Nothing /\ job = "started" /\ scans = 1
    BY <1>4 DEF BoardInit
  <2> QED
    BY <2>1, <1>2 DEF Nothing, AllOld, OldRows, Plain
<1> QED
  BY <1>3, <1>4

\* A carried row other than the aur's is one earlier scan's.
THEOREM CarriedRowsAreOld == BoardSpec => []CarriedIsOld
<1>1. BoardTypeOK /\ AllOld => CarriedIsOld
  BY DEF BoardTypeOK, AllOld, OldRows, Old, Plain, CarriedIsOld, RowIsOld, Result
<1>2. BoardTypeOK /\ OnScreen /\ AllOld /\ [BoardNext]_boardvars => AllOld'
  BY OldKept
<1> QED
  BY <1>1, <1>2, InitOld, Landed, PTL DEF BoardSpec

\* A row's mark tells which scan its numbers are of: the two together.
THEOREM RowsAreMarkedRight == BoardSpec => []RowsAreOfOneScan
  BY CountedRowsAreThisScan, CarriedRowsAreOld, PTL DEF RowsAreOfOneScan
=============================================================================
