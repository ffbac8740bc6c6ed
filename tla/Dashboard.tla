----------------------------- MODULE Dashboard -----------------------------
(***************************************************************************)
(* The dashboard while scans land on it.  A worker thread scans and sends  *)
(* a partial result as each lane reports; the event loop swaps each one in *)
(* (`replace_scan_partial`), the finished one last (`replace_scan`).  The  *)
(* rows of sources still out keep the previous numbers, marked as such.    *)
(*                                                                         *)
(* The worker's events are applied in the order it sends them and it never *)
(* reads the view, so one action stands for sending and landing an event;  *)
(* the user's keys fall anywhere between them.                             *)
(***************************************************************************)
EXTENDS ScanParts

CONSTANTS
  Machines,   \* the sources a machine may have lanes and update paths for
  MaxScans    \* bound on the scans of one session

\* A source is available when its tools can update it; one with a lane and no
\* update path still lists what is installed.
ASSUME DashboardAssumption ==
  /\ Machines \subseteq [lanes : SUBSET Sources, available : SUBSET Sources]
  /\ \A m \in Machines : /\ m.available \subseteq m.lanes
                          /\ "aur" \in m.lanes => "pacman" \in m.lanes
  /\ MaxScans \in Nat \ {0}

VARIABLES
  machine,    \* what is configured and installed
  scans,      \* the number of scans started; 0 is the cached one's
  job,        \* the scan under way: "none", "started", "reporting"
  parts,      \* what it has reported
  owned, pending,   \* the sources it finds packages in, updates for
  scan,       \* the result on screen
  carried,    \* the sources whose numbers on screen are the previous scan's
  enabled,    \* the sources toggled into the update plan
  scanning    \* the view's scan flag

worker == <<job, parts, owned, pending>>
shown == <<scan, carried, enabled, scanning>>
boardvars == <<machine, scans, worker, shown>>

lanes == machine.lanes

Result == [sources : SUBSET Sources, last_scanned : SUBSET Sources,
           packages : [Sources -> Seq(Nat)], updates : [Sources -> Seq(Nat)]]

-----------------------------------------------------------------------------
\* Mutant of source_counted: takes a source with pending updates for one that
\* has reported.
CountedUnlessEmpty(s) ==
  /\ s \notin carried
  /\ ~scanning \/ s \in scan.last_scanned \/ scan.updates[s] # <<>>

source_counted(s) ==
  /\ s \notin carried
  /\ ~scanning \/ s \in scan.last_scanned

scan_settled == ~scanning

\* The sources `u` would update.
update_plan == scan.sources \cap machine.available \cap enabled

\* Swapping a result in resets what is derived from it, the toggles included.
replace_scan(result) ==
  /\ scan' = result
  /\ enabled' = result.sources
  /\ carried' = {}
  /\ scanning' = FALSE

\* The sources a partial result says nothing final about, of which the view
\* has numbers.
Carry(result) ==
  {s \in result.sources \ result.last_scanned :
     scan.packages[s] # <<>> \/ scan.updates[s] # <<>>}

replace_scan_partial(result) ==
  LET C == Carry(result)
      With(new, old) == [s \in Sources |-> IF s \in C THEN new[s] \o old[s] ELSE new[s]]
  IN  /\ scan' = [result EXCEPT !.packages = With(@, scan.packages),
                                !.updates = With(@, scan.updates)]
      /\ enabled' = result.sources
      /\ carried' = C
      /\ scanning' = TRUE

fail_scan == scanning' = FALSE /\ UNCHANGED <<scan, enabled, carried>>

-----------------------------------------------------------------------------
\* Starting a scan: what it will find is the machine's business.
spawn_scan ==
  /\ scans < MaxScans
  /\ scans' = scans + 1
  /\ job' = "started"
  /\ parts' = {}
  /\ owned' \in SUBSET lanes
  /\ pending' \in SUBSET owned'

\* A warm cache opens on its scan; a cold one, or --refresh, on nothing and a
\* scan in the background.
BoardInit ==
  /\ machine \in Machines
  /\ owned \in SUBSET lanes
  /\ pending \in SUBSET owned
  /\ parts = {}
  /\ carried = {}
  /\ \/ /\ scan = compose(0, lanes, Reports(lanes), owned, pending)
        /\ job = "none" /\ scanning = FALSE /\ scans = 0
     \/ /\ scan = Nothing
        /\ job = "started" /\ scanning = TRUE /\ scans = 1
  /\ enabled = scan.sources

\* The first partial result: the sources, before any lane has reported.
LandSources ==
  /\ job = "started"
  /\ job' = "reporting"
  /\ replace_scan_partial(compose(scans, lanes, parts, owned, pending))
  /\ UNCHANGED <<machine, scans, parts, owned, pending>>

LandReport(r) ==
  /\ job = "reporting"
  /\ r \in Reports(lanes) \ parts
  /\ InOrder(parts \cup {r})
  /\ parts' = parts \cup {r}
  /\ replace_scan_partial(compose(scans, lanes, parts', owned, pending))
  /\ UNCHANGED <<machine, scans, job, owned, pending>>

\* Mutant of LandDone: waits for every row, those of tools that are not
\* installed included.
LandDoneWhenAllCounted ==
  /\ job = "reporting"
  /\ \A s \in scan.sources : source_counted(s)
  /\ job' = "none"
  /\ replace_scan(compose(scans, lanes, parts, owned, pending))
  /\ UNCHANGED <<machine, scans, parts, owned, pending>>

LandDone ==
  /\ job = "reporting"
  /\ parts = Reports(lanes)
  /\ job' = "none"
  /\ replace_scan(compose(scans, lanes, parts, owned, pending))
  /\ UNCHANGED <<machine, scans, parts, owned, pending>>

\* The cache cannot be located: the scan ends before it begins.
LandError ==
  /\ job = "started"
  /\ job' = "none"
  /\ fail_scan
  /\ UNCHANGED <<machine, scans, parts, owned, pending>>

\* Mutant of LandVanished: leaves the spinner turning when the worker is gone.
LandVanishedUnseen ==
  /\ job # "none"
  /\ job' = "none"
  /\ UNCHANGED <<machine, scans, parts, owned, pending, shown>>

\* The worker is gone, and its channel with it.
LandVanished ==
  /\ job # "none"
  /\ job' = "none"
  /\ scanning' = FALSE
  /\ UNCHANGED <<machine, scans, parts, owned, pending, scan, enabled, carried>>

RefreshBoard ==
  /\ job = "none"
  /\ spawn_scan
  /\ scanning' = TRUE
  /\ UNCHANGED <<machine, scan, enabled, carried>>

Toggle(s) ==
  /\ s \in scan.sources \cap machine.available
  /\ source_counted(s)
  /\ enabled' = IF s \in enabled THEN enabled \ {s} ELSE enabled \cup {s}
  /\ UNCHANGED <<machine, scans, worker, scan, carried, scanning>>

Land == LandSources \/ (\E r \in Report : LandReport(r)) \/ LandDone

BoardNext ==
  \/ LandSources \/ LandDone \/ LandError \/ LandVanished
  \/ \E r \in Report : LandReport(r)
  \/ RefreshBoard
  \/ \E s \in Sources : Toggle(s)

BoardSpec == BoardInit /\ [][BoardNext]_boardvars

\* The lanes' commands have a timeout, so each reports in the end and the
\* event loop, which polls, lands it; a worker thread that ends or vanishes is
\* seen too.  Nothing makes the user press a key.
BoardFairSpec == BoardSpec /\ WF_boardvars(Land)
-----------------------------------------------------------------------------
\* The types, and that the scan flag is up exactly while a scan is under way.
BoardTypeOK ==
  /\ machine \in Machines
  /\ scans \in 0..MaxScans
  /\ job \in {"none", "started", "reporting"}
  /\ parts \subseteq Report
  /\ owned \subseteq lanes
  /\ pending \subseteq owned
  /\ scan \in Result
  /\ scan.last_scanned \subseteq scan.sources
  /\ carried \subseteq scan.sources \ scan.last_scanned
  /\ enabled \subseteq scan.sources
  /\ scanning = (job # "none")

Found(S, s) == IF s \in S THEN <<scans>> ELSE <<>>

\* "A count appears when its own source reports": while results land, the
\* numbers of a row that is not marked are all of this scan's and nothing else.
CountedIsThisScan ==
  job = "reporting" =>
    \A s \in lanes : source_counted(s) => /\ scan.packages[s] = Found(owned, s)
                                          /\ scan.updates[s] = Found(pending, s)

\* "Its own count is final, whatever the other lanes are still doing": no
\* later result of the scan corrects it, nor does the end of the scan.
FinalOnceCounted ==
  [][\A s \in lanes :
       (job = "reporting" /\ scans' = scans /\ source_counted(s))
         => /\ source_counted(s)'
            /\ scan'.packages[s] = scan.packages[s]
            /\ scan'.updates[s] = scan.updates[s]]_boardvars

RowIsOld(s) ==
  \A row \in {scan.packages[s], scan.updates[s]} :
     \A i \in DOMAIN row : i = 1 /\ row[i] < scans

\* "These counts are the previous scan's": a row marked as carried shows what
\* one earlier scan found, and none of what this one has found so far.  The aur
\* source is the exception: its lists come in before it is complete.
CarriedIsOld == job = "reporting" => \A s \in carried \ {"aur"} : RowIsOld(s)

\* Each row is of one scan, which its mark tells: this one's or an earlier one's.
RowsAreOfOneScan == CountedIsThisScan /\ CarriedIsOld

\* The same of the aur source's row.
AurCarriedIsOld == job = "reporting" /\ "aur" \in carried => RowIsOld("aur")

\* Every scan ends, whatever the lanes report and in whatever order.
ScanEnds == scanning ~> ~scanning
=============================================================================
