----------------------------- MODULE ScanParts -----------------------------
(***************************************************************************)
(* What a scan has reported so far, and the result composed from it.  One  *)
(* composition serves the partial results and the finished one.            *)
(*                                                                         *)
(* A scan's lanes report independently.  The pacman source needs three of  *)
(* the reports (`-Qi`, `-Sl` and, beside the aur source, `-Qm`); the aur   *)
(* source needs those and the helper's `-Qua`; a source of Simple          *)
(* (flatpak, cargo, npm...) needs its own.  Numbers are told apart only by *)
(* the scan that measured them: a row is the sequence of the scans whose   *)
(* lists were put into it, <<k>> being exactly what scan k found.          *)
(***************************************************************************)
EXTENDS Naturals, Sequences

CONSTANT Simple    \* the sources whose lane sends one report

PacmanReports == {"pacman", "offers"}
AurReports == {"foreign", "aur_updates"}

ASSUME SimpleAssumption ==
  Simple \cap ({"aur", "sizes"} \cup PacmanReports \cup AurReports) = {}

Sources == {"pacman", "aur"} \cup Simple

\* The reports a scan with these lanes sends.  The cache sizes are a lane of
\* every scan and belong to no source.  A lane that fails sends its error
\* (`LaneResult::Error`) before its report, which is then empty: the partial
\* result that lands with it has the data of the one before, and only the
\* row's `scan_error` is new.  That message is not a step here; where the rows
\* are drawn, any source that was asked may have failed, reported or not.
Reports(lanes) ==
  {"sizes"} \cup (lanes \cap Simple)
    \cup (IF "pacman" \in lanes THEN PacmanReports ELSE {})
    \cup (IF "aur" \in lanes THEN AurReports ELSE {})

Report == {"sizes"} \cup Simple \cup PacmanReports \cup AurReports

\* The aur lane is one thread: `-Qm` is sent before `-Qua` is asked.
InOrder(parts) == "aur_updates" \in parts => "foreign" \in parts

-----------------------------------------------------------------------------
\* Mutant of pacman_done: does not wait for the other lanes' reports on the
\* same packages.
pacman_done_on_its_own(lanes, parts) == "pacman" \in lanes => "pacman" \in parts

pacman_done(lanes, parts) ==
  "pacman" \in lanes => /\ PacmanReports \subseteq parts
                        /\ "aur" \in lanes => "foreign" \in parts

aur_done(lanes, parts) ==
  "aur" \in lanes => pacman_done(lanes, parts) /\ "aur_updates" \in parts

\* The sources of the lanes whose own data is complete: those that carry
\* `last_scanned`.
Complete(lanes, parts) ==
  {s \in lanes : \/ s = "pacman" /\ pacman_done(lanes, parts)
                 \/ s = "aur" /\ aur_done(lanes, parts)
                 \/ s \in Simple /\ s \in parts}

\* The sources with a package list: pacman's is held back until it is done,
\* and what of it was built here is relabelled as the aur's once `-Qm` is in.
WithPackages(lanes, parts) ==
  {s \in lanes : \/ s \in {"pacman", "aur"} /\ pacman_done(lanes, parts)
                 \/ s \in Simple /\ s \in parts}

\* Mutant of WithUpdates: takes pacman's updates before its list is settled.
UpdatesAsTheyCome(lanes, parts) ==
  {s \in lanes : \/ s = "pacman" /\ "pacman" \in parts
                 \/ s = "aur" /\ "aur_updates" \in parts
                 \/ s \in Simple /\ s \in parts}

\* The sources with an update list: the aur's is taken as it comes.
WithUpdates(lanes, parts) ==
  {s \in lanes : \/ s = "pacman" /\ pacman_done(lanes, parts)
                 \/ s = "aur" /\ "aur_updates" \in parts
                 \/ s \in Simple /\ s \in parts}

\* What scan k has of a source, S being the sources it has anything of.
Of(k, S, s) == IF s \in S THEN <<k>> ELSE <<>>

\* The result of scan k.  `owned` are the sources that have any package,
\* `pending` those that have any update.  Until they are relabelled the aur's
\* packages are pacman's.
compose(k, lanes, parts, owned, pending) ==
  [sources |-> Sources,
   last_scanned |-> Complete(lanes, parts),
   packages |-> [s \in Sources |->
                   IF s \notin WithPackages(lanes, parts) THEN <<>>
                   ELSE IF s = "pacman" /\ "foreign" \notin parts
                   THEN Of(k, owned, s) \o Of(k, owned, "aur") ELSE Of(k, owned, s)],
   updates |-> [s \in Sources |->
                  IF s \in WithUpdates(lanes, parts) THEN Of(k, pending, s) ELSE <<>>]]

\* The view before anything was ever scanned: no rows at all.
Nothing == [sources |-> {}, last_scanned |-> {},
            packages |-> [s \in Sources |-> <<>>],
            updates |-> [s \in Sources |-> <<>>]]
=============================================================================
