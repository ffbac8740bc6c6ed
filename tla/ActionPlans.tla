---------------------------- MODULE ActionPlans ----------------------------
(***************************************************************************)
(* The plan a run executes: the steps, what each one declares about        *)
(* itself, and the questions the executor, the command line and the TUI    *)
(* all ask of a step.  A step is what the user is shown; its command is    *)
(* abstracted to the declarations the executors decide from.               *)
(***************************************************************************)
EXTENDS Naturals, Sequences

\* What `kind` a source is, as far as planning tells kinds apart: "simple" is
\* any row of the simple-source table with an update command, "report" a row
\* without one.
Kinds  == {"pacman", "aur", "cargo", "flatpak", "simple", "report"}
Scopes == {"user", "system"}

\* A step: the source it updates and the three declarations made by whoever
\* built it.
Step == [source : Kinds, privileged : BOOLEAN, interactive : BOOLEAN,
         pacman_db : BOOLEAN]

\* The privilege tool found on PATH, "none" when there is none.
Tools == {"sudo", "doas", "none"}

\* The only blocker of a step: it needs privilege and there is no tool.
Skipped(step, tool) == step.privileged /\ tool = "none"

\* Mutant of runs_in_background: forgets that a step asks questions.
BackgroundUnlessPrivileged(step, tool) == ~step.privileged /\ ~Skipped(step, tool)

\* Mutant of runs_in_background: forgets that a step needs privilege.
BackgroundUnlessInteractive(step, tool) == ~step.interactive /\ ~Skipped(step, tool)

\* May this step run beside the others under `update --parallel`?
runs_in_background(step, tool) ==
  ~step.interactive /\ ~step.privileged /\ ~Skipped(step, tool)

\* The steps of a plan that would actually run.
Executable(plan, tool) == {i \in DOMAIN plan : ~Skipped(plan[i], tool)}

\* Does the step ask for a password when sudo's timestamp is cold?  A helper
\* escalates on its own, without being privileged.
MayEscalate(step) == step.privileged \/ step.source = "aur"

\* Will something in the plan ask for a password that one `sudo -v` answers?
worth_priming(plan, tool) ==
  tool = "sudo" /\ \E i \in Executable(plan, tool) : MayEscalate(plan[i])

\* A held lock stops a plan with a step that waits on it.
blocks(locked, plan) == locked /\ \E i \in DOMAIN plan : plan[i].pacman_db

-----------------------------------------------------------------------------
(***************************************************************************)
(* The planner.  A scanned source is                                       *)
(*   kind, available : what it is and whether its tool is installed        *)
(*   listed          : a scan listed it and reported no error              *)
(*   occupied        : the flatpak scopes with something installed         *)
(*   pending         : the flatpak scopes an update belongs to             *)
(***************************************************************************)
Source == [kind : Kinds, available : BOOLEAN, listed : BOOLEAN,
           occupied : SUBSET Scopes, pending : SUBSET Scopes]

LOCAL Built(kind, privileged, interactive, pacman_db) ==
  [source |-> kind, privileged |-> privileged, interactive |-> interactive,
   pacman_db |-> pacman_db]

\* Flatpak's installations that get a command: those with a pending update,
\* those with something installed, and both when nothing was looked up.
ScopeSteps(src) ==
  LET wanted(scope) == scope \in src.pending \/ ~src.listed \/ scope \in src.occupied
      step(scope) == IF wanted(scope)
                     THEN <<Built("flatpak", scope = "system", FALSE, FALSE)>>
                     ELSE <<>>
  IN  step("user") \o step("system")

\* The steps one source contributes; `helper` says whether an AUR helper is
\* installed.
StepsOf(src, helper) ==
  CASE ~src.available        -> <<>>
    [] src.kind = "pacman"   -> <<Built("pacman", TRUE, TRUE, TRUE)>>
    [] src.kind = "aur"      -> IF helper THEN <<Built("aur", FALSE, TRUE, TRUE)>> ELSE <<>>
    [] src.kind = "flatpak"  -> ScopeSteps(src)
    [] src.kind \in {"cargo", "simple"} -> <<Built(src.kind, FALSE, FALSE, FALSE)>>
    [] src.kind = "report"   -> <<>>

\* The whole upgrade: every enabled source's steps, in the scan's order.
plan_full_upgrade(sources, helper, enabled) ==
  LET f[n \in 0 .. Len(sources)] ==
        IF n = 0 THEN <<>>
        ELSE f[n - 1] \o (IF n \in enabled THEN StepsOf(sources[n], helper) ELSE <<>>)
  IN  f[Len(sources)]

-----------------------------------------------------------------------------
(***************************************************************************)
(* What the executors take from every plan they are handed: a step that    *)
(* takes pacman's lock, or that may ask for a password, keeps the          *)
(* terminal.  Nothing checks it at run time; it is the planner's part of   *)
(* the contract.                                                           *)
(***************************************************************************)
WellPlanned(plan) ==
  \A i \in DOMAIN plan :
    /\ plan[i].pacman_db => plan[i].interactive \/ plan[i].privileged
    /\ MayEscalate(plan[i]) => plan[i].interactive \/ plan[i].privileged
=============================================================================
