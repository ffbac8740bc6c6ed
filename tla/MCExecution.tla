---------------------------- MODULE MCExecution ----------------------------
(***************************************************************************)
(* The two ways a plan is executed.  `paclens update` (Executor) takes the *)
(* plans the planner builds for a few machines: every source with both     *)
(* flatpak installations, the same without a scan to go by, and smaller    *)
(* machines where one of the rules is alone.  The TUI (ExecSession) runs   *)
(* an update of pacman, an AUR helper and a flatpak installation, a copy   *)
(* of two directories, and the removal of a source; with and without a     *)
(* privilege tool, and with the sudo keepalive on or off.  A behaviour is  *)
(* of one front end, and the other one is idle.                            *)
(***************************************************************************)
EXTENDS Executor, ExecSession

CONSTANT Fronts  \* the front ends to check: "cli", "tui"

VARIABLE front
LOCAL all == <<vars, sessionvars, front>>

(***************************************************************************)
(* The plans of the command line.                                          *)
(***************************************************************************)
LOCAL Src(kind, listed, occupied) ==
  [kind |-> kind, available |-> TRUE, listed |-> listed, occupied |-> occupied,
   pending |-> {}]

LOCAL Machines ==
  { <<Src("pacman", FALSE, {}), Src("aur", FALSE, {}), Src("flatpak", FALSE, {}),
      Src("cargo", FALSE, {})>>,
    <<Src("pacman", TRUE, {}), Src("aur", TRUE, {}), Src("flatpak", TRUE, {"user"}),
      Src("report", TRUE, {})>>,
    <<Src("flatpak", TRUE, {"system"})>>,
    <<Src("flatpak", FALSE, {}), Src("simple", FALSE, {})>>,
    <<Src("report", TRUE, {})>> }

MCPlans == { plan_full_upgrade(m, helper, DOMAIN m) : m \in Machines, helper \in BOOLEAN }
MCPositions == 1 .. 5

(***************************************************************************)
(* The runs of the TUI.  A copy is started without a privilege tool and    *)
(* without the keepalive.                                                  *)
(***************************************************************************)
LOCAL A(source, privileged, interactive, pacman_db) ==
  [source |-> source, privileged |-> privileged, interactive |-> interactive,
   pacman_db |-> pacman_db]

LOCAL Pacman == A("pacman", TRUE, TRUE, TRUE)
LOCAL Aur == A("aur", FALSE, TRUE, TRUE)
LOCAL Flatpak == A("flatpak", FALSE, FALSE, FALSE)

LOCAL RunOf(kind, steps, with, loop) ==
  [kind |-> kind, plan |-> steps, tool |-> with, sudo_loop |-> loop]

MCRuns ==
  { RunOf("update", <<Pacman, Aur, Flatpak>>, "sudo", FALSE),
    RunOf("update", <<Pacman, Aur>>, "sudo", TRUE),
    RunOf("update", <<Pacman, Flatpak>>, "none", FALSE),
    RunOf("migrate", <<Flatpak, Flatpak>>, "none", FALSE),
    RunOf("removal", <<Pacman>>, "sudo", TRUE) }

(***************************************************************************)
(* One front end at a time.                                                *)
(***************************************************************************)
LOCAL CliIdle ==
  /\ plan = <<>> /\ tool = "none" /\ parallel = FALSE
  /\ flow = "empty" /\ status = <<>> /\ done = <<>>
  /\ report = <<>> /\ log = <<>>
  /\ stamp = "cold" /\ prompted = {}

MCInit ==
  /\ front \in Fronts
  /\ SessionInit
  /\ IF front = "cli" THEN Init ELSE CliIdle

MCNext ==
  \/ front = "cli" /\ Next /\ UNCHANGED <<sessionvars, front>>
  \/ front = "tui" /\ SessionNext /\ UNCHANGED <<vars, front>>

MCSpec == MCInit /\ [][MCNext]_all /\ Fairness /\ SessionFairness
=============================================================================
