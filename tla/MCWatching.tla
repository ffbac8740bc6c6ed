----------------------------- MODULE MCWatching -----------------------------
(***************************************************************************)
(* What paclens watches and does not control: the step that runs under the *)
(* live view, the holder of pacman's lock, a command of a scan; and what   *)
(* the view makes of a step: the picture of the run, the files being       *)
(* downloaded, what a frame sends for good and where the painter puts it.  *)
(* Each behaviour is of one of them; the others have nothing to watch.     *)
(***************************************************************************)
EXTENDS LiveLoop, CommandRunner, DbLock, Painter, Frames, UpdateRun, Downloads

-----------------------------------------------------------------------------
(* Runs of pacman to fold: some hooks before and after a transaction, what *)
(* they print, and the places where pacman may stop.                       *)
Words(w, m) == [word |-> w, means |-> m, names |-> {}, indented |-> FALSE]
Ev(t) == [type |-> t]
S(ev) == [to |-> "screen", ev |-> ev]
L(ev) == [to |-> "log", ev |-> ev]

Repeated == Words("same", "plain")
HookOf(file, desc, prints) == [file |-> file, desc |-> desc, prints |-> prints]

Pre == {<<>>, <<HookOf("keys.hook", "Check keys", <<Words("snap", "snapshot")>>)>>}
Post ==
    { <<HookOf("rebuild.hook", "Update modules", <<Repeated, Repeated>>),
        HookOf("man.hook", "Update man-db", <<Repeated>>)>>,
      <<HookOf("man.hook", "Update man-db", <<Repeated>>),
        HookOf("dkms.hook", "Rebuild modules", <<Repeated, Words("boot", "reboot")>>)>> }

\* What a hook prints: one of its lines looks like a database's, and one after
\* it is a line that says nothing.
LinesOf(text) ==
    IF text.word = "boot"
    THEN <<S([type |-> "Db", name |-> "boot", text |-> text]),
           S([type |-> "Other", text |-> Words("", "quiet")])>>
    ELSE <<S([type |-> "Other", text |-> text])>>

HookLines(hooks) ==
    FlattenSeq([i \in DOMAIN hooks |->
        <<L([type |-> "HookRunning", file |-> hooks[i].file]),
          S([type |-> "Hook", index |-> i, total |-> Len(hooks), desc |-> hooks[i].desc])>>
        \o FlattenSeq([n \in DOMAIN hooks[i].prints |-> LinesOf(hooks[i].prints[n])])])

Section(kind, hooks) == IF hooks = <<>> THEN <<>> ELSE <<S(Ev(kind))>> \o HookLines(hooks)

Begin == <<L(Ev("RunStart")), S(Ev("SyncStart")), S([type |-> "Db", name |-> "core", text |-> Words("core", "plain")]),
           S(Ev("UpgradeStart"))>>
Nothing == Begin \o <<S(Ev("NothingToDo"))>>
Asked ==
    Begin \o
    <<S([type |-> "Warning", text |-> Words("held", "plain")]),
      S([type |-> "PlanHeader", count |-> 2]), S([type |-> "PlanNames", names |-> {"a"}]),
      S([type |-> "Other", text |-> Words("", "quiet")]),
      S([type |-> "Other", text |-> [Words("b-1", "names") EXCEPT !.names = {"b"}]]),
      S(Ev("PlanTotal")), S([type |-> "Prompt", text |-> "proceed"])>>
Fetched ==
    <<S(Ev("RetrieveStart")),
      S([type |-> "Other", text |-> [Words("a-1", "file") EXCEPT !.names = {"a"}]]),
      S([type |-> "DownloadTotal", done |-> 2, total |-> 2]),
      S([type |-> "Error", text |-> Words("mirror", "plain")]),
      S([type |-> "Check", name |-> "keys"]), S([type |-> "Check", name |-> "space"])>>
Installed ==
    <<L(Ev("TxStarted")), S(Ev("Processing")),
      S([type |-> "Package", index |-> 1, total |-> 1, name |-> "a", full |-> TRUE]),
      S([type |-> "Optdepends", name |-> "a"]),
      S([type |-> "Other", text |-> [Words("opt", "plain") EXCEPT !.indented = TRUE]]),
      S([type |-> "Pacnew", text |-> Words("conf", "plain")]),
      L([type |-> "Package", name |-> "a"]), L(Ev("TxCompleted"))>>

Whole(pre, post) ==
    Begin \o <<S([type |-> "PlanRow", names |-> {"a"}])>> \o Section("PreHooks", pre)
    \o Installed \o Section("PostHooks", post)

To(to, out) == LET mine == SelectSeq(out, LAMBDA o : o.to = to)
               IN  [i \in DOMAIN mine |-> mine[i].ev]

FeedOf(out, exit, has_log, pre, post) ==
    [ screen |-> To("screen", out), log |-> IF has_log THEN To("log", out) ELSE <<>>, exit |-> exit,
      facts |-> [PreHooks |-> pre, PostHooks |-> post, words |-> {"same", "snap", "boot"},
                 changed |-> \E i \in DOMAIN out : out[i].ev.type = "TxStarted"] ]

\* Whole runs, with the log and without it; runs that stop at any place, by a
\* failure or a signal; a plan refused, and nothing to do.
MCFeeds ==
    { FeedOf(Whole(pre, post), "0", has_log, pre, post) :
        pre \in Pre, post \in Post, has_log \in BOOLEAN }
    \cup { FeedOf(SubSeq(Whole(pre, post), 1, k), exit, TRUE, pre, post) :
        pre \in Pre, post \in Post, k \in {2, 6, 10, 14, 18}, exit \in {"1", "signal"} }
    \cup { FeedOf(out, exit, has_log, <<>>, <<>>) :
        out \in {Nothing, Asked, Asked \o Fetched, Asked \o Fetched \o Installed},
        exit \in {"0", "1"}, has_log \in BOOLEAN }

MCRebuilds == {"rebuild.hook", "Rebuild modules"}

-----------------------------------------------------------------------------
\* A step under the view: one that only prints, its last line unfinished before
\* another; one that asks at the end of a line it began; one that has more to
\* say than the pty holds once it is answered.
MCScripts ==
    { <<"line", "part", "line", "log">>,
      <<"line", "ask", "line", "log">>,
      <<"ask", "log", "line", "line">> }

MCGrammar ==
    LET open == [start |-> {"unknown", "warning", "plan"},
                 unknown |-> {"unknown", "warning", "plan", "prompt", "pre-hooks",
                              "processing", "post-hooks"},
                 warning |-> {"unknown", "plan", "prompt", "processing"},
                 plan |-> {"unknown", "warning", "prompt"},
                 prompt |-> {"unknown", "pre-hooks", "processing"}]
        heading == [h \in {"pre-hooks", "processing", "post-hooks"} |->
                      {"unknown", "warning"} \cup
                      IF h = "pre-hooks" THEN {"processing"} ELSE {"post-hooks"}]
    IN  [k \in DOMAIN open \cup DOMAIN heading |->
            IF k \in DOMAIN open THEN open[k] ELSE heading[k]]

\* Programs that print more than the pipes hold, on the one before the other,
\* that hang, and that leave a process behind.
MCPrograms ==
    {<<"out", "out", "out", "err">>, <<"err", "err", "out", "err">>, <<"out", "hang">>, <<"fork", "out">>}

\* Terminals of which one is narrower, one lower, and one has a row to draw on.
MCSizes == {[rows |-> 3, cols |-> 2], [rows |-> 4, cols |-> 4], [rows |-> 2, cols |-> 4]}

VARIABLE watching

\* What the theorems about them ask of their constants.
ASSUME WatchedConstants ==
    ConstantsOK /\ LockConstantsOK /\ PaintConstantsOK /\ FrameConstantsOK /\ FileConstantsOK
    /\ FeedsOK

stepvars == <<script, todo, child, answered, wrote, buffer, typed, keys, logged, reader, channel,
              pc, applied, partial, asked, shown, quiet, shared, pid, signalled,
              logread>>
watchvars == <<stepvars, lockvars, commandvars>>
viewvars == <<runvars, filevars, framevars, paintvars>>
allvars == <<watching, watchvars, viewvars>>

\* A step that is over, with nothing left of it.
NoStep ==
    /\ script = <<>> /\ todo = <<>> /\ child = "reaped" /\ answered = {}
    /\ wrote = <<>> /\ buffer = <<>> /\ typed = <<>> /\ keys = 0
    /\ reader = "ended" /\ channel = <<>> /\ logged = 0 /\ logread = 0
    /\ pc = "returned" /\ applied = <<>> /\ partial = <<>> /\ asked = <<>> /\ shown = <<>>
    /\ quiet = 0 /\ shared = FALSE /\ pid = FALSE /\ signalled = {}

\* A command that returned.
NoCommand ==
    /\ program = <<>> /\ timeout = 0 /\ does = <<>> /\ process = "reaped" /\ heir = FALSE
    /\ pipe = Count(<<>>) /\ drained = Count(<<>>) /\ reading = {}
    /\ elapsed = 0 /\ caller = "returned" /\ result = "output"

\* A run that has shown nothing yet.
NoRun ==
    /\ feed = [screen |-> <<>>, log |-> <<>>, exit |-> "0",
               facts |-> [PreHooks |-> <<>>, PostHooks |-> <<>>, words |-> {}, changed |-> FALSE]]
    /\ screen_read = 0 /\ log_read = 0 /\ run = New
NoFiles == FileInit /\ hides = {}
NoFrames == FrameInit /\ layout = CHOOSE l \in Layouts : TRUE
\* A live view that was closed, with nothing on its terminal.
NoPaint ==
    /\ mode = "closed" /\ size = None /\ term = <<>> /\ height = 0 /\ printed = 0 /\ draws = 0
    /\ shrunk = FALSE /\ stale = {} /\ unwrapped = FALSE
    /\ unfinished = <<>> /\ visible = <<>> /\ row = <<>> /\ settled = 0 /\ output = <<>>

NoWatch == NoStep /\ LockInit /\ hidden = FALSE /\ NoCommand
NoView == NoRun /\ NoFiles /\ NoFrames /\ NoPaint

MCInit ==
  \/ watching = "step" /\ Init /\ LockInit /\ hidden = FALSE /\ NoCommand /\ NoView
  \/ watching = "lock" /\ NoStep /\ LockInit /\ NoCommand /\ NoView
  \/ watching = "command" /\ NoStep /\ LockInit /\ hidden = FALSE /\ CommandInit /\ NoView
  \/ watching = "run" /\ NoWatch /\ RunInit /\ NoFiles /\ NoFrames /\ NoPaint
  \/ watching = "files" /\ NoWatch /\ NoRun /\ FileInit /\ NoFrames /\ NoPaint
  \/ watching = "frames" /\ NoWatch /\ NoRun /\ NoFiles /\ FrameInit /\ NoPaint
  \/ watching = "painter" /\ NoWatch /\ NoRun /\ NoFiles /\ NoFrames /\ PaintInit

MCNext ==
  /\ UNCHANGED watching
  /\ \/ watching = "step" /\ Next /\ UNCHANGED <<lockvars, commandvars, viewvars>>
     \/ watching = "lock" /\ LockNext /\ UNCHANGED <<stepvars, commandvars, viewvars>>
     \/ watching = "command" /\ CommandNext /\ UNCHANGED <<stepvars, lockvars, viewvars>>
     \/ watching = "run" /\ RunNext /\ UNCHANGED <<watchvars, filevars, framevars, paintvars>>
     \/ watching = "files" /\ FileNext /\ UNCHANGED <<watchvars, runvars, framevars, paintvars>>
     \/ watching = "frames" /\ FrameNext /\ UNCHANGED <<watchvars, runvars, filevars, paintvars>>
     \/ watching = "painter" /\ PaintNext /\ UNCHANGED <<watchvars, runvars, filevars, framevars>>

MCSpec == MCInit /\ [][MCNext]_allvars /\ Fairness /\ LockFairness /\ CommandFairness
----------------------------------------------------------------------------
\* The types of all of them.
TypesOK ==
  /\ TypeOK /\ LockTypeOK
  /\ watching = "command" => CommandTypeOK
  /\ watching = "run" => RunTypeOK
  /\ FileTypeOK
  /\ FrameTypeOK
  /\ watching = "painter" => PaintTypeOK

\* A step under the view comes to its end, and so does a command; what is said
\* of the lock follows it (LiveLoop, CommandRunner, DbLock).
WatchingEnds == StepEnds /\ RunReturns /\ LockIsFollowed

=============================================================================
