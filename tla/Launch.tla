------------------------------- MODULE Launch -------------------------------
(***************************************************************************)
(* The life of the program: the command line, the initial run, and in      *)
(* watch mode the detachment from the terminal and the fork, after which   *)
(* the parent executes the target of --and-then-exec and the child watches *)
(* (src/src/main.rs).                                                      *)
(*                                                                         *)
(* What the watch loop does is in WatchLoop, what a pass writes is in      *)
(* TemplatePlan. Here a pass only sends the signal of --on-reload-signal   *)
(* to the parent.                                                          *)
(***************************************************************************)
EXTENDS Cli

CONSTANTS
  CommandLines,  \* the command lines that the program is started with
  Faults         \* failures that the environment may inject, see FaultKinds

\* A fork, the port of the webhook, the runtime of the watch loop, and a panic in a
\* pass: a key without a name, or a template whose rendering panics (WatchLoop).
FaultKinds == {"fork", "bind", "runtime", "panic"}

ASSUME LaunchAssumption ==
  /\ CommandLines \subseteq CommandLine
  /\ Faults \subseteq FaultKinds

\* The process that the shell starts, the two that the daemonize crate forks, and
\* the one that is forked to watch beside the target.
Procs == {"main", "session", "daemon", "child"}

VARIABLES
  cl,           \* the command line
  at,           \* at[p]: where process p is
  parent,       \* parent[p]: the parent of p, "shell" or "init"
  deathSignal,  \* deathSignal[p]: that of prctl: "off", "armed" or "sent"
  inRoot,       \* the processes whose working directory is / by now
  rendered,     \* history: the initial run has succeeded
  forkFailed,   \* history: a fork has failed
  watchFailed,  \* history: run_watch could not begin, or has ended by a panic
  hits          \* history: who was sent a signal, and whether the target was running

procVars == <<at, parent, deathSignal>>
histVars == <<rendered, forkFailed, watchFailed, hits>>
vars     == <<cl, procVars, inRoot, histVars>>

Stopped == {"refused", "done", "failed", "panicked", "aborted", "killed", "ended"}

Watching == {"watch", "signal"}

Init ==
  /\ cl \in CommandLines
  /\ at = [p \in Procs |-> IF p = "main" THEN "parse" ELSE "unborn"]
  /\ parent = [p \in Procs |-> "shell"]
  /\ deathSignal = [p \in Procs |-> "off"]
  /\ inRoot = {}
  /\ rendered = FALSE
  /\ forkFailed = FALSE
  /\ watchFailed = FALSE
  /\ hits = {}

-----------------------------------------------------------------------------
(* Processes.                                                              *)

\* p stops: its children become children of init, and those that asked for it are
\* sent a signal.
Orphan(p) ==
  /\ parent' = [q \in Procs |-> IF parent[q] = p THEN "init" ELSE parent[q]]
  /\ deathSignal' = [q \in Procs |->
       IF parent[q] = p /\ deathSignal[q] = "armed" THEN "sent" ELSE deathSignal[q]]

Become(p, s) ==
  /\ at' = [at EXCEPT ![p] = s]
  /\ IF s \in Stopped THEN Orphan(p) ELSE UNCHANGED <<parent, deathSignal>>

\* p, which is at s from now on, forks q, which begins at t in the same directory.
Fork(p, s, q, t) ==
  /\ at' = [at EXCEPT ![p] = s, ![q] = t]
  /\ parent' = [parent EXCEPT ![q] = p]
  /\ UNCHANGED <<deathSignal, forkFailed>>

\* p cannot fork.
NoFork(p, s) ==
  /\ "fork" \in Faults
  /\ Become(p, s)
  /\ forkFailed' = TRUE

\* The signal of the death of the parent, SIGABRT, is delivered.
Abort(p) ==
  /\ deathSignal[p] = "sent"
  /\ at[p] \notin Stopped
  /\ Become(p, "aborted")
  /\ UNCHANGED <<cl, inRoot, histVars>>

-----------------------------------------------------------------------------
(* main(), up to the end of the initial run.                               *)

Parse(p) ==
  /\ at[p] = "parse"
  /\ Become(p, IF ~ (ClapAccepts(cl) /\ Validates(cl)) THEN "refused"
               ELSE IF cl.completions THEN "done"
               ELSE IF SpecPanics(cl) THEN "panicked" ELSE "run")
  /\ UNCHANGED <<cl, inRoot, histVars>>

\* Mutant: a target is executed before the detachment.
TargetFirst ==
  IF ~ cl.watch THEN IF cl.exec = NoArg THEN "done" ELSE "exec"
  ELSE IF cl.daemonize /\ cl.exec = NoArg THEN "detach" ELSE "settled"

AfterRun ==
  IF ~ cl.watch THEN IF cl.exec = NoArg THEN "done" ELSE "exec"
  ELSE IF cl.daemonize THEN "detach" ELSE "settled"

\* Mutant: an error of the initial run is only logged.
LoggedOnly == AfterRun

AfterError == "failed"

\* The templates are cached and rendered once; an error or a panic ends the program.
InitialRun(p) ==
  /\ at[p] = "run"
  /\ \/ Become(p, AfterRun) /\ rendered' = TRUE
     \/ Become(p, AfterError) /\ UNCHANGED rendered
     \/ "panic" \in Faults /\ Become(p, "panicked") /\ UNCHANGED rendered
  /\ UNCHANGED <<cl, inRoot, forkFailed, watchFailed, hits>>

-----------------------------------------------------------------------------
(* Daemonize::start(): two forks. An error is logged, and whichever        *)
(* process has met it goes on.                                             *)

Detach(p) ==
  /\ at[p] = "detach"
  /\ \/ Fork(p, "waiting", "session", "session")
     \/ NoFork(p, "settled")
  /\ UNCHANGED <<cl, inRoot, rendered, watchFailed, hits>>

\* The first child moves to /, begins a session, forks again and exits.
Session(p) ==
  /\ at[p] = "session"
  /\ \/ /\ at' = [at EXCEPT ![p] = "done", !["daemon"] = "settled"]
        /\ parent' = [parent EXCEPT !["daemon"] = "init"]
        /\ inRoot' = inRoot \union {p, "daemon"}
        /\ UNCHANGED <<deathSignal, forkFailed>>
     \/ /\ NoFork(p, "settled")
        /\ inRoot' = inRoot \union {p}
  /\ UNCHANGED <<cl, rendered, watchFailed, hits>>

\* The parent waits for the first child, and exits.
WaitReturns(p) ==
  /\ at[p] = "waiting"
  /\ at["session"] \in Stopped
  /\ Become(p, "done")
  /\ UNCHANGED <<cl, inRoot, histVars>>

-----------------------------------------------------------------------------
(* fork_and_exec_in_parent, and execv without watch mode.                  *)

\* Mutant: the child executes the target and the parent watches.
ExecInChild(p) ==
  /\ at[p] = "settled"
  /\ \/ cl.exec = NoArg /\ Become(p, "setup") /\ UNCHANGED forkFailed
     \/ cl.exec # NoArg /\ Fork(p, "setup", "child", "exec")
  /\ UNCHANGED <<cl, inRoot, rendered, watchFailed, hits>>

\* Mutant: a daemon executes no target.
ExecUnlessDaemon(p) ==
  /\ at[p] = "settled"
  /\ \/ (cl.exec = NoArg \/ cl.daemonize) /\ Become(p, "setup") /\ UNCHANGED forkFailed
     \/ cl.exec # NoArg /\ ~ cl.daemonize /\ Fork(p, "exec", "child", "arm")
  /\ UNCHANGED <<cl, inRoot, rendered, watchFailed, hits>>

\* Mutant: the death signal is registered by the parent.
ArmInParent(p) ==
  /\ at[p] = "settled"
  /\ \/ cl.exec = NoArg /\ Become(p, "setup")
     \/ /\ cl.exec # NoArg
        /\ at' = [at EXCEPT ![p] = "exec", !["child"] = "setup"]
        /\ parent' = [parent EXCEPT !["child"] = p]
        /\ deathSignal' = [deathSignal EXCEPT ![p] = "armed"]
  /\ UNCHANGED <<cl, inRoot, histVars>>

\* Mutant: the target is executed although there is no child.
ExecAlone(p) ==
  /\ at[p] = "settled"
  /\ \/ cl.exec = NoArg /\ Become(p, "setup") /\ UNCHANGED forkFailed
     \/ cl.exec # NoArg /\ Fork(p, "exec", "child", "arm")
     \/ cl.exec # NoArg /\ NoFork(p, "exec")
  /\ UNCHANGED <<cl, inRoot, rendered, watchFailed, hits>>

\* Without a child the parent watches, and no target is executed.
ForkAndExec(p) ==
  /\ at[p] = "settled"
  /\ \/ cl.exec = NoArg /\ Become(p, "setup") /\ UNCHANGED forkFailed
     \/ cl.exec # NoArg /\ Fork(p, "exec", "child", "arm")
     \/ cl.exec # NoArg /\ NoFork(p, "setup")
  /\ UNCHANGED <<cl, inRoot, rendered, watchFailed, hits>>

\* The executable is looked up by now.
Found(p) == cl.exec = "absolute" \/ (cl.exec = "relative" /\ p \notin inRoot)

\* Mutant: a parent that cannot execute the target watches.
WatchInstead == IF cl.watch THEN "setup" ELSE "failed"

\* execv(path, args).unwrap(), or execv(path, args)?
ExecFailed == IF cl.watch THEN "panicked" ELSE "failed"

Exec(p) ==
  /\ at[p] = "exec"
  /\ Become(p, IF Found(p) THEN "target" ELSE ExecFailed)
  /\ UNCHANGED <<cl, inRoot, histVars>>

\* The target is a program of its own, and ends when it likes.
TargetEnds(p) ==
  /\ at[p] = "target"
  /\ Become(p, "ended")
  /\ UNCHANGED <<cl, inRoot, histVars>>

\* Mutant: the child registers no death signal.
ArmNothing(p) ==
  /\ at[p] = "arm"
  /\ Become(p, "setup")
  /\ UNCHANGED <<cl, inRoot, histVars>>

\* set_death_signal; nothing is sent for a parent that is gone already.
Arm(p) ==
  /\ at[p] = "arm"
  /\ at' = [at EXCEPT ![p] = "setup"]
  /\ deathSignal' = [deathSignal EXCEPT ![p] = "armed"]
  /\ UNCHANGED <<cl, parent, inRoot, histVars>>

-----------------------------------------------------------------------------
(* run_watch.                                                              *)

\* Mutant: the registry keeps no sender, so the loop ends if there is no watcher.
SetUpSenders(p) ==
  /\ at[p] = "setup"
  /\ Become(p, IF UnknownSignal(cl) THEN "failed"
               ELSE IF ZeroPeriod(cl) THEN "panicked"
               ELSE IF Wakes(cl) THEN "watch" ELSE "done")
  /\ UNCHANGED <<cl, inRoot, histVars>>

\* run_watch, or what comes before it, ends with an error or a panic.
FailToWatch(p, s) ==
  /\ Become(p, s)
  /\ watchFailed' = TRUE

\* Cli::on_reload fails, there is no runtime, or a watcher panics when it is set up.
SetUp(p) ==
  /\ at[p] = "setup"
  /\ IF UnknownSignal(cl) THEN FailToWatch(p, "failed")
     ELSE \/ ~ ZeroPeriod(cl) /\ Become(p, "watch") /\ UNCHANGED watchFailed
          \/ "runtime" \in Faults /\ FailToWatch(p, "failed")
          \/ (ZeroPeriod(cl) \/ (cl.webhook /\ "bind" \in Faults)) /\ FailToWatch(p, "panicked")
  /\ UNCHANGED <<cl, inRoot, rendered, forkFailed, hits>>

\* A pass has changed files.
Pass(p) ==
  /\ at[p] = "watch"
  /\ Wakes(cl)
  /\ "signal" \in cl.reload
  /\ Become(p, "signal")
  /\ UNCHANGED <<cl, inRoot, histVars>>

\* The callback of a pass panics, and the process with it.
PassPanics(p) ==
  /\ at[p] = "watch"
  /\ Wakes(cl)
  /\ "panic" \in Faults
  /\ FailToWatch(p, "panicked")
  /\ UNCHANGED <<cl, inRoot, rendered, forkFailed, hits>>

\* The signal goes to the parent of the moment, which it may kill: a parent that
\* has not executed the target yet is still this program.
Signal(p) ==
  /\ at[p] = "signal"
  /\ LET r == parent[p]
         who == IF r \in Procs /\ at[r] = "target" THEN "target" ELSE r
     IN /\ hits' = hits \union {<<who, \E q \in Procs : at[q] = "target">>}
        /\ \/ Become(p, "watch")
           \/ /\ who \in Procs
              /\ at' = [at EXCEPT ![p] = "watch", ![r] = "killed"]
              /\ Orphan(r)
  /\ UNCHANGED <<cl, inRoot, rendered, forkFailed, watchFailed>>

-----------------------------------------------------------------------------

Step(p) ==
  \/ Detach(p) \/ Session(p) \/ WaitReturns(p)
  \/ ForkAndExec(p) \/ Exec(p) \/ Arm(p) \/ SetUp(p) \/ Signal(p)

Next ==
  \E p \in Procs :
    \/ Parse(p) \/ InitialRun(p) \/ Step(p) \/ Abort(p)
    \/ TargetEnds(p) \/ Pass(p) \/ PassPanics(p)

Spec == Init /\ [][Next]_vars

\* The kernel runs every process and delivers the signals it has sent. Nothing is
\* assumed of the initial run, of the target, or of changes of the data.
FairSpec == Spec /\ \A p \in Procs : WF_vars(Step(p)) /\ WF_vars(Abort(p))

-----------------------------------------------------------------------------
(* Properties.                                                             *)

\* The types of the variables: in particular only the child of a fork asks for the
\* death signal.
TypeOK ==
  /\ cl \in CommandLine
  /\ at \in [Procs -> {"unborn", "parse", "run", "detach", "waiting", "session", "settled", "exec",
                       "target", "arm", "setup"} \union Watching \union Stopped]
  /\ parent \in [Procs -> Procs \union {"shell", "init"}]
  /\ deathSignal \in [Procs -> {"off", "armed", "sent"}]
  /\ \A p \in Procs \ {"child"} : at[p] # "arm" /\ deathSignal[p] = "off"
  /\ inRoot \subseteq Procs
  /\ rendered \in BOOLEAN /\ forkFailed \in BOOLEAN /\ watchFailed \in BOOLEAN
  /\ hits \subseteq (Procs \union {"shell", "init", "target"}) \X BOOLEAN

\* Whatever is combined on the command line: once it has been accepted, its plan
\* writes no file twice and makes backups of nothing but what it renders in place,
\* which the execution of plans relies on (TemplatePlan).
AcceptedPlansAreValid == at["main"] \notin {"parse", "refused"} => Validated(PlanOf(cl))

\* The target finds its files rendered: it is executed after a successful run.
RenderedFirst == \A p \in Procs : at[p] = "target" => rendered

\* The processes that render the plan, or are about to.
Renderers == {p \in Procs : at[p] \in {"parse", "run", "detach", "session", "settled", "arm", "setup"}
                                        \union Watching}

\* However the program forks, and whichever fork fails, at most one of its processes
\* goes on to render: two would spoil each other's backups (PlanTwoProcesses).
OneRenderer == \A p, q \in Renderers : p = q

\* While the target runs, the signal of a reload goes to it and to nobody else.
SignalReachesTarget == \A h \in hits : h[2] => h[1] = "target"

\* A child that has got as far as watching while its parent was there does not
\* outlive it, whether the parent was the target or could not execute it.
WatcherFollows ==
  [](at["child"] \in {"setup"} \union Watching /\ parent["child"] # "init" =>
       [](parent["child"] = "init" => <>(at["child"] \in Stopped)))

\* What that rests on: whatever becomes of the parent, the child is sent the signal
\* that it asked for, in the same moment in which the parent is gone.
OrphansAreSignalled ==
  [](at["child"] \in {"setup"} \union Watching /\ parent["child"] # "init" =>
       [](parent["child"] = "init" => deathSignal["child"] = "sent" \/ at["child"] \in Stopped))

TargetRuns == \E p \in Procs : at[p] = "target"

\* In watch mode a target that runs on is watched in the end, even if nothing is there
\* that could cause another pass. What prevents it is found out in the child only, when
\* the target may be running already: a signal that nobody knows, a period of zero, a
\* port that is taken, no runtime, and later a pass that panics.
TargetIsWatched ==
  cl.watch /\ TargetRuns ~> at["child"] \in Watching \/ ~ TargetRuns \/ watchFailed

\* Nor is it left alone on the way there: as long as the target runs in watch mode, the
\* child is there and on its way to watching, or its own run_watch has failed. Nothing
\* that the other processes do takes it away: not a fork that fails, the parents that
\* exit when they detach, the execv of the target, or a signal that is sent to it.
TargetHasWatcher ==
  cl.watch /\ TargetRuns => at["child"] \in {"arm", "setup"} \union Watching \/ watchFailed

\* Once the files are rendered the target is executed, unless a fork fails or the
\* child already signals the parent: a reload may be that early.
TargetStarts ==
  rendered /\ (cl.exec = "absolute" \/ (cl.exec = "relative" /\ ~ cl.daemonize))
    ~> \/ \E p \in Procs : at[p] \in {"target", "ended", "killed"}
       \/ forkFailed

\* On the way there it is not lost: whichever process executes it in the end, there is
\* always one that is to do so, or has.
TargetUnderway ==
  rendered /\ (cl.exec = "absolute" \/ (cl.exec = "relative" /\ ~ cl.daemonize)) /\ ~ forkFailed =>
    \E p \in Procs : at[p] \in {"detach", "session", "settled", "exec", "target", "ended", "killed"}

\* With --daemonize the program that the shell waits for ends after the initial run.
ShellReturns == rendered /\ cl.daemonize ~> at["main"] \in Stopped \/ forkFailed

\* docs/advanced/integration.md:114: the death signal ensures that the child is
\* terminated when the target process is terminated.
WatcherEndsWithTarget ==
  cl.watch /\ (\E p \in Procs : at[p] = "ended") ~> at["child"] \in Stopped
=============================================================================
