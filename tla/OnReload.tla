------------------------------ MODULE OnReload ------------------------------
(***************************************************************************)
(* The on-reload action, which the watch loop executes after a pass that   *)
(* changed files (src/src/reload.rs): a hook process, of which the         *)
(* previous one is sent SIGINT first, or a signal to the processes of a    *)
(* name. The processes live their own lives: a hook may end early, ignore  *)
(* SIGINT or outlast many reloads, and a process id is used again once the *)
(* process has ended and its parent has waited for it.                     *)
(***************************************************************************)
EXTENDS Naturals, FiniteSets

CONSTANTS
  Pids,    \* process ids
  NoPid,   \* in the place of a process id
  Faults   \* failures that the environment may inject, see FaultKinds

FaultKinds == {"kill", "spawn"}

ASSUME OnReloadAssumption ==
  /\ IsFiniteSet(Pids) /\ NoPid \notin Pids
  /\ Faults \subseteq FaultKinds

VARIABLES
  action,    \* the command line: "hook" (a shell command, an executable) or "name"
  proc,      \* proc[i]: the process with id i, see ProcessKinds
  child,     \* the hook that OnReload holds, or NoPid
  waited,    \* children that a task of tokio waits for, to reap them
  warned,    \* hooks that kill(SIGINT) was called for, with success or not
  pc,        \* where execute is
  todo,      \* the processes that are still to be signalled
  found,     \* history: the ids of the processes of the name when execute looked for them
  gone,      \* history: those of found whose process ended while execute was at work
  signalled, \* history: those of found whose process execute has signalled
  strays,    \* history: those of found that had gone to another process when execute
             \* signalled it in place of the one that it found
  result     \* history: how execute returned last

vars == <<action, proc, child, waited, warned, pc, todo, found, gone, signalled, strays, result>>

hookVars   == <<child, waited, warned>>
signalVars == <<todo, found, gone, signalled, strays>>

\* "zombie": a hook that ended and was not waited for; "named": a process of the
\* name that is to be signalled; "other": any other process.
ProcessKinds == {"free", "hook", "zombie", "named", "other"}

Free == {i \in Pids : proc[i] = "free"}

Init ==
  /\ action \in {"hook", "name"}
  /\ proc \in [Pids -> {"free", "named", "other"}]
  /\ child = NoPid
  /\ waited = {}
  /\ warned = {}
  /\ pc = "idle"
  /\ todo = {}
  /\ found = {}
  /\ gone = {}
  /\ signalled = {}
  /\ strays = {}
  /\ result = "ok"

-----------------------------------------------------------------------------
(* The processes.                                                          *)

\* A hook ends, on its own or of SIGINT.
HookEnds(i) ==
  /\ proc[i] = "hook"
  /\ proc' = [proc EXCEPT ![i] = "zombie"]
  /\ UNCHANGED <<action, hookVars, pc, signalVars, result>>

\* Mutant: a hook that ended is reaped, and OnReload is not told.
ReapAll(i) ==
  /\ proc[i] = "zombie"
  /\ proc' = [proc EXCEPT ![i] = "free"]
  /\ waited' = waited \ {i}
  /\ warned' = warned \ {i}
  /\ UNCHANGED <<action, child, pc, signalVars, result>>

\* A child is reaped by the task that waits for it, and its id is free again.
Reap(i) ==
  /\ proc[i] = "zombie"
  /\ i \in waited
  /\ proc' = [proc EXCEPT ![i] = "free"]
  /\ waited' = waited \ {i}
  /\ warned' = warned \ {i}
  /\ UNCHANGED <<action, child, pc, signalVars, result>>

\* Other processes come, while they leave an id for the next hook, and go.
OtherStarts(i) ==
  /\ proc[i] = "free"
  /\ Cardinality(Free) > 1
  /\ \E k \in {"named", "other"} : proc' = [proc EXCEPT ![i] = k]
  /\ UNCHANGED <<action, hookVars, pc, signalVars, result>>

OtherEnds(i) ==
  /\ proc[i] \in {"named", "other"}
  /\ proc' = [proc EXCEPT ![i] = "free"]
  /\ gone' = IF pc = "signal" THEN gone \union ({i} \cap found) ELSE gone
  /\ UNCHANGED <<action, hookVars, pc, todo, found, signalled, strays, result>>

-----------------------------------------------------------------------------
(* OnReload::execute.                                                      *)

Return(r) == pc' = "idle" /\ result' = r

\* The hooks that run at the same time are bounded: there is an id for the next.
ExecuteHook ==
  /\ action = "hook"
  /\ pc = "idle"
  /\ Free # {}
  /\ pc' = "terminate"
  /\ UNCHANGED <<action, proc, hookVars, signalVars, result>>

\* processes_by_name looks at all processes at once. The targets Pid and Parent
\* are the same with one process.
ExecuteSignal ==
  /\ action = "name"
  /\ pc = "idle"
  /\ pc' = "signal"
  /\ found' = {i \in Pids : proc[i] = "named"}
  /\ todo' = found'
  /\ gone' = {} /\ signalled' = {} /\ strays' = {}
  /\ UNCHANGED <<action, proc, hookVars, result>>

\* kill(i, ...) finds a process, which may be one that has ended.
Exists(i) == proc[i] # "free"

\* Mutant: SIGINT is sent without a look at whether there is a child.
TerminateUnchecked ==
  /\ pc = "terminate"
  /\ waited' = waited \union {child}
  /\ warned' = warned \union {child}
  /\ child' = NoPid
  /\ pc' = "spawn"
  /\ UNCHANGED <<action, proc, signalVars, result>>

\* Mutant: the previous hook is only waited for.
TerminateGently ==
  /\ pc = "terminate"
  /\ waited' = waited \union ({child} \ {NoPid})
  /\ child' = NoPid
  /\ pc' = "spawn"
  /\ UNCHANGED <<action, proc, warned, signalVars, result>>

\* Mutant: the previous hook is forgotten once it has been sent SIGINT.
TerminateAndForget ==
  /\ pc = "terminate"
  /\ warned' = warned \union ({child} \ {NoPid})
  /\ child' = NoPid
  /\ pc' = "spawn"
  /\ UNCHANGED <<action, proc, waited, signalVars, result>>

\* terminate_existing_child takes the child, which a task waits for from now on
\* whether SIGINT could be sent or not: a Child that is dropped goes to tokio's
\* queue of orphans. If it could not, execute returns before the new hook.
Terminate ==
  /\ pc = "terminate"
  /\ IF child = NoPid
     THEN pc' = "spawn" /\ UNCHANGED <<hookVars, result>>
     ELSE /\ waited' = waited \union {child}
          /\ warned' = warned \union {child}
          /\ child' = NoPid
          /\ \/ Exists(child) /\ pc' = "spawn" /\ UNCHANGED result
             \/ (~ Exists(child) \/ "kill" \in Faults) /\ Return("error")
  /\ UNCHANGED <<action, proc, signalVars>>

\* command.spawn()
Spawn ==
  /\ pc = "spawn"
  /\ \/ /\ \E i \in Free : proc' = [proc EXCEPT ![i] = "hook"] /\ child' = i
        /\ Return("ok")
     \/ /\ "spawn" \in Faults
        /\ Return("error")
        /\ UNCHANGED <<proc, child>>
  /\ UNCHANGED <<action, waited, warned, signalVars>>

\* kill(i, ...) reaches the process that has the id i now, the one that was found or
\* another one that got its id.
Reach(i) ==
  /\ Exists(i)
  /\ IF i \in gone
     THEN strays' = strays \union {i} /\ UNCHANGED signalled
     ELSE signalled' = signalled \union {i} /\ UNCHANGED strays

\* Mutant: the error of one kill is not returned.
SignalOrSkip(i) ==
  /\ pc = "signal"
  /\ i \in todo
  /\ todo' = todo \ {i}
  /\ Reach(i) \/ UNCHANGED <<signalled, strays>>
  /\ UNCHANGED <<action, proc, hookVars, pc, found, gone, result>>

\* kill(pid, signal)? for one of the ids that were found.
Signal(i) ==
  /\ pc = "signal"
  /\ i \in todo
  /\ \/ /\ Reach(i)
        /\ todo' = todo \ {i}
        /\ UNCHANGED <<pc, result>>
     \/ /\ ~ Exists(i) \/ "kill" \in Faults
        /\ todo' = {}
        /\ Return("error")
        /\ UNCHANGED <<signalled, strays>>
  /\ UNCHANGED <<action, proc, hookVars, found, gone>>

SignalsSent ==
  /\ pc = "signal"
  /\ todo = {}
  /\ Return("ok")
  /\ UNCHANGED <<action, proc, hookVars, signalVars>>

Next ==
  \/ \E i \in Pids : HookEnds(i) \/ Reap(i) \/ OtherStarts(i) \/ OtherEnds(i) \/ Signal(i)
  \/ ExecuteHook \/ ExecuteSignal \/ Terminate \/ Spawn \/ SignalsSent

\* The waiting tasks are scheduled by tokio. Hooks need not end, nor files change.
Spec     == Init /\ [][Next]_vars
FairSpec == Spec /\ \A i \in Pids : WF_vars(Reap(i))

-----------------------------------------------------------------------------
(* Properties.                                                             *)

\* The types of the variables: in particular only processes are ever sent SIGINT.
TypeOK ==
  /\ action \in {"hook", "name"}
  /\ proc \in [Pids -> ProcessKinds]
  /\ child \in Pids \union {NoPid}
  /\ waited \subseteq Pids
  /\ warned \subseteq Pids
  /\ pc \in {"idle", "terminate", "spawn", "signal"}
  /\ found \subseteq Pids
  /\ todo \subseteq found
  /\ gone \subseteq found
  /\ signalled \subseteq found
  /\ strays \subseteq found
  /\ result \in {"ok", "error"}

\* SIGINT only ever goes to a hook, never to a process that got the id of a hook
\* that has ended since: the id stays taken until OnReload has let go of the child.
InterruptsHooksOnly ==
  [][\A i \in warned' \ warned : proc[i] \in {"hook", "zombie"}]_vars

\* Of the hooks that run at the same time all but one were told to end, or could
\* not be told.
OneHookUnwarned ==
  Cardinality({i \in Pids \ warned : proc[i] = "hook"}) <= 1

\* A hook that ended does not stay a zombie once OnReload has let go of it, even
\* if it could not be sent SIGINT.
HooksAreReaped ==
  \A i \in Pids : proc[i] = "zombie" /\ child # i ~> proc[i] = "free"

\* Every hook that runs or ended has one that will reap it, and only one: OnReload, which
\* holds it and hands it on when it is next executed, or a task that waits for it.
HooksHaveOneOwner ==
  \A i \in Pids : proc[i] \in {"hook", "zombie"} => (child = i <=> i \notin waited)

\* When execute reports success every process that it found was sent the signal, or had
\* ended and another process that got its id was sent the signal in its place: an id
\* that was used again hides that a process was gone, and nothing else does.
OkMeansNoneSkipped ==
  pc = "idle" /\ result = "ok" =>
    \A i \in found : i \in signalled \/ (i \in gone /\ i \in strays)
=============================================================================
