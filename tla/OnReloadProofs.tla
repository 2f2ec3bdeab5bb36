--------------------------- MODULE OnReloadProofs ---------------------------
(***************************************************************************)
(* Who is sent SIGINT, with any number of processes and any failure.       *)
(***************************************************************************)
EXTENDS OnReload, FiniteSetTheorems, TLAPS

Ours == {i \in Pids : proc[i] \in {"hook", "zombie"}}

\* Every hook that was not reaped is either the child that OnReload holds, which
\* nobody waits for, or one that a task waits for; only the latter are reaped, so
\* that the id of the child stays taken while it is held.
HookInv ==
  /\ TypeOK
  /\ waited \subseteq Ours
  /\ warned \subseteq waited
  /\ child # NoPid => child \in Ours \ waited
  /\ Ours \subseteq waited \union {child}
  /\ pc = "spawn" => child = NoPid

LEMMA HookInit == Init => HookInv
BY OnReloadAssumption DEF Init, HookInv, TypeOK, Ours, ProcessKinds, OnReloadAssumption

LEMMA HookNext == HookInv /\ [Next]_vars => HookInv'
<1> SUFFICES ASSUME HookInv, [Next]_vars PROVE HookInv'
  OBVIOUS
<1> USE OnReloadAssumption DEF HookInv, TypeOK, ProcessKinds, OnReloadAssumption
<1>1. ASSUME NEW i \in Pids, HookEnds(i) PROVE HookInv'
  <2>1. Ours' = Ours
    BY <1>1 DEF HookEnds, Ours
  <2>2. QED
    BY <1>1, <2>1 DEF HookEnds, hookVars, signalVars
<1>2. ASSUME NEW i \in Pids, Reap(i) PROVE HookInv'
  <2>1. Ours' = Ours \ {i}
    BY <1>2 DEF Reap, Ours
  <2>2. QED
    BY <1>2, <2>1 DEF Reap, signalVars
<1>3. ASSUME NEW i \in Pids, OtherStarts(i) \/ OtherEnds(i) PROVE HookInv'
  <2>1. Ours' = Ours
    BY <1>3 DEF OtherStarts, OtherEnds, Ours
  <2>2. QED
    BY <1>3, <2>1 DEF OtherStarts, OtherEnds, hookVars, signalVars
<1>4. CASE UNCHANGED vars
  BY <1>4 DEF vars, Ours
<1>5. CASE ExecuteHook \/ ExecuteSignal
  BY <1>5 DEF ExecuteHook, ExecuteSignal, hookVars, signalVars, Ours
<1>6. CASE Terminate
  <2>1. Ours' = Ours
    BY <1>6 DEF Terminate, Ours
  <2>2. QED
    BY <1>6, <2>1 DEF Terminate, Return, hookVars, signalVars
<1>7. CASE Spawn
  <2>1. CASE \E i \in Free : proc' = [proc EXCEPT ![i] = "hook"] /\ child' = i
    <3>1. PICK i \in Free : proc' = [proc EXCEPT ![i] = "hook"] /\ child' = i
      BY <2>1
    <3>2. Ours' = Ours \union {i} /\ i \notin Ours
      BY <3>1 DEF Ours, Free
    <3>3. Ours \subseteq waited
      BY <1>7 DEF Spawn, Ours
    <3>4. QED
      BY <1>7, <3>1, <3>2, <3>3 DEF Spawn, Return, signalVars, Free
  <2>2. CASE Return("error") /\ UNCHANGED <<proc, child>>
    BY <1>7, <2>2 DEF Spawn, Return, signalVars, Ours
  <2>3. QED
    BY <1>7, <2>1, <2>2 DEF Spawn
<1>8. CASE (\E i \in Pids : Signal(i)) \/ SignalsSent
  <2>1. ASSUME NEW i \in Pids, Signal(i) PROVE HookInv'
    BY <2>1 DEF Signal, Reach, Return, hookVars, Ours
  <2>2. CASE SignalsSent
    BY <2>2 DEF SignalsSent, Return, hookVars, signalVars, Ours
  <2>3. QED
    BY <1>8, <2>1, <2>2
<1>9. QED
  BY <1>1, <1>2, <1>3, <1>4, <1>5, <1>6, <1>7, <1>8 DEF Next

LEMMA HookAlways == Spec => []HookInv
BY HookInit, HookNext, PTL DEF Spec

\* The variables keep their types: only ids of processes are ever sent a signal.
THEOREM ReloadTypes == Spec => []TypeOK
BY HookAlways, PTL DEF HookInv

\* However process ids are used again and whenever hooks end, SIGINT goes to a hook
\* and to no other process.
THEOREM OnlyHooksInterrupted == Spec => InterruptsHooksOnly
<1>1. HookInv /\ [Next]_vars =>
        [\A i \in warned' \ warned : proc[i] \in {"hook", "zombie"}]_vars
  <2> SUFFICES ASSUME HookInv, Next, NEW i \in warned' \ warned
               PROVE  proc[i] \in {"hook", "zombie"}
    OBVIOUS
  <2>1. child # NoPid /\ i = child
    BY DEF Next, HookEnds, Reap, OtherStarts, OtherEnds, ExecuteHook, ExecuteSignal, Terminate,
           Spawn, Signal, Reach, SignalsSent, hookVars
  <2>2. QED
    BY <2>1 DEF HookInv, Ours
<1>2. QED
  BY <1>1, HookAlways, PTL DEF Spec, InterruptsHooksOnly

\* All hooks that run but the last one have been told to end, or could not be told,
\* however many reloads overlap.
THEOREM OthersAreWarned == Spec => []OneHookUnwarned
<1> DEFINE Told == waited \subseteq warned
<1>1. Init => Told
  BY DEF Init
<1>2. HookInv /\ Told /\ [Next]_vars => Told'
  <2> SUFFICES ASSUME HookInv, Told, [Next]_vars PROVE Told'
    OBVIOUS
  <2>1. CASE Terminate
    BY <2>1 DEF Terminate, hookVars
  <2>2. CASE UNCHANGED <<waited, warned>> \/ \E i \in Pids : Reap(i)
    BY <2>2 DEF Reap
  <2>3. QED
    BY <2>1, <2>2 DEF Next, HookEnds, OtherStarts, OtherEnds, ExecuteHook, ExecuteSignal,
                      Spawn, Signal, Reach, SignalsSent, hookVars, vars
<1>3. HookInv /\ Told => OneHookUnwarned
  <2> SUFFICES ASSUME HookInv, Told PROVE OneHookUnwarned
    OBVIOUS
  <2>1. {i \in Pids \ warned : proc[i] = "hook"} \in SUBSET {child}
    BY DEF HookInv, Ours
  <2>2. IsFiniteSet({child}) /\ Cardinality({child}) = 1
    BY FS_Singleton
  <2>3. Cardinality({i \in Pids \ warned : proc[i] = "hook"}) <= 1
    BY <2>1, <2>2, FS_Subset
  <2>4. QED
    BY <2>3 DEF OneHookUnwarned
<1>4. QED
  BY <1>1, <1>2, <1>3, HookAlways, PTL DEF Spec

\* No hook is forgotten, so that it would stay a zombie, and none is reaped while OnReload
\* holds it, so that its id could be used again.
THEOREM HooksAreOwned == Spec => []HooksHaveOneOwner
<1>1. HookInv => HooksHaveOneOwner
  BY OnReloadAssumption DEF HookInv, HooksHaveOneOwner, Ours, OnReloadAssumption
<1>2. QED
  BY <1>1, HookAlways, PTL

-----------------------------------------------------------------------------
(* Whom the action with a process name signals.                            *)

\* Of the ids that execute found, each was signalled or is still to be, until execute
\* has returned: a kill that fails clears the rest and returns an error. An id that
\* was signalled counts for its process, or for the one that got it after that.
Reached == signalled \union (gone \intersect strays)

SignalInv ==
  /\ action = "hook" => found = {} /\ pc # "signal"
  /\ action = "name" => pc \in {"idle", "signal"}
  /\ pc = "signal" => found \subseteq Reached \union todo
  /\ pc = "idle" /\ result = "ok" => found \subseteq Reached

LEMMA SignalNext == HookInv /\ SignalInv /\ [Next]_vars => SignalInv'
<1> SUFFICES ASSUME HookInv, SignalInv, [Next]_vars PROVE SignalInv'
  OBVIOUS
<1>1. CASE UNCHANGED <<action, pc, signalVars, result>>
  BY <1>1 DEF SignalInv, Reached, signalVars
<1>2. CASE ExecuteHook \/ Terminate \/ Spawn
  BY <1>2 DEF ExecuteHook, Terminate, Spawn, Return, signalVars, SignalInv, Reached, HookInv, TypeOK
<1>3. CASE ExecuteSignal
  BY <1>3 DEF ExecuteSignal, SignalInv
<1>4. ASSUME NEW i \in Pids, Signal(i) PROVE SignalInv'
  <2>1. CASE Reach(i) /\ todo' = todo \ {i} /\ UNCHANGED <<pc, result>>
    <3>1. Reached' = Reached \union {i} /\ found' = found /\ action' = action
      BY <1>4, <2>1 DEF Signal, Reach, Reached
    <3>2. QED
      BY <1>4, <2>1, <3>1 DEF Signal, SignalInv
  <2>2. CASE Return("error")
    BY <1>4, <2>2 DEF Signal, Return, SignalInv
  <2>3. QED
    BY <1>4, <2>1, <2>2 DEF Signal
<1>5. CASE SignalsSent
  BY <1>5 DEF SignalsSent, Return, signalVars, SignalInv, Reached
<1>6. ASSUME NEW i \in Pids, OtherEnds(i) PROVE SignalInv'
  <2>1. Reached \subseteq Reached' /\ UNCHANGED <<action, pc, todo, found, result>>
    BY <1>6 DEF OtherEnds, Reached
  <2>2. QED
    BY <2>1 DEF SignalInv
<1>7. QED
  BY <1>1, <1>2, <1>3, <1>4, <1>5, <1>6
     DEF Next, HookEnds, Reap, OtherStarts, vars, hookVars, signalVars

\* The action succeeds only if each of the processes that had the name when it
\* looked for them was sent the signal, or had ended and another process, which got
\* its id, was sent it instead: none is skipped, however many there are, whichever
\* end or come meanwhile, and whichever kill fails.
THEOREM SuccessSkipsNone == Spec => []OkMeansNoneSkipped
<1>1. Init => SignalInv
  BY DEF Init, SignalInv
<1>2. SignalInv => OkMeansNoneSkipped
  BY DEF SignalInv, Reached, OkMeansNoneSkipped
<1>3. QED
  BY <1>1, <1>2, HookAlways, SignalNext, PTL DEF Spec
=============================================================================
