---------------------------- MODULE LaunchProofs ----------------------------
(***************************************************************************)
(* What holds of the program for every command line, with any number of    *)
(* files, suffixes, templates and data sources.                            *)
(***************************************************************************)
EXTENDS Launch, TLAPS

-----------------------------------------------------------------------------
(* The plan of an accepted command line.                                   *)

\* An operation with a backup is in place, and its backup is another file.
LEMMA NewIsValid ==
  ASSUME NEW x \in Paths, NEW y \in Paths
  PROVE  New(x, y) \in Operation /\ InPlaceOrNoBackup(New(x, y))
BY CliAssumption, OperationsAssumption
   DEF New, SourceOf, DestOf, Operation, Paths, InPlaceOrNoBackup, CliAssumption

LEMMA NewInPlaceIsValid ==
  ASSUME NEW x \in Paths, NEW k \in InPlaceArgs
  PROVE  NewInPlace(x, k) \in Operation /\ InPlaceOrNoBackup(NewInPlace(x, k))
<1>1. CASE k \in Suffixes
  <2>1. BackupName[<<x, k>>] \in Files /\ (x \in Files => BackupName[<<x, k>>] # x)
    BY <1>1, CliAssumption DEF CliAssumption
  <2>2. QED
    BY <1>1, <2>1, CliAssumption
       DEF NewInPlace, SourceOf, DestOf, Operation, Paths, InPlaceOrNoBackup, CliAssumption
<1>2. CASE k \notin Suffixes
  BY <1>2 DEF NewInPlace, SourceOf, DestOf, Operation, Paths, InPlaceOrNoBackup
<1>3. QED
  BY <1>1, <1>2

LEMMA ToArgumentIsValid ==
  ASSUME NEW l \in CommandLine, NEW x \in Paths, NEW y \in Paths \union {NoArg}
  PROVE  ToArgument(l, x, y) \in Operation /\ InPlaceOrNoBackup(ToArgument(l, x, y))
<1>1. l.inPlace \in InPlaceArgs /\ Dash \in Paths
  BY DEF CommandLine, Paths
<1>2. QED
  BY <1>1, NewIsValid, NewInPlaceIsValid DEF ToArgument

Fine == {op \in Operation : InPlaceOrNoBackup(op)}

LEMMA PlanIsFine ==
  ASSUME NEW l \in CommandLine
  PROVE  PlanOf(l) \in Seq(Fine)
<1>0. Dash \in Paths
  BY DEF Paths
<1>1. InputOutputArgs(l) \in Seq(Fine)
  <2>1. l.inputs \in Seq(Paths) /\ l.output \in Paths \union {NoArg}
    BY DEF CommandLine
  <2>2. CASE l.inputs = << >> /\ l.output = NoArg
    BY <2>2 DEF InputOutputArgs
  <2>3. CASE l.inputs = << >> /\ l.output # NoArg
    <3>1. New(Dash, l.output) \in Fine
      BY <1>0, <2>1, <2>3, NewIsValid DEF Fine
    <3>2. QED
      BY <2>3, <3>1 DEF InputOutputArgs
  <2>4. CASE l.inputs # << >>
    <3>1. \A i \in 1 .. Len(l.inputs) : ToArgument(l, l.inputs[i], l.output) \in Fine
      BY <2>1, ToArgumentIsValid DEF Fine
    <3>2. InputOutputArgs(l) = [i \in 1 .. Len(l.inputs) |-> ToArgument(l, l.inputs[i], l.output)]
      BY <2>4 DEF InputOutputArgs
    <3>3. QED
      BY <2>1, <3>1, <3>2
  <2>5. QED
    BY <2>2, <2>3, <2>4
<1>2. TemplateArgs(l) \in Seq(Fine)
  <2>1. l.templates \in Seq(Paths \X (Paths \union {NoArg}))
    BY DEF CommandLine
  <2>2. \A i \in 1 .. Len(l.templates) :
          l.templates[i][1] \in Paths /\ l.templates[i][2] \in Paths \union {NoArg}
    BY <2>1
  <2>3. \A i \in 1 .. Len(l.templates) :
          ToArgument(l, l.templates[i][1], l.templates[i][2]) \in Fine
    BY <2>2, ToArgumentIsValid DEF Fine
  <2>4. QED
    BY <2>1, <2>3 DEF TemplateArgs
<1>3. InputOutputArgs(l) \o TemplateArgs(l) \in Seq(Fine)
  BY <1>1, <1>2
<1>4. <<New(Dash, Dash)>> \in Seq(Fine)
  BY <1>0, NewIsValid DEF Fine
<1>5. QED
  BY <1>3, <1>4 DEF PlanOf

\* Whatever is combined on the command line, its plan has operations of the right
\* shape, and what has been accepted can be executed.
LEMMA AcceptedIsValid ==
  ASSUME NEW l \in CommandLine, Validates(l)
  PROVE  PlanOf(l) \in Seq(Operation) /\ Validated(PlanOf(l))
<1>1. \A plan \in Seq(Fine) :
        plan \in Seq(Operation) /\ \A o \in 1 .. Len(plan) : InPlaceOrNoBackup(plan[o])
  <2>1. SUFFICES ASSUME NEW plan \in Seq(Fine)
                 PROVE  plan \in Seq(Operation) /\ \A o \in 1 .. Len(plan) : plan[o] \in Fine
    BY DEF Fine
  <2>2. Fine \subseteq Operation
    BY DEF Fine
  <2>3. QED
    BY <2>2
<1>2. DestinationsUnique(PlanOf(l))
  BY DEF Validates, NoDuplicates
<1>3. QED
  BY <1>1, <1>2, PlanIsFine DEF Validated

-----------------------------------------------------------------------------
(* Types.                                                                  *)

Places == {"unborn", "parse", "run", "detach", "waiting", "session", "settled", "exec",
           "target", "arm", "setup"} \union Watching \union Stopped

LEMMA TypeInit == Init => TypeOK
<1> SUFFICES ASSUME Init PROVE TypeOK
  OBVIOUS
<1>1. cl \in CommandLine
  BY LaunchAssumption DEF Init, LaunchAssumption
<1>2. at \in [Procs -> Places] /\ \A p \in Procs : at[p] # "arm"
  BY DEF Init, Places
<1>3. /\ parent \in [Procs -> Procs \union {"shell", "init"}]
      /\ deathSignal \in [Procs -> {"off", "armed", "sent"}]
      /\ \A p \in Procs : deathSignal[p] = "off"
  BY DEF Init
<1>4. inRoot \subseteq Procs /\ rendered \in BOOLEAN /\ forkFailed \in BOOLEAN /\ watchFailed \in BOOLEAN
  BY DEF Init
<1>5. hits \subseteq (Procs \union {"shell", "init", "target"}) \X BOOLEAN
  BY DEF Init
<1>6. QED
  BY <1>1, <1>2, <1>3, <1>4, <1>5 DEF TypeOK, Places

\* A process that goes elsewhere, and one that is forked, keep the types.
LEMMA BecomeType ==
  ASSUME TypeOK, NEW p \in Procs, NEW s \in Places \ {"arm"}, Become(p, s)
  PROVE  /\ at' \in [Procs -> Places]
         /\ parent' \in [Procs -> Procs \union {"shell", "init"}]
         /\ deathSignal' \in [Procs -> {"off", "armed", "sent"}]
         /\ \A q \in Procs \ {"child"} : at'[q] # "arm" /\ deathSignal'[q] = "off"
BY DEF Become, Orphan, TypeOK, Places

LEMMA ForkType ==
  ASSUME TypeOK, NEW p \in Procs, NEW q \in Procs, NEW s \in Places \ {"arm"},
         NEW t \in Places, t = "arm" => q = "child", Fork(p, s, q, t)
  PROVE  /\ at' \in [Procs -> Places]
         /\ parent' \in [Procs -> Procs \union {"shell", "init"}]
         /\ deathSignal' \in [Procs -> {"off", "armed", "sent"}]
         /\ \A r \in Procs \ {"child"} : at'[r] # "arm" /\ deathSignal'[r] = "off"
         /\ forkFailed' = forkFailed
BY DEF Fork, TypeOK, Places

LEMMA TypeStep == TypeOK /\ [Next]_vars => TypeOK'
<1> SUFFICES ASSUME TypeOK, [Next]_vars PROVE TypeOK'
  OBVIOUS
<1> USE DEF histVars
<1>0. CASE UNCHANGED vars
  BY <1>0 DEF TypeOK, vars, procVars
<1>1. ASSUME NEW p \in Procs, NEW s \in Places \ {"arm"}, Become(p, s),
             UNCHANGED <<cl, hits>>, inRoot' \subseteq Procs,
             rendered' \in BOOLEAN, forkFailed' \in BOOLEAN, watchFailed' \in BOOLEAN
      PROVE  TypeOK'
  BY <1>1, BecomeType DEF TypeOK, Places
<1>2. ASSUME NEW p \in Procs, NEW q \in Procs, NEW s \in Places \ {"arm"},
             NEW t \in Places, t = "arm" => q = "child", Fork(p, s, q, t),
             UNCHANGED <<cl, inRoot, rendered, watchFailed, hits>>
      PROVE  TypeOK'
  BY <1>2, ForkType DEF TypeOK, Places
<1>3. CASE Next
  <2> PICK p \in Procs : Parse(p) \/ InitialRun(p) \/ Step(p) \/ Abort(p) \/ TargetEnds(p) \/ Pass(p)
                            \/ PassPanics(p)
    BY <1>3 DEF Next
  <2>0. rendered \in BOOLEAN /\ forkFailed \in BOOLEAN /\ watchFailed \in BOOLEAN /\ inRoot \subseteq Procs
    BY DEF TypeOK
  <2>1. CASE Parse(p)
    BY <1>1, <2>0, <2>1 DEF Parse, Places, Stopped
  <2>2. CASE InitialRun(p)
    BY <1>1, <2>0, <2>2 DEF InitialRun, AfterRun, AfterError, Places, Stopped
  <2>3. CASE Detach(p)
    BY <1>1, <1>2, <2>0, <2>3 DEF Detach, NoFork, Places, Procs
  <2>4. CASE Session(p)
    <3>1. CASE NoFork(p, "settled") /\ inRoot' = inRoot \union {p} /\ UNCHANGED <<cl, rendered, watchFailed, hits>>
      BY <1>1, <2>0, <3>1 DEF NoFork, Places
    <3>2. CASE /\ at' = [at EXCEPT ![p] = "done", !["daemon"] = "settled"]
               /\ parent' = [parent EXCEPT !["daemon"] = "init"]
               /\ inRoot' = inRoot \union {p, "daemon"}
               /\ UNCHANGED <<cl, deathSignal, histVars>>
      BY <3>2 DEF TypeOK, Procs, Stopped
    <3>3. QED
      BY <2>4, <3>1, <3>2 DEF Session
  <2>5. CASE WaitReturns(p)
    BY <1>1, <2>0, <2>5 DEF WaitReturns, Places, Stopped
  <2>6. CASE ForkAndExec(p)
    BY <1>1, <1>2, <2>0, <2>6 DEF ForkAndExec, NoFork, Places, Procs
  <2>7. CASE Exec(p)
    BY <1>1, <2>0, <2>7 DEF Exec, ExecFailed, Places, Stopped
  <2>8. CASE Arm(p)
    <3>1. p = "child"
      BY <2>8 DEF Arm, TypeOK
    <3>2. QED
      BY <2>8, <3>1 DEF Arm, TypeOK
  <2>9. CASE SetUp(p)
    BY <1>1, <2>0, <2>9 DEF SetUp, FailToWatch, Places, Stopped, Watching
  <2>10. CASE Signal(p)
    <3>1. parent[p] \in Procs \union {"shell", "init"}
      BY DEF TypeOK
    <3>2. hits' \subseteq (Procs \union {"shell", "init", "target"}) \X BOOLEAN
      <4>1. \E w, r : hits' = hits \union {<<w, r>>} /\ r \in BOOLEAN
                       /\ w \in Procs \union {"shell", "init", "target"}
        BY <2>10, <3>1 DEF Signal
      <4>2. QED
        BY <4>1 DEF TypeOK
    <3>3. CASE Become(p, "watch")
      BY <2>10, <3>2, <3>3, BecomeType DEF Signal, TypeOK, Places, Watching
    <3>4. CASE /\ at' = [at EXCEPT ![p] = "watch", ![parent[p]] = "killed"]
               /\ Orphan(parent[p])
      <4>1. /\ at' \in [Procs -> Places]
            /\ \A q \in Procs \ {"child"} : at'[q] # "arm"
        <5>1. at \in [Procs -> Places] /\ \A q \in Procs \ {"child"} : at[q] # "arm"
          BY DEF TypeOK, Places
        <5>2. "watch" \in Places /\ "killed" \in Places
          BY DEF Places, Watching, Stopped
        <5>3. QED
          BY <3>4, <5>1, <5>2
      <4>2. /\ parent' \in [Procs -> Procs \union {"shell", "init"}]
            /\ deathSignal' \in [Procs -> {"off", "armed", "sent"}]
            /\ \A q \in Procs \ {"child"} : deathSignal'[q] = "off"
        BY <3>4 DEF Orphan, TypeOK
      <4>3. cl' \in CommandLine /\ inRoot' \subseteq Procs
            /\ rendered' \in BOOLEAN /\ forkFailed' \in BOOLEAN /\ watchFailed' \in BOOLEAN
        BY <2>0, <2>10 DEF Signal, TypeOK
      <4>4. QED
        BY <3>2, <4>1, <4>2, <4>3 DEF TypeOK, Places
    <3>5. QED
      BY <2>10, <3>3, <3>4 DEF Signal
  <2>11. CASE Abort(p)
    BY <1>1, <2>0, <2>11 DEF Abort, Places, Stopped
  <2>12. CASE TargetEnds(p)
    BY <1>1, <2>0, <2>12 DEF TargetEnds, Places, Stopped
  <2>13. CASE Pass(p)
    BY <1>1, <2>0, <2>13 DEF Pass, Places, Watching
  <2>14. CASE PassPanics(p)
    BY <1>1, <2>0, <2>14 DEF PassPanics, FailToWatch, Places, Stopped
  <2>15. QED
    BY <2>1, <2>2, <2>3, <2>4, <2>5, <2>6, <2>7, <2>8, <2>9, <2>10, <2>11, <2>12, <2>13, <2>14 DEF Step
<1>4. QED
  BY <1>0, <1>3

\* The types hold in every behaviour, for every set of command lines.
THEOREM TypeCorrect == Spec => []TypeOK
BY TypeInit, TypeStep, PTL DEF Spec

-----------------------------------------------------------------------------
(* The plan is valid, and it has been rendered.                            *)

\* Before its command line is accepted the program is alone.
Alone == at["main"] \in {"parse", "refused"} =>
           \A p \in Procs \ {"main"} : at[p] = "unborn" /\ deathSignal[p] = "off"

AcceptedInv == Alone /\ (at["main"] \notin {"parse", "refused"} => Validates(cl))

LEMMA AcceptedStep == TypeOK /\ AcceptedInv /\ [Next]_vars => AcceptedInv'
<1> SUFFICES ASSUME TypeOK, AcceptedInv, [Next]_vars PROVE AcceptedInv'
  OBVIOUS
<1> USE DEF AcceptedInv, Alone
<1>0. CASE UNCHANGED vars
  BY <1>0 DEF vars, procVars
<1>1. CASE Next
  <2> PICK p \in Procs : Parse(p) \/ InitialRun(p) \/ Step(p) \/ Abort(p) \/ TargetEnds(p) \/ Pass(p)
                            \/ PassPanics(p)
    BY <1>1 DEF Next
  <2>1. cl' = cl
    BY DEF Parse, InitialRun, Step, Abort, TargetEnds, Pass, PassPanics, FailToWatch,
           Detach, Session, WaitReturns, ForkAndExec, Exec, Arm, SetUp, Signal
  <2>2. CASE at["main"] \in {"parse", "refused"}
    <3>1. \A q \in Procs : deathSignal[q] = "off" /\ (q # "main" => at[q] = "unborn")
      BY <2>2 DEF TypeOK
    <3>2. p = "main" /\ Parse(p)
      <4>1. at[p] \in {"unborn", "parse", "refused"} /\ deathSignal[p] = "off"
        BY <2>2, <3>1
      <4>2. Parse(p)
        BY <4>1
           DEF InitialRun, Step, Abort, TargetEnds, Pass, PassPanics, FailToWatch,
               Detach, Session, WaitReturns, ForkAndExec, Exec, Arm, SetUp, Signal
      <4>3. QED
        BY <3>1, <4>2 DEF Parse
    <3>3. at'["main"] = "refused" \/ Validates(cl)
      BY <3>2 DEF Parse, Become, TypeOK, Procs
    <3>4. \A q \in Procs \ {"main"} : at'[q] = "unborn" /\ deathSignal'[q] = "off"
      BY <3>1, <3>2 DEF Parse, Become, Orphan, TypeOK
    <3>5. QED
      BY <2>1, <3>3, <3>4
  <2>3. CASE at["main"] \notin {"parse", "refused"}
    <3>1. at'["main"] \notin {"parse", "refused"}
      <4> USE DEF Procs
      <4>1. p = "main" => ~ Parse(p)
        BY <2>3 DEF Parse
      <4>2. CASE Parse(p)
        BY <2>3, <4>1, <4>2 DEF Parse, Become, TypeOK
      <4>3. CASE InitialRun(p)
        BY <2>3, <4>3 DEF InitialRun, AfterRun, AfterError, Become, TypeOK
      <4>4. CASE Detach(p) \/ Session(p) \/ WaitReturns(p)
        BY <2>3, <4>4 DEF Detach, Session, WaitReturns, NoFork, Fork, Become, TypeOK
      <4>5. CASE ForkAndExec(p) \/ Exec(p) \/ Arm(p) \/ SetUp(p)
        BY <2>3, <4>5 DEF ForkAndExec, Exec, Arm, SetUp, NoFork, Fork, ExecFailed, FailToWatch, Become, TypeOK
      <4>6. CASE Signal(p)
        BY <2>3, <4>6 DEF Signal, Become, TypeOK
      <4>7. CASE Abort(p) \/ TargetEnds(p) \/ Pass(p) \/ PassPanics(p)
        BY <2>3, <4>7 DEF Abort, TargetEnds, Pass, PassPanics, FailToWatch, Become, TypeOK
      <4>8. QED
        BY <4>2, <4>3, <4>4, <4>5, <4>6, <4>7 DEF Step
    <3>2. QED
      BY <2>1, <2>3, <3>1
  <2>4. QED
    BY <2>2, <2>3
<1>2. QED
  BY <1>0, <1>1

\* Whatever files and suffixes are combined on the command line, what is accepted
\* is a plan that can be executed.
THEOREM AcceptedPlans == Spec => []AcceptedPlansAreValid
<1>1. Init => AcceptedInv
  BY DEF Init, AcceptedInv, Alone, Procs
<1>2. TypeOK /\ AcceptedInv => AcceptedPlansAreValid
  BY AcceptedIsValid DEF TypeOK, AcceptedInv, AcceptedPlansAreValid
<1>3. QED
  BY <1>1, <1>2, AcceptedStep, TypeCorrect, PTL DEF Spec

\* Everything that happens after the initial run.
RenderedInv ==
  \A p \in Procs : at[p] \notin {"unborn", "parse", "run"} \union Stopped => rendered

LEMMA RenderedStep == TypeOK /\ RenderedInv /\ [Next]_vars => RenderedInv'
<1> SUFFICES ASSUME TypeOK, RenderedInv, [Next]_vars PROVE RenderedInv'
  OBVIOUS
<1> USE DEF RenderedInv, Stopped, histVars
<1>0. CASE UNCHANGED vars
  BY <1>0 DEF vars, procVars
<1>1. CASE Next
  <2> PICK p \in Procs : Parse(p) \/ InitialRun(p) \/ Step(p) \/ Abort(p) \/ TargetEnds(p) \/ Pass(p)
                            \/ PassPanics(p)
    BY <1>1 DEF Next
  <2>1. CASE Parse(p)
    BY <2>1 DEF Parse, Become, TypeOK
  <2>2. CASE InitialRun(p)
    BY <2>2 DEF InitialRun, AfterError, Become, TypeOK
  <2>3. CASE Step(p)
    <3>1. rendered /\ rendered' = rendered
      BY <2>3 DEF Step, Detach, Session, WaitReturns, ForkAndExec, Exec, Arm, SetUp, Signal
    <3>2. QED
      BY <3>1
  <2>4. CASE Abort(p)
    BY <2>4 DEF Abort, Become, TypeOK
  <2>5. CASE TargetEnds(p) \/ Pass(p) \/ PassPanics(p)
    <3>1. rendered /\ rendered' = rendered
      BY <2>5 DEF TargetEnds, Pass, PassPanics, FailToWatch
    <3>2. QED
      BY <3>1
  <2>6. QED
    BY <2>1, <2>2, <2>3, <2>4, <2>5
<1>2. QED
  BY <1>0, <1>1

\* No target is ever executed before the files are rendered.
THEOREM TargetFindsFiles == Spec => []RenderedFirst
<1>1. Init => RenderedInv
  BY DEF Init, RenderedInv, Procs
<1>2. RenderedInv => RenderedFirst
  BY DEF RenderedInv, RenderedFirst, Stopped
<1>3. QED
  BY <1>1, <1>2, RenderedStep, TypeCorrect, PTL DEF Spec

-----------------------------------------------------------------------------
(* Who renders, and who the parent is.                                     *)

\* Besides a target, or what is about to become one, there are only the processes
\* that were forked from it to watch, and the one that executes it is alone.
Beside == {"arm", "setup"} \union Watching

Executing(q) == at[q] \in {"exec", "target"}

Lineage ==
  \A q \in Procs : Executing(q) =>
    /\ \A r \in Procs : Executing(r) => r = q
    /\ \A p \in Renderers : at[p] \in Beside /\ parent[p] = q

FamilyInv == OneRenderer /\ Lineage

\* One process goes on somewhere else without forking.
LEMMA FamilyMoves ==
  ASSUME TypeOK, FamilyInv, NEW p \in Procs, NEW s \in Places, Become(p, s),
         \/ s \in Stopped
         \/ s \in Beside \union {"run", "detach", "settled"} /\ p \in Renderers
            /\ (at[p] \in Beside => s \in Beside)
         \/ s = "exec" /\ p \in Renderers /\ at[p] \notin Beside
         \/ s = "target" /\ at[p] = "exec"
  PROVE  FamilyInv'
<1> USE DEF FamilyInv
<1>1. at' = [at EXCEPT ![p] = s] /\ at \in [Procs -> Places] /\ parent \in [Procs -> Procs \union {"shell", "init"}]
  BY DEF Become, TypeOK, Places
<1>2. CASE s \in Stopped
  <2>1. \A q \in Procs : (q \in Renderers' => q \in Renderers /\ q # p)
                          /\ (Executing(q)' => Executing(q) /\ q # p)
                          /\ (parent[q] # p => parent'[q] = parent[q])
    BY <1>1, <1>2 DEF Become, Orphan, Renderers, Executing, Stopped, Watching
  <2>2. \A q \in Procs \ {p} : at'[q] = at[q]
    BY <1>1
  <2>3. Renderers' \subseteq Procs
    BY DEF Renderers
  <2>4. QED
    BY <2>1, <2>2, <2>3 DEF OneRenderer, Lineage
<1>3. CASE s \notin Stopped
  <2>1. parent' = parent
    BY <1>3 DEF Become
  <2>2. CASE s \in Beside \union {"run", "detach", "settled"} /\ p \in Renderers
             /\ (at[p] \in Beside => s \in Beside)
    <3>1. Renderers' = Renderers /\ \A q \in Procs : Executing(q)' => Executing(q)
      BY <1>1, <2>2 DEF Renderers, Executing, Beside, Watching
    <3>2. \A q \in Renderers : q = p
      BY <2>2 DEF OneRenderer
    <3>3. \A q \in Procs : Executing(q) => at'[p] \in Beside
      BY <1>1, <2>2 DEF Lineage
    <3>4. QED
      BY <2>1, <3>1, <3>2, <3>3 DEF OneRenderer, Lineage
  <2>3. CASE s = "exec" /\ p \in Renderers /\ at[p] \notin Beside
    <3>1. \A q \in Procs : ~ Executing(q)
      BY <2>3 DEF Lineage
    <3>2. \A q \in Renderers : q = p
      BY <2>3 DEF OneRenderer
    <3>3. Renderers' = {} /\ \A q \in Procs : Executing(q)' => q = p
      BY <1>1, <2>3, <3>1, <3>2 DEF Renderers, Executing, Watching
    <3>4. QED
      BY <3>3 DEF OneRenderer, Lineage
  <2>4. CASE s = "target" /\ at[p] = "exec"
    <3>1. Renderers' = Renderers /\ \A q \in Procs : Executing(q)' <=> Executing(q)
      BY <1>1, <2>4 DEF Renderers, Executing, Watching
    <3>2. p \notin Renderers
      BY <2>4 DEF Renderers, Watching
    <3>3. \A q \in Renderers : at'[q] = at[q]
      BY <1>1, <3>2 DEF Renderers
    <3>4. QED
      BY <2>1, <3>1, <3>3 DEF OneRenderer, Lineage
  <2>5. QED
    BY <1>3, <2>2, <2>3, <2>4
<1>4. QED
  BY <1>2, <1>3

LEMMA FamilyStep == TypeOK /\ FamilyInv /\ [Next]_vars => FamilyInv'
<1> SUFFICES ASSUME TypeOK, FamilyInv, [Next]_vars PROVE FamilyInv'
  OBVIOUS
<1>0. CASE UNCHANGED vars
  BY <1>0 DEF vars, procVars, FamilyInv, OneRenderer, Lineage, Renderers, Executing
<1>1. CASE Next
  <2> PICK p \in Procs : Parse(p) \/ InitialRun(p) \/ Step(p) \/ Abort(p) \/ TargetEnds(p) \/ Pass(p)
                            \/ PassPanics(p)
    BY <1>1 DEF Next
  <2>0. at \in [Procs -> Places] /\ parent \in [Procs -> Procs \union {"shell", "init"}]
    BY DEF TypeOK, Places
  <2>1. CASE Parse(p)
    <3>1. p \in Renderers /\ at[p] \notin Beside
      BY <2>1 DEF Parse, Renderers, Beside, Watching
    <3>2. QED
      BY <2>1, <3>1, FamilyMoves DEF Parse, Stopped, Places
  <2>2. CASE InitialRun(p)
    <3>1. p \in Renderers /\ at[p] \notin Beside
      BY <2>2 DEF InitialRun, Renderers, Beside, Watching
    <3>2. QED
      BY <2>2, <3>1, FamilyMoves DEF InitialRun, AfterRun, AfterError, Stopped, Places
  <2>3. CASE Detach(p)
    <3>1. p \in Renderers /\ at[p] \notin Beside
      BY <2>3 DEF Detach, Renderers, Beside, Watching
    <3>2. (\A q \in Procs : ~ Executing(q)) /\ (\A q \in Renderers : q = p)
      BY <3>1 DEF FamilyInv, Lineage, OneRenderer
    <3>3. CASE Fork(p, "waiting", "session", "session")
      <4>1. Renderers' \subseteq {"session"} /\ \A q \in Procs : ~ Executing(q)'
        BY <2>0, <3>2, <3>3 DEF Fork, Renderers, Executing, Watching, Procs
      <4>2. QED
        BY <4>1 DEF FamilyInv, OneRenderer, Lineage
    <3>4. CASE NoFork(p, "settled")
      BY <3>1, <3>4, FamilyMoves DEF NoFork, Places
    <3>5. QED
      BY <2>3, <3>3, <3>4 DEF Detach
  <2>4. CASE Session(p)
    <3>1. p \in Renderers /\ at[p] \notin Beside
      BY <2>4 DEF Session, Renderers, Beside, Watching
    <3>2. (\A q \in Procs : ~ Executing(q)) /\ (\A q \in Renderers : q = p)
      BY <3>1 DEF FamilyInv, Lineage, OneRenderer
    <3>3. CASE at' = [at EXCEPT ![p] = "done", !["daemon"] = "settled"]
      <4>1. Renderers' \subseteq {"daemon"} /\ \A q \in Procs : ~ Executing(q)'
        BY <2>0, <3>2, <3>3 DEF Renderers, Executing, Watching, Procs
      <4>2. QED
        BY <4>1 DEF FamilyInv, OneRenderer, Lineage
    <3>4. CASE NoFork(p, "settled")
      BY <3>1, <3>4, FamilyMoves DEF NoFork, Places
    <3>5. QED
      BY <2>4, <3>3, <3>4 DEF Session
  <2>5. CASE WaitReturns(p)
    BY <2>5, FamilyMoves DEF WaitReturns, Stopped, Places
  <2>6. CASE ForkAndExec(p)
    <3>1. p \in Renderers /\ at[p] \notin Beside
      BY <2>6 DEF ForkAndExec, Renderers, Beside, Watching
    <3>2. (\A q \in Procs : ~ Executing(q)) /\ (\A q \in Renderers : q = p)
      BY <3>1 DEF FamilyInv, Lineage, OneRenderer
    <3>3. CASE Fork(p, "exec", "child", "arm")
      <4>1. /\ Renderers' = {"child"} /\ at'["child"] = "arm" /\ parent'["child"] = p
            /\ \A q \in Procs : Executing(q)' => q = p
        BY <2>0, <3>2, <3>3 DEF Fork, Renderers, Executing, Watching, Procs
      <4>2. QED
        BY <4>1 DEF FamilyInv, OneRenderer, Lineage, Beside
    <3>4. CASE Become(p, "setup")
      BY <3>1, <3>4, FamilyMoves DEF Places, Beside
    <3>5. QED
      BY <2>6, <3>3, <3>4 DEF ForkAndExec, NoFork
  <2>7. CASE Exec(p)
    BY <2>7, FamilyMoves DEF Exec, ExecFailed, Stopped, Places
  <2>8. CASE Arm(p) \/ Pass(p)
    <3>1. \E s \in Beside : at[p] \in Beside /\ at' = [at EXCEPT ![p] = s] /\ parent' = parent
      BY <2>8 DEF Arm, Pass, Become, Beside, Watching, Stopped
    <3>2. Renderers' = Renderers /\ \A q \in Procs : Executing(q)' <=> Executing(q)
      BY <2>0, <3>1 DEF Renderers, Executing, Beside, Watching
    <3>3. \A q \in Renderers : at[q] \in Beside => at'[q] \in Beside
      BY <2>0, <3>1 DEF Renderers
    <3>4. QED
      BY <3>1, <3>2, <3>3 DEF FamilyInv, OneRenderer, Lineage
  <2>9. CASE SetUp(p)
    <3>1. p \in Renderers /\ at[p] \in Beside
      BY <2>9 DEF SetUp, Renderers, Beside
    <3>2. QED
      BY <2>9, <3>1, FamilyMoves DEF SetUp, FailToWatch, Stopped, Places, Beside, Watching
  <2>10. CASE Signal(p)
    <3>1. p \in Renderers /\ at[p] \in Beside
      BY <2>10 DEF Signal, Renderers, Beside, Watching
    <3>2. CASE Become(p, "watch")
      BY <3>1, <3>2, FamilyMoves DEF Places, Beside, Watching
    <3>3. CASE /\ at' = [at EXCEPT ![p] = "watch", ![parent[p]] = "killed"]
               /\ Orphan(parent[p]) /\ parent[p] \in Procs
      <4>1. DEFINE r == parent[p]
      <4>2. \A q \in Procs : (q \in Renderers' => q \in Renderers /\ at'[q] \in {at[q], "watch"})
                              /\ (Executing(q)' => Executing(q) /\ q # r)
                              /\ (parent[q] # r => parent'[q] = parent[q])
        BY <2>0, <3>1, <3>3 DEF Orphan, Renderers, Executing, Beside, Watching
      <4>3. \A q \in Procs : Executing(q)' => q # r /\ parent[p] = q
        BY <3>1, <4>2 DEF FamilyInv, Lineage
      <4>4. Renderers' \subseteq Procs
        BY DEF Renderers
      <4>5. QED
        BY <4>2, <4>3, <4>4 DEF FamilyInv, OneRenderer, Lineage
    <3>4. QED
      BY <2>10, <3>2, <3>3 DEF Signal
  <2>11. CASE Abort(p) \/ TargetEnds(p) \/ PassPanics(p)
    BY <2>11, FamilyMoves DEF Abort, TargetEnds, PassPanics, FailToWatch, Stopped, Places
  <2>12. QED
    BY <2>1, <2>2, <2>3, <2>4, <2>5, <2>6, <2>7, <2>8, <2>9, <2>10, <2>11 DEF Step
<1>2. QED
  BY <1>0, <1>1

LEMMA FamilyAlways == Spec => [](TypeOK /\ FamilyInv)
<1>1. Init => FamilyInv
  BY DEF Init, FamilyInv, OneRenderer, Lineage, Renderers, Executing, Watching, Procs
<1>2. QED
  BY <1>1, FamilyStep, TypeCorrect, PTL DEF Spec

\* Whichever forks fail, the program never ends up as two that render the plan.
THEOREM RendererIsAlone == Spec => []OneRenderer
BY FamilyAlways, PTL DEF FamilyInv

\* A signal never misses a target that runs.
THEOREM SignalsTheTarget == Spec => []SignalReachesTarget
<1>1. Init => SignalReachesTarget
  BY DEF Init, SignalReachesTarget
<1>2. TypeOK /\ FamilyInv /\ SignalReachesTarget /\ [Next]_vars => SignalReachesTarget'
  <2> SUFFICES ASSUME TypeOK, FamilyInv, SignalReachesTarget, [Next]_vars
               PROVE  SignalReachesTarget'
    OBVIOUS
  <2>1. CASE hits' = hits
    BY <2>1 DEF SignalReachesTarget
  <2>2. ASSUME NEW p \in Procs, Signal(p)
        PROVE  SignalReachesTarget'
    <3>1. p \in Renderers
      BY <2>2 DEF Signal, Renderers, Watching
    <3>2. ASSUME NEW q \in Procs, at[q] = "target"
          PROVE  parent[p] = q
      BY <3>1, <3>2 DEF FamilyInv, Lineage, Executing
    <3>3. \E w, b : hits' = hits \union {<<w, b>>} /\ (b => w = "target")
      BY <2>2, <3>2 DEF Signal
    <3>4. QED
      BY <3>3 DEF SignalReachesTarget
  <2>3. hits' = hits \/ \E p \in Procs : Signal(p)
    BY DEF Next, vars, histVars, Parse, InitialRun, Step, Abort, TargetEnds, Pass, PassPanics, FailToWatch,
           Detach, Session, WaitReturns, ForkAndExec, Exec, Arm, SetUp
  <2>4. QED
    BY <2>1, <2>2, <2>3
<1>3. QED
  BY <1>1, <1>2, FamilyAlways, PTL DEF Spec
-----------------------------------------------------------------------------
(* The child that watches, and its parent.                                 *)

Begun == {"setup"} \union Watching

\* The child is only ever on its way to watching. It is forked by a process that
\* renders, so before that there is none; and from its set-up on it has asked for the
\* death signal.
ChildInv ==
  /\ at["child"] \in {"unborn"} \union Beside \union Stopped
  /\ \A p \in Procs : at[p] \in {"parse", "run", "detach", "session", "settled"} =>
       at["child"] = "unborn" /\ deathSignal["child"] = "off"
  /\ at["child"] \in Begun => deathSignal["child"] # "off"

\* The child loses its parent, and is sent the signal if it asked for it.
Orphaned ==
  /\ parent'["child"] = "init"
  /\ deathSignal'["child"] = IF deathSignal["child"] = "armed" THEN "sent" ELSE deathSignal["child"]

LEMMA OrphanChild ==
  ASSUME TypeOK, NEW p, Orphan(p)
  PROVE  \/ parent["child"] = p /\ Orphaned
         \/ /\ parent["child"] # p
            /\ parent'["child"] = parent["child"] /\ deathSignal'["child"] = deathSignal["child"]
BY DEF Orphan, Orphaned, Procs

\* A process other than the child moves: the child stays, or is orphaned.
LEMMA BecomeChild ==
  ASSUME TypeOK, NEW p \in Procs, NEW s, Become(p, s)
  PROVE  /\ p # "child" => at'["child"] = at["child"]
         /\ p = "child" => at'["child"] = s
         /\ \/ s \in Stopped /\ parent["child"] = p /\ Orphaned
            \/ /\ s \in Stopped => parent["child"] # p
               /\ parent'["child"] = parent["child"] /\ deathSignal'["child"] = deathSignal["child"]
BY OrphanChild DEF Become, TypeOK, Procs

\* What becomes of the child in a step.
LEMMA ChildStep ==
  ASSUME TypeOK, ChildInv, Next
  PROVE  \/ \E p \in Procs : at[p] = "settled" /\ Fork(p, "exec", "child", "arm")
         \/ at'["child"] \in Stopped
         \/ Arm("child")
         \/ /\ \/ at'["child"] = at["child"]
               \/ at["child"] \in Begun /\ at'["child"] \in Watching
            /\ \/ Orphaned
               \/ parent'["child"] = parent["child"] /\ deathSignal'["child"] = deathSignal["child"]
<1> PICK p \in Procs : Parse(p) \/ InitialRun(p) \/ Step(p) \/ Abort(p) \/ TargetEnds(p) \/ Pass(p)
                            \/ PassPanics(p)
  BY DEF Next
<1> USE DEF ChildInv
<1>1. CASE Parse(p) \/ InitialRun(p) \/ WaitReturns(p) \/ Exec(p) \/ TargetEnds(p)
  <2>1. p # "child" /\ \E s : Become(p, s)
    BY <1>1 DEF Parse, InitialRun, WaitReturns, Exec, TargetEnds, Beside, Watching, Stopped
  <2>2. QED
    BY <2>1, BecomeChild
<1>2. CASE Abort(p)
  BY <1>2, BecomeChild DEF Abort, Stopped
<1>3. CASE Detach(p)
  <2>1. p # "child"
    BY <1>3 DEF Detach, Beside, Watching, Stopped
  <2>2. CASE Fork(p, "waiting", "session", "session")
    BY <2>1, <2>2 DEF Fork, TypeOK, Procs
  <2>3. QED
    BY <1>3, <2>1, <2>2, BecomeChild DEF Detach, NoFork
<1>4. CASE Session(p)
  <2>1. p # "child"
    BY <1>4 DEF Session, Beside, Watching, Stopped
  <2>2. CASE /\ at' = [at EXCEPT ![p] = "done", !["daemon"] = "settled"]
             /\ parent' = [parent EXCEPT !["daemon"] = "init"]
             /\ UNCHANGED deathSignal
    BY <2>1, <2>2 DEF TypeOK, Procs
  <2>3. QED
    BY <1>4, <2>1, <2>2, BecomeChild DEF Session, NoFork
<1>5. CASE ForkAndExec(p)
  <2>1. p # "child" /\ at[p] = "settled"
    BY <1>5 DEF ForkAndExec, Beside, Watching, Stopped
  <2>2. QED
    BY <1>5, <2>1, BecomeChild DEF ForkAndExec, NoFork
<1>6. CASE Arm(p)
  BY <1>6 DEF Arm, TypeOK
<1>7. CASE SetUp(p) \/ Pass(p) \/ PassPanics(p)
  <2>1. \E s \in Watching \union Stopped : Become(p, s) /\ at[p] \in Begun
    BY <1>7 DEF SetUp, Pass, PassPanics, FailToWatch, Begun, Watching, Stopped
  <2>2. QED
    BY <2>1, BecomeChild
<1>8. CASE Signal(p)
  <2>1. at[p] \in Begun
    BY <1>8 DEF Signal, Begun, Watching
  <2>2. CASE Become(p, "watch")
    BY <2>1, <2>2, BecomeChild DEF Watching
  <2>3. CASE /\ at' = [at EXCEPT ![p] = "watch", ![parent[p]] = "killed"]
             /\ Orphan(parent[p]) /\ parent[p] \in Procs
    BY <2>1, <2>3, OrphanChild DEF TypeOK, Watching, Stopped, Procs
  <2>4. QED
    BY <1>8, <2>2, <2>3 DEF Signal
<1>9. QED
  BY <1>1, <1>2, <1>3, <1>4, <1>5, <1>6, <1>7, <1>8 DEF Step

Early == {"parse", "run", "detach", "session", "settled"}

\* Only a process that is on its way to a fork gets nearer to it.
LEMMA EarlyStep ==
  ASSUME TypeOK, FamilyInv, ChildInv, Next, NEW q \in Procs, at'[q] \in Early
  PROVE  \E p \in Procs : at[p] \in Early /\ at'["child"] = at["child"] /\ deathSignal'["child"] = deathSignal["child"]
<1> PICK p \in Procs : Parse(p) \/ InitialRun(p) \/ Step(p) \/ Abort(p) \/ TargetEnds(p) \/ Pass(p)
                            \/ PassPanics(p)
  BY DEF Next
<1>0. at \in [Procs -> Places]
  BY DEF TypeOK, Places
<1>1. ASSUME NEW r \in Procs, at[r] \in Early, r = p \/ r = q
      PROVE  r # "child" /\ deathSignal["child"] = "off" /\ at["child"] = "unborn"
  BY <1>1 DEF ChildInv, Beside, Early, Watching, Stopped
<1>2. CASE at[p] \in Early
  <2>1. CASE \E s : Become(p, s)
    BY <1>1, <1>2, <2>1, BecomeChild DEF Orphaned
  <2>2. CASE Fork(p, "exec", "child", "arm")
    <3>1. q # p /\ q # "child" /\ at[q] \in Early
      BY <1>0, <2>2 DEF Fork, Early
    <3>2. QED
      BY <1>2, <3>1 DEF FamilyInv, OneRenderer, Renderers, Early
  <2>3. CASE Detach(p) \/ Session(p)
    <3>1. \/ \E s : Become(p, s)
          \/ at'["child"] = at["child"] /\ deathSignal' = deathSignal
      BY <1>0, <1>1, <1>2, <2>3 DEF Detach, Session, Fork, NoFork, Procs
    <3>2. QED
      BY <1>2, <2>1, <3>1
  <2>4. QED
    BY <1>2, <2>1, <2>2, <2>3
       DEF Parse, InitialRun, Step, WaitReturns, ForkAndExec, NoFork, Exec, Arm, SetUp, Signal,
           Abort, TargetEnds, Pass, PassPanics, FailToWatch, Early
<1>3. CASE at[p] \notin Early
  <2>1. q # p /\ at[q] \in Early
    BY <1>0, <1>3
       DEF Parse, InitialRun, Step, Detach, Session, WaitReturns, ForkAndExec, Exec, ExecFailed, Arm, SetUp,
           Signal, Abort, TargetEnds, Pass, PassPanics, FailToWatch, Become, Early, Watching, Stopped
  <2>2. p \notin Renderers
    BY <1>3, <2>1 DEF FamilyInv, OneRenderer, Renderers, Early
  <2>3. p # "child" /\ \E s : Become(p, s)
    <3>1. deathSignal[p] = "off"
      BY <1>1, <2>1 DEF TypeOK
    <3>2. WaitReturns(p) \/ Exec(p) \/ TargetEnds(p)
      BY <1>3, <2>2, <3>1
         DEF Parse, InitialRun, Step, Detach, Session, ForkAndExec, Arm, SetUp, Signal, Abort, Pass,
             PassPanics, Early, Renderers, Watching
    <3>3. QED
      BY <1>1, <2>1, <3>2 DEF WaitReturns, Exec, TargetEnds
  <2>4. QED
    BY <1>1, <2>1, <2>3, BecomeChild DEF Orphaned
<1>4. QED
  BY <1>2, <1>3

LEMMA ChildInvStep == TypeOK /\ FamilyInv /\ ChildInv /\ [Next]_vars => ChildInv'
<1> SUFFICES ASSUME TypeOK, FamilyInv, ChildInv, [Next]_vars PROVE ChildInv'
  OBVIOUS
<1>1. CASE UNCHANGED vars
  BY <1>1 DEF vars, procVars, ChildInv
<1>2. CASE Next
  <2>1. /\ at'["child"] \in {"unborn"} \union Beside \union Stopped
        /\ at'["child"] \in Begun => deathSignal'["child"] # "off"
    <3>1. CASE \E p \in Procs : at[p] = "settled" /\ Fork(p, "exec", "child", "arm")
      BY <3>1 DEF Fork, TypeOK, Procs, Beside, Begun, Watching
    <3>2. CASE at'["child"] \in Stopped
      BY <3>2 DEF Stopped, Begun, Watching
    <3>3. CASE Arm("child")
      BY <3>3 DEF Arm, TypeOK, Procs, Beside
    <3>4. CASE /\ \/ at'["child"] = at["child"]
                  \/ at["child"] \in Begun /\ at'["child"] \in Watching
               /\ \/ Orphaned
                  \/ deathSignal'["child"] = deathSignal["child"]
      BY <3>4 DEF ChildInv, Orphaned, Beside, Begun
    <3>5. QED
      BY <1>2, <3>1, <3>2, <3>3, <3>4, ChildStep
  <2>2. ASSUME NEW q \in Procs, at'[q] \in Early
        PROVE  at'["child"] = "unborn" /\ deathSignal'["child"] = "off"
    BY <1>2, <2>2, EarlyStep DEF ChildInv, Early
  <2>3. QED
    BY <2>1, <2>2 DEF ChildInv, Early
<1>3. QED
  BY <1>1, <1>2

LEMMA ChildAlways == Spec => [](TypeOK /\ FamilyInv /\ ChildInv)
<1>1. Init => ChildInv
  BY DEF Init, ChildInv, Begun, Watching, Procs
<1>2. QED
  BY <1>1, ChildInvStep, FamilyAlways, PTL DEF Spec

\* The child is sent the signal when it loses its parent, unless it has ended.
SignalledInv ==
  /\ at["child"] \in Begun \union Stopped
  /\ at["child"] \in Begun =>
       deathSignal["child"] = "sent" \/ (deathSignal["child"] = "armed" /\ parent["child"] # "init")

LEMMA SignalledStep == TypeOK /\ ChildInv /\ SignalledInv /\ [Next]_vars => SignalledInv'
<1> SUFFICES ASSUME TypeOK, ChildInv, SignalledInv, [Next]_vars PROVE SignalledInv'
  OBVIOUS
<1>1. CASE UNCHANGED vars
  BY <1>1 DEF vars, procVars, SignalledInv
<1>2. CASE Next
  <2>1. ~ \E p \in Procs : at[p] = "settled" /\ Fork(p, "exec", "child", "arm")
    BY DEF ChildInv, SignalledInv, Begun, Watching, Stopped
  <2>2. ~ Arm("child")
    BY DEF Arm, SignalledInv, Begun, Watching, Stopped
  <2>3. QED
    BY <1>2, <2>1, <2>2, ChildStep DEF SignalledInv, Orphaned, Begun, Watching, Stopped
<1>3. QED
  BY <1>1, <1>2

\* A child that watches never loses its parent without being sent the signal.
THEOREM OrphansGetTheirSignal == Spec => OrphansAreSignalled
<1> DEFINE There == at["child"] \in Begun /\ parent["child"] # "init"
           Sent  == parent["child"] = "init" => deathSignal["child"] = "sent" \/ at["child"] \in Stopped
<1>1. TypeOK /\ ChildInv /\ There => SignalledInv
  BY DEF TypeOK, ChildInv, SignalledInv, Procs
<1>2. SignalledInv => Sent
  BY DEF SignalledInv
<1>3. Spec => [](There => []Sent)
  <2> HIDE DEF There, Sent
  <2>1. QED
    BY <1>1, <1>2, SignalledStep, ChildAlways, PTL DEF Spec
<1>4. QED
  BY <1>3 DEF OrphansAreSignalled, Begun

\* Beside a target, or what is about to become one, there is the child, which nothing
\* but its own run_watch ends while its parent is there.
WatchedInv ==
  cl.watch /\ ~ watchFailed =>
    \A q \in Procs : Executing(q) => at["child"] \in Beside /\ deathSignal["child"] # "sent"

\* A process goes on to the target only with a child beside it.
LEMMA ExecutesBeside ==
  ASSUME TypeOK, FamilyInv, ChildInv, cl.watch, Next,
         NEW q \in Procs, Executing(q)', ~ Executing(q)
  PROVE  at'["child"] = "arm" /\ deathSignal'["child"] = "off"
<1> PICK p \in Procs : Parse(p) \/ InitialRun(p) \/ Step(p) \/ Abort(p) \/ TargetEnds(p) \/ Pass(p)
                            \/ PassPanics(p)
  BY DEF Next
<1>0. at \in [Procs -> Places] /\ parent \in [Procs -> Procs \union {"shell", "init"}]
  BY DEF TypeOK, Places
<1>1. ForkAndExec(p)
  <2>1. ASSUME NEW s, Become(p, s), s \notin {"exec", "target"}
        PROVE  FALSE
    BY <1>0, <2>1 DEF Become, Executing
  <2>2. ~ (Parse(p) \/ InitialRun(p) \/ WaitReturns(p) \/ SetUp(p) \/ Abort(p) \/ TargetEnds(p)
           \/ Pass(p) \/ PassPanics(p))
    BY <2>1 DEF Parse, InitialRun, AfterRun, AfterError, WaitReturns, SetUp, Abort, TargetEnds, Pass, PassPanics,
                 FailToWatch
  <2>3. ~ (Detach(p) \/ Session(p))
    BY <1>0, <2>1 DEF Detach, Session, NoFork, Fork, Executing
  <2>4. ~ Exec(p)
    <3>1. Exec(p) => q = p
      BY <1>0 DEF Exec, Become, Executing
    <3>2. QED
      BY <3>1 DEF Exec, Executing
  <2>5. ~ (Arm(p) \/ Signal(p))
    BY <1>0, <2>1 DEF Arm, Signal, Executing
  <2>6. QED
    BY <2>2, <2>3, <2>4, <2>5 DEF Step
<1>2. Fork(p, "exec", "child", "arm")
  BY <1>0, <1>1 DEF ForkAndExec, NoFork, Become, Executing
<1>3. deathSignal["child"] = "off"
  BY <1>1 DEF ForkAndExec, ChildInv
<1>4. QED
  BY <1>0, <1>2, <1>3 DEF Fork, Procs

\* Nothing takes the child from a process that goes on executing the target.
LEMMA KeepsChild ==
  ASSUME TypeOK, FamilyInv, Next, ~ watchFailed', NEW q \in Procs, Executing(q), Executing(q)',
         at["child"] \in Beside, deathSignal["child"] # "sent"
  PROVE  at'["child"] \in Beside /\ deathSignal'["child"] # "sent"
<1> PICK p \in Procs : Parse(p) \/ InitialRun(p) \/ Step(p) \/ Abort(p) \/ TargetEnds(p) \/ Pass(p)
                            \/ PassPanics(p)
  BY DEF Next
<1>0. at \in [Procs -> Places] /\ parent \in [Procs -> Procs \union {"shell", "init"}] /\ "child" \in Procs
  BY DEF TypeOK, Places, Procs
<1>1. "child" \in Renderers /\ parent["child"] = q /\ q # "child"
  BY <1>0 DEF FamilyInv, Lineage, Renderers, Executing, Beside, Watching
<1>2. CASE p = "child"
  <2>1. Arm(p) \/ SetUp(p) \/ Signal(p) \/ Pass(p)
    BY <1>2
       DEF Parse, InitialRun, Step, Detach, Session, WaitReturns, ForkAndExec, Exec, Abort, TargetEnds,
           PassPanics, FailToWatch, Beside, Watching
  <2>2. CASE Arm(p)
    BY <1>0, <1>2, <2>2 DEF Arm, TypeOK, Beside
  <2>3. CASE SetUp(p) \/ Pass(p)
    <3>1. \E s \in Watching : Become(p, s)
      BY <2>3 DEF SetUp, FailToWatch, Pass, Watching
    <3>2. QED
      BY <1>2, <3>1, BecomeChild DEF Beside, Watching, Stopped
  <2>4. CASE Signal(p)
    <3>1. at'[q] # "killed"
      BY DEF Executing
    <3>2. Become(p, "watch")
      BY <1>0, <1>1, <1>2, <2>4, <3>1 DEF Signal
    <3>3. QED
      BY <1>2, <3>2, BecomeChild DEF Beside, Watching, Stopped
  <2>5. QED
    BY <2>1, <2>2, <2>3, <2>4
<1>3. CASE p # "child"
  <2>1. p \notin Renderers
    BY <1>1, <1>3 DEF FamilyInv, OneRenderer
  <2>2. WaitReturns(p) \/ Exec(p) \/ TargetEnds(p)
    BY <1>3, <2>1
       DEF Parse, InitialRun, Step, Detach, Session, ForkAndExec, Arm, SetUp, Signal, Abort, Pass,
           PassPanics, TypeOK, Renderers, Watching
  <2>3. \E s : Become(p, s) /\ (p = q => s \notin Stopped)
    <3>1. PICK s : Become(p, s)
      BY <2>2 DEF WaitReturns, Exec, TargetEnds
    <3>2. p = q => s = at'[q]
      BY <1>0, <3>1 DEF Become
    <3>3. QED
      BY <3>1, <3>2 DEF Executing, Stopped
  <2>4. QED
    BY <1>1, <1>3, <2>3, BecomeChild
<1>4. QED
  BY <1>2, <1>3

LEMMA WatchedStep == TypeOK /\ FamilyInv /\ ChildInv /\ WatchedInv /\ [Next]_vars => WatchedInv'
<1> SUFFICES ASSUME TypeOK, FamilyInv, ChildInv, WatchedInv, [Next]_vars PROVE WatchedInv'
  OBVIOUS
<1>1. CASE UNCHANGED vars
  BY <1>1 DEF vars, procVars, histVars, WatchedInv, Executing
<1>2. CASE Next
  <2>1. cl' = cl
    BY <1>2 DEF Next, Parse, InitialRun, Step, Abort, TargetEnds, Pass, PassPanics, FailToWatch,
                Detach, Session, WaitReturns, ForkAndExec, Exec, Arm, SetUp, Signal
  <2>2. watchFailed => watchFailed'
    BY <1>2 DEF Next, Parse, InitialRun, Step, Abort, TargetEnds, Pass, PassPanics, FailToWatch, histVars,
                Detach, Session, WaitReturns, ForkAndExec, Exec, Arm, SetUp, Signal
  <2>3. ASSUME cl.watch, ~ watchFailed, ~ watchFailed', NEW q \in Procs, Executing(q)'
        PROVE  at'["child"] \in Beside /\ deathSignal'["child"] # "sent"
    <3>1. CASE Executing(q)
      BY <1>2, <2>3, <3>1, KeepsChild DEF WatchedInv
    <3>2. CASE ~ Executing(q)
      BY <1>2, <2>3, <3>2, ExecutesBeside DEF Beside
    <3>3. QED
      BY <3>1, <3>2
  <2>4. QED
    BY <2>1, <2>2, <2>3 DEF WatchedInv
<1>3. QED
  BY <1>1, <1>2

\* A target that runs in watch mode loses the child that watches for it only by the
\* failure of the child's own run_watch: no runtime, no watchers, or a pass that panics.
THEOREM TargetsAreNotAlone == Spec => []TargetHasWatcher
<1>1. Init => WatchedInv
  BY DEF Init, WatchedInv, Executing
<1>2. WatchedInv => TargetHasWatcher
  BY DEF WatchedInv, TargetHasWatcher, TargetRuns, Executing, Beside
<1>3. QED
  BY <1>1, <1>2, WatchedStep, ChildAlways, PTL DEF Spec

-----------------------------------------------------------------------------
(* The target is executed.                                                 *)

\* Only daemons move to /.
RootInv == \A p \in Procs : at[p] \in {"detach", "session"} \/ p \in inRoot => cl.daemonize

Wanted  == cl.exec = "absolute" \/ (cl.exec = "relative" /\ ~ cl.daemonize)
ToCome  == {"detach", "session", "settled", "exec", "target", "ended", "killed"}
OnTheWay == \E p \in Procs : at[p] \in ToCome

LEMMA RootStep == TypeOK /\ RootInv /\ [Next]_vars => RootInv'
<1> SUFFICES ASSUME TypeOK, RootInv, [Next]_vars PROVE RootInv'
  OBVIOUS
<1> USE DEF RootInv
<1>1. CASE UNCHANGED vars
  BY <1>1 DEF vars, procVars
<1>2. CASE Next
  <2> PICK p \in Procs : Parse(p) \/ InitialRun(p) \/ Step(p) \/ Abort(p) \/ TargetEnds(p) \/ Pass(p)
                            \/ PassPanics(p)
    BY <1>2 DEF Next
  <2>1. at \in [Procs -> Places] /\ parent \in [Procs -> Procs \union {"shell", "init"}]
    BY DEF TypeOK, Places
  <2>2. ASSUME NEW s, Become(p, s), UNCHANGED <<cl, inRoot>>,
               s \in {"detach", "session"} => cl.daemonize
        PROVE  RootInv'
    BY <2>1, <2>2 DEF Become
  <2>3. CASE InitialRun(p)
    BY <2>2, <2>3 DEF InitialRun, AfterRun, AfterError
  <2>4. CASE Detach(p) \/ Session(p)
    <3>1. cl.daemonize /\ cl' = cl
      BY <2>4 DEF Detach, Session
    <3>2. QED
      BY <3>1
  <2>5. CASE ForkAndExec(p)
    BY <2>1, <2>2, <2>5 DEF ForkAndExec, NoFork, Fork, Procs
  <2>6. CASE Signal(p)
    BY <2>1, <2>6 DEF Signal, Become
  <2>7. CASE Arm(p)
    BY <2>1, <2>7 DEF Arm
  <2>8. CASE Parse(p) \/ WaitReturns(p) \/ Exec(p) \/ SetUp(p) \/ Abort(p) \/ TargetEnds(p) \/ Pass(p)
             \/ PassPanics(p)
    BY <2>2, <2>8 DEF Parse, WaitReturns, Exec, ExecFailed, SetUp, Abort, TargetEnds, Pass, PassPanics,
                     FailToWatch
  <2>9. QED
    BY <2>3, <2>4, <2>5, <2>6, <2>7, <2>8 DEF Step
<1>3. QED
  BY <1>1, <1>2

\* What is on the way stays on the way, if it can be executed and every fork succeeds.
LEMMA StaysOnTheWay ==
  ASSUME TypeOK, ChildInv, RootInv, Next, Wanted, OnTheWay, ~ forkFailed'
  PROVE  OnTheWay'
<1> PICK p \in Procs : Parse(p) \/ InitialRun(p) \/ Step(p) \/ Abort(p) \/ TargetEnds(p) \/ Pass(p)
                            \/ PassPanics(p)
  BY DEF Next
<1> PICK q \in Procs : at[q] \in ToCome
  BY DEF OnTheWay
<1> SUFFICES ASSUME \A r \in Procs : at'[r] \notin ToCome PROVE FALSE
  BY DEF OnTheWay
<1>1. at \in [Procs -> Places] /\ parent \in [Procs -> Procs \union {"shell", "init"}]
  BY DEF TypeOK, Places
<1>2. ~ (Detach(p) \/ Session(p))
  <2>1. at'["session"] \notin ToCome /\ at'["daemon"] \notin ToCome
    BY DEF Procs
  <2>2. QED
    BY <1>1, <2>1 DEF Detach, Session, NoFork, Fork, ToCome, Procs
<1>3. ~ ForkAndExec(p)
  <2>1. ~ Fork(p, "exec", "child", "arm")
    BY <1>1 DEF Fork, ToCome, Procs
  <2>2. cl.exec # NoArg
    BY CliAssumption DEF Wanted, CliAssumption
  <2>3. QED
    BY <2>1, <2>2 DEF ForkAndExec, NoFork
<1>4. ~ (Exec(p) \/ TargetEnds(p))
  <2>1. Exec(p) => Found(p)
    BY DEF Exec, Found, RootInv, Wanted
  <2>2. ~ \E s \in ToCome : Become(p, s)
    BY <1>1 DEF Become
  <2>3. QED
    BY <2>1, <2>2 DEF Exec, TargetEnds, ToCome
<1>5. ~ Signal(p)
  <2>1. Signal(p) => at'[q] = at[q]
    BY <1>1 DEF Signal, Become, ToCome
  <2>2. QED
    BY <2>1
<1>6. ~ Abort(p)
  <2>1. Abort(p) => p = "child" /\ at[p] \notin ToCome
    BY DEF Abort, TypeOK, ChildInv, Beside, Watching, Stopped, ToCome
  <2>2. Abort(p) => at'[q] = at[q]
    BY <1>1, <2>1 DEF Abort, Become
  <2>3. QED
    BY <2>2
<1>7. CASE Parse(p) \/ InitialRun(p) \/ WaitReturns(p) \/ Arm(p) \/ SetUp(p) \/ Pass(p) \/ PassPanics(p)
  <2>1. at[p] \notin ToCome /\ \A r \in Procs \ {p} : at'[r] = at[r]
    BY <1>1, <1>7
       DEF Parse, InitialRun, WaitReturns, Arm, SetUp, Pass, PassPanics, FailToWatch, Become, ToCome
  <2>2. QED
    BY <2>1
<1>8. QED
  BY <1>2, <1>3, <1>4, <1>5, <1>6, <1>7 DEF Step

LEMMA UnderwayStep == TypeOK /\ ChildInv /\ RootInv /\ TargetUnderway /\ [Next]_vars => TargetUnderway'
<1> SUFFICES ASSUME TypeOK, ChildInv, RootInv, TargetUnderway, [Next]_vars,
                    rendered', Wanted', ~ forkFailed'
             PROVE  OnTheWay'
  BY DEF TargetUnderway, Wanted, OnTheWay, ToCome
<1>1. CASE UNCHANGED vars
  BY <1>1 DEF vars, procVars, histVars, TargetUnderway, Wanted, OnTheWay, ToCome
<1>2. CASE Next
  <2> PICK p \in Procs : Parse(p) \/ InitialRun(p) \/ Step(p) \/ Abort(p) \/ TargetEnds(p) \/ Pass(p)
                            \/ PassPanics(p)
    BY <1>2 DEF Next
  <2> USE DEF histVars
  <2>1. cl' = cl /\ ~ forkFailed /\ Wanted
    <3>1. cl' = cl
      BY DEF Parse, InitialRun, Step, Abort, TargetEnds, Pass, PassPanics, FailToWatch,
             Detach, Session, WaitReturns, ForkAndExec, Exec, Arm, SetUp, Signal
    <3>2. forkFailed' = TRUE \/ forkFailed' = forkFailed
      BY DEF Parse, InitialRun, Step, Abort, TargetEnds, Pass, PassPanics, FailToWatch, NoFork, Fork,
             Detach, Session, WaitReturns, ForkAndExec, Exec, Arm, SetUp, Signal
    <3>3. ~ forkFailed
      BY <3>2
    <3>4. QED
      BY <3>1, <3>3 DEF Wanted
  <2>2. CASE InitialRun(p)
    <3>1. CASE Become(p, AfterRun)
      <4>1. cl.exec # NoArg
        BY <2>1, CliAssumption DEF Wanted, CliAssumption
      <4>2. at'[p] \in ToCome
        BY <3>1, <4>1 DEF Become, AfterRun, ToCome, TypeOK
      <4>3. QED
        BY <4>2 DEF OnTheWay
    <3>2. CASE Become(p, AfterError) /\ UNCHANGED rendered
      <4>1. OnTheWay
        BY <2>1, <3>2 DEF TargetUnderway, Wanted, OnTheWay, ToCome
      <4>2. QED
        BY <1>2, <2>1, <4>1, StaysOnTheWay
    <3>3. CASE Become(p, "panicked") /\ UNCHANGED rendered
      <4>1. OnTheWay
        BY <2>1, <3>3 DEF TargetUnderway, Wanted, OnTheWay, ToCome
      <4>2. QED
        BY <1>2, <2>1, <4>1, StaysOnTheWay
    <3>4. QED
      BY <2>2, <3>1, <3>2, <3>3 DEF InitialRun
  <2>3. CASE ~ InitialRun(p)
    <3>1. rendered' = rendered
      BY <2>3 DEF Parse, Step, Abort, TargetEnds, Pass, PassPanics, FailToWatch,
             Detach, Session, WaitReturns, ForkAndExec, Exec, Arm, SetUp, Signal
    <3>2. OnTheWay
      BY <2>1, <3>1 DEF TargetUnderway, Wanted, OnTheWay, ToCome
    <3>3. QED
      BY <1>2, <2>1, <3>2, StaysOnTheWay
  <2>4. QED
    BY <2>2, <2>3
<1>3. QED
  BY <1>1, <1>2

\* A target that is to be executed is not lost between the forks.
THEOREM TargetIsNotLost == Spec => []TargetUnderway
<1>1. Init => RootInv /\ TargetUnderway
  BY DEF Init, RootInv, TargetUnderway
<1>2. QED
  BY <1>1, RootStep, UnderwayStep, ChildAlways, PTL DEF Spec
=============================================================================
