---------------------------- MODULE TemplatePlan ----------------------------
(***************************************************************************)
(* A plan: template operations that read templates once and write their    *)
(* renderings to files, with backups for in-place operations               *)
(* (src/src/plan.rs; the passes over a plan are those of src/src/main.rs). *)
(*                                                                         *)
(* A process executes the plan once, or again and again in watch mode. It  *)
(* may be killed between any two system calls and be invoked again, and    *)
(* several processes may execute the same plan on the same files.          *)
(***************************************************************************)
EXTENDS Operations

CONSTANTS
  Procs,      \* processes
  Input,      \* the text on their standard input
  Text,       \* what a file or a template can contain
  Empty,      \* the text of length 0
  Torn,       \* a text that was written in part
  Absent,     \* in the place of a text: there is no such file
  Plan,       \* a sequence of operations [src, dest, backup]
  Data,       \* what the data sources can yield
  Rendering,  \* Rendering[<<t, d>>]: template t rendered with data d, or NoText
  NoText,     \* the rendering ends with an error
  Watch,      \* TRUE with --watch
  DryRuns,    \* the processes that have --dry-run
  Faults      \* failures that the environment may inject, see FaultKinds

FaultKinds == {"open", "copy", "write", "crash"}

Ops == 1 .. Len(Plan)

ASSUME TemplatePlanAssumption ==
  /\ {Empty, Torn, Input} \subseteq Text /\ Absent \notin Text /\ NoText \notin Text
  /\ Plan \in Seq(Operation)
  /\ Rendering \in [Text \X Data -> Text \union {NoText}]
  /\ Watch \in BOOLEAN
  /\ DryRuns \subseteq Procs
  /\ Faults \subseteq FaultKinds

\* What Cli::validate and the construction of the plan provide (see Cli).
ASSUME ValidatedPlan == Validated(Plan)

Src(o)    == Plan[o].src
Dest(o)   == Plan[o].dest
Backup(o) == Plan[o].backup

\* Where a template comes from.
Sources == Files \union {StdIn}

VARIABLES
  fs,       \* fs[f]: the text in file f, or Absent
  stdin,    \* stdin[p]: what is left on the standard input of p
  env,      \* env[p][s]: the template that p added to its environment for s
  due,      \* due[p]: the operations whose backup p has not taken yet
  pc,       \* where process p is
  op,       \* the operation that p is at
  data,     \* the data of the current pass
  changed,  \* the operations that the current pass reports as changed
  first,    \* first[p]: p is in its initial pass
  start,    \* history: what the sources held when p started
  before,   \* history: the files when the current pass of p began
  spoiled,  \* history: the operations that failed in the current pass
  original  \* history: the files before any process ran

fileVars == <<fs, stdin>>
passVars == <<data, first>>
histVars == <<start, before, original>>
vars     == <<fileVars, env, due, pc, op, changed, spoiled, passVars, histVars>>

Stopped == {"down", "exited", "failed"}

Init ==
  /\ fs \in [Files -> (Text \ {Torn}) \union {Absent}]
  /\ stdin = [p \in Procs |-> Input]
  /\ env = [p \in Procs |-> [s \in Sources |-> Absent]]
  /\ due = [p \in Procs |-> {}]
  /\ pc = [p \in Procs |-> "down"]
  /\ op = [p \in Procs |-> 1]
  /\ data \in [Procs -> Data]
  /\ changed = [p \in Procs |-> {}]
  /\ first = [p \in Procs |-> TRUE]
  /\ start = [p \in Procs |-> [s \in Sources |-> Absent]]
  /\ before = [p \in Procs |-> fs]
  /\ spoiled = [p \in Procs |-> {}]
  /\ original = fs

-----------------------------------------------------------------------------
(* A process starts, reads its templates and begins a pass.                *)

Start(p) ==
  /\ pc[p] \in Stopped
  /\ pc' = [pc EXCEPT ![p] = "cache"]
  /\ op' = [op EXCEPT ![p] = 1]
  /\ stdin' = [stdin EXCEPT ![p] = Input]
  /\ env' = [env EXCEPT ![p] = [s \in Sources |-> Absent]]
  /\ due' = [due EXCEPT ![p] = {o \in Ops : Backup(o) # NoBackup}]
  /\ first' = [first EXCEPT ![p] = TRUE]
  /\ changed' = [changed EXCEPT ![p] = {}]
  /\ spoiled' = [spoiled EXCEPT ![p] = {}]
  /\ start' = [start EXCEPT ![p] = [s \in Sources |-> IF s = StdIn THEN Input ELSE fs[s]]]
  /\ UNCHANGED <<fs, data, before, original>>

\* Plan::ensure_cached, one template: an error ends the program. Templates are
\* known by the name of their source, "-" for the standard input.
Cache(p) ==
  /\ pc[p] = "cache"
  /\ op[p] \in Ops
  /\ LET s == Src(op[p])
         t == IF s = StdIn THEN stdin[p] ELSE fs[s]
     IN \/ /\ t # Absent
           /\ env' = [env EXCEPT ![p][s] = t]
           /\ stdin' = IF s = StdIn THEN [stdin EXCEPT ![p] = Empty] ELSE stdin
           /\ op' = [op EXCEPT ![p] = @ + 1]
           /\ UNCHANGED pc
        \/ /\ t = Absent \/ "open" \in Faults
           /\ pc' = [pc EXCEPT ![p] = "failed"]
           /\ UNCHANGED <<env, stdin, op>>
  /\ UNCHANGED <<fs, due, changed, spoiled, passVars, histVars>>

\* The initial run, or a pass of the watch loop, with new data.
BeginPass(p) ==
  /\ pc[p] = "waiting" \/ (pc[p] = "cache" /\ op[p] \notin Ops)
  /\ pc' = [pc EXCEPT ![p] = "apply"]
  /\ op' = [op EXCEPT ![p] = 1]
  /\ \E d \in Data : data' = [data EXCEPT ![p] = d]
  /\ changed' = [changed EXCEPT ![p] = {}]
  /\ spoiled' = [spoiled EXCEPT ![p] = {}]
  /\ before' = [before EXCEPT ![p] = fs]
  /\ UNCHANGED <<fileVars, env, due, first, start, original>>

EndPass(p) ==
  /\ pc[p] = "apply"
  /\ op[p] \notin Ops
  /\ pc' = [pc EXCEPT ![p] = IF Watch THEN "waiting" ELSE "exited"]
  /\ first' = [first EXCEPT ![p] = FALSE]
  /\ UNCHANGED <<fileVars, env, due, op, changed, spoiled, data, histVars>>

-----------------------------------------------------------------------------
(* TemplateOperation::apply, one system call after the other.              *)

\* Mutant: the template is read again when it is applied.
TemplateAnew(p, o) == IF Src(o) = StdIn THEN env[p][StdIn] ELSE fs[Src(o)]

Template(p, o) == env[p][Src(o)]

\* What operation o is to write.
Target(p, o) == Rendering[<<Template(p, o), data[p]>>]

\* Mutant: the error of a rendering is not looked at.
RendersAnyway(p, o) == TRUE

Renders(p, o) == Target(p, o) # NoText

\* Mutant: the backup is made before dry_run is looked at.
SimulatesButBackup(p, o) == p \in DryRuns /\ o \notin due[p]

\* With dry_run, apply neither makes a backup nor writes.
Simulates(p, o) == p \in DryRuns

\* An absent file is created empty before it is compared.
Existing(f) == IF fs[f] = Absent THEN Empty ELSE fs[f]

Proceed(p, step) == pc' = [pc EXCEPT ![p] = step] /\ UNCHANGED <<op, changed, spoiled>>

\* apply returns Ok(c); the pass goes on with the next operation.
Return(p, c) ==
  /\ changed' = [changed EXCEPT ![p] = IF c THEN @ \union {op[p]} ELSE @]
  /\ op' = [op EXCEPT ![p] = @ + 1]
  /\ pc' = [pc EXCEPT ![p] = "apply"]
  /\ UNCHANGED spoiled

\* Mutant: the initial run is executed as the passes of the loop are.
FailAndGoOn(p) ==
  /\ spoiled' = [spoiled EXCEPT ![p] = @ \union {op[p]}]
  /\ pc' = [pc EXCEPT ![p] = "apply"]
  /\ op' = [op EXCEPT ![p] = @ + 1]
  /\ UNCHANGED changed

\* apply returns an error: try_execute ends the program, execute goes on.
Fail(p) ==
  /\ spoiled' = [spoiled EXCEPT ![p] = @ \union {op[p]}]
  /\ pc' = [pc EXCEPT ![p] = IF first[p] THEN "failed" ELSE "apply"]
  /\ op' = [op EXCEPT ![p] = IF first[p] THEN @ ELSE @ + 1]
  /\ UNCHANGED changed

\* Mutant: a backup is made over any other.
MayAlwaysBackup(o) == Src(o) # StdIn

\* do_backup may copy over a backup only if that holds the same text. A template
\* from standard input has the name "-" by now, and there is no such file to copy.
MayBackup(o) == Src(o) # StdIn /\ fs[Backup(o)] \in {Absent, fs[Src(o)]}

\* Render, and look whether a backup is to be made and may be made.
Apply(p) ==
  /\ pc[p] = "apply"
  /\ op[p] \in Ops
  /\ LET o == op[p] IN
     \/ ~ Renders(p, o) /\ Fail(p) /\ UNCHANGED due
     \/ Renders(p, o) /\ Simulates(p, o) /\ Return(p, FALSE) /\ UNCHANGED due
     \/ /\ Renders(p, o) /\ ~ Simulates(p, o)
        /\ IF o \in due[p]
           THEN /\ due' = [due EXCEPT ![p] = @ \ {o}]
                /\ IF MayBackup(o) THEN Proceed(p, "copy") ELSE Fail(p)
           ELSE Proceed(p, "write") /\ UNCHANGED due
  /\ UNCHANGED <<fileVars, env, passVars, histVars>>

\* std::fs::copy opens the file and truncates or creates the backup ...
CopyOpen(p) ==
  /\ pc[p] = "copy"
  /\ LET o == op[p] IN
     \/ /\ fs[Src(o)] # Absent
        /\ fs' = [fs EXCEPT ![Backup(o)] = Empty]
        /\ Proceed(p, "copying")
     \/ /\ fs[Src(o)] = Absent \/ "copy" \in Faults
        /\ Fail(p) /\ UNCHANGED fs
  /\ UNCHANGED <<stdin, env, due, passVars, histVars>>

\* ... and copies the text.
CopyData(p) ==
  /\ pc[p] = "copying"
  /\ LET o == op[p] IN
     \/ /\ fs' = [fs EXCEPT ![Backup(o)] = fs[Src(o)]]
        /\ Proceed(p, "write")
     \/ /\ "copy" \in Faults
        /\ fs' = [fs EXCEPT ![Backup(o)] = Torn]
        /\ Fail(p)
  /\ UNCHANGED <<stdin, env, due, passVars, histVars>>

\* Mutant: the destination is written whether or not it differs.
AlwaysDiffers(f, t) == TRUE

Differs(f, t) == Existing(f) # t

\* write_templated opens the destination, creating it, and compares; or it writes
\* to standard output.
Compare(p) ==
  /\ pc[p] = "write"
  /\ LET o == op[p] IN
     \/ Dest(o) = StdOut /\ Return(p, TRUE) /\ UNCHANGED fs
     \/ /\ Dest(o) # StdOut
        /\ fs' = [fs EXCEPT ![Dest(o)] = Existing(Dest(o))]
        /\ IF Differs(Dest(o), Target(p, o)) THEN Proceed(p, "truncate") ELSE Return(p, FALSE)
     \/ "open" \in Faults /\ Fail(p) /\ UNCHANGED fs
  /\ UNCHANGED <<stdin, env, due, passVars, histVars>>

\* set_len(0)
Truncate(p) ==
  /\ pc[p] = "truncate"
  /\ fs' = [fs EXCEPT ![Dest(op[p])] = Empty]
  /\ Proceed(p, "fill")
  /\ UNCHANGED <<stdin, env, due, passVars, histVars>>

\* write_all, at the start of the file: over what another process wrote since.
Fill(p) ==
  /\ pc[p] = "fill"
  /\ LET o == op[p] IN
     \/ /\ \E t \in IF fs[Dest(o)] = Empty THEN {Target(p, o)} ELSE {Target(p, o), Torn} :
             fs' = [fs EXCEPT ![Dest(o)] = t]
        /\ Return(p, TRUE)
     \/ /\ "write" \in Faults
        /\ \E t \in {fs[Dest(o)], Torn} : fs' = [fs EXCEPT ![Dest(o)] = t]
        /\ Fail(p)
  /\ UNCHANGED <<stdin, env, due, passVars, histVars>>

\* The process is killed.
Crash(p) ==
  /\ "crash" \in Faults
  /\ pc[p] \notin Stopped
  /\ pc' = [pc EXCEPT ![p] = "down"]
  /\ UNCHANGED <<fileVars, env, due, op, changed, spoiled, passVars, histVars>>

Step(p) ==
  \/ Cache(p) \/ BeginPass(p) \/ EndPass(p)
  \/ Apply(p) \/ CopyOpen(p) \/ CopyData(p) \/ Compare(p) \/ Truncate(p) \/ Fill(p)

Next == \E p \in Procs : Start(p) \/ Step(p) \/ Crash(p)

Spec == Init /\ [][Next]_vars

-----------------------------------------------------------------------------
(* Properties.                                                             *)

\* The types of the variables: in particular no file is ever given the outcome of
\* a rendering that failed.
TypeOK ==
  /\ fs \in [Files -> Text \union {Absent}]
  /\ stdin \in [Procs -> Text]
  /\ env \in [Procs -> [Sources -> Text \union {Absent}]]
  /\ due \in [Procs -> SUBSET Ops]
  /\ pc \in [Procs -> {"cache", "apply", "copy", "copying", "write", "truncate", "fill", "waiting"}
                        \union Stopped]
  /\ op \in [Procs -> 1 .. Len(Plan) + 1]
  /\ data \in [Procs -> Data]
  /\ changed \in [Procs -> SUBSET Ops]
  /\ first \in [Procs -> BOOLEAN]
  /\ start \in [Procs -> [Sources -> Text \union {Absent}]]
  /\ before \in [Procs -> [Files -> Text \union {Absent}]]
  /\ spoiled \in [Procs -> SUBSET Ops]
  /\ original \in [Files -> Text \union {Absent}]

\* However often the program is killed and invoked again, and whatever fails, the
\* text that a file had before it was first rendered in place with a backup is
\* still in the file or in its backup.
OriginalRecoverable ==
  \A o \in Ops : Backup(o) # NoBackup /\ Src(o) \in Files /\ original[Src(o)] # Absent =>
    original[Src(o)] \in {fs[Src(o)], fs[Backup(o)]}

\* A pass over the plan of process p has just ended.
PassEnded(p) == pc[p] \in {"waiting", "exited"}

\* The operations of the last pass that wrote, or could have written, a file.
Written(p) == {o \in Ops \ spoiled[p] : Dest(o) # StdOut /\ p \notin DryRuns}

\* After a pass every file is the rendering of the template that its operation
\* read when the program started, although files of the plan, among them the
\* templates themselves, have been overwritten since, by this pass or another.
PassDelivers ==
  \A p \in Procs : PassEnded(p) =>
    \A o \in Written(p) : fs[Dest(o)] = Rendering[<<start[p][Src(o)], data[p]>>]

\* After a pass the operations reported as changed are those whose file has
\* another text than before, where a missing file counts as an empty one.
ReportIsExact ==
  \A p \in Procs : PassEnded(p) =>
    \A o \in Written(p) :
      o \in changed[p] <=> before[p][Dest(o)] # fs[Dest(o)]
                           /\ ~ (before[p][Dest(o)] = Absent /\ fs[Dest(o)] = Empty)

\* A file that already shows its rendering when a pass of a process that writes
\* begins is not touched during the pass: a reader never finds it empty or torn.
UpToDateIsUntouched ==
  \A p \in Procs \ DryRuns : pc[p] \in {"apply", "copy", "copying", "write", "truncate", "fill"} =>
    \A o \in Ops :
      Dest(o) # StdOut /\ before[p][Dest(o)] = Target(p, o) => fs[Dest(o)] = Target(p, o)

\* A process with --dry-run changes no file, beside others that do: no step of it,
\* in any pass or after any restart, makes a backup or opens a destination.
DryRunChangesNothing ==
  [][\A p \in DryRuns : pc'[p] # pc[p] \/ op'[p] # op[p] => UNCHANGED fs]_vars

-----------------------------------------------------------------------------
(* A process that writes alone implements AtomicPlan.                      *)

Writer == CHOOSE p \in Procs : p \notin DryRuns

\* The file of an operation is seen as it was until the operation has filled it.
FilesSeen ==
  [f \in Files \ {Backup(o) : o \in Ops} |->
     IF pc[Writer] \in {"truncate", "fill"} /\ f = Dest(op[Writer]) THEN before[Writer][f] ELSE fs[f]]

\* An invocation counts from its first pass on.
Phase ==
  CASE pc[Writer] \in {"down", "failed", "cache"} -> "off"
    [] PassEnded(Writer)                          -> "over"
    [] OTHER -> IF first[Writer] THEN "initial" ELSE "later"

Invocation ==
  IF Phase = "off"
  THEN [phase |-> "off"]
  ELSE [phase |-> Phase, template |-> [o \in Ops |-> Template(Writer, o)], data |-> data[Writer],
        next |-> op[Writer], report |-> changed[Writer]]

Atomic == INSTANCE AtomicPlan WITH files <- FilesSeen, run <- Invocation

\* Templates are read at the start and are never read again, files are written in the
\* order of the plan, one at a time and no others, each wholly or with an error, and
\* reported when they changed; the initial pass ends on an error, a later one goes on.
ImplementsAtomicPlan == Atomic!Spec
=============================================================================
