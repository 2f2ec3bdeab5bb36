-------------------------------- MODULE Cli --------------------------------
(***************************************************************************)
(* The command line: what clap accepts of it, the plan it stands for, and  *)
(* what is found to be wrong with it, and when (src/src/cli.rs).           *)
(*                                                                         *)
(* Paths are taken as they are written: two of them are two files.         *)
(***************************************************************************)
EXTENDS Operations, FiniteSets

CONSTANTS
  Dash,        \* "-", for standard input or output
  Suffixes,    \* suffixes of backups
  BackupName,  \* BackupName[<<x, k>>]: path x with the suffix k
  NoArg        \* in the place of an argument that was not given

Paths == Files \union {Dash}

ASSUME CliAssumption ==
  /\ Dash \notin Files
  /\ NoArg \notin Paths \union {"absolute", "relative", "missing", "period", "zero"}
  /\ Suffixes \intersect {"no", "bare"} = {}
  /\ BackupName \in [Paths \X Suffixes -> Files]
  /\ \A f \in Files, k \in Suffixes : BackupName[<<f, k>>] # f

\* Kinds of sources; a part of CONTEMPLATE_DATASOURCES may have any other.
SourceKinds == {"environment", "file", "k8s"}

OnReloadArgs == {"command", "exec", "signal"}

\* Without a suffix no backups are made.
InPlaceArgs == {"no", "bare"} \union Suffixes

CommandLine ==
  [inputs : Seq(Paths), output : Paths \union {NoArg},
   templates : Seq(Paths \X (Paths \union {NoArg})),
   inPlace : InPlaceArgs,
   watch : BOOLEAN, daemonize : BOOLEAN, completions : BOOLEAN,
   poll : {NoArg, "period", "zero"}, webhook : BOOLEAN,
   reload : SUBSET OnReloadArgs, signal : {"known", "unknown"},
   exec : {NoArg, "absolute", "relative", "missing"},  \* where the executable is
   sources : SUBSET SourceKinds,                       \* those of the command line
   specs : Seq([kind : SourceKinds \union {"unknown"}, arg : BOOLEAN])]

-----------------------------------------------------------------------------
(* What clap accepts.                                                      *)

Plain(cl) ==
  /\ cl.inputs = << >> /\ cl.templates = << >> /\ cl.output = NoArg /\ cl.inPlace = "no"
  /\ ~ cl.watch /\ ~ cl.daemonize /\ cl.poll = NoArg /\ ~ cl.webhook
  /\ cl.reload = {} /\ cl.exec = NoArg /\ cl.sources = {}

PlanArgsAgree(cl) ==
  /\ cl.output # NoArg => cl.templates = << >> /\ cl.inPlace = "no"
  /\ cl.templates # << >> => cl.inputs = << >>

WatchIsRequired(cl) == cl.daemonize \/ cl.poll # NoArg \/ cl.webhook => cl.watch

ClapAccepts(cl) ==
  /\ PlanArgsAgree(cl)
  /\ WatchIsRequired(cl)
  /\ Cardinality(cl.reload) <= 1
  /\ cl.completions => Plain(cl)

-----------------------------------------------------------------------------
(* The plan.                                                               *)

SourceOf(x) == IF x = Dash THEN StdIn ELSE x
DestOf(x)   == IF x = Dash THEN StdOut ELSE x

New(x, y) == [src |-> SourceOf(x), dest |-> DestOf(y), backup |-> NoBackup]

NewInPlace(x, k) ==
  [src |-> SourceOf(x), dest |-> DestOf(x),
   backup |-> IF k \in Suffixes THEN BackupName[<<x, k>>] ELSE NoBackup]

\* The argument y if there is one, or x in place, or standard output.
ToArgument(cl, x, y) ==
  IF y # NoArg THEN New(x, y)
  ELSE IF cl.inPlace # "no" THEN NewInPlace(x, cl.inPlace) ELSE New(x, Dash)

\* --output excludes --in-place.
InputOutputArgs(cl) ==
  IF cl.inputs = << >>
  THEN IF cl.output = NoArg THEN << >> ELSE <<New(Dash, cl.output)>>
  ELSE [i \in 1 .. Len(cl.inputs) |-> ToArgument(cl, cl.inputs[i], cl.output)]

TemplateArgs(cl) ==
  [i \in 1 .. Len(cl.templates) |-> ToArgument(cl, cl.templates[i][1], cl.templates[i][2])]

\* Plan::stdio() without any argument.
PlanOf(cl) ==
  LET ops == InputOutputArgs(cl) \o TemplateArgs(cl)
  IN IF ops = << >> THEN <<New(Dash, Dash)>> ELSE ops

-----------------------------------------------------------------------------
(* What is wrong with a command line: found before anything is rendered,   *)
(* or only when the program is about to watch.                             *)

\* Mutant: operations are compared, and not only their destinations.
OperationsUnique(cl) ==
  \A o, q \in 1 .. Len(PlanOf(cl)) : o # q => PlanOf(cl)[o] # PlanOf(cl)[q]

NoDuplicates(cl) == DestinationsUnique(PlanOf(cl))

\* Cli::validate. Standard output may be rendered again if a watcher asks for it.
Validates(cl) ==
  /\ NoDuplicates(cl)
  /\ cl.watch /\ cl.poll = NoArg /\ ~ cl.webhook =>
       \A o \in 1 .. Len(PlanOf(cl)) : PlanOf(cl)[o].dest # StdOut

\* get_source_from_spec panics; only "environment" may lack its argument.
SpecPanics(cl) ==
  \E i \in 1 .. Len(cl.specs) :
    LET s == cl.specs[i] IN s.kind \notin SourceKinds \/ (s.kind # "environment" /\ ~ s.arg)

\* Cli::on_reload returns an error.
UnknownSignal(cl) == "signal" \in cl.reload /\ cl.signal = "unknown"

\* tokio::time::interval panics.
ZeroPeriod(cl) == cl.poll = "zero"

\* Something notifies the watch loop: the environment never does.
Wakes(cl) ==
  \/ cl.poll # NoArg \/ cl.webhook
  \/ cl.sources \ {"environment"} # {}
  \/ \E i \in 1 .. Len(cl.specs) : cl.specs[i].kind \in {"file", "k8s"}
=============================================================================
