----------------------------- MODULE Operations -----------------------------
(***************************************************************************)
(* The operations of a plan: what the command line makes (Cli) and what a  *)
(* plan executes (TemplatePlan). Files are known by their names.           *)
(***************************************************************************)
EXTENDS Naturals, Sequences

CONSTANTS
  Files,     \* files
  StdIn,     \* the source of an operation that reads standard input
  StdOut,    \* the destination of one that writes standard output
  NoBackup   \* in the place of a backup file

ASSUME OperationsAssumption ==
  StdIn \notin Files /\ StdOut \notin Files /\ NoBackup \notin Files

\* The backup is the file that do_backup would write.
Operation == [src : Files \union {StdIn}, dest : Files \union {StdOut},
              backup : Files \union {NoBackup}]

\* No two operations write to the same output.
DestinationsUnique(plan) ==
  \A o, q \in 1 .. Len(plan) : o # q => plan[o].dest # plan[q].dest

\* Only an in-place operation has a backup, which lies beside its file; "-" may
\* be its file too.
InPlaceOrNoBackup(op) ==
  op.backup # NoBackup =>
    \/ op.src \in Files /\ op.src = op.dest /\ op.backup # op.src
    \/ op.src = StdIn /\ op.dest = StdOut

\* What the execution of a plan relies on.
Validated(plan) ==
  /\ DestinationsUnique(plan)
  /\ \A o \in 1 .. Len(plan) : InPlaceOrNoBackup(plan[o])
=============================================================================
