--------------------------- MODULE MCTemplatePlan ---------------------------
(***************************************************************************)
(* Instances of TemplatePlan for TLC: plans that the command line makes,   *)
(* and texts with a rendering.                                             *)
(***************************************************************************)
EXTENDS TemplatePlan, Cli, TLC

CONSTANTS a, b, c, bak

BackupNames == [x \in Paths \X {"bak"} |-> IF x[1] = bak THEN a ELSE bak]

InPlace(f, k) == [src |-> f, dest |-> f, backup |-> k]
To(s, d)      == [src |-> s, dest |-> d, backup |-> NoBackup]

\* One file rendered in place with a backup.
Backed == <<InPlace(a, bak)>>

\* A file rendered in place, and others rendered from what is being written.
Chain == <<InPlace(a, bak), To(a, b), To(b, c), To(StdIn, StdOut)>>

\* contemplate --in-place=bak with templates and their outputs.
Lines(templates) ==
  [inputs |-> << >>, output |-> NoArg, templates |-> templates, inPlace |-> "bak",
   watch |-> FALSE, poll |-> NoArg, webhook |-> FALSE]

\* The plans are what the command line makes.
ASSUME PlansOfLines ==
  /\ Backed = PlanOf(Lines(<< <<a, NoArg>> >>))
  /\ c \in Files => Chain = PlanOf(Lines(<< <<a, NoArg>>, <<a, b>>, <<b, c>>, <<Dash, Dash>> >>))

\* "tmpl" is a template with data in it, "cond" one that renders to nothing and
\* to an error for some data; any other text has no markup and renders to itself.
AllText == {"", "torn", "tmpl", "cond", "one", "two"}

RenderedTexts ==
  [x \in AllText \X {"d1", "d2"} |->
     CASE x[1] = "tmpl" -> IF x[2] = "d1" THEN "one" ELSE "two"
       [] x[1] = "cond" -> IF x[2] = "d1" THEN "" ELSE "error"
       [] OTHER         -> x[1]]
=============================================================================
