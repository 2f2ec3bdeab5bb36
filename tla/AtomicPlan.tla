----------------------------- MODULE AtomicPlan -----------------------------
(***************************************************************************)
(* What the execution of a plan promises, without saying how: invocations  *)
(* of a program that read all templates at once when they start, and carry *)
(* out the operations one after the other, each of which renders its file  *)
(* as a whole or fails. Backups are not part of it.                        *)
(***************************************************************************)
EXTENDS Operations

CONSTANTS Text, Input, Empty, Torn, Absent, Plan, Data, Rendering, NoText, Watch

Ops == 1 .. Len(Plan)

Src(o)    == Plan[o].src
Dest(o)   == Plan[o].dest
Observed  == Files \ {Plan[o].backup : o \in Ops}

VARIABLES
  files,  \* files[f]: the text in file f, or Absent
  run     \* the invocation: its phase, what it renders, what it has reported

vars == <<files, run>>

NoRun == [phase |-> "off"]

Init ==
  /\ files \in [Observed -> Text \union {Absent}]
  /\ run = NoRun

\* Sources that are not observed, because they are backups too.
Hidden == {Src(o) : o \in Ops} \cap (Files \ Observed)

\* The templates that the sources hold now, h being what the hidden ones hold.
Held(h) ==
  [o \in Ops |-> IF Src(o) = StdIn THEN Input
                 ELSE IF Src(o) \in Observed THEN files[Src(o)] ELSE h[Src(o)]]

\* The invocation reads its templates and begins its initial pass.
Begin ==
  /\ run.phase = "off"
  /\ \E h \in [Hidden -> Text], d \in Data :
       /\ \A o \in Ops : Held(h)[o] # Absent
       /\ run' = [phase |-> "initial", template |-> Held(h), data |-> d,
                  next |-> 1, report |-> {}]
  /\ UNCHANGED files

\* It begins another one, with new data and the same templates.
BeginAgain ==
  /\ run.phase = "over" /\ Watch
  /\ \E d \in Data :
       run' = [phase |-> "later", template |-> run.template, data |-> d,
               next |-> 1, report |-> {}]
  /\ UNCHANGED files

Ongoing == run.phase \in {"initial", "later"}

Goal == Rendering[<<run.template[run.next], run.data>>]

\* A missing file counts as an empty one.
Same(t, u) == t = u \/ (t = Absent /\ u = Empty)

\* The pass goes on with the operation after the next one.
Advance(report) ==
  run' = [phase |-> run.phase, template |-> run.template, data |-> run.data,
          next |-> run.next + 1, report |-> report]

\* The next operation renders its file, and reports whether its text is another one.
Render ==
  LET o == run.next IN
  /\ Ongoing /\ o \in Ops /\ Goal # NoText /\ Dest(o) # StdOut
  /\ files' = [files EXCEPT ![Dest(o)] = Goal]
  /\ Advance(IF Same(files[Dest(o)], Goal) THEN run.report ELSE run.report \union {o})

\* The next operation prints its rendering.
Display ==
  LET o == run.next IN
  /\ Ongoing /\ o \in Ops /\ Goal # NoText /\ Dest(o) = StdOut
  /\ Advance(run.report \union {o})
  /\ UNCHANGED files

\* What is left of the file of the next operation when it fails or is interrupted:
\* only a file that was to get another text can be damaged.
MayDamage ==
  LET f == Dest(run.next) IN
  \/ UNCHANGED files
  \/ /\ Ongoing /\ run.next \in Ops /\ f # StdOut /\ ~ Same(files[f], Goal)
     /\ \E t \in {Empty, Torn} : files' = [files EXCEPT ![f] = t]

\* The next operation fails: this ends the initial pass, but not a later one.
Break ==
  /\ Ongoing /\ run.next \in Ops
  /\ MayDamage
  /\ IF run.phase = "initial" THEN run' = NoRun ELSE Advance(run.report)

End ==
  /\ Ongoing /\ run.next \notin Ops
  /\ run' = [run EXCEPT !.phase = "over"]
  /\ UNCHANGED files

\* The invocation ends, in the middle of anything.
Stop ==
  /\ run.phase # "off"
  /\ MayDamage
  /\ run' = NoRun

Next == Begin \/ BeginAgain \/ Render \/ Display \/ Break \/ End \/ Stop

Spec == Init /\ [][Next]_vars
=============================================================================
