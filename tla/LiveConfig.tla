----------------------------- MODULE LiveConfig -----------------------------
(***************************************************************************)
(* What `contemplate --watch` promises, without saying how: files that     *)
(* follow a set of sources. The program keeps a view of the sources, looks *)
(* at a source again when it owes it a look, and publishes whole views.    *)
(***************************************************************************)
CONSTANTS Sources, Data, Nothing, Garbage, Damaged, Ops

VARIABLES
  content,  \* content[s]: what source s holds
  view,     \* view[s]: what the program last saw in s
  looked,   \* the sources it has looked at since its start
  dest,     \* dest[o]: the view that file o was written from, or Damaged
  owed,     \* the sources that it will look at again
  running

vars == <<content, view, looked, dest, owed, running>>

Init ==
  /\ content \in [Sources -> Data]
  /\ view = [s \in Sources |-> Nothing]
  /\ looked = {}
  /\ dest = [o \in Ops |-> view]
  /\ owed = {}
  /\ running = TRUE

\* A source changes. Whether the program hears of it depends on the source.
Edit(s) ==
  /\ \E c \in Data \ {content[s]} : content' = [content EXCEPT ![s] = c]
  /\ owed' \in {owed} \union (IF running THEN {owed \union {s}} ELSE {})
  /\ UNCHANGED <<view, looked, dest, running>>

\* The program is asked to look at some sources, changed or not.
Ask ==
  /\ running
  /\ \E S \in SUBSET Sources : owed' = owed \union S
  /\ UNCHANGED <<content, view, looked, dest, running>>

\* What was heard of s is lost before the program looked.
Lose(s) ==
  /\ owed' = owed \ {s}
  /\ UNCHANGED <<content, view, looked, dest, running>>

\* The program looks at s, and sees what it holds or finds it unavailable.
Look(s) ==
  /\ running
  /\ \E c \in {content[s], Nothing} : view' = [view EXCEPT ![s] = c]
  /\ looked' = looked \union {s}
  /\ owed' = owed \ {s}
  /\ UNCHANGED <<content, dest, running>>

\* Once it has looked at every source, and if all it saw makes sense, it writes
\* its view into some of the files. A failure may damage files that do not show
\* this view yet, and may end the program.
Publish ==
  /\ running
  /\ looked = Sources
  /\ \A s \in Sources : view[s] # Garbage
  /\ \E P \in SUBSET Ops : \E D \in SUBSET {o \in Ops \ P : dest[o] # view} :
       dest' = [o \in Ops |-> IF o \in P THEN view ELSE IF o \in D THEN Damaged ELSE dest[o]]
  /\ \/ UNCHANGED <<owed, running>>
     \/ running' = FALSE /\ owed' = {}
  /\ UNCHANGED <<content, view, looked>>

Stop ==
  /\ running
  /\ running' = FALSE
  /\ owed' = {}
  /\ UNCHANGED <<content, view, looked, dest>>

Next ==
  \/ \E s \in Sources : Edit(s) \/ Lose(s) \/ Look(s)
  \/ Ask \/ Publish \/ Stop

Spec == Init /\ [][Next]_vars

\* The program does look at what it owes a look.
PaysItsDebts == \A s \in Sources : WF_vars(s \in owed /\ Look(s))

FairSpec == Spec /\ PaysItsDebts
=============================================================================
