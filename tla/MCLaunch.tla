------------------------------ MODULE MCLaunch ------------------------------
(***************************************************************************)
(* Command lines for TLC: all arguments of plans, and all flags that       *)
(* decide which processes there are, which are independent of the plan.    *)
(***************************************************************************)
EXTENDS Launch

CONSTANTS a, b, c

\* The backup of a file may be another file that is named.
BackupNames ==
  [x \in Paths \X {"bak"} |-> CASE x[1] = a -> b [] x[1] = b -> c [] OTHER -> a]

NoArgs ==
  [inputs |-> << >>, output |-> NoArg, templates |-> << >>, inPlace |-> "no",
   watch |-> FALSE, daemonize |-> FALSE, completions |-> FALSE, poll |-> NoArg,
   webhook |-> FALSE, reload |-> {}, signal |-> "known", exec |-> NoArg,
   sources |-> {}, specs |-> << >>]

UpToTwo(S) == {<< >>} \union {<<x>> : x \in S} \union (S \X S)

Some == {a, b, Dash}

PlanLines ==
  {[NoArgs EXCEPT !.inputs = i, !.output = o, !.inPlace = k, !.watch = w, !.poll = q] :
     i \in UpToTwo(Some), o \in Some \union {NoArg}, k \in {"no", "bare", "bak"},
     w \in BOOLEAN, q \in {NoArg, "period"}}
  \union
  {[NoArgs EXCEPT !.templates = t, !.inputs = i, !.output = o, !.inPlace = k] :
     t \in UpToTwo(Some \X (Some \union {NoArg})), i \in {<< >>, <<b>>}, o \in {NoArg, b},
     k \in {"no", "bare", "bak"}}

OnePlan == [NoArgs EXCEPT !.inputs = <<a>>, !.output = b]

FlagLines ==
  {[OnePlan EXCEPT !.watch = w, !.daemonize = d, !.poll = q, !.webhook = h, !.reload = r,
                   !.signal = g, !.exec = x, !.sources = s] :
     w \in BOOLEAN, d \in BOOLEAN, q \in {NoArg, "period", "zero"}, h \in BOOLEAN,
     r \in {{}, {"signal"}}, g \in {"known", "unknown"},
     x \in {NoArg, "absolute", "relative", "missing"}, s \in {{}, {"environment", "file"}}}

OtherLines ==
  {[OnePlan EXCEPT !.specs = e, !.reload = r, !.completions = f] :
     e \in UpToTwo([kind : {"environment", "file", "unknown"}, arg : BOOLEAN]),
     r \in SUBSET OnReloadArgs, f \in BOOLEAN}
  \union {[NoArgs EXCEPT !.completions = TRUE]}

AllLines == PlanLines \union FlagLines \union OtherLines
=============================================================================
