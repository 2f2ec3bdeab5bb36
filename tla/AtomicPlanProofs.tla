-------------------------- MODULE AtomicPlanProofs --------------------------
(***************************************************************************)
(* A process that writes alone implements AtomicPlan: its initial states   *)
(* are initial states there, and each of its system calls is a step there  *)
(* or changes nothing of what AtomicPlan speaks about.                     *)
(***************************************************************************)
EXTENDS PassProofs

\* The pass after the templates are cached is the initial one, and there is another
\* one only with --watch.
RoundInv ==
  /\ pc[Writer] = "cache" => first[Writer]
  /\ pc[Writer] = "waiting" => ~ first[Writer] /\ Watch

MapInv == TypeInv /\ DryInv /\ CacheInv(Writer) /\ PassInv(Writer) /\ RoundInv

LEMMA WriterWrites ==
  ASSUME NEW p \in Procs, OneWriter(p) PROVE Writer = p /\ Writer \in Procs
<1>1. \E q \in Procs : q \notin DryRuns
  BY DEF OneWriter
<1>2. Writer \in Procs /\ Writer \notin DryRuns
  BY <1>1 DEF Writer
<1>3. QED
  BY <1>2 DEF OneWriter

\* The destinations are observed.
LEMMA ObservedFiles ==
  ASSUME BackupsBeside
  PROVE  /\ Atomic!Observed = Files \ {Backup(o) : o \in Ops}
         /\ DOMAIN FilesSeen = Atomic!Observed
         /\ \A o \in Ops : Dest(o) # StdOut => Dest(o) \in Atomic!Observed
<1>1. Atomic!Observed = Files \ {Backup(o) : o \in Ops}
  BY DEF Atomic!Observed, Atomic!Ops, Ops, Backup
<1>2. DOMAIN FilesSeen = Atomic!Observed
  BY <1>1 DEF FilesSeen
<1>3. ASSUME NEW o \in Ops, Dest(o) # StdOut, NEW q \in Ops PROVE Dest(o) \in Files /\ Dest(o) # Backup(q)
  <2>1. Dest(o) \in Files /\ Dest(o) # NoBackup
    BY <1>3, PlanFacts, OperationsAssumption DEF OperationsAssumption
  <2>2. CASE o = q
    BY <2>1, <2>2, PlanFacts, ValidatedPlan, OperationsAssumption
       DEF ValidatedPlan, Validated, InPlaceOrNoBackup, Ops, Src, Dest, Backup, OperationsAssumption
  <2>3. CASE o # q
    BY <2>1, <2>3 DEF BackupsBeside
  <2>4. QED
    BY <2>1, <2>2, <2>3
<1>4. QED
  BY <1>1, <1>2, <1>3

Templates == [o \in Ops |-> Template(Writer, o)]

\* An operation that is under way, as AtomicPlan sees it.
LEMMA UnderWay ==
  ASSUME pc[Writer] \in {"apply"} \union Midway
  PROVE  Invocation = [phase |-> IF first[Writer] THEN "initial" ELSE "later",
                       template |-> Templates, data |-> data[Writer],
                       next |-> op[Writer], report |-> changed[Writer]]
BY DEF Invocation, Phase, PassEnded, Midway, Templates

LEMMA GoalIsTarget ==
  ASSUME pc[Writer] \in {"apply"} \union Midway, op[Writer] \in Ops
  PROVE  /\ Atomic!Ongoing /\ Invocation.next = op[Writer] /\ Invocation.next \in Atomic!Ops
         /\ Atomic!Goal = Target(Writer, op[Writer])
         /\ Atomic!Dest(op[Writer]) = Dest(op[Writer])
<1>1. Atomic!Ongoing /\ Invocation.next = op[Writer] /\ Invocation.next \in Atomic!Ops
  BY UnderWay DEF Atomic!Ongoing, Atomic!Ops, Ops
<1>2. Invocation.template[op[Writer]] = Template(Writer, op[Writer]) /\ Invocation.data = data[Writer]
  BY UnderWay DEF Templates
<1>3. QED
  BY <1>1, <1>2 DEF Atomic!Goal, Target, Atomic!Dest, Dest

-----------------------------------------------------------------------------
(* How apply goes on, returns and fails.                                   *)

LEMMA ReturnMaps ==
  ASSUME TypeInv, Writer \in Procs, pc[Writer] \in {"apply"} \union Midway, op[Writer] \in Ops,
         Target(Writer, op[Writer]) # NoText,
         NEW c \in BOOLEAN, Return(Writer, c), UNCHANGED <<env, data, first>>,
         IF Dest(op[Writer]) = StdOut
           THEN UNCHANGED FilesSeen /\ c
           ELSE /\ FilesSeen' = [FilesSeen EXCEPT ![Dest(op[Writer])] = Target(Writer, op[Writer])]
                /\ c <=> ~ Atomic!Same(FilesSeen[Dest(op[Writer])], Target(Writer, op[Writer]))
  PROVE  Atomic!Render \/ Atomic!Display
<1> DEFINE o == op[Writer]
<1>1. /\ pc'[Writer] = "apply" /\ op'[Writer] = o + 1
      /\ changed'[Writer] = IF c THEN changed[Writer] \union {o} ELSE changed[Writer]
  BY DEF Return, TypeInv, TypeOK
<1>2. Invocation' = [phase |-> IF first[Writer] THEN "initial" ELSE "later",
                     template |-> Templates, data |-> data[Writer],
                     next |-> o + 1, report |-> changed'[Writer]]
  BY <1>1 DEF Invocation, Phase, PassEnded, Templates, Template
<1>3. Atomic!Advance(IF c THEN Invocation.report \union {o} ELSE Invocation.report)
  BY <1>1, <1>2, UnderWay DEF Atomic!Advance
<1>4. CASE Dest(o) = StdOut
  BY <1>3, <1>4, GoalIsTarget DEF Atomic!Display
<1>5. CASE Dest(o) # StdOut
  BY <1>3, <1>5, GoalIsTarget DEF Atomic!Render
<1>6. QED
  BY <1>4, <1>5

LEMMA FailMaps ==
  ASSUME TypeInv, Writer \in Procs, pc[Writer] \in {"apply"} \union Midway, op[Writer] \in Ops,
         Fail(Writer), UNCHANGED <<env, data, first>>,
         \/ UNCHANGED FilesSeen
         \/ /\ Dest(op[Writer]) # StdOut
            /\ ~ Atomic!Same(FilesSeen[Dest(op[Writer])], Target(Writer, op[Writer]))
            /\ \E t \in {Empty, Torn} : FilesSeen' = [FilesSeen EXCEPT ![Dest(op[Writer])] = t]
  PROVE  Atomic!Break
<1>1. Atomic!MayDamage
  BY GoalIsTarget DEF Atomic!MayDamage
<1>2. CASE first[Writer]
  <2>1. pc'[Writer] = "failed"
    BY <1>2 DEF Fail, TypeInv, TypeOK
  <2>2. Invocation' = Atomic!NoRun
    <3>1. Phase' = "off"
      BY <2>1 DEF Phase, PassEnded
    <3>2. QED
      BY <3>1 DEF Invocation, Atomic!NoRun
  <2>3. Invocation.phase = "initial"
    BY <1>2, UnderWay
  <2>4. QED
    BY <1>1, <2>2, <2>3, GoalIsTarget DEF Atomic!Break
<1>3. CASE ~ first[Writer]
  <2>1. pc'[Writer] = "apply" /\ op'[Writer] = op[Writer] + 1 /\ changed'[Writer] = changed[Writer]
    BY <1>3 DEF Fail, TypeInv, TypeOK
  <2>2. Invocation' = [phase |-> "later", template |-> Templates, data |-> data[Writer],
                       next |-> op[Writer] + 1, report |-> changed[Writer]]
    BY <1>3, <2>1 DEF Invocation, Phase, PassEnded, Templates, Template
  <2>3. Invocation.phase = "later" /\ Atomic!Advance(Invocation.report)
    BY <1>3, <2>2, UnderWay DEF Atomic!Advance
  <2>4. QED
    BY <1>1, <2>3, GoalIsTarget DEF Atomic!Break
<1>4. QED
  BY <1>2, <1>3

LEMMA ProceedMaps ==
  ASSUME TypeInv, Writer \in Procs, pc[Writer] \in {"apply"} \union Midway,
         NEW step \in Midway, Proceed(Writer, step),
         UNCHANGED <<env, data, first>>, UNCHANGED FilesSeen
  PROVE  UNCHANGED Atomic!vars
<1>1. pc'[Writer] \in Midway /\ UNCHANGED <<op, changed>>
  BY ProceedType DEF TypeInv
<1>2. Invocation' = [phase |-> IF first[Writer] THEN "initial" ELSE "later",
                     template |-> Templates, data |-> data[Writer],
                     next |-> op[Writer], report |-> changed[Writer]]
  BY <1>1 DEF Invocation, Phase, PassEnded, Templates, Template, Midway
<1>3. QED
  BY <1>2, UnderWay DEF Atomic!vars

\* The process is killed, in the middle of an operation or between two.
LEMMA StopMaps ==
  ASSUME Phase # "off", Phase' = "off", Atomic!MayDamage PROVE Atomic!Stop
BY DEF Atomic!Stop, Atomic!NoRun, Invocation

-----------------------------------------------------------------------------
(* An invocation starts, and its passes begin and end.                     *)

\* Outside of an operation the files are seen as they are.
LEMMA SeenAsTheyAre ==
  ASSUME UNCHANGED fs, pc[Writer] \notin {"truncate", "fill"}, pc'[Writer] \notin {"truncate", "fill"}
  PROVE  UNCHANGED FilesSeen
BY DEF FilesSeen

LEMMA PhaseFacts ==
  /\ pc[Writer] \in {"down", "failed", "cache"} <=> Phase = "off"
  /\ pc[Writer] \in {"waiting", "exited"} <=> Phase = "over"
BY DEF Phase, PassEnded

LEMMA StartMaps ==
  ASSUME TypeInv, Writer \in Procs, Start(Writer) PROVE [Atomic!Next]_(Atomic!vars)
<1>1. pc[Writer] \in Stopped /\ pc'[Writer] = "cache" /\ UNCHANGED fs
  BY DEF Start, TypeInv, TypeOK
<1>2. UNCHANGED FilesSeen /\ Phase' = "off"
  BY <1>1, SeenAsTheyAre DEF Stopped, Phase, PassEnded
<1>3. CASE Phase = "off"
  BY <1>2, <1>3 DEF Invocation, Atomic!vars
<1>4. CASE Phase # "off"
  BY <1>2, <1>4, StopMaps DEF Atomic!MayDamage, Atomic!Next
<1>5. QED
  BY <1>3, <1>4

LEMMA CacheMaps ==
  ASSUME TypeInv, Writer \in Procs, Cache(Writer) PROVE UNCHANGED Atomic!vars
<1>1. pc[Writer] = "cache" /\ pc'[Writer] \in {"cache", "failed"} /\ UNCHANGED fs
  BY DEF Cache, TypeInv, TypeOK
<1>2. Phase = "off" /\ Phase' = "off"
  BY <1>1 DEF Phase, PassEnded
<1>3. QED
  BY <1>1, <1>2, SeenAsTheyAre DEF Invocation, Atomic!vars

\* A pass has begun.
LEMMA Begun ==
  ASSUME TypeInv, Writer \in Procs, BeginPass(Writer)
  PROVE  \E d \in Data :
           Invocation' = [phase |-> IF first[Writer] THEN "initial" ELSE "later",
                          template |-> Templates, data |-> d, next |-> 1, report |-> {}]
<1>1. /\ pc'[Writer] = "apply" /\ op'[Writer] = 1 /\ changed'[Writer] = {} /\ data'[Writer] \in Data
      /\ UNCHANGED <<env, first>>
  BY DEF BeginPass, TypeInv, TypeOK
<1>2. Phase' = IF first[Writer] THEN "initial" ELSE "later"
  BY <1>1 DEF Phase, PassEnded
<1>3. Templates' = Templates
  BY <1>1 DEF Templates, Template
<1>4. Invocation' = [phase |-> Phase', template |-> Templates', data |-> data'[Writer],
                     next |-> 1, report |-> {}]
  <2>1. Phase' # "off"
    BY <1>2
  <2>2. QED
    BY <1>1, <2>1 DEF Invocation, Templates
<1>5. QED
  BY <1>1, <1>2, <1>3, <1>4

LEMMA BeginMaps ==
  ASSUME BackupsBeside, MapInv, Writer \in Procs, BeginPass(Writer), pc[Writer] = "cache"
  PROVE  Atomic!Begin
<1> USE DEF MapInv, TypeInv
<1>1. op[Writer] \notin Ops /\ UNCHANGED <<fs, FilesSeen>> /\ first[Writer] /\ Phase = "off"
  BY PhaseFacts, SeenAsTheyAre DEF BeginPass, RoundInv, TypeOK, fileVars
<1>2. ASSUME NEW o \in Ops
      PROVE  /\ Template(Writer, o) \in Text
             /\ Src(o) = StdIn => Template(Writer, o) = Input
             /\ Src(o) \in Files => Template(Writer, o) = fs[Src(o)]
  <2>1. o < op[Writer]
    BY <1>1, PlanFacts, SMT DEF TypeOK, Ops
  <2>2. QED
    BY <2>1 DEF CacheInv, Ready, ReadyAt, Template
<1>3. \A f \in Atomic!Observed : f \in Files /\ FilesSeen[f] = fs[f]
  BY ObservedFiles DEF FilesSeen
<1> DEFINE h == [s \in Atomic!Hidden |-> fs[s]]
<1>4. h \in [Atomic!Hidden -> Text]
  <2>1. ASSUME NEW s \in Atomic!Hidden PROVE fs[s] \in Text
    BY <1>2 DEF Atomic!Hidden, Atomic!Ops, Ops, Atomic!Src, Src
  <2>2. QED
    BY <2>1
<1>5. Atomic!Held(h) = Templates
  <2>1. ASSUME NEW o \in Ops
        PROVE  Template(Writer, o) =
                 IF Src(o) = StdIn THEN Input
                 ELSE IF Src(o) \in Atomic!Observed THEN FilesSeen[Src(o)] ELSE h[Src(o)]
    <3>1. CASE Src(o) = StdIn
      BY <1>2, <3>1
    <3>2. CASE Src(o) # StdIn /\ Src(o) \in Atomic!Observed
      BY <1>2, <1>3, <3>2
    <3>3. CASE Src(o) # StdIn /\ Src(o) \notin Atomic!Observed
      <4>1. Src(o) \in Files
        BY <3>3, PlanFacts DEF Sources
      <4>2. Src(o) \in Atomic!Hidden
        BY <3>3, <4>1 DEF Atomic!Hidden, Atomic!Ops, Ops, Atomic!Src, Src
      <4>3. QED
        BY <1>2, <3>3, <4>1, <4>2
    <3>4. QED
      BY <3>1, <3>2, <3>3
  <2>2. QED
    BY <2>1 DEF Atomic!Held, Atomic!Ops, Ops, Atomic!Src, Src, Templates
<1>6. \A o \in Ops : Templates[o] # Absent
  BY <1>2, TemplatePlanAssumption DEF Templates, TemplatePlanAssumption
<1>7. Invocation.phase = "off"
  BY <1>1 DEF Invocation
<1>8. PICK d \in Data :
        Invocation' = [phase |-> "initial", template |-> Atomic!Held(h), data |-> d,
                       next |-> 1, report |-> {}]
  BY <1>1, <1>5, Begun
<1> HIDE DEF h
<1>9. QED
  BY <1>1, <1>4, <1>5, <1>6, <1>7, <1>8 DEF Atomic!Begin, Atomic!Ops, Ops

LEMMA BeginAgainMaps ==
  ASSUME MapInv, Writer \in Procs, BeginPass(Writer), pc[Writer] = "waiting"
  PROVE  Atomic!BeginAgain
<1> USE DEF MapInv
<1>1. UNCHANGED FilesSeen /\ ~ first[Writer] /\ Watch /\ Phase = "over"
  BY PhaseFacts, SeenAsTheyAre DEF BeginPass, RoundInv, TypeInv, TypeOK, fileVars
<1>2. Invocation.phase = "over" /\ Invocation.template = Templates
  BY <1>1 DEF Invocation, Templates
<1>3. QED
  BY <1>1, <1>2, Begun DEF Atomic!BeginAgain

LEMMA EndMaps == ASSUME TypeInv, Writer \in Procs, EndPass(Writer) PROVE Atomic!End
<1>1. /\ pc[Writer] = "apply" /\ pc'[Writer] \in {"waiting", "exited"} /\ op[Writer] \notin Ops
      /\ UNCHANGED <<fs, env, op, changed, data>>
  BY DEF EndPass, TypeInv, TypeOK, fileVars
<1>2. UNCHANGED FilesSeen
  BY <1>1, SeenAsTheyAre
<1>3. Phase' = "over"
  BY <1>1 DEF Phase, PassEnded
<1>4. Invocation' = [phase |-> "over", template |-> Templates, data |-> data[Writer],
                     next |-> op[Writer], report |-> changed[Writer]]
  BY <1>1, <1>3 DEF Invocation, Templates, Template
<1>5. Invocation' = [Invocation EXCEPT !.phase = "over"]
  BY <1>1, <1>4, UnderWay
<1>6. Invocation.phase \in {"initial", "later"} /\ Invocation.next \notin Atomic!Ops
  BY <1>1, UnderWay DEF Atomic!Ops, Ops
<1>7. QED
  BY <1>2, <1>5, <1>6 DEF Atomic!End, Atomic!Ongoing

-----------------------------------------------------------------------------
(* The system calls of an operation.                                       *)

\* A write that ends the operation is seen.
LEMMA WriteSeen ==
  ASSUME BackupsBeside, TypeInv, Writer \in Procs, op[Writer] \in Ops, Dest(op[Writer]) # StdOut,
         NEW t \in Text \union {Absent}, fs' = [fs EXCEPT ![Dest(op[Writer])] = t],
         pc'[Writer] \notin {"truncate", "fill"}
  PROVE  FilesSeen' = [FilesSeen EXCEPT ![Dest(op[Writer])] = t]
<1>1. Dest(op[Writer]) \in Files \ {Backup(o) : o \in Ops}
  BY ObservedFiles
<1>2. fs'[Dest(op[Writer])] = t /\ \A f \in Files \ {Dest(op[Writer])} : fs'[f] = fs[f]
  BY <1>1, WriteType DEF TypeInv
<1>3. QED
  BY <1>1, <1>2 DEF FilesSeen

\* Until then the file is seen as it was before the pass.
LEMMA SeenUntilWritten ==
  ASSUME TypeInv, Writer \in Procs, PassInv(Writer), pc[Writer] \in Midway, BackupsBeside,
         Dest(op[Writer]) # StdOut
  PROVE  /\ FilesSeen[Dest(op[Writer])] = before[Writer][Dest(op[Writer])]
         /\ Differed(Writer, op[Writer]) <=>
              ~ Atomic!Same(FilesSeen[Dest(op[Writer])], Target(Writer, op[Writer]))
<1> DEFINE o == op[Writer]
<1>1. o \in Ops /\ Target(Writer, o) \in Text /\ pc[Writer] \in Passing
  BY OperandTypes DEF Passing, Running
<1>2. Dest(o) \in Files \ {Backup(q) : q \in Ops}
  BY <1>1, ObservedFiles
<1>3. pc[Writer] \notin {"truncate", "fill"} => fs[Dest(o)] = before[Writer][Dest(o)]
  BY <1>1 DEF PassInv, Ahead
<1>4. FilesSeen[Dest(o)] = before[Writer][Dest(o)]
  BY <1>2, <1>3 DEF FilesSeen
<1>5. QED
  BY <1>1, <1>4, TemplatePlanAssumption DEF Differed, Atomic!Same, TemplatePlanAssumption

LEMMA ApplyMaps ==
  ASSUME TypeInv, Writer \in Procs \ DryRuns, Apply(Writer) PROVE [Atomic!Next]_(Atomic!vars)
<1>1. /\ pc[Writer] = "apply" /\ op[Writer] \in Ops
      /\ UNCHANGED <<fs, env, data, first>>
  BY DEF Apply, fileVars, passVars
<1>2. CASE Fail(Writer)
  <2>1. pc'[Writer] \notin {"truncate", "fill"}
    BY <1>1, <1>2, ReturnType DEF TypeInv
  <2>2. QED
    BY <1>1, <1>2, <2>1, SeenAsTheyAre, FailMaps DEF Atomic!Next
<1>3. ASSUME NEW step \in {"copy", "write"}, Proceed(Writer, step) PROVE UNCHANGED Atomic!vars
  <2>1. step \in Midway /\ pc'[Writer] \notin {"truncate", "fill"}
    BY <1>3, ProceedType DEF TypeInv, Midway
  <2>2. QED
    BY <1>1, <1>3, <2>1, SeenAsTheyAre, ProceedMaps
<1>4. QED
  BY <1>2, <1>3 DEF Apply, Simulates

LEMMA CopyMaps ==
  ASSUME TypeInv, Writer \in Procs, CopyOpen(Writer) \/ CopyData(Writer)
  PROVE  [Atomic!Next]_(Atomic!vars)
<1> DEFINE o == op[Writer]
<1>1. /\ pc[Writer] \in {"copy", "copying"} /\ pc[Writer] \in Midway
      /\ UNCHANGED <<env, data, first>>
  BY DEF CopyOpen, CopyData, Midway, passVars
<1>2. o \in Ops /\ Backup(o) \in Files
  BY <1>1, OperandTypes
<1>3. UNCHANGED fs \/ \E t \in Text \union {Absent} : fs' = [fs EXCEPT ![Backup(o)] = t]
  BY <1>1, <1>2, OperandTypes, TemplatePlanAssumption
     DEF CopyOpen, CopyData, TypeInv, TypeOK, TemplatePlanAssumption
<1>4. \A f \in Files \ {Backup(q) : q \in Ops} : fs'[f] = fs[f]
  BY <1>2, <1>3, WriteType DEF TypeInv
<1>5. pc'[Writer] \notin {"truncate", "fill"} => UNCHANGED FilesSeen
  BY <1>1, <1>4 DEF FilesSeen
<1>6. CASE Fail(Writer)
  <2>1. pc'[Writer] \notin {"truncate", "fill"}
    BY <1>2, <1>6, ReturnType DEF TypeInv
  <2>2. QED
    BY <1>1, <1>2, <1>5, <1>6, <2>1, FailMaps DEF Atomic!Next
<1>7. ASSUME NEW step \in {"copying", "write"}, Proceed(Writer, step) PROVE UNCHANGED Atomic!vars
  <2>1. step \in Midway /\ pc'[Writer] \notin {"truncate", "fill"}
    BY <1>7, ProceedType DEF TypeInv, Midway
  <2>2. QED
    BY <1>1, <1>5, <1>7, <2>1, ProceedMaps
<1>8. QED
  BY <1>6, <1>7 DEF CopyOpen, CopyData

LEMMA CompareMaps ==
  ASSUME BackupsBeside, TypeInv, Writer \in Procs, PassInv(Writer), Compare(Writer)
  PROVE  [Atomic!Next]_(Atomic!vars)
<1> DEFINE o == op[Writer]
<1>1. pc[Writer] = "write" /\ pc[Writer] \in Midway /\ UNCHANGED <<env, data, first, before>>
  BY DEF Compare, Midway, passVars, histVars
<1>2. o \in Ops /\ Target(Writer, o) \in Text /\ Target(Writer, o) # NoText
  BY <1>1, OperandTypes, TemplatePlanAssumption DEF TemplatePlanAssumption
<1>3. ASSUME (\E c \in BOOLEAN : Return(Writer, c)) \/ Fail(Writer)
      PROVE  pc'[Writer] \notin {"truncate", "fill"}
  BY <1>2, <1>3, ReturnType DEF TypeInv
<1>4. CASE Dest(o) = StdOut /\ Return(Writer, TRUE) /\ UNCHANGED fs
  BY <1>1, <1>2, <1>3, <1>4, SeenAsTheyAre, ReturnMaps DEF Atomic!Next
<1>5. CASE Fail(Writer) /\ UNCHANGED fs
  BY <1>1, <1>2, <1>3, <1>5, SeenAsTheyAre, FailMaps DEF Atomic!Next
<1>6. CASE /\ Dest(o) # StdOut
           /\ fs' = [fs EXCEPT ![Dest(o)] = Existing(Dest(o))]
           /\ IF Differs(Dest(o), Target(Writer, o))
                THEN Proceed(Writer, "truncate") ELSE Return(Writer, FALSE)
  <2>1. Dest(o) \in Files /\ Existing(Dest(o)) \in Text \union {Absent}
    BY <1>1, <1>6, OperandTypes, TemplatePlanAssumption
       DEF Existing, TypeInv, TypeOK, TemplatePlanAssumption
  <2>2. fs[Dest(o)] = before[Writer][Dest(o)]
    BY <1>1, <1>6, <2>1, SeenUntilWritten, ObservedFiles, <1>2 DEF FilesSeen
  <2>3. CASE Differs(Dest(o), Target(Writer, o)) /\ Proceed(Writer, "truncate")
    <3>1. pc'[Writer] = "truncate" /\ UNCHANGED op
      BY <2>3, ProceedType DEF TypeInv, Midway
    <3>2. \A f \in Files \ {Dest(o)} : fs'[f] = fs[f]
      BY <1>6, <2>1, WriteType DEF TypeInv
    <3>3. UNCHANGED FilesSeen
      BY <1>1, <2>2, <3>1, <3>2 DEF FilesSeen
    <3>4. QED
      BY <1>1, <2>3, <3>3, ProceedMaps DEF Midway
  <2>4. CASE ~ Differs(Dest(o), Target(Writer, o)) /\ Return(Writer, FALSE)
    <3>1. FilesSeen' = [FilesSeen EXCEPT ![Dest(o)] = Target(Writer, o)]
      BY <1>2, <1>3, <1>6, <2>1, <2>4, WriteSeen DEF Differs
    <3>2. Atomic!Same(FilesSeen[Dest(o)], Target(Writer, o))
      BY <1>1, <1>6, <2>2, <2>4, SeenUntilWritten DEF Differs, Existing, Differed
    <3>3. QED
      BY <1>1, <1>2, <1>6, <2>4, <3>1, <3>2, ReturnMaps DEF Atomic!Next
  <2>5. QED
    BY <1>6, <2>3, <2>4
<1>7. QED
  BY <1>4, <1>5, <1>6 DEF Compare

LEMMA TruncateMaps ==
  ASSUME TypeInv, Writer \in Procs, Truncate(Writer) PROVE UNCHANGED Atomic!vars
<1>1. /\ pc[Writer] = "truncate" /\ pc[Writer] \in Midway
      /\ Proceed(Writer, "fill") /\ UNCHANGED <<env, data, first, before>>
  BY DEF Truncate, Midway, passVars, histVars
<1>2. Dest(op[Writer]) \in Files
  BY <1>1, OperandTypes DEF TypeInv, Ready, ReadyAt
<1>3. \A f \in Files \ {Dest(op[Writer])} : fs'[f] = fs[f]
  BY <1>2, WriteType, TemplatePlanAssumption DEF Truncate, TypeInv, TemplatePlanAssumption
<1>4. pc'[Writer] = "fill" /\ UNCHANGED op
  BY <1>1, ProceedType DEF TypeInv, Midway
<1>5. UNCHANGED FilesSeen
  BY <1>1, <1>3, <1>4 DEF FilesSeen
<1>6. QED
  BY <1>1, <1>5, ProceedMaps DEF Midway

LEMMA FillMaps ==
  ASSUME BackupsBeside, TypeInv, Writer \in Procs, PassInv(Writer), Fill(Writer)
  PROVE  Atomic!Next
<1> DEFINE o == op[Writer]
<1>1. pc[Writer] = "fill" /\ pc[Writer] \in Midway /\ UNCHANGED <<env, data, first>>
  BY DEF Fill, Midway, passVars
<1>2. /\ o \in Ops /\ Dest(o) # StdOut
      /\ Target(Writer, o) \in Text /\ Target(Writer, o) # NoText
  BY <1>1, OperandTypes, TemplatePlanAssumption DEF TypeInv, Ready, ReadyAt, TemplatePlanAssumption
<1>3. fs[Dest(o)] = Empty /\ Differed(Writer, o)
  BY <1>1 DEF PassInv, Passing, Running
<1>4. ~ Atomic!Same(FilesSeen[Dest(o)], Target(Writer, o))
  BY <1>1, <1>2, <1>3, SeenUntilWritten
<1>5. ASSUME (\E c \in BOOLEAN : Return(Writer, c)) \/ Fail(Writer),
             NEW t \in Text, fs' = [fs EXCEPT ![Dest(o)] = t]
      PROVE  FilesSeen' = [FilesSeen EXCEPT ![Dest(o)] = t]
  <2>1. pc'[Writer] \notin {"truncate", "fill"}
    BY <1>2, <1>5, ReturnType DEF TypeInv
  <2>2. QED
    BY <1>2, <1>5, <2>1, WriteSeen
<1>6. CASE fs' = [fs EXCEPT ![Dest(o)] = Target(Writer, o)] /\ Return(Writer, TRUE)
  BY <1>1, <1>2, <1>4, <1>5, <1>6, ReturnMaps DEF Atomic!Next
<1>7. CASE (\E t \in {fs[Dest(o)], Torn} : fs' = [fs EXCEPT ![Dest(o)] = t]) /\ Fail(Writer)
  <2>1. \E t \in {Empty, Torn} : FilesSeen' = [FilesSeen EXCEPT ![Dest(o)] = t]
    BY <1>3, <1>5, <1>7, TemplatePlanAssumption DEF TemplatePlanAssumption
  <2>2. QED
    BY <1>1, <1>2, <1>4, <1>7, <2>1, FailMaps DEF Atomic!Next
<1>8. QED
  BY <1>3, <1>6, <1>7 DEF Fill

\* A file that was being written is left empty; any other is seen as it is.
LEMMA CrashMaps ==
  ASSUME BackupsBeside, TypeInv, Writer \in Procs, PassInv(Writer), Crash(Writer)
  PROVE  [Atomic!Next]_(Atomic!vars)
<1> DEFINE o == op[Writer]
<1>1. pc[Writer] \notin Stopped /\ pc'[Writer] = "down" /\ UNCHANGED fs
  BY DEF Crash, TypeInv, TypeOK, fileVars
<1>2. Phase' = "off"
  BY <1>1, PhaseFacts DEF Phase, PassEnded
<1>3. CASE pc[Writer] \in {"truncate", "fill"}
  <2>1. /\ pc[Writer] \in Midway /\ pc[Writer] \in Passing /\ o \in Ops /\ Dest(o) # StdOut
        /\ Phase # "off"
    BY <1>3, OperandTypes, PhaseFacts DEF Midway, Passing, Running, TypeInv, Ready, ReadyAt
  <2>2. Dest(o) \in Files \ {Backup(q) : q \in Ops}
    BY <2>1, ObservedFiles
  <2>3. FilesSeen' = [FilesSeen EXCEPT ![Dest(o)] = fs[Dest(o)]]
    BY <1>1, <2>2 DEF FilesSeen
  <2>4. CASE fs[Dest(o)] = Empty
    <3>1. ~ Atomic!Same(FilesSeen[Dest(o)], Target(Writer, o))
      BY <1>3, <2>1, SeenUntilWritten DEF PassInv
    <3>2. Atomic!MayDamage
      BY <2>1, <2>3, <2>4, <3>1, GoalIsTarget DEF Atomic!MayDamage
    <3>3. QED
      BY <1>2, <2>1, <3>2, StopMaps DEF Atomic!Next
  <2>5. CASE fs[Dest(o)] = before[Writer][Dest(o)]
    <3>1. UNCHANGED FilesSeen
      BY <2>1, <2>2, <2>3, <2>5, SeenUntilWritten DEF FilesSeen
    <3>2. QED
      BY <1>2, <2>1, <3>1, StopMaps DEF Atomic!MayDamage, Atomic!Next
  <2>6. QED
    BY <1>3, <2>1, <2>4, <2>5 DEF PassInv
<1>4. CASE pc[Writer] \notin {"truncate", "fill"}
  <2>1. UNCHANGED FilesSeen
    BY <1>1, <1>4, SeenAsTheyAre
  <2>2. CASE Phase = "off"
    BY <1>2, <2>1, <2>2 DEF Invocation, Atomic!vars
  <2>3. CASE Phase # "off"
    BY <1>2, <2>1, <2>3, StopMaps DEF Atomic!MayDamage, Atomic!Next
  <2>4. QED
    BY <2>2, <2>3
<1>5. QED
  BY <1>3, <1>4

-----------------------------------------------------------------------------
(* The steps of the one process that writes, and of the others.            *)

LEMMA WriterMaps ==
  ASSUME BackupsBeside, MapInv, Writer \in Procs \ DryRuns,
         Start(Writer) \/ Step(Writer) \/ Crash(Writer)
  PROVE  [Atomic!Next]_(Atomic!vars)
<1> USE DEF MapInv
<1>1. CASE Start(Writer)
  BY <1>1, StartMaps
<1>2. CASE Cache(Writer)
  BY <1>2, CacheMaps
<1>3. CASE BeginPass(Writer)
  <2>1. pc[Writer] \in {"cache", "waiting"}
    BY <1>3 DEF BeginPass
  <2>2. QED
    BY <1>3, <2>1, BeginMaps, BeginAgainMaps DEF Atomic!Next
<1>4. CASE EndPass(Writer)
  BY <1>4, EndMaps DEF Atomic!Next
<1>5. CASE Apply(Writer) \/ CopyOpen(Writer) \/ CopyData(Writer)
  BY <1>5, ApplyMaps, CopyMaps
<1>6. CASE Compare(Writer) \/ Truncate(Writer) \/ Fill(Writer)
  BY <1>6, CompareMaps, TruncateMaps, FillMaps
<1>7. CASE Crash(Writer)
  BY <1>7, CrashMaps
<1>8. QED
  BY <1>1, <1>2, <1>3, <1>4, <1>5, <1>6, <1>7 DEF Step

LEMMA OtherMaps ==
  ASSUME MapInv, Writer \in Procs, NEW q \in Procs \ {Writer}, q \in DryRuns,
         Start(q) \/ Step(q) \/ Crash(q)
  PROVE  UNCHANGED Atomic!vars
<1>1. UNCHANGED fs
  BY DryStep DEF MapInv
<1>2. pc'[Writer] = pc[Writer] /\ op'[Writer] = op[Writer] /\ first'[Writer] = first[Writer]
  BY OthersProgress DEF MapInv
<1>3. /\ env'[Writer] = env[Writer] /\ data'[Writer] = data[Writer]
      /\ changed'[Writer] = changed[Writer] /\ before'[Writer] = before[Writer]
  BY OthersKeep DEF MapInv
<1>4. UNCHANGED FilesSeen
  BY <1>1, <1>2, <1>3 DEF FilesSeen
<1>5. UNCHANGED Phase /\ UNCHANGED Templates
  BY <1>2, <1>3 DEF Phase, PassEnded, Templates, Template
<1>6. UNCHANGED Invocation
  BY <1>2, <1>3, <1>5 DEF Invocation, Templates
<1>7. QED
  BY <1>4, <1>6 DEF Atomic!vars

LEMMA RoundInit == Writer \in Procs /\ Init => RoundInv
BY DEF Init, RoundInv

LEMMA RoundNext ==
  ASSUME TypeInv, Writer \in Procs, RoundInv, [Next]_vars PROVE RoundInv'
<1> USE DEF TypeInv
<1>1. CASE UNCHANGED vars
  BY <1>1 DEF vars, passVars, RoundInv
<1>2. CASE Start(Writer) \/ Cache(Writer) \/ BeginPass(Writer) \/ EndPass(Writer) \/ Crash(Writer)
  BY <1>2 DEF Start, Cache, BeginPass, EndPass, Crash, TypeOK, passVars, RoundInv
<1>3. CASE \/ Apply(Writer) \/ CopyOpen(Writer) \/ CopyData(Writer)
           \/ Compare(Writer) \/ Truncate(Writer) \/ Fill(Writer)
  BY <1>3, OperationStep DEF RoundInv, Midway
<1>4. ASSUME NEW q \in Procs \ {Writer}, Start(q) \/ Step(q) \/ Crash(q) PROVE RoundInv'
  BY <1>4, OthersProgress DEF RoundInv
<1>5. QED
  BY <1>1, <1>2, <1>3, <1>4 DEF Next, Step

LEMMA InitMaps == ASSUME BackupsBeside, Writer \in Procs, Init PROVE Atomic!Init
<1>1. pc[Writer] = "down" /\ \A f \in Files : fs[f] \in Text \union {Absent}
  BY DEF Init
<1>2. Phase = "off"
  BY <1>1, PhaseFacts
<1>3. \A f \in Atomic!Observed : f \in Files /\ FilesSeen[f] = fs[f]
  BY <1>1, ObservedFiles DEF FilesSeen
<1>4. FilesSeen \in [Atomic!Observed -> Text \union {Absent}]
  BY <1>1, <1>3, ObservedFiles DEF FilesSeen
<1>5. QED
  BY <1>2, <1>4 DEF Invocation, Atomic!Init, Atomic!NoRun

\* A process that writes alone, with any number of dry runs beside it, implements
\* AtomicPlan, whatever fails and whenever it is killed, for every plan that makes
\* its backups beside its destinations and reads standard input once: between two
\* operations the files are what whole operations, done in order, have made of them.
THEOREM PlanImplementsAtomicPlan ==
  ASSUME NEW p \in Procs, OneWriter(p), BackupsBeside, StdInOnce
  PROVE  Spec => ImplementsAtomicPlan
<1>1. Writer = p /\ Writer \in Procs \ DryRuns /\ OneWriter(Writer)
  BY WriterWrites DEF OneWriter
<1>2. Init => Atomic!Init
  BY <1>1, InitMaps
<1>3. Spec => []RoundInv
  <2>1. Init => RoundInv
    BY <1>1, RoundInit
  <2>2. TypeInv /\ RoundInv /\ [Next]_vars => RoundInv'
    BY <1>1, RoundNext
  <2>3. QED
    BY <2>1, <2>2, TypeAlways, PTL DEF Spec
<1>4. PassInv(p) /\ CacheInv(p) => PassInv(Writer) /\ CacheInv(Writer)
  BY <1>1
<1>5. Spec => [](PassInv(Writer) /\ CacheInv(Writer))
  BY <1>4, PassAlways, CacheAlways, PTL
<1>6. MapInv /\ [Next]_vars => [Atomic!Next]_(Atomic!vars)
  <2> SUFFICES ASSUME MapInv, [Next]_vars PROVE [Atomic!Next]_(Atomic!vars)
    OBVIOUS
  <2>1. CASE UNCHANGED vars
    BY <2>1 DEF vars, fileVars, passVars, histVars, Atomic!vars, FilesSeen, Invocation, Phase,
                PassEnded, Template
  <2>2. CASE Start(Writer) \/ Step(Writer) \/ Crash(Writer)
    BY <1>1, <2>2, WriterMaps
  <2>3. ASSUME NEW q \in Procs \ {Writer}, Start(q) \/ Step(q) \/ Crash(q)
        PROVE  UNCHANGED Atomic!vars
    <3>1. q \in DryRuns
      BY <1>1 DEF OneWriter
    <3>2. QED
      BY <1>1, <2>3, <3>1, OtherMaps
  <2>4. QED
    BY <2>1, <2>2, <2>3 DEF Next
<1>7. Spec => []MapInv
  BY <1>3, <1>5, TypeAlways, DryAlways, PTL DEF MapInv
<1>8. QED
  BY <1>2, <1>6, <1>7, PTL DEF Spec, ImplementsAtomicPlan, Atomic!Spec
=============================================================================
