------------------------- MODULE TemplatePlanProofs -------------------------
(***************************************************************************)
(* What holds of the execution of every plan, with every rendering, by     *)
(* any number of processes, and what holds when only one of them writes.   *)
(***************************************************************************)
EXTENDS TemplatePlan, TLAPS

Midway  == {"copy", "copying", "write", "truncate", "fill"}
Running == {"apply", "waiting"} \union Midway

\* What the types rest on: the templates are cached before the first pass, and
\* an operation under way has a rendering, and files to write to.
ReadyAt(p) ==
  /\ due[p] \subseteq {o \in Ops : Backup(o) # NoBackup}
  /\ pc[p] = "cache" => \A q \in Ops : q < op[p] => env[p][Src(q)] \in Text
  /\ pc[p] \in Running => \A q \in Ops : env[p][Src(q)] \in Text
  /\ pc[p] \in Midway => op[p] \in Ops /\ Target(p, op[p]) \in Text
  /\ pc[p] \in {"copy", "copying"} => Backup(op[p]) # NoBackup /\ Src(op[p]) # StdIn
  /\ pc[p] \in {"truncate", "fill"} => Dest(op[p]) # StdOut

Ready == \A p \in Procs : ReadyAt(p)

TypeInv == TypeOK /\ Ready

LEMMA PlanFacts ==
  /\ Len(Plan) \in Nat
  /\ Ops \subseteq Nat
  /\ \A o \in Ops : /\ Src(o) \in Sources
                    /\ Dest(o) \in Files \union {StdOut}
                    /\ Backup(o) \in Files \union {NoBackup}
                    /\ Backup(o) # NoBackup /\ Src(o) # StdIn =>
                         Src(o) = Dest(o) /\ Src(o) \in Files /\ Backup(o) # Src(o)
  /\ Files \subseteq Sources /\ StdIn \in Sources /\ StdIn \notin Files
  /\ \A n \in 1 .. Len(Plan) + 1 : n \in Ops => n + 1 \in 1 .. Len(Plan) + 1
  /\ 1 \in 1 .. Len(Plan) + 1
<1>1. Len(Plan) \in Nat /\ \A o \in Ops : Plan[o] \in Operation
  BY TemplatePlanAssumption DEF TemplatePlanAssumption, Ops
<1>2. Ops \subseteq Nat /\ 1 \in 1 .. Len(Plan) + 1
      /\ \A n \in 1 .. Len(Plan) + 1 : n \in Ops => n + 1 \in 1 .. Len(Plan) + 1
  BY <1>1, SMT DEF Ops
<1>3. \A o \in Ops : Src(o) \in Sources /\ Dest(o) \in Files \union {StdOut}
                     /\ Backup(o) \in Files \union {NoBackup}
  BY <1>1 DEF Operation, Src, Dest, Backup, Sources
<1>4. QED
  BY <1>1, <1>2, <1>3, ValidatedPlan, OperationsAssumption
     DEF Src, Dest, Backup, Sources, Ops, ValidatedPlan, Validated, InPlaceOrNoBackup,
         OperationsAssumption

LEMMA TypeInit == Init => TypeInv
<1> SUFFICES ASSUME Init PROVE TypeInv
  OBVIOUS
<1> USE PlanFacts, TemplatePlanAssumption DEF TemplatePlanAssumption
<1>1. fs \in [Files -> Text \union {Absent}]
  BY DEF Init
<1>2. TypeOK
  BY <1>1 DEF Init, TypeOK, Stopped
<1>3. Ready
  BY DEF Init, Ready, ReadyAt, Running, Midway
<1>4. QED
  BY <1>2, <1>3 DEF TypeInv

-----------------------------------------------------------------------------
(* How apply returns and fails.                                            *)

LEMMA ReturnType ==
  ASSUME TypeOK, NEW p \in Procs, op[p] \in Ops,
         (\E c \in BOOLEAN : Return(p, c)) \/ Fail(p)
  PROVE  /\ pc' \in [Procs -> {"cache", "apply", "copy", "copying", "write", "truncate", "fill", "waiting"}
                                 \union Stopped]
         /\ op' \in [Procs -> 1 .. Len(Plan) + 1]
         /\ changed' \in [Procs -> SUBSET Ops]
         /\ spoiled' \in [Procs -> SUBSET Ops]
         /\ pc'[p] \in {"apply", "failed"}
         /\ \A q \in Procs \ {p} : pc'[q] = pc[q] /\ op'[q] = op[q]
<1>1. op[p] + 1 \in 1 .. Len(Plan) + 1
  BY PlanFacts DEF TypeOK
<1>2. CASE \E c \in BOOLEAN : Return(p, c)
  BY <1>1, <1>2 DEF Return, TypeOK, Stopped
<1>3. CASE Fail(p)
  BY <1>1, <1>3 DEF Fail, TypeOK, Stopped
<1>4. QED
  BY <1>2, <1>3

LEMMA ProceedType ==
  ASSUME TypeOK, NEW p \in Procs, NEW step \in Midway, Proceed(p, step)
  PROVE  /\ pc' \in [Procs -> {"cache", "apply", "copy", "copying", "write", "truncate", "fill", "waiting"}
                                 \union Stopped]
         /\ UNCHANGED <<op, changed, spoiled>>
         /\ pc'[p] = step
         /\ \A q \in Procs \ {p} : pc'[q] = pc[q]
BY DEF Proceed, TypeOK, Midway

\* Writing a text to a file.
LEMMA WriteType ==
  ASSUME TypeOK, NEW f \in Files, NEW t \in Text \union {Absent}, fs' = [fs EXCEPT ![f] = t]
  PROVE  /\ fs' \in [Files -> Text \union {Absent}]
         /\ fs'[f] = t
         /\ \A g \in Files \ {f} : fs'[g] = fs[g]
BY DEF TypeOK

\* A process that a step leaves alone stays ready.
LEMMA ReadyFrame ==
  ASSUME NEW q \in Procs, ReadyAt(q),
         pc'[q] = pc[q], op'[q] = op[q], env'[q] = env[q], due'[q] = due[q], data'[q] = data[q]
  PROVE  ReadyAt(q)'
BY DEF ReadyAt, Target, Template

\* A rendering without error is a text.
LEMMA TargetIsText ==
  ASSUME TypeOK, NEW p \in Procs, NEW o \in Ops, env[p][Src(o)] \in Text, Renders(p, o)
  PROVE  Target(p, o) \in Text
BY TemplatePlanAssumption DEF TypeOK, Renders, Target, Template, TemplatePlanAssumption

\* After apply has returned or failed, the process is ready for the next operation.
LEMMA ReadyAfter ==
  ASSUME TypeOK, NEW p \in Procs, ReadyAt(p), pc[p] \in Running,
         pc'[p] \in {"apply", "waiting", "failed"}, UNCHANGED env, due'[p] \subseteq due[p]
  PROVE  ReadyAt(p)'
BY DEF ReadyAt, Running, Midway

-----------------------------------------------------------------------------
(* The types, one action after the other.                                  *)

LEMMA TypeStart == ASSUME TypeInv, NEW p \in Procs, Start(p) PROVE TypeInv'
<1> USE DEF TypeInv
<1>1. TypeOK'
  BY PlanFacts, TemplatePlanAssumption DEF Start, TypeOK, Stopped, Sources, TemplatePlanAssumption
<1>2. ReadyAt(p)'
  <2>1. pc'[p] = "cache" /\ op'[p] = 1 /\ due'[p] = {o \in Ops : Backup(o) # NoBackup}
    BY DEF Start, TypeOK
  <2>2. \A q \in Ops : ~ (q < 1)
    BY PlanFacts, SMT DEF Ops
  <2>3. QED
    BY <2>1, <2>2 DEF ReadyAt, Running, Midway
<1>3. ASSUME NEW q \in Procs \ {p} PROVE ReadyAt(q)'
  BY ReadyFrame DEF Start, TypeOK, Ready
<1>4. QED
  BY <1>1, <1>2, <1>3 DEF Ready

LEMMA TypeCache == ASSUME TypeInv, NEW p \in Procs, Cache(p) PROVE TypeInv'
<1> USE DEF TypeInv
<1>1. op[p] \in Ops /\ Src(op[p]) \in Sources /\ op[p] + 1 \in 1 .. Len(Plan) + 1
  BY PlanFacts DEF Cache, TypeOK
<1> DEFINE s == Src(op[p])
           t == IF s = StdIn THEN stdin[p] ELSE fs[s]
<1>2. t \in Text \union {Absent}
  BY <1>1 DEF TypeOK, Sources
<1>3. CASE /\ t # Absent
           /\ env' = [env EXCEPT ![p][s] = t]
           /\ stdin' = IF s = StdIn THEN [stdin EXCEPT ![p] = Empty] ELSE stdin
           /\ op' = [op EXCEPT ![p] = @ + 1]
           /\ UNCHANGED pc
  <2>1. /\ env' \in [Procs -> [Sources -> Text \union {Absent}]]
        /\ env'[p][s] = t
        /\ \A r \in Sources \ {s} : env'[p][r] = env[p][r]
        /\ \A q \in Procs \ {p} : env'[q] = env[q]
    BY <1>1, <1>2, <1>3 DEF TypeOK
  <2>2. TypeOK'
    BY <1>1, <1>3, <2>1, TemplatePlanAssumption
       DEF Cache, TypeOK, passVars, histVars, TemplatePlanAssumption
  <2>3. ASSUME NEW q \in Ops, q < op'[p] PROVE env'[p][Src(q)] \in Text
    <3>1. CASE Src(q) = s
      BY <1>2, <1>3, <2>1, <3>1
    <3>2. CASE Src(q) # s
      <4>1. q < op[p]
        <5>1. q # op[p]
          BY <3>2
        <5>2. op'[p] = op[p] + 1
          BY <1>3 DEF TypeOK
        <5>3. QED
          BY <2>3, <5>1, <5>2, PlanFacts, SMT DEF TypeOK
      <4>2. QED
        BY <2>1, <3>2, <4>1, PlanFacts DEF Ready, ReadyAt, Cache
    <3>3. QED
      BY <3>1, <3>2
  <2>4. ReadyAt(p)'
    BY <1>3, <2>3 DEF Cache, Ready, ReadyAt, Running, Midway
  <2>5. ASSUME NEW q \in Procs \ {p} PROVE ReadyAt(q)'
    BY <1>3, <2>1, ReadyFrame DEF Cache, TypeOK, Ready, passVars
  <2>6. QED
    BY <2>2, <2>4, <2>5 DEF Ready
<1>4. CASE pc' = [pc EXCEPT ![p] = "failed"] /\ UNCHANGED <<env, stdin, op>>
  <2>1. TypeOK'
    BY <1>4 DEF Cache, TypeOK, Stopped, passVars, histVars
  <2>2. ReadyAt(p)'
    BY <1>4 DEF Cache, TypeOK, Ready, ReadyAt, Running, Midway
  <2>3. ASSUME NEW q \in Procs \ {p} PROVE ReadyAt(q)'
    BY <1>4, ReadyFrame DEF Cache, TypeOK, Ready, passVars
  <2>4. QED
    BY <2>1, <2>2, <2>3 DEF Ready
<1>5. QED
  BY <1>3, <1>4 DEF Cache

LEMMA TypeBeginPass == ASSUME TypeInv, NEW p \in Procs, BeginPass(p) PROVE TypeInv'
<1> USE DEF TypeInv
<1>1. TypeOK'
  BY PlanFacts DEF BeginPass, TypeOK, Stopped, fileVars
<1>2. ASSUME NEW q \in Ops PROVE env[p][Src(q)] \in Text
  <2>1. CASE pc[p] = "waiting"
    BY <2>1 DEF Ready, ReadyAt, Running
  <2>2. CASE pc[p] = "cache" /\ op[p] \notin Ops
    <3>1. q < op[p]
      BY <2>2, PlanFacts, SMT DEF TypeOK, Ops
    <3>2. QED
      BY <2>2, <3>1 DEF Ready, ReadyAt
  <2>3. QED
    BY <2>1, <2>2 DEF BeginPass
<1>3. ReadyAt(p)'
  BY <1>2 DEF BeginPass, TypeOK, Ready, ReadyAt, Running, Midway
<1>4. ASSUME NEW q \in Procs \ {p} PROVE ReadyAt(q)'
  BY ReadyFrame DEF BeginPass, TypeOK, Ready
<1>5. QED
  BY <1>1, <1>3, <1>4 DEF Ready

LEMMA TypeEndPass == ASSUME TypeInv, NEW p \in Procs, EndPass(p) PROVE TypeInv'
<1> USE DEF TypeInv
<1>1. TypeOK'
  BY DEF EndPass, TypeOK, Stopped, fileVars, histVars
<1>2. ReadyAt(p)'
  BY DEF EndPass, TypeOK, Ready, ReadyAt, Running, Midway
<1>3. ASSUME NEW q \in Procs \ {p} PROVE ReadyAt(q)'
  BY ReadyFrame DEF EndPass, TypeOK, Ready
<1>4. QED
  BY <1>1, <1>2, <1>3 DEF Ready

LEMMA TypeCrash == ASSUME TypeInv, NEW p \in Procs, Crash(p) PROVE TypeInv'
<1> USE DEF TypeInv
<1>1. TypeOK'
  BY DEF Crash, TypeOK, Stopped, fileVars, passVars, histVars
<1>2. ReadyAt(p)'
  BY DEF Crash, TypeOK, Ready, ReadyAt, Running, Midway
<1>3. ASSUME NEW q \in Procs \ {p} PROVE ReadyAt(q)'
  BY ReadyFrame DEF Crash, TypeOK, Ready, passVars
<1>4. QED
  BY <1>1, <1>2, <1>3 DEF Ready

LEMMA TypeApply == ASSUME TypeInv, NEW p \in Procs, Apply(p) PROVE TypeInv'
<1> USE DEF TypeInv
<1> DEFINE o == op[p]
<1>0. o \in Ops /\ pc[p] \in Running /\ UNCHANGED <<fileVars, env, passVars, histVars>>
  BY DEF Apply, Running
<1>1. due' \in [Procs -> SUBSET Ops] /\ due'[p] \subseteq due[p]
      /\ \A q \in Procs \ {p} : due'[q] = due[q]
  <2>1. CASE UNCHANGED due
    BY <2>1 DEF TypeOK
  <2>2. CASE due' = [due EXCEPT ![p] = @ \ {o}]
    BY <2>2 DEF TypeOK
  <2>3. QED
    BY <2>1, <2>2 DEF Apply
<1>2. CASE (\E c \in BOOLEAN : Return(p, c)) \/ Fail(p)
  <2>1. TypeOK'
    BY <1>0, <1>1, <1>2, ReturnType DEF TypeOK, fileVars, passVars, histVars
  <2>2. ReadyAt(p)'
    BY <1>0, <1>1, <1>2, ReturnType, ReadyAfter DEF Ready
  <2>3. ASSUME NEW q \in Procs \ {p} PROVE ReadyAt(q)'
    BY <1>0, <1>1, <1>2, ReturnType, ReadyFrame DEF Ready, passVars
  <2>4. QED
    BY <2>1, <2>2, <2>3 DEF Ready
<1>3. CASE Renders(p, o) /\ \/ o \in due[p] /\ Src(o) # StdIn /\ Proceed(p, "copy")
                            \/ Proceed(p, "write")
  <2>1. PICK step \in {"copy", "write"} : Proceed(p, step) /\ (step = "copy" => o \in due[p] /\ Src(o) # StdIn)
    BY <1>3
  <2>2. /\ pc' \in [Procs -> {"cache", "apply", "copy", "copying", "write", "truncate", "fill", "waiting"}
                               \union Stopped]
        /\ UNCHANGED <<op, changed, spoiled>>
        /\ pc'[p] = step
        /\ \A q \in Procs \ {p} : pc'[q] = pc[q]
    BY <2>1, ProceedType DEF Midway
  <2>3. TypeOK'
    BY <1>0, <1>1, <2>2 DEF TypeOK, fileVars, passVars, histVars
  <2>4. Target(p, o) \in Text
    BY <1>0, <1>3, TargetIsText DEF Ready, ReadyAt
  <2>5. Target(p, o)' = Target(p, o)
    BY <1>0, <2>2 DEF Target, Template, passVars
  <2>6. ReadyAt(p)'
    BY <1>0, <1>1, <2>1, <2>2, <2>4, <2>5 DEF Ready, ReadyAt, Running, Midway
  <2>7. ASSUME NEW q \in Procs \ {p} PROVE ReadyAt(q)'
    BY <1>0, <1>1, <2>2, ReadyFrame DEF Ready, passVars
  <2>8. QED
    BY <2>3, <2>6, <2>7 DEF Ready
<1>4. QED
  BY <1>2, <1>3 DEF Apply, MayBackup

\* The last steps of an operation leave due alone; what they share.
LEMMA TypeStep ==
  ASSUME TypeInv, NEW p \in Procs, pc[p] \in Midway, UNCHANGED <<stdin, env, due, passVars, histVars>>,
         fs' \in [Files -> Text \union {Absent}],
         \/ (\E c \in BOOLEAN : Return(p, c)) \/ Fail(p)
         \/ \E step \in Midway :
              /\ Proceed(p, step)
              /\ step \in {"copy", "copying"} => Backup(op[p]) # NoBackup /\ Src(op[p]) # StdIn
              /\ step \in {"truncate", "fill"} => Dest(op[p]) # StdOut
  PROVE  TypeInv'
<1> USE DEF TypeInv
<1>1. op[p] \in Ops /\ pc[p] \in Running
  BY DEF Ready, ReadyAt, Running
<1>2. CASE (\E c \in BOOLEAN : Return(p, c)) \/ Fail(p)
  <2>1. TypeOK'
    BY <1>1, <1>2, ReturnType DEF TypeOK, passVars, histVars
  <2>2. ReadyAt(p)'
    BY <1>1, <1>2, ReturnType, ReadyAfter DEF Ready
  <2>3. ASSUME NEW q \in Procs \ {p} PROVE ReadyAt(q)'
    BY <1>1, <1>2, ReturnType, ReadyFrame DEF Ready, passVars
  <2>4. QED
    BY <2>1, <2>2, <2>3 DEF Ready
<1>3. CASE \E step \in Midway :
             /\ Proceed(p, step)
             /\ step \in {"copy", "copying"} => Backup(op[p]) # NoBackup /\ Src(op[p]) # StdIn
             /\ step \in {"truncate", "fill"} => Dest(op[p]) # StdOut
  <2>1. PICK step \in Midway :
             /\ Proceed(p, step)
             /\ step \in {"copy", "copying"} => Backup(op[p]) # NoBackup /\ Src(op[p]) # StdIn
             /\ step \in {"truncate", "fill"} => Dest(op[p]) # StdOut
    BY <1>3
  <2>2. /\ pc' \in [Procs -> {"cache", "apply", "copy", "copying", "write", "truncate", "fill", "waiting"}
                               \union Stopped]
        /\ UNCHANGED <<op, changed, spoiled>>
        /\ pc'[p] = step
        /\ \A q \in Procs \ {p} : pc'[q] = pc[q]
    BY <2>1, ProceedType
  <2>3. TypeOK'
    BY <2>2 DEF TypeOK, passVars, histVars
  <2>4. Target(p, op[p])' = Target(p, op[p])
    BY <2>2 DEF Target, Template, passVars
  <2>5. ReadyAt(p)'
    BY <1>1, <2>1, <2>2, <2>4 DEF Ready, ReadyAt, Running, Midway
  <2>6. ASSUME NEW q \in Procs \ {p} PROVE ReadyAt(q)'
    BY <2>2, ReadyFrame DEF Ready, passVars
  <2>7. QED
    BY <2>3, <2>5, <2>6 DEF Ready
<1>4. QED
  BY <1>2, <1>3

\* The files an operation under way works on, and what it writes to them.
LEMMA OperandTypes ==
  ASSUME TypeInv, NEW p \in Procs, pc[p] \in Midway
  PROVE  /\ op[p] \in Ops /\ Target(p, op[p]) \in Text
         /\ pc[p] \in {"copy", "copying"} => Backup(op[p]) \in Files /\ Src(op[p]) \in Files
         /\ Dest(op[p]) # StdOut => Dest(op[p]) \in Files
BY PlanFacts DEF TypeInv, Ready, ReadyAt

LEMMA TypeCopyOpen == ASSUME TypeInv, NEW p \in Procs, CopyOpen(p) PROVE TypeInv'
<1>1. pc[p] = "copy" /\ pc[p] \in Midway /\ UNCHANGED <<stdin, env, due, passVars, histVars>>
  BY DEF CopyOpen, Midway
<1>2. Backup(op[p]) \in Files /\ Backup(op[p]) # NoBackup /\ Src(op[p]) # StdIn
  BY <1>1, OperandTypes DEF TypeInv, Ready, ReadyAt
<1>3. fs' \in [Files -> Text \union {Absent}]
  BY <1>2, TemplatePlanAssumption DEF CopyOpen, TypeInv, TypeOK, TemplatePlanAssumption
<1>4. Proceed(p, "copying") \/ Fail(p)
  BY DEF CopyOpen
<1>5. QED
  BY <1>1, <1>2, <1>3, <1>4, TypeStep DEF Midway

LEMMA TypeCopyData == ASSUME TypeInv, NEW p \in Procs, CopyData(p) PROVE TypeInv'
<1>1. pc[p] = "copying" /\ pc[p] \in Midway /\ UNCHANGED <<stdin, env, due, passVars, histVars>>
  BY DEF CopyData, Midway
<1>2. Backup(op[p]) \in Files /\ Src(op[p]) \in Files
  BY <1>1, OperandTypes
<1>3. fs' \in [Files -> Text \union {Absent}]
  BY <1>2, TemplatePlanAssumption DEF CopyData, TypeInv, TypeOK, TemplatePlanAssumption
<1>4. Proceed(p, "write") \/ Fail(p)
  BY DEF CopyData
<1>5. QED
  BY <1>1, <1>3, <1>4, TypeStep DEF Midway

LEMMA TypeCompare == ASSUME TypeInv, NEW p \in Procs, Compare(p) PROVE TypeInv'
<1>1. pc[p] = "write" /\ pc[p] \in Midway /\ UNCHANGED <<stdin, env, due, passVars, histVars>>
  BY DEF Compare, Midway
<1>2. Dest(op[p]) # StdOut => Dest(op[p]) \in Files
  BY <1>1, OperandTypes
<1>3. fs' \in [Files -> Text \union {Absent}]
  BY <1>2, TemplatePlanAssumption DEF Compare, Existing, TypeInv, TypeOK, TemplatePlanAssumption
<1>4. \/ (\E c \in BOOLEAN : Return(p, c)) \/ Fail(p)
      \/ Proceed(p, "truncate") /\ Dest(op[p]) # StdOut
  BY DEF Compare
<1>5. QED
  BY <1>1, <1>3, <1>4, TypeStep DEF Midway

LEMMA TypeTruncate == ASSUME TypeInv, NEW p \in Procs, Truncate(p) PROVE TypeInv'
<1>1. pc[p] = "truncate" /\ pc[p] \in Midway /\ UNCHANGED <<stdin, env, due, passVars, histVars>>
  BY DEF Truncate, Midway
<1>2. Dest(op[p]) # StdOut /\ Dest(op[p]) \in Files
  BY <1>1, OperandTypes DEF TypeInv, Ready, ReadyAt
<1>3. fs' \in [Files -> Text \union {Absent}]
  BY <1>2, TemplatePlanAssumption DEF Truncate, TypeInv, TypeOK, TemplatePlanAssumption
<1>4. Proceed(p, "fill")
  BY DEF Truncate
<1>5. QED
  BY <1>1, <1>2, <1>3, <1>4, TypeStep DEF Midway

LEMMA TypeFill == ASSUME TypeInv, NEW p \in Procs, Fill(p) PROVE TypeInv'
<1>1. pc[p] = "fill" /\ pc[p] \in Midway /\ UNCHANGED <<stdin, env, due, passVars, histVars>>
  BY DEF Fill, Midway
<1>2. Dest(op[p]) \in Files /\ Target(p, op[p]) \in Text
  BY <1>1, OperandTypes DEF TypeInv, Ready, ReadyAt
<1>3. PICK t \in Text \union {Absent} : fs' = [fs EXCEPT ![Dest(op[p])] = t]
  BY <1>2, TemplatePlanAssumption DEF Fill, TypeInv, TypeOK, TemplatePlanAssumption
<1>4. fs' \in [Files -> Text \union {Absent}]
  BY <1>2, <1>3 DEF TypeInv, TypeOK
<1>5. (\E c \in BOOLEAN : Return(p, c)) \/ Fail(p)
  BY DEF Fill
<1>6. QED
  BY <1>1, <1>4, <1>5, TypeStep

LEMMA TypeStutter == ASSUME TypeInv, UNCHANGED vars PROVE TypeInv'
BY DEF TypeInv, TypeOK, Ready, ReadyAt, Target, Template, vars, fileVars, passVars, histVars

LEMMA TypeNext == TypeInv /\ [Next]_vars => TypeInv'
<1> SUFFICES ASSUME TypeInv, [Next]_vars PROVE TypeInv'
  OBVIOUS
<1>1. CASE UNCHANGED vars
  BY <1>1, TypeStutter
<1>2. ASSUME NEW p \in Procs, Start(p) \/ Crash(p) PROVE TypeInv'
  BY <1>2, TypeStart, TypeCrash
<1>3. ASSUME NEW p \in Procs, Cache(p) \/ BeginPass(p) \/ EndPass(p) PROVE TypeInv'
  BY <1>3, TypeCache, TypeBeginPass, TypeEndPass
<1>4. ASSUME NEW p \in Procs,
             Apply(p) \/ CopyOpen(p) \/ CopyData(p) \/ Compare(p) \/ Truncate(p) \/ Fill(p)
      PROVE  TypeInv'
  BY <1>4, TypeApply, TypeCopyOpen, TypeCopyData, TypeCompare, TypeTruncate, TypeFill
<1>5. QED
  BY <1>1, <1>2, <1>3, <1>4 DEF Next, Step

LEMMA TypeAlways == Spec => []TypeInv
BY TypeInit, TypeNext, PTL DEF Spec

\* Every process that executes a plan keeps to its types, with any number of
\* processes, any plan that Cli::validate accepts and every failure: an operation
\* that is under way has a rendering without error to write, and a backup is only
\* copied for an operation that has one.
THEOREM PlanTypes == Spec => []TypeOK
BY TypeAlways, PTL DEF TypeInv

-----------------------------------------------------------------------------
(* Processes that simulate.                                                *)

DryInv == \A p \in DryRuns : pc[p] \notin Midway

\* A step of one process leaves the progress of the others alone.
LEMMA OthersProgress ==
  ASSUME TypeInv, NEW p \in Procs, Start(p) \/ Step(p) \/ Crash(p), NEW q \in Procs \ {p}
  PROVE  pc'[q] = pc[q] /\ op'[q] = op[q] /\ due'[q] = due[q] /\ first'[q] = first[q]
<1> USE DEF TypeInv
<1>1. CASE Start(p) \/ Cache(p) \/ BeginPass(p) \/ EndPass(p) \/ Crash(p)
  BY <1>1 DEF Start, Cache, BeginPass, EndPass, Crash, TypeOK, passVars
<1>2. CASE Apply(p)
  <2>1. due'[q] = due[q] /\ first'[q] = first[q]
    BY <1>2 DEF Apply, TypeOK, passVars
  <2>2. \/ (\E c \in BOOLEAN : Return(p, c)) \/ Fail(p) \/ \E step \in Midway : Proceed(p, step)
    BY <1>2 DEF Apply, Midway
  <2>3. op[p] \in Ops
    BY <1>2 DEF Apply
  <2>4. QED
    BY <2>1, <2>2, <2>3, ReturnType, ProceedType
<1>3. CASE CopyOpen(p) \/ CopyData(p) \/ Compare(p) \/ Truncate(p) \/ Fill(p)
  <2>1. UNCHANGED <<due, first>> /\ pc[p] \in Midway
    BY <1>3 DEF CopyOpen, CopyData, Compare, Truncate, Fill, passVars, Midway
  <2>2. \/ (\E c \in BOOLEAN : Return(p, c)) \/ Fail(p) \/ \E step \in Midway : Proceed(p, step)
    BY <1>3 DEF CopyOpen, CopyData, Compare, Truncate, Fill, Midway
  <2>3. op[p] \in Ops
    BY <2>1, OperandTypes
  <2>4. QED
    BY <2>1, <2>2, <2>3, ReturnType, ProceedType
<1>4. QED
  BY <1>1, <1>2, <1>3 DEF Step

\* No step of a process that simulates touches a file, or comes to one that would.
LEMMA DryStep ==
  ASSUME TypeInv, DryInv, NEW p \in DryRuns, Start(p) \/ Step(p) \/ Crash(p)
  PROVE  UNCHANGED <<fs, original>> /\ pc'[p] \notin Midway
<1> USE DEF TypeInv
<1>0. p \in Procs
  BY TemplatePlanAssumption DEF TemplatePlanAssumption
<1>1. CASE Start(p) \/ Cache(p) \/ BeginPass(p) \/ EndPass(p) \/ Crash(p)
  <2>1. UNCHANGED <<fs, original>>
    BY <1>1 DEF Start, Cache, BeginPass, EndPass, Crash, fileVars, histVars
  <2>2. pc'[p] \notin Midway
    BY <1>0, <1>1 DEF Start, Cache, BeginPass, EndPass, Crash, TypeOK, Midway, DryInv
  <2>3. QED
    BY <2>1, <2>2
<1>2. CASE Apply(p)
  <2>1. UNCHANGED <<fs, original>> /\ op[p] \in Ops
    BY <1>2 DEF Apply, fileVars, histVars
  <2>2. Return(p, FALSE) \/ Fail(p)
    BY <1>2 DEF Apply, Simulates
  <2>3. QED
    BY <1>0, <2>1, <2>2, ReturnType DEF Midway
<1>3. CASE CopyOpen(p) \/ CopyData(p) \/ Compare(p) \/ Truncate(p) \/ Fill(p)
  BY <1>3 DEF CopyOpen, CopyData, Compare, Truncate, Fill, DryInv, Midway
<1>4. QED
  BY <1>1, <1>2, <1>3 DEF Step

LEMMA DryAlways == Spec => []DryInv
<1>1. Init => DryInv
  BY TemplatePlanAssumption DEF Init, DryInv, Midway, TemplatePlanAssumption
<1>2. TypeInv /\ DryInv /\ [Next]_vars => DryInv'
  <2> SUFFICES ASSUME TypeInv, DryInv, [Next]_vars, NEW q \in DryRuns PROVE pc'[q] \notin Midway
    BY DEF DryInv
  <2>1. CASE UNCHANGED vars
    BY <2>1 DEF vars, DryInv
  <2>2. ASSUME NEW p \in Procs, Start(p) \/ Step(p) \/ Crash(p) PROVE pc'[q] \notin Midway
    <3>1. CASE p = q
      BY <2>2, <3>1, DryStep
    <3>2. CASE p # q
      BY <2>2, <3>2, OthersProgress, TemplatePlanAssumption DEF DryInv, TemplatePlanAssumption
    <3>3. QED
      BY <3>1, <3>2
  <2>3. QED
    BY <2>1, <2>2 DEF Next
<1>3. QED
  BY <1>1, <1>2, TypeAlways, PTL DEF Spec

\* Among any number of processes, with any plan, those with --dry-run change no
\* file: no step of theirs comes to a backup, or to opening a destination.
THEOREM DryRunsChangeNothing == Spec => DryRunChangesNothing
<1>1. TypeInv /\ DryInv /\ [Next]_vars =>
        [\A p \in DryRuns : pc'[p] # pc[p] \/ op'[p] # op[p] => UNCHANGED fs]_vars
  <2> SUFFICES ASSUME TypeInv, DryInv, [Next]_vars, NEW q \in DryRuns,
                      pc'[q] # pc[q] \/ op'[q] # op[q]
               PROVE  UNCHANGED fs
    OBVIOUS
  <2>1. CASE UNCHANGED vars
    BY <2>1 DEF vars, fileVars
  <2>2. ASSUME NEW p \in Procs, Start(p) \/ Step(p) \/ Crash(p) PROVE UNCHANGED fs
    <3>1. p = q
      BY <2>2, OthersProgress, TemplatePlanAssumption DEF TemplatePlanAssumption
    <3>2. QED
      BY <2>2, <3>1, DryStep
  <2>3. QED
    BY <2>1, <2>2 DEF Next
<1>2. QED
  BY <1>1, TypeAlways, DryAlways, PTL DEF Spec, DryRunChangesNothing

-----------------------------------------------------------------------------
(* The original text survives, when one process at a time executes the     *)
(* plan for real and no operation writes to the backup of another.         *)

BackupsApart ==
  \A o, q \in Ops : o # q /\ Backup(o) # NoBackup =>
    Backup(o) # Dest(q) /\ Backup(o) # Backup(q)

\* The operations that have an original text to lose.
Guarded == {o \in Ops : Backup(o) # NoBackup /\ Src(o) \in Files /\ original[Src(o)] # Absent}

Copying(p, o) == pc[p] \in {"copy", "copying"} /\ op[p] = o

\* Once the backup of an operation is no longer due it holds the original text,
\* except while it is being copied, when the file itself still does; and a backup
\* that could not be made ends the program, because it is due in the initial pass
\* only.
BackupInv(p) ==
  /\ \A o \in Guarded : original[Src(o)] \in {fs[Src(o)], fs[Backup(o)]}
  /\ pc[p] \in Running =>
       \A o \in Guarded \ due[p] :
         IF Copying(p, o) THEN fs[Src(o)] = original[Src(o)]
                          ELSE fs[Backup(o)] = original[Src(o)]
  /\ pc[p] = "cache" => first[p] /\ due[p] = {o \in Ops : Backup(o) # NoBackup}
  /\ pc[p] \in Midway => p \notin DryRuns /\ op[p] \notin due[p]
  /\ pc[p] \in {"copy", "copying"} => first[p]
  /\ p \notin DryRuns /\ pc[p] \in Running =>
       /\ first[p] \/ due[p] = {}
       /\ \A q \in Ops : q < op[p] => q \notin due[p]

LEMMA GuardedFiles ==
  ASSUME NEW o \in Guarded
  PROVE  o \in Ops /\ Src(o) \in Files /\ Dest(o) = Src(o) /\ Backup(o) \in Files
         /\ Backup(o) # Src(o) /\ Backup(o) # NoBackup /\ original[Src(o)] # Absent
BY PlanFacts, TemplatePlanAssumption DEF Guarded, TemplatePlanAssumption

\* A step of one operation leaves the file and the backup of another alone.
LEMMA OthersUntouched ==
  ASSUME BackupsApart, TypeInv, NEW q \in Ops, NEW o \in Guarded, o # q,
         NEW f \in Files, f \in {Dest(q)} \union {Backup(q)},
         NEW t \in Text \union {Absent}, fs' = [fs EXCEPT ![f] = t]
  PROVE  fs'[Src(o)] = fs[Src(o)] /\ fs'[Backup(o)] = fs[Backup(o)]
<1>1. Dest(q) # Dest(o) /\ Dest(q) # Backup(o)
  BY GuardedFiles, ValidatedPlan DEF BackupsApart, Dest, Ops, ValidatedPlan, Validated, DestinationsUnique
<1>2. f = Backup(q) => Backup(q) # NoBackup
  BY OperationsAssumption DEF OperationsAssumption
<1>3. f = Backup(q) => f # Backup(o) /\ f # Dest(o)
  BY <1>2, GuardedFiles DEF BackupsApart
<1>4. f # Src(o) /\ f # Backup(o)
  BY <1>1, <1>3, GuardedFiles
<1>5. QED
  BY <1>4, GuardedFiles, WriteType DEF TypeInv

LEMMA BackupInit == ASSUME NEW p \in Procs, Init PROVE BackupInv(p)
BY DEF Init, BackupInv, Guarded, Running, Midway

LEMMA BackupCalm ==
  ASSUME TypeInv, NEW p \in Procs, BackupInv(p),
         Start(p) \/ Cache(p) \/ BeginPass(p) \/ EndPass(p) \/ Crash(p)
  PROVE  BackupInv(p)'
<1> USE DEF TypeInv
<1>0. UNCHANGED <<fs, original>> /\ Guarded' = Guarded
  BY DEF Start, Cache, BeginPass, EndPass, Crash, fileVars, histVars, Guarded
<1>1. CASE Start(p)
  <2>1. pc'[p] = "cache" /\ first'[p] /\ due'[p] = {o \in Ops : Backup(o) # NoBackup}
    BY <1>1 DEF Start, TypeOK
  <2>2. QED
    BY <1>0, <2>1 DEF BackupInv, Running, Midway
<1>2. CASE Cache(p)
  <2>1. pc'[p] \in {"cache", "failed"} /\ UNCHANGED <<first, due>> /\ pc[p] = "cache"
    BY <1>2 DEF Cache, TypeOK, passVars
  <2>2. QED
    BY <1>0, <2>1 DEF BackupInv, Running, Midway
<1>3. CASE BeginPass(p)
  <2>1. pc'[p] = "apply" /\ op'[p] = 1 /\ UNCHANGED <<first, due>> /\ pc[p] \in {"cache", "waiting"}
    BY <1>3 DEF BeginPass, TypeOK
  <2>2. \A q \in Ops : ~ (q < 1)
    BY PlanFacts, SMT DEF Ops
  <2>3. pc[p] = "cache" => Guarded \ due[p] = {}
    BY DEF BackupInv, Guarded
  <2>4. QED
    BY <1>0, <2>1, <2>2, <2>3 DEF BackupInv, Running, Midway, Copying
<1>4. CASE EndPass(p)
  <2>1. pc'[p] \in {"waiting", "exited"} /\ pc[p] = "apply" /\ UNCHANGED <<op, due>> /\ op[p] \notin Ops
    BY <1>4 DEF EndPass, TypeOK
  <2>2. \A q \in Ops : q < op[p]
    BY <2>1, PlanFacts, SMT DEF TypeOK, Ops
  <2>3. p \notin DryRuns => due[p] = {}
    BY <2>1, <2>2 DEF BackupInv, Running, TypeOK
  <2>4. QED
    BY <1>0, <2>1, <2>3 DEF BackupInv, Running, Midway, Copying
<1>5. CASE Crash(p)
  <2>1. pc'[p] = "down"
    BY <1>5 DEF Crash, TypeOK
  <2>2. QED
    BY <1>0, <2>1 DEF BackupInv, Running, Midway
<1>6. QED
  BY <1>1, <1>2, <1>3, <1>4, <1>5

\* When an operation under way returns, fails or goes on, and the files still
\* keep what was kept.
LEMMA BackupReturn ==
  ASSUME TypeInv, NEW p \in Procs, BackupInv(p), pc[p] \in Running, op[p] \in Ops,
         (\E c \in BOOLEAN : Return(p, c)) \/ Fail(p),
         UNCHANGED <<first, original>>, due'[p] \subseteq due[p],
         \A o \in Guarded : original[Src(o)] \in {fs'[Src(o)], fs'[Backup(o)]},
         pc'[p] = "apply" => /\ p \notin DryRuns => op[p] \notin due'[p]
                             /\ \A o \in Guarded \ due'[p] : fs'[Backup(o)] = original[Src(o)]
  PROVE  BackupInv(p)'
<1>1. pc'[p] \in {"apply", "failed"}
  BY ReturnType DEF TypeInv
<1>2. pc'[p] = "apply" => op'[p] = op[p] + 1
  BY DEF Return, Fail, TypeInv, TypeOK
<1>3. ASSUME p \notin DryRuns, pc'[p] = "apply", NEW q \in Ops, q < op'[p] PROVE q \notin due'[p]
  <2>1. q < op[p] \/ q = op[p]
    BY <1>2, <1>3, PlanFacts, SMT DEF TypeInv, TypeOK
  <2>2. QED
    BY <1>3, <2>1 DEF BackupInv
<1>4. Guarded' = Guarded
  BY DEF Guarded
<1>5. p \notin DryRuns => first'[p] \/ due'[p] = {}
  BY DEF BackupInv
<1>6. QED
  BY <1>1, <1>3, <1>4, <1>5 DEF BackupInv, Running, Midway, Copying

\* The same for a step that goes on to another point of the operation.
LEMMA BackupProceed ==
  ASSUME TypeInv, NEW p \in Procs, BackupInv(p), pc[p] \in Running,
         NEW step \in Midway, Proceed(p, step), p \notin DryRuns,
         UNCHANGED <<first, original>>, due'[p] \subseteq due[p], op[p] \notin due'[p],
         step \in {"copy", "copying"} => first[p],
         \A o \in Guarded : original[Src(o)] \in {fs'[Src(o)], fs'[Backup(o)]},
         \A o \in Guarded \ due'[p] :
           IF step \in {"copy", "copying"} /\ o = op[p]
             THEN fs'[Src(o)] = original[Src(o)]
             ELSE fs'[Backup(o)] = original[Src(o)]
  PROVE  BackupInv(p)'
<1>1. pc'[p] = step /\ UNCHANGED op
  BY ProceedType DEF TypeInv
<1>2. Guarded' = Guarded
  BY DEF Guarded
<1>3. step \in Running /\ step # "cache"
  BY DEF Running, Midway
<1>4. /\ first'[p] \/ due'[p] = {}
      /\ \A q \in Ops : q < op'[p] => q \notin due'[p]
  BY <1>1 DEF BackupInv
<1>5. QED
  BY <1>1, <1>2, <1>3, <1>4 DEF BackupInv, Copying

LEMMA BackupApply ==
  ASSUME TypeInv, NEW p \in Procs, BackupInv(p), Apply(p) PROVE BackupInv(p)'
<1> DEFINE o == op[p]
<1>0. /\ pc[p] = "apply" /\ pc[p] \in Running /\ o \in Ops
      /\ UNCHANGED <<fs, first, original>>
  BY DEF Apply, Running, fileVars, passVars, histVars
<1>1. /\ \A q \in Guarded : original[Src(q)] \in {fs'[Src(q)], fs'[Backup(q)]}
      /\ \A q \in Guarded \ due[p] : fs'[Backup(q)] = original[Src(q)]
  BY <1>0 DEF BackupInv, Copying
<1>2. CASE ~ Renders(p, o) /\ Fail(p) /\ UNCHANGED due
  <2>1. pc'[p] = "apply" => ~ first[p]
    BY <1>2 DEF Fail, TypeInv, TypeOK
  <2>2. pc'[p] = "apply" /\ p \notin DryRuns => o \notin due'[p]
    BY <1>0, <1>2, <2>1 DEF BackupInv
  <2>3. QED
    BY <1>0, <1>1, <1>2, <2>2, BackupReturn
<1>3. CASE Simulates(p, o) /\ Return(p, FALSE) /\ UNCHANGED due
  BY <1>0, <1>1, <1>3, BackupReturn DEF Simulates
<1>4. CASE /\ ~ Simulates(p, o)
           /\ o \in due[p]
           /\ due' = [due EXCEPT ![p] = @ \ {o}]
           /\ IF MayBackup(o) THEN Proceed(p, "copy") ELSE Fail(p)
  <2>1. p \notin DryRuns /\ first[p] /\ due'[p] = due[p] \ {o}
    BY <1>0, <1>4 DEF Simulates, BackupInv, TypeInv, TypeOK
  <2>2. CASE MayBackup(o) /\ Proceed(p, "copy")
    <3>1. o \in Guarded => fs'[Src(o)] = original[Src(o)]
      BY <1>0, <1>1, <2>2 DEF MayBackup, Guarded
    <3>2. QED
      BY <1>0, <1>1, <2>1, <2>2, <3>1, BackupProceed DEF Midway
  <2>3. CASE Fail(p)
    <3>1. pc'[p] = "failed"
      BY <2>1, <2>3 DEF Fail, TypeInv, TypeOK
    <3>2. QED
      BY <1>0, <1>1, <2>1, <2>3, <3>1, BackupReturn
  <2>4. QED
    BY <1>4, <2>2, <2>3
<1>5. CASE ~ Simulates(p, o) /\ o \notin due[p] /\ Proceed(p, "write") /\ UNCHANGED due
  BY <1>0, <1>1, <1>5, BackupProceed DEF Simulates, Midway
<1>6. QED
  BY <1>2, <1>3, <1>4, <1>5 DEF Apply

LEMMA BackupCopy ==
  ASSUME BackupsApart, TypeInv, NEW p \in Procs, BackupInv(p), CopyOpen(p) \/ CopyData(p)
  PROVE  BackupInv(p)'
<1> DEFINE o == op[p]
<1>0. /\ pc[p] \in {"copy", "copying"} /\ pc[p] \in Midway /\ pc[p] \in Running
      /\ UNCHANGED <<due, first, original>>
  BY DEF CopyOpen, CopyData, Midway, Running, passVars, histVars
<1>1. /\ o \in Ops /\ Backup(o) \in Files /\ Src(o) \in Files /\ Backup(o) # Src(o)
      /\ p \notin DryRuns /\ first[p] /\ o \notin due[p]
  <2>1. o \in Ops /\ Backup(o) \in Files /\ Src(o) \in Files
    BY <1>0, OperandTypes
  <2>2. Backup(o) # Src(o)
    BY <2>1, PlanFacts, OperationsAssumption DEF OperationsAssumption
  <2>3. p \notin DryRuns /\ first[p] /\ o \notin due[p]
    BY <1>0 DEF BackupInv
  <2>4. QED
    BY <2>1, <2>2, <2>3
<1>2. o \in Guarded => fs[Src(o)] = original[Src(o)]
  BY <1>0, <1>1 DEF BackupInv, Copying
<1>3. ASSUME NEW q \in Guarded \ due[p], q # o PROVE fs[Backup(q)] = original[Src(q)]
  BY <1>0, <1>3 DEF BackupInv, Copying
<1>4. ASSUME NEW t \in Text \union {Absent}, fs' = [fs EXCEPT ![Backup(o)] = t]
      PROVE  /\ \A q \in Guarded : original[Src(q)] \in {fs'[Src(q)], fs'[Backup(q)]}
             /\ \A q \in Guarded \ due[p] : q # o => fs'[Backup(q)] = original[Src(q)]
             /\ o \in Guarded => fs'[Src(o)] = original[Src(o)]
             /\ fs'[Backup(o)] = t
  <2>1. fs'[Src(o)] = fs[Src(o)] /\ fs'[Backup(o)] = t
    BY <1>1, <1>4, WriteType DEF TypeInv
  <2>2. \A q \in Guarded : q # o => fs'[Src(q)] = fs[Src(q)] /\ fs'[Backup(q)] = fs[Backup(q)]
    BY <1>1, <1>4, OthersUntouched
  <2>3. QED
    BY <1>2, <1>3, <2>1, <2>2 DEF BackupInv
<1>5. CASE Fail(p)
  <2>1. pc'[p] = "failed"
    BY <1>1, <1>5 DEF Fail, TypeInv, TypeOK
  <2>2. UNCHANGED fs \/ fs' = [fs EXCEPT ![Backup(o)] = Torn]
    BY <1>5, <2>1 DEF CopyOpen, CopyData, Proceed, TypeInv, TypeOK
  <2>3. \A q \in Guarded : original[Src(q)] \in {fs'[Src(q)], fs'[Backup(q)]}
    BY <1>4, <2>2, TemplatePlanAssumption DEF BackupInv, TemplatePlanAssumption
  <2>4. QED
    BY <1>0, <1>1, <1>5, <2>1, <2>3, BackupReturn
<1>6. CASE Proceed(p, "copying") /\ fs' = [fs EXCEPT ![Backup(o)] = Empty]
  BY <1>0, <1>1, <1>4, <1>6, BackupProceed, TemplatePlanAssumption
     DEF Midway, TemplatePlanAssumption
<1>7. CASE Proceed(p, "write") /\ fs' = [fs EXCEPT ![Backup(o)] = fs[Src(o)]]
  <2>1. fs[Src(o)] \in Text \union {Absent}
    BY <1>1 DEF TypeInv, TypeOK
  <2>2. \A q \in Guarded \ due[p] : fs'[Backup(q)] = original[Src(q)]
    BY <1>2, <1>4, <1>7, <2>1
  <2>3. QED
    BY <1>0, <1>1, <1>4, <1>7, <2>1, <2>2, BackupProceed DEF Midway
<1>8. QED
  BY <1>5, <1>6, <1>7 DEF CopyOpen, CopyData

LEMMA BackupWrite ==
  ASSUME BackupsApart, TypeInv, NEW p \in Procs, BackupInv(p),
         Compare(p) \/ Truncate(p) \/ Fill(p)
  PROVE  BackupInv(p)'
<1> DEFINE o == op[p]
<1>0. /\ pc[p] \in Midway /\ pc[p] \in Running /\ pc[p] \notin {"copy", "copying"}
      /\ UNCHANGED <<due, first, original>>
  BY DEF Compare, Truncate, Fill, Midway, Running, passVars, histVars
<1>1. o \in Ops /\ p \notin DryRuns /\ o \notin due[p] /\ Target(p, o) \in Text
  BY <1>0, OperandTypes DEF BackupInv
<1>2. \A q \in Guarded \ due[p] : fs[Backup(q)] = original[Src(q)]
  BY <1>0 DEF BackupInv, Copying
<1>3. \/ UNCHANGED fs
      \/ Dest(o) \in Files /\ \E t \in Text \union {Absent} : fs' = [fs EXCEPT ![Dest(o)] = t]
  <2>1. CASE Compare(p)
    BY <1>0, <2>1, OperandTypes, TemplatePlanAssumption
       DEF Compare, Existing, TypeInv, TypeOK, TemplatePlanAssumption
  <2>2. CASE Truncate(p) \/ Fill(p)
    <3>1. Dest(o) \in Files
      BY <1>0, <2>2, OperandTypes DEF Truncate, Fill, TypeInv, Ready, ReadyAt
    <3>2. QED
      BY <1>1, <2>2, <3>1, TemplatePlanAssumption
         DEF Truncate, Fill, TypeInv, TypeOK, TemplatePlanAssumption
  <2>3. QED
    BY <2>1, <2>2
<1>4. /\ \A q \in Guarded : original[Src(q)] \in {fs'[Src(q)], fs'[Backup(q)]}
      /\ \A q \in Guarded \ due[p] : fs'[Backup(q)] = original[Src(q)]
  <2>1. CASE UNCHANGED fs
    BY <1>2, <2>1 DEF BackupInv
  <2>2. CASE Dest(o) \in Files /\ \E t \in Text \union {Absent} : fs' = [fs EXCEPT ![Dest(o)] = t]
    <3>1. PICK t \in Text \union {Absent} : fs' = [fs EXCEPT ![Dest(o)] = t]
      BY <2>2
    <3>2. \A q \in Guarded : q # o => fs'[Src(q)] = fs[Src(q)] /\ fs'[Backup(q)] = fs[Backup(q)]
      BY <1>1, <2>2, <3>1, OthersUntouched
    <3>3. o \in Guarded => fs'[Backup(o)] = fs[Backup(o)]
      BY <2>2, <3>1, GuardedFiles, WriteType DEF TypeInv
    <3>4. QED
      BY <1>1, <1>2, <3>2, <3>3 DEF BackupInv
  <2>3. QED
    BY <1>3, <2>1, <2>2
<1>5. \/ (\E c \in BOOLEAN : Return(p, c)) \/ Fail(p)
      \/ \E step \in {"truncate", "fill"} : Proceed(p, step)
  BY DEF Compare, Truncate, Fill
<1>6. CASE (\E c \in BOOLEAN : Return(p, c)) \/ Fail(p)
  BY <1>0, <1>1, <1>4, <1>6, BackupReturn
<1>7. CASE \E step \in {"truncate", "fill"} : Proceed(p, step)
  BY <1>0, <1>1, <1>4, <1>7, BackupProceed DEF Midway
<1>8. QED
  BY <1>5, <1>6, <1>7

\* However often one process at a time executes a plan whose backups are apart,
\* whenever it is killed and whatever fails, and with any number of dry runs beside
\* it, the text that a file had before it was first rendered in place is in the
\* file or in its backup.
THEOREM OriginalsSurvive ==
  ASSUME NEW p \in Procs, Procs \ DryRuns \subseteq {p}, BackupsApart
  PROVE  Spec => []OriginalRecoverable
<1>1. Init => BackupInv(p)
  BY BackupInit
<1>2. TypeInv /\ DryInv /\ BackupInv(p) /\ [Next]_vars => BackupInv(p)'
  <2> SUFFICES ASSUME TypeInv, DryInv, BackupInv(p), [Next]_vars PROVE BackupInv(p)'
    OBVIOUS
  <2>1. CASE UNCHANGED vars
    BY <2>1 DEF vars, fileVars, passVars, histVars, BackupInv, Guarded, Copying
  <2>2. CASE Start(p) \/ Step(p) \/ Crash(p)
    BY <2>2, BackupCalm, BackupApply, BackupCopy, BackupWrite DEF Step
  <2>3. ASSUME NEW q \in Procs \ {p}, Start(q) \/ Step(q) \/ Crash(q) PROVE BackupInv(p)'
    <3>1. UNCHANGED <<fs, original>>
      BY <2>3, DryStep
    <3>2. pc'[p] = pc[p] /\ op'[p] = op[p] /\ due'[p] = due[p] /\ first'[p] = first[p]
      BY <2>3, OthersProgress
    <3>3. QED
      BY <3>1, <3>2 DEF BackupInv, Guarded, Copying
  <2>4. QED
    BY <2>1, <2>2, <2>3 DEF Next
<1>3. BackupInv(p) => OriginalRecoverable
  BY DEF BackupInv, Guarded, OriginalRecoverable
<1>4. QED
  BY <1>1, <1>2, <1>3, TypeAlways, DryAlways, PTL DEF Spec
=============================================================================
