----------------------------- MODULE PassProofs -----------------------------
(***************************************************************************)
(* What a pass over a plan delivers, reports and leaves alone, for every   *)
(* plan and rendering, when one process writes, and any number of dry runs *)
(* beside it.                                                              *)
(***************************************************************************)
EXTENDS TemplatePlanProofs

\* No operation makes its backup where another one writes. Cli::validate does not
\* look at backups.
BackupsBeside ==
  \A o, q \in Ops : o # q /\ Backup(o) # NoBackup => Backup(o) # Dest(q)

\* At most one operation reads standard input. Cli::validate lets two of them pass,
\* of which the second one reads an empty text.
StdInOnce == \A o, q \in Ops : Src(o) = StdIn /\ Src(q) = StdIn => o = q

Passing == {"exited"} \union Running

-----------------------------------------------------------------------------
(* The inductive invariants.                                               *)

\* The files have not changed since the process started while it caches its
\* templates, so what it has cached is what the sources held then.
CacheInv(p) ==
  /\ pc[p] \in {"cache"} \union Passing => start[p][StdIn] = Input
  /\ pc[p] = "cache" =>
       /\ \A f \in Files : start[p][f] = fs[f]
       /\ (\A q \in Ops : q < op[p] => Src(q) # StdIn) => stdin[p] = Input
       /\ \A q \in Ops : q < op[p] => env[p][Src(q)] = start[p][Src(q)]
  /\ pc[p] \in Passing => \A q \in Ops : env[p][Src(q)] = start[p][Src(q)]

Shown(p, o) == fs[Dest(o)] = Target(p, o)

Reported(p, o) ==
  o \in changed[p] <=> before[p][Dest(o)] # fs[Dest(o)]
                       /\ ~ (before[p][Dest(o)] = Absent /\ fs[Dest(o)] = Empty)

\* The pass has not touched the file of o yet.
Ahead(p, o) == o > op[p] \/ (o = op[p] /\ pc[p] \notin {"truncate", "fill"})

\* The pass has gone past o.
Past(p, o) ==
  /\ o \notin spoiled[p] => Shown(p, o) /\ Reported(p, o)
  /\ before[p][Dest(o)] = Target(p, o) => Shown(p, o)

\* The file of the operation at hand is truncated only if its text is another one.
Differed(p, o) ==
  Target(p, o) # IF before[p][Dest(o)] = Absent THEN Empty ELSE before[p][Dest(o)]

PassInv(p) ==
  pc[p] \in Passing =>
    /\ pc[p] \in {"waiting", "exited"} => op[p] \notin Ops
    /\ \A o \in changed[p] \union spoiled[p] : o < op[p]
    /\ \A o \in Ops : Dest(o) # StdOut /\ Ahead(p, o) => fs[Dest(o)] = before[p][Dest(o)]
    /\ \A o \in Ops : Dest(o) # StdOut /\ o < op[p] => Past(p, o)
    /\ pc[p] \in {"truncate", "fill"} => Differed(p, op[p])
    /\ pc[p] = "truncate" => fs[Dest(op[p])] \in {before[p][Dest(op[p])], Empty}
    /\ pc[p] = "fill" => fs[Dest(op[p])] = Empty

-----------------------------------------------------------------------------
(* What the steps leave alone.                                             *)

\* A step of one process leaves what the others know alone.
LEMMA OthersKeep ==
  ASSUME TypeInv, NEW p \in Procs, Start(p) \/ Step(p) \/ Crash(p), NEW q \in Procs \ {p}
  PROVE  /\ stdin'[q] = stdin[q] /\ env'[q] = env[q] /\ data'[q] = data[q]
         /\ changed'[q] = changed[q] /\ spoiled'[q] = spoiled[q]
         /\ start'[q] = start[q] /\ before'[q] = before[q]
<1> USE DEF TypeInv
<1>1. CASE Start(p) \/ Cache(p) \/ BeginPass(p) \/ EndPass(p) \/ Crash(p)
  BY <1>1 DEF Start, Cache, BeginPass, EndPass, Crash, TypeOK, fileVars, passVars, histVars
<1>2. CASE Apply(p) \/ CopyOpen(p) \/ CopyData(p) \/ Compare(p) \/ Truncate(p) \/ Fill(p)
  <2>1. UNCHANGED <<stdin, env, data, start, before>>
    BY <1>2 DEF Apply, CopyOpen, CopyData, Compare, Truncate, Fill, fileVars, passVars, histVars
  <2>2. \/ (\E c \in BOOLEAN : Return(p, c)) \/ Fail(p) \/ \E step \in Midway : Proceed(p, step)
    BY <1>2 DEF Apply, CopyOpen, CopyData, Compare, Truncate, Fill, Midway
  <2>3. changed'[q] = changed[q] /\ spoiled'[q] = spoiled[q]
    BY <2>2 DEF Return, Fail, Proceed, TypeOK
  <2>4. QED
    BY <2>1, <2>3
<1>3. QED
  BY <1>1, <1>2 DEF Step

\* The steps of an operation.
LEMMA OperationStep ==
  ASSUME TypeInv, NEW p \in Procs,
         Apply(p) \/ CopyOpen(p) \/ CopyData(p) \/ Compare(p) \/ Truncate(p) \/ Fill(p)
  PROVE  /\ pc[p] \in {"apply"} \union Midway /\ op[p] \in Ops
         /\ pc'[p] \in {"apply", "failed"} \union Midway
         /\ UNCHANGED <<stdin, env, data, first, start, before, original>>
<1> USE DEF TypeInv
<1>1. pc[p] \in {"apply"} \union Midway /\ op[p] \in Ops
  BY OperandTypes DEF Apply, CopyOpen, CopyData, Compare, Truncate, Fill, Midway
<1>2. UNCHANGED <<stdin, env, data, first, start, before, original>>
  BY DEF Apply, CopyOpen, CopyData, Compare, Truncate, Fill, fileVars, passVars, histVars
<1>3. \/ (\E c \in BOOLEAN : Return(p, c)) \/ Fail(p) \/ \E step \in Midway : Proceed(p, step)
  BY DEF Apply, CopyOpen, CopyData, Compare, Truncate, Fill, Midway
<1>4. QED
  BY <1>1, <1>2, <1>3, ReturnType, ProceedType

-----------------------------------------------------------------------------
(* Templates are those that the sources held when the process started.     *)

LEMMA CacheInvInit == ASSUME NEW p \in Procs, Init PROVE CacheInv(p)
BY DEF Init, CacheInv, Passing, Running, Midway

LEMMA CacheInvStart == ASSUME TypeInv, NEW p \in Procs, Start(p) PROVE CacheInv(p)'
<1>1. /\ pc'[p] = "cache" /\ op'[p] = 1 /\ stdin'[p] = Input /\ UNCHANGED fs
      /\ start'[p] = [s \in Sources |-> IF s = StdIn THEN Input ELSE fs[s]]
  BY DEF Start, TypeInv, TypeOK
<1>2. start'[p][StdIn] = Input /\ \A f \in Files : start'[p][f] = fs[f]
  BY <1>1, PlanFacts
<1>3. \A q \in Ops : ~ (q < 1)
  BY PlanFacts, SMT DEF Ops
<1>4. QED
  BY <1>1, <1>2, <1>3 DEF CacheInv, Passing, Running, Midway

LEMMA CacheInvCache ==
  ASSUME StdInOnce, TypeInv, NEW p \in Procs, CacheInv(p), Cache(p) PROVE CacheInv(p)'
<1> USE DEF TypeInv
<1> DEFINE s == Src(op[p])
           t == IF s = StdIn THEN stdin[p] ELSE fs[s]
<1>0. /\ pc[p] = "cache" /\ op[p] \in Ops /\ s \in Sources /\ start[p][StdIn] = Input
      /\ UNCHANGED <<fs, start>>
  BY PlanFacts DEF Cache, CacheInv, histVars
<1>1. CASE /\ env' = [env EXCEPT ![p][s] = t]
           /\ stdin' = IF s = StdIn THEN [stdin EXCEPT ![p] = Empty] ELSE stdin
           /\ op' = [op EXCEPT ![p] = @ + 1]
           /\ UNCHANGED pc
  <2>1. env'[p][s] = t /\ \A r \in Sources \ {s} : env'[p][r] = env[p][r]
    BY <1>0, <1>1 DEF TypeOK
  <2>2. \A q \in Ops : q < op'[p] <=> q < op[p] \/ q = op[p]
    <3>1. op'[p] = op[p] + 1
      BY <1>1 DEF TypeOK
    <3>2. QED
      BY <1>0, <3>1, PlanFacts, SMT DEF TypeOK
  <2>3. ASSUME NEW q \in Ops, q < op'[p] PROVE env'[p][Src(q)] = start[p][Src(q)]
    <3>1. CASE Src(q) = s /\ s = StdIn
      <4>1. ASSUME NEW r \in Ops, r < op[p], Src(r) = StdIn PROVE FALSE
        <5>1. r = op[p]
          BY <1>0, <3>1, <4>1 DEF StdInOnce
        <5>2. QED
          BY <4>1, <5>1, PlanFacts, SMT
      <4>2. QED
        BY <1>0, <2>1, <3>1, <4>1 DEF CacheInv
    <3>2. CASE Src(q) = s /\ s # StdIn
      BY <1>0, <2>1, <3>2 DEF CacheInv, Sources
    <3>3. CASE Src(q) # s
      BY <1>0, <2>1, <2>2, <2>3, <3>3, PlanFacts DEF CacheInv
    <3>4. QED
      BY <3>1, <3>2, <3>3
  <2>4. (\A q \in Ops : q < op'[p] => Src(q) # StdIn) => stdin'[p] = Input
    <3>1. SUFFICES ASSUME \A q \in Ops : q < op'[p] => Src(q) # StdIn PROVE stdin'[p] = Input
      OBVIOUS
    <3>2. s # StdIn /\ \A q \in Ops : q < op[p] => Src(q) # StdIn
      BY <1>0, <2>2, <3>1
    <3>3. QED
      BY <1>0, <1>1, <3>2 DEF CacheInv
  <2>5. QED
    BY <1>0, <1>1, <2>3, <2>4 DEF CacheInv, Passing, Running, Midway
<1>2. CASE pc' = [pc EXCEPT ![p] = "failed"]
  BY <1>2 DEF TypeOK, CacheInv, Passing, Running, Midway
<1>3. QED
  BY <1>1, <1>2 DEF Cache

LEMMA CacheInvOther ==
  ASSUME TypeInv, NEW p \in Procs, CacheInv(p), Step(p) \/ Crash(p), ~ Cache(p)
  PROVE  CacheInv(p)'
<1> USE DEF TypeInv
<1>1. CASE BeginPass(p)
  <2>1. pc'[p] = "apply" /\ UNCHANGED <<env, start>>
    BY <1>1 DEF BeginPass, TypeOK
  <2>2. ASSUME NEW q \in Ops PROVE env[p][Src(q)] = start[p][Src(q)]
    <3>1. CASE pc[p] = "waiting"
      BY <3>1 DEF CacheInv, Passing, Running
    <3>2. CASE pc[p] = "cache" /\ op[p] \notin Ops
      <4>1. q < op[p]
        BY <3>2, PlanFacts, SMT DEF TypeOK, Ops
      <4>2. QED
        BY <3>2, <4>1 DEF CacheInv
    <3>3. QED
      BY <1>1, <3>1, <3>2 DEF BeginPass
  <2>3. start[p][StdIn] = Input
    BY <1>1 DEF BeginPass, CacheInv, Passing, Running
  <2>4. QED
    BY <2>1, <2>2, <2>3 DEF CacheInv
<1>2. CASE EndPass(p)
  BY <1>2 DEF EndPass, TypeOK, CacheInv, Passing, Running, histVars
<1>3. CASE Crash(p)
  BY <1>3 DEF Crash, TypeOK, CacheInv, Passing, Running, Midway
<1>4. CASE Apply(p) \/ CopyOpen(p) \/ CopyData(p) \/ Compare(p) \/ Truncate(p) \/ Fill(p)
  <2>1. pc[p] \in Passing /\ pc'[p] \in Passing \union {"failed"} /\ UNCHANGED <<env, start>>
    BY <1>4, OperationStep DEF Passing, Running
  <2>2. QED
    BY <2>1 DEF CacheInv, Passing, Running, Midway
<1>5. QED
  BY <1>1, <1>2, <1>3, <1>4 DEF Step
-----------------------------------------------------------------------------
(* The pass, one action after the other.                                   *)

\* An operation under way has kept to its own file.
PassFrame(p) ==
  /\ UNCHANGED <<env, data, before>>
  /\ \A o \in Ops : Dest(o) # StdOut /\ o # op[p] => fs'[Dest(o)] = fs[Dest(o)]

LEMMA PassInit == ASSUME NEW p \in Procs, Init PROVE PassInv(p)
BY DEF Init, PassInv, Passing, Running, Midway

LEMMA SameTarget ==
  ASSUME NEW p \in Procs, UNCHANGED <<env, data>>
  PROVE  \A o \in Ops : Target(p, o)' = Target(p, o)
BY DEF Target, Template

\* apply returns, and says whether its file has another text than before.
LEMMA PassReturn ==
  ASSUME TypeInv, NEW p \in Procs, PassInv(p), pc[p] \in Passing, op[p] \in Ops,
         NEW c \in BOOLEAN, Return(p, c), PassFrame(p),
         Dest(op[p]) # StdOut =>
           /\ fs'[Dest(op[p])] = Target(p, op[p])
           /\ c <=> /\ before[p][Dest(op[p])] # fs'[Dest(op[p])]
                    /\ ~ (before[p][Dest(op[p])] = Absent /\ fs'[Dest(op[p])] = Empty)
  PROVE  PassInv(p)'
<1>1. /\ pc'[p] = "apply" /\ op'[p] = op[p] + 1 /\ spoiled'[p] = spoiled[p]
      /\ changed'[p] = IF c THEN changed[p] \union {op[p]} ELSE changed[p]
  BY DEF Return, TypeInv, TypeOK
<1>2. /\ \A o \in Ops : o < op'[p] <=> o < op[p] \/ o = op[p]
      /\ \A o \in Ops : o > op'[p] \/ o = op'[p] => o > op[p] /\ o # op[p]
      /\ \A o \in Ops : o < op[p] => o # op[p]
  BY <1>1, PlanFacts, SMT DEF TypeInv, TypeOK
<1>3. op[p] \notin changed[p] /\ op[p] \notin spoiled[p] /\ changed[p] \union spoiled[p] \subseteq Ops
  BY <1>2 DEF PassInv, TypeInv, TypeOK
<1>4. \A o \in changed'[p] \union spoiled'[p] : o < op'[p]
  BY <1>1, <1>2, <1>3 DEF PassInv
<1>5. \A o \in Ops : Dest(o) # StdOut /\ Ahead(p, o)' => fs'[Dest(o)] = before'[p][Dest(o)]
  BY <1>1, <1>2 DEF PassInv, Ahead, PassFrame
<1>6. ASSUME NEW o \in Ops, Dest(o) # StdOut, o < op'[p] PROVE Past(p, o)'
  <2>1. Target(p, o)' = Target(p, o) /\ before'[p] = before[p]
    BY SameTarget DEF PassFrame
  <2>2. CASE o < op[p]
    <3>1. Past(p, o) /\ fs'[Dest(o)] = fs[Dest(o)]
      BY <1>2, <1>6, <2>2 DEF PassInv, PassFrame
    <3>2. o \in changed'[p] <=> o \in changed[p]
      BY <1>1, <1>2, <2>2
    <3>3. QED
      BY <1>1, <2>1, <3>1, <3>2 DEF Past, Shown, Reported
  <2>3. CASE o = op[p]
    <3>1. o \in changed'[p] <=> c
      BY <1>1, <1>3, <2>3
    <3>2. QED
      BY <1>6, <2>1, <2>3, <3>1 DEF Past, Shown, Reported
  <2>4. QED
    BY <1>2, <1>6, <2>2, <2>3
<1>7. QED
  BY <1>1, <1>4, <1>5, <1>6 DEF PassInv

\* apply fails, and leaves a file alone that showed its rendering.
LEMMA PassFail ==
  ASSUME TypeInv, NEW p \in Procs, PassInv(p), pc[p] \in Passing, op[p] \in Ops,
         Fail(p), PassFrame(p),
         Dest(op[p]) # StdOut /\ before[p][Dest(op[p])] = Target(p, op[p]) =>
           fs'[Dest(op[p])] = Target(p, op[p])
  PROVE  PassInv(p)'
<1>1. CASE first[p]
  <2>1. pc'[p] = "failed"
    BY <1>1 DEF Fail, TypeInv, TypeOK
  <2>2. QED
    BY <2>1 DEF PassInv, Passing, Running, Midway
<1>2. CASE ~ first[p]
  <2>1. /\ pc'[p] = "apply" /\ op'[p] = op[p] + 1 /\ changed'[p] = changed[p]
        /\ spoiled'[p] = spoiled[p] \union {op[p]}
    BY <1>2 DEF Fail, TypeInv, TypeOK
  <2>2. /\ \A o \in Ops : o < op'[p] <=> o < op[p] \/ o = op[p]
        /\ \A o \in Ops : o > op'[p] \/ o = op'[p] => o > op[p] /\ o # op[p]
        /\ \A o \in Ops : o < op[p] => o # op[p]
    BY <2>1, PlanFacts, SMT DEF TypeInv, TypeOK
  <2>3. changed[p] \union spoiled[p] \subseteq Ops
    BY DEF TypeInv, TypeOK
  <2>4. \A o \in changed'[p] \union spoiled'[p] : o < op'[p]
    BY <2>1, <2>2, <2>3 DEF PassInv
  <2>5. \A o \in Ops : Dest(o) # StdOut /\ Ahead(p, o)' => fs'[Dest(o)] = before'[p][Dest(o)]
    BY <2>1, <2>2 DEF PassInv, Ahead, PassFrame
  <2>6. ASSUME NEW o \in Ops, Dest(o) # StdOut, o < op'[p] PROVE Past(p, o)'
    <3>1. Target(p, o)' = Target(p, o) /\ before'[p] = before[p]
      BY SameTarget DEF PassFrame
    <3>2. CASE o < op[p]
      <4>1. Past(p, o) /\ fs'[Dest(o)] = fs[Dest(o)]
        BY <2>2, <2>6, <3>2 DEF PassInv, PassFrame
      <4>2. QED
        BY <2>1, <3>1, <4>1 DEF Past, Shown, Reported
    <3>3. CASE o = op[p]
      BY <2>1, <2>6, <3>1, <3>3 DEF Past, Shown
    <3>4. QED
      BY <2>2, <2>6, <3>2, <3>3
  <2>7. QED
    BY <2>1, <2>4, <2>5, <2>6 DEF PassInv
<1>3. QED
  BY <1>1, <1>2

\* apply goes on to its next system call.
LEMMA PassProceed ==
  ASSUME TypeInv, NEW p \in Procs, PassInv(p), pc[p] \in Passing, op[p] \in Ops,
         NEW step \in Midway, Proceed(p, step), PassFrame(p),
         IF step \in {"truncate", "fill"}
           THEN Differed(p, op[p])
           ELSE Dest(op[p]) # StdOut => fs'[Dest(op[p])] = before[p][Dest(op[p])],
         step = "truncate" => fs'[Dest(op[p])] \in {before[p][Dest(op[p])], Empty},
         step = "fill" => fs'[Dest(op[p])] = Empty
  PROVE  PassInv(p)'
<1>1. pc'[p] = step /\ UNCHANGED <<op, changed, spoiled>> /\ step \notin {"waiting", "exited"}
  BY ProceedType DEF Midway, TypeInv
<1>2. \A o \in Ops : o < op[p] \/ o > op[p] => o # op[p]
  BY PlanFacts, SMT DEF TypeInv, TypeOK
<1>3. \A o \in Ops : Target(p, o)' = Target(p, o)
  BY SameTarget DEF PassFrame
<1>4. ASSUME NEW o \in Ops, Dest(o) # StdOut, Ahead(p, o)' PROVE fs'[Dest(o)] = before'[p][Dest(o)]
  <2>1. CASE o = op[p]
    BY <1>1, <1>2, <1>4, <2>1 DEF Ahead, PassFrame
  <2>2. CASE o # op[p]
    BY <1>1, <1>4, <2>2 DEF Ahead, PassFrame, PassInv
  <2>3. QED
    BY <2>1, <2>2
<1>5. ASSUME NEW o \in Ops, Dest(o) # StdOut, o < op[p] PROVE Past(p, o)'
  <2>1. Past(p, o) /\ fs'[Dest(o)] = fs[Dest(o)]
    BY <1>2, <1>5 DEF PassInv, PassFrame
  <2>2. QED
    BY <1>1, <1>3, <2>1 DEF PassFrame, Past, Shown, Reported
<1>6. pc'[p] \in {"truncate", "fill"} => Differed(p, op[p])'
  BY <1>1, <1>3 DEF Differed, PassFrame
<1>7. /\ pc'[p] = "truncate" => fs'[Dest(op'[p])] \in {before'[p][Dest(op'[p])], Empty}
      /\ pc'[p] = "fill" => fs'[Dest(op'[p])] = Empty
  BY <1>1 DEF PassFrame
<1>8. \A o \in changed'[p] \union spoiled'[p] : o < op'[p]
  BY <1>1 DEF PassInv
<1>9. QED
  BY <1>1, <1>4, <1>5, <1>6, <1>7, <1>8 DEF PassInv

LEMMA PassCalm ==
  ASSUME TypeInv, NEW p \in Procs, PassInv(p),
         Start(p) \/ Cache(p) \/ BeginPass(p) \/ EndPass(p) \/ Crash(p)
  PROVE  PassInv(p)'
<1> USE DEF TypeInv
<1>1. CASE Start(p) \/ Cache(p) \/ Crash(p)
  <2>1. pc'[p] \in {"cache", "failed", "down"}
    BY <1>1 DEF Start, Cache, Crash, TypeOK
  <2>2. QED
    BY <2>1 DEF PassInv, Passing, Running, Midway
<1>2. CASE BeginPass(p)
  <2>1. /\ pc'[p] = "apply" /\ op'[p] = 1 /\ changed'[p] = {} /\ spoiled'[p] = {}
        /\ before'[p] = fs /\ UNCHANGED fs
    BY <1>2 DEF BeginPass, TypeOK, fileVars
  <2>2. \A o \in Ops : ~ (o < 1)
    BY PlanFacts, SMT DEF Ops
  <2>3. QED
    BY <2>1, <2>2 DEF PassInv
<1>3. CASE EndPass(p)
  <2>1. /\ pc[p] = "apply" /\ pc'[p] \in {"waiting", "exited"} /\ op[p] \notin Ops
        /\ UNCHANGED <<fs, env, op, changed, spoiled, data, before>>
    BY <1>3 DEF EndPass, TypeOK, fileVars, histVars
  <2>2. \A o \in Ops : Target(p, o)' = Target(p, o) /\ Ahead(p, o)' = Ahead(p, o)
    BY <2>1, SameTarget DEF Ahead
  <2>3. QED
    BY <2>1, <2>2 DEF PassInv, Passing, Running, Past, Shown, Reported
<1>4. QED
  BY <1>1, <1>2, <1>3

LEMMA PassApply == ASSUME TypeInv, NEW p \in Procs \ DryRuns, PassInv(p), Apply(p) PROVE PassInv(p)'
<1> DEFINE o == op[p]
<1>1. pc[p] = "apply" /\ pc[p] \in Passing /\ o \in Ops /\ UNCHANGED <<fs, env, data, before>>
  BY DEF Apply, Passing, Running, fileVars, passVars, histVars
<1>2. PassFrame(p)
  BY <1>1 DEF PassFrame
<1>3. Dest(o) # StdOut => fs'[Dest(o)] = before[p][Dest(o)]
  BY <1>1 DEF PassInv, Ahead
<1>4. CASE Fail(p)
  BY <1>1, <1>2, <1>3, <1>4, PassFail
<1>5. CASE \E step \in {"copy", "write"} : Proceed(p, step)
  BY <1>1, <1>2, <1>3, <1>5, PassProceed DEF Midway
<1>6. QED
  BY <1>4, <1>5 DEF Apply, Simulates

\* A backup is made beside the destinations.
LEMMA PassCopy ==
  ASSUME BackupsBeside, TypeInv, NEW p \in Procs, PassInv(p), CopyOpen(p) \/ CopyData(p)
  PROVE  PassInv(p)'
<1> DEFINE o == op[p]
<1>1. /\ pc[p] \in {"copy", "copying"} /\ pc[p] \in Midway /\ pc[p] \in Passing
      /\ UNCHANGED <<env, data, before>>
  BY DEF CopyOpen, CopyData, Midway, Passing, Running, passVars, histVars
<1>2. o \in Ops /\ Backup(o) \in Files /\ Backup(o) # NoBackup /\ Src(o) # StdIn
  BY <1>1, OperandTypes DEF TypeInv, Ready, ReadyAt
<1>3. \A q \in Ops : Dest(q) # Backup(o)
  BY <1>2, PlanFacts DEF BackupsBeside
<1>4. UNCHANGED fs \/ \E t \in Text \union {Absent} : fs' = [fs EXCEPT ![Backup(o)] = t]
  BY <1>1, <1>2, OperandTypes, TemplatePlanAssumption
     DEF CopyOpen, CopyData, TypeInv, TypeOK, TemplatePlanAssumption
<1>5. \A q \in Ops : Dest(q) # StdOut => fs'[Dest(q)] = fs[Dest(q)]
  BY <1>2, <1>3, <1>4, PlanFacts, WriteType DEF TypeInv
<1>6. PassFrame(p) /\ (Dest(o) # StdOut => fs'[Dest(o)] = before[p][Dest(o)])
  BY <1>1, <1>2, <1>5 DEF PassFrame, PassInv, Ahead
<1>7. CASE Fail(p)
  BY <1>1, <1>2, <1>6, <1>7, PassFail
<1>8. CASE \E step \in {"copying", "write"} : Proceed(p, step)
  BY <1>1, <1>2, <1>6, <1>8, PassProceed DEF Midway
<1>9. QED
  BY <1>7, <1>8 DEF CopyOpen, CopyData

\* An operation writes to no other's destination.
LEMMA OwnDestination ==
  ASSUME TypeInv, NEW o \in Ops, Dest(o) # StdOut, NEW t \in Text \union {Absent},
         fs' = [fs EXCEPT ![Dest(o)] = t]
  PROVE  /\ fs'[Dest(o)] = t
         /\ \A q \in Ops : Dest(q) # StdOut /\ q # o => fs'[Dest(q)] = fs[Dest(q)]
<1>1. Dest(o) \in Files /\ \A q \in Ops : Dest(q) # StdOut => Dest(q) \in Files
  BY PlanFacts
<1>2. \A q \in Ops : q # o => Dest(q) # Dest(o)
  BY ValidatedPlan DEF ValidatedPlan, Validated, DestinationsUnique, Dest, Ops
<1>3. QED
  BY <1>1, <1>2, WriteType DEF TypeInv

LEMMA PassCompare == ASSUME TypeInv, NEW p \in Procs, PassInv(p), Compare(p) PROVE PassInv(p)'
<1> DEFINE o == op[p]
<1>1. /\ pc[p] = "write" /\ pc[p] \in Midway /\ pc[p] \in Passing
      /\ UNCHANGED <<env, data, before>>
  BY DEF Compare, Midway, Passing, Running, passVars, histVars
<1>2. o \in Ops /\ Target(p, o) \in Text
  BY <1>1, OperandTypes
<1>3. Dest(o) # StdOut => fs[Dest(o)] = before[p][Dest(o)]
  BY <1>1, <1>2 DEF PassInv, Ahead
<1>4. CASE Dest(o) = StdOut /\ Return(p, TRUE) /\ UNCHANGED fs
  <2>1. PassFrame(p)
    BY <1>1, <1>4 DEF PassFrame
  <2>2. QED
    BY <1>1, <1>2, <1>4, <2>1, PassReturn
<1>5. CASE /\ Dest(o) # StdOut
           /\ fs' = [fs EXCEPT ![Dest(o)] = Existing(Dest(o))]
           /\ IF Differs(Dest(o), Target(p, o)) THEN Proceed(p, "truncate") ELSE Return(p, FALSE)
  <2>1. Existing(Dest(o)) \in Text \union {Absent}
    BY <1>2, <1>5, PlanFacts, TemplatePlanAssumption
       DEF Existing, TypeInv, TypeOK, TemplatePlanAssumption
  <2>2. PassFrame(p) /\ fs'[Dest(o)] = Existing(Dest(o))
    BY <1>1, <1>2, <1>5, <2>1, OwnDestination DEF PassFrame
  <2>3. CASE Differs(Dest(o), Target(p, o)) /\ Proceed(p, "truncate")
    <3>1. Differed(p, o)
      BY <1>3, <1>5, <2>3 DEF Differs, Existing, Differed
    <3>2. fs'[Dest(o)] \in {before[p][Dest(o)], Empty}
      BY <1>3, <1>5, <2>2 DEF Existing
    <3>3. QED
      BY <1>1, <1>2, <2>2, <2>3, <3>1, <3>2, PassProceed DEF Midway
  <2>4. CASE ~ Differs(Dest(o), Target(p, o)) /\ Return(p, FALSE)
    <3>1. /\ fs'[Dest(o)] = Target(p, o)
          /\ ~ (/\ before[p][Dest(o)] # fs'[Dest(o)]
                /\ ~ (before[p][Dest(o)] = Absent /\ fs'[Dest(o)] = Empty))
      BY <1>3, <1>5, <2>2, <2>4 DEF Differs, Existing
    <3>2. QED
      BY <1>1, <1>2, <2>2, <2>4, <3>1, PassReturn
  <2>5. QED
    BY <1>5, <2>3, <2>4
<1>6. CASE Fail(p) /\ UNCHANGED fs
  <2>1. PassFrame(p)
    BY <1>1, <1>6 DEF PassFrame
  <2>2. QED
    BY <1>1, <1>2, <1>3, <1>6, <2>1, PassFail
<1>7. QED
  BY <1>4, <1>5, <1>6 DEF Compare

LEMMA PassTruncate == ASSUME TypeInv, NEW p \in Procs, PassInv(p), Truncate(p) PROVE PassInv(p)'
<1> DEFINE o == op[p]
<1>1. /\ pc[p] = "truncate" /\ pc[p] \in Midway /\ pc[p] \in Passing
      /\ UNCHANGED <<env, data, before>>
  BY DEF Truncate, Midway, Passing, Running, passVars, histVars
<1>2. o \in Ops /\ Dest(o) # StdOut
  BY <1>1, OperandTypes DEF TypeInv, Ready, ReadyAt
<1>3. PassFrame(p) /\ fs'[Dest(o)] = Empty
  BY <1>1, <1>2, OwnDestination, TemplatePlanAssumption
     DEF Truncate, PassFrame, TemplatePlanAssumption
<1>4. Differed(p, o) /\ Proceed(p, "fill")
  BY <1>1 DEF Truncate, PassInv
<1>5. QED
  BY <1>1, <1>2, <1>3, <1>4, PassProceed DEF Midway

LEMMA PassFill == ASSUME TypeInv, NEW p \in Procs, PassInv(p), Fill(p) PROVE PassInv(p)'
<1> DEFINE o == op[p]
<1>1. /\ pc[p] = "fill" /\ pc[p] \in Midway /\ pc[p] \in Passing
      /\ UNCHANGED <<env, data, before>>
  BY DEF Fill, Midway, Passing, Running, passVars, histVars
<1>2. o \in Ops /\ Dest(o) # StdOut /\ Target(p, o) \in Text
  BY <1>1, OperandTypes DEF TypeInv, Ready, ReadyAt
<1>3. fs[Dest(o)] = Empty /\ Differed(p, o)
  BY <1>1 DEF PassInv
<1>4. before[p][Dest(o)] # Target(p, o) /\ ~ (before[p][Dest(o)] = Absent /\ Target(p, o) = Empty)
  BY <1>2, <1>3, TemplatePlanAssumption DEF Differed, TemplatePlanAssumption
<1>5. ASSUME NEW t \in Text, fs' = [fs EXCEPT ![Dest(o)] = t]
      PROVE  PassFrame(p) /\ fs'[Dest(o)] = t
  BY <1>1, <1>2, <1>5, OwnDestination DEF PassFrame
<1>6. CASE fs' = [fs EXCEPT ![Dest(o)] = Target(p, o)] /\ Return(p, TRUE)
  BY <1>1, <1>2, <1>4, <1>5, <1>6, PassReturn
<1>7. CASE (\E t \in {fs[Dest(o)], Torn} : fs' = [fs EXCEPT ![Dest(o)] = t]) /\ Fail(p)
  <2>1. PassFrame(p)
    BY <1>3, <1>5, <1>7, TemplatePlanAssumption DEF TemplatePlanAssumption
  <2>2. QED
    BY <1>1, <1>2, <1>4, <1>7, <2>1, PassFail
<1>8. QED
  BY <1>3, <1>6, <1>7 DEF Fill

-----------------------------------------------------------------------------
(* The passes of the one process that writes.                              *)

OneWriter(p) == Procs \ DryRuns = {p}

LEMMA PassAlways ==
  ASSUME NEW p \in Procs, OneWriter(p), BackupsBeside PROVE Spec => []PassInv(p)
<1>1. Init => PassInv(p)
  BY PassInit
<1>2. TypeInv /\ DryInv /\ PassInv(p) /\ [Next]_vars => PassInv(p)'
  <2> SUFFICES ASSUME TypeInv, DryInv, PassInv(p), [Next]_vars PROVE PassInv(p)'
    OBVIOUS
  <2>1. CASE UNCHANGED vars
    BY <2>1 DEF vars, fileVars, passVars, histVars, PassInv, Past, Shown, Reported, Ahead,
                Differed, Target, Template
  <2>2. CASE Start(p) \/ Step(p) \/ Crash(p)
    BY <2>2, PassCalm, PassApply, PassCopy, PassCompare, PassTruncate, PassFill DEF Step, OneWriter
  <2>3. ASSUME NEW q \in Procs \ {p}, Start(q) \/ Step(q) \/ Crash(q) PROVE PassInv(p)'
    <3>1. UNCHANGED fs
      BY <2>3, DryStep DEF OneWriter
    <3>2. pc'[p] = pc[p] /\ op'[p] = op[p]
      BY <2>3, OthersProgress
    <3>3. /\ env'[p] = env[p] /\ data'[p] = data[p] /\ changed'[p] = changed[p]
          /\ spoiled'[p] = spoiled[p] /\ before'[p] = before[p]
      BY <2>3, OthersKeep
    <3>4. QED
      BY <3>1, <3>2, <3>3 DEF PassInv, Past, Shown, Reported, Ahead, Differed, Target, Template
  <2>4. QED
    BY <2>1, <2>2, <2>3 DEF Next
<1>3. QED
  BY <1>1, <1>2, TypeAlways, DryAlways, PTL DEF Spec

LEMMA CacheAlways ==
  ASSUME NEW p \in Procs, OneWriter(p), StdInOnce PROVE Spec => []CacheInv(p)
<1>1. Init => CacheInv(p)
  BY CacheInvInit
<1>2. TypeInv /\ DryInv /\ CacheInv(p) /\ [Next]_vars => CacheInv(p)'
  <2> SUFFICES ASSUME TypeInv, DryInv, CacheInv(p), [Next]_vars PROVE CacheInv(p)'
    OBVIOUS
  <2>1. CASE UNCHANGED vars
    BY <2>1 DEF vars, fileVars, passVars, histVars, CacheInv
  <2>2. CASE Start(p) \/ Step(p) \/ Crash(p)
    BY <2>2, CacheInvStart, CacheInvCache, CacheInvOther
  <2>3. ASSUME NEW q \in Procs \ {p}, Start(q) \/ Step(q) \/ Crash(q) PROVE CacheInv(p)'
    <3>1. UNCHANGED fs
      BY <2>3, DryStep DEF OneWriter
    <3>2. pc'[p] = pc[p] /\ op'[p] = op[p]
      BY <2>3, OthersProgress
    <3>3. stdin'[p] = stdin[p] /\ env'[p] = env[p] /\ start'[p] = start[p]
      BY <2>3, OthersKeep
    <3>4. QED
      BY <3>1, <3>2, <3>3 DEF CacheInv
  <2>4. QED
    BY <2>1, <2>2, <2>3 DEF Next
<1>3. QED
  BY <1>1, <1>2, TypeAlways, DryAlways, PTL DEF Spec

\* In every state of a pass, the operations behind it and those ahead of it.
LEMMA PassOver ==
  ASSUME TypeOK, NEW p \in Procs, OneWriter(p), PassInv(p), NEW q \in Procs, PassEnded(q),
         NEW o \in Written(q)
  PROVE  q = p /\ Shown(p, o) /\ Reported(p, o)
<1>1. q = p /\ o \in Ops /\ Dest(o) # StdOut /\ o \notin spoiled[p]
  BY DEF OneWriter, Written
<1>2. op[p] \notin Ops /\ pc[p] \in Passing
  BY <1>1 DEF PassEnded, PassInv, Passing, Running
<1>3. o < op[p]
  BY <1>1, <1>2, PlanFacts, SMT DEF TypeOK, Ops
<1>4. QED
  BY <1>1, <1>2, <1>3 DEF PassInv, Past

-----------------------------------------------------------------------------
(* A pass delivers although backups may be made over delivered files: only *)
(* a file that holds the text to back up is ever taken for its backup.     *)

\* Backups are due in the initial pass only, and their operations lie ahead.
DueInv(p) ==
  /\ pc[p] \in {"cache", "copy", "copying"} => first[p]
  /\ pc[p] \in Passing =>
       \A o \in due[p] : first[p] /\ (o > op[p] \/ (o = op[p] /\ pc[p] = "apply"))

\* The file of o is where the backup under way goes.
BackedUpOver(p, o) == pc[p] \in {"copy", "copying"} /\ Dest(o) = Backup(op[p])

\* The file of o shows its rendering, or is about to show it again.
Delivered(p, o) ==
  /\ Renders(p, o)
  /\ Shown(p, o) \/ (pc[p] = "copying" /\ BackedUpOver(p, o))
  /\ BackedUpOver(p, o) => fs[Src(op[p])] = Target(p, o)

DeliverInv(p) ==
  /\ DueInv(p)
  /\ pc[p] \in Passing =>
       /\ pc[p] \in {"waiting", "exited"} => op[p] \notin Ops
       /\ \A o \in spoiled[p] : o < op[p]
       /\ \A o \in Ops \ spoiled[p] : Dest(o) # StdOut /\ o < op[p] => Delivered(p, o)
       /\ pc[p] = "fill" => fs[Dest(op[p])] = Empty

\* An operation under way has written its own file at most.
DeliverFrame(p) ==
  /\ UNCHANGED <<env, data, first>> /\ due'[p] \subseteq due[p]
  /\ \A o \in Ops : Dest(o) # StdOut /\ o # op[p] => fs'[Dest(o)] = fs[Dest(o)]

LEMMA NotAheadOfItself == ASSUME NEW o \in Ops PROVE ~ (o > o)
<1>1. o \in Nat
  BY PlanFacts
<1>2. QED
  BY <1>1, SMT

LEMMA DeliverReturn ==
  ASSUME TypeInv, NEW p \in Procs, DeliverInv(p), pc[p] \in {"write", "fill"}, op[p] \in Ops,
         NEW c \in BOOLEAN, Return(p, c), DeliverFrame(p), Renders(p, op[p]),
         Dest(op[p]) # StdOut => fs'[Dest(op[p])] = Target(p, op[p])
  PROVE  DeliverInv(p)'
<1>1. pc'[p] = "apply" /\ op'[p] = op[p] + 1 /\ spoiled'[p] = spoiled[p]
  BY DEF Return, TypeInv, TypeOK
<1>2. /\ \A o \in Ops : o < op'[p] <=> o < op[p] \/ o = op[p]
      /\ \A o \in Ops : o > op[p] => o > op'[p] \/ o = op'[p]
      /\ \A o \in Ops : o < op[p] => o # op[p]
  BY <1>1, PlanFacts, SMT DEF TypeInv, TypeOK
<1>3. due[p] \subseteq Ops /\ spoiled[p] \subseteq Ops
  BY DEF TypeInv, TypeOK
<1>4. pc[p] \in Passing /\ pc[p] \notin {"apply", "copy", "copying"}
  BY DEF Passing, Running, Midway
<1>5. DueInv(p)'
  BY <1>1, <1>2, <1>3, <1>4 DEF DueInv, DeliverInv, DeliverFrame
<1>6. \A o \in spoiled'[p] : o < op'[p]
  BY <1>1, <1>2, <1>3, <1>4 DEF DeliverInv
<1>7. ASSUME NEW o \in Ops \ spoiled'[p], Dest(o) # StdOut, o < op'[p] PROVE Delivered(p, o)'
  <2>1. Target(p, o)' = Target(p, o)
    BY SameTarget DEF DeliverFrame
  <2>2. CASE o < op[p]
    <3>1. Delivered(p, o) /\ fs'[Dest(o)] = fs[Dest(o)]
      BY <1>1, <1>2, <1>4, <1>7, <2>2 DEF DeliverInv, DeliverFrame
    <3>2. QED
      BY <1>1, <1>4, <2>1, <3>1 DEF Delivered, Shown, BackedUpOver, Renders
  <2>3. CASE o = op[p]
    BY <1>1, <1>7, <2>1, <2>3 DEF Delivered, Shown, BackedUpOver, Renders
  <2>4. QED
    BY <1>2, <1>7, <2>2, <2>3
<1>8. QED
  BY <1>1, <1>5, <1>6, <1>7 DEF DeliverInv

\* Only a later pass goes on after an error, and it makes no backups.
LEMMA DeliverFail ==
  ASSUME TypeInv, NEW p \in Procs, DeliverInv(p), pc[p] \in {"apply"} \union Midway, op[p] \in Ops,
         Fail(p), ~ first[p] => DeliverFrame(p)
  PROVE  DeliverInv(p)'
<1>1. CASE first[p]
  <2>1. pc'[p] = "failed"
    BY <1>1 DEF Fail, TypeInv, TypeOK
  <2>2. QED
    BY <2>1 DEF DeliverInv, DueInv, Passing, Running, Midway
<1>2. CASE ~ first[p]
  <2>1. /\ pc'[p] = "apply" /\ op'[p] = op[p] + 1
        /\ spoiled'[p] = spoiled[p] \union {op[p]}
    BY <1>2 DEF Fail, TypeInv, TypeOK
  <2>2. /\ \A o \in Ops : o < op'[p] <=> o < op[p] \/ o = op[p]
        /\ \A o \in Ops : o < op[p] => o # op[p]
    BY <2>1, PlanFacts, SMT DEF TypeInv, TypeOK
  <2>3. pc[p] \in Passing /\ pc[p] \notin {"copy", "copying"} /\ spoiled[p] \subseteq Ops
    BY <1>2 DEF TypeInv, TypeOK, DeliverInv, DueInv, Passing, Running
  <2>4. DueInv(p)'
    BY <1>2, <2>1, <2>3 DEF DueInv, DeliverInv, DeliverFrame
  <2>5. \A o \in spoiled'[p] : o < op'[p]
    BY <2>1, <2>2, <2>3 DEF DeliverInv
  <2>6. ASSUME NEW o \in Ops \ spoiled'[p], Dest(o) # StdOut, o < op'[p] PROVE Delivered(p, o)'
    <3>1. o < op[p] /\ o # op[p]
      BY <2>1, <2>2, <2>6
    <3>2. Delivered(p, o) /\ fs'[Dest(o)] = fs[Dest(o)]
      BY <1>2, <2>1, <2>3, <2>6, <3>1 DEF DeliverInv, DeliverFrame
    <3>3. Target(p, o)' = Target(p, o)
      BY <1>2, SameTarget DEF DeliverFrame
    <3>4. QED
      BY <2>1, <2>3, <3>2, <3>3 DEF Delivered, Shown, BackedUpOver, Renders
  <2>7. QED
    BY <2>1, <2>4, <2>5, <2>6 DEF DeliverInv
<1>3. QED
  BY <1>1, <1>2

LEMMA DeliverProceed ==
  ASSUME TypeInv, NEW p \in Procs, DeliverInv(p), pc[p] \in {"apply"} \union Midway, op[p] \in Ops,
         NEW step \in Midway, Proceed(p, step),
         first'[p] = first[p], due'[p] \subseteq due[p], op[p] \notin due'[p],
         step \in {"copy", "copying"} => first[p],
         step = "fill" => fs'[Dest(op[p])] = Empty,
         \A o \in Ops : Dest(o) # StdOut /\ o < op[p] /\ Delivered(p, o) => Delivered(p, o)'
  PROVE  DeliverInv(p)'
<1>1. pc'[p] = step /\ UNCHANGED <<op, changed, spoiled>> /\ step \notin {"cache", "waiting", "exited"}
  BY ProceedType DEF Midway, TypeInv
<1>2. pc[p] \in Passing
  BY DEF Passing, Running
<1>3. DueInv(p)'
  BY <1>1, <1>2 DEF DueInv, DeliverInv
<1>4. QED
  BY <1>1, <1>2, <1>3 DEF DeliverInv

\* A step from one of the last three system calls to the next.
LEMMA DeliverOn ==
  ASSUME NEW p \in Procs, DeliverFrame(p), pc[p] # "copying", pc'[p] \notin {"copy", "copying"},
         NEW o \in Ops, Dest(o) # StdOut, o # op[p], Delivered(p, o)
  PROVE  Delivered(p, o)'
<1>1. Target(p, o)' = Target(p, o) /\ fs'[Dest(o)] = fs[Dest(o)]
  BY SameTarget DEF DeliverFrame
<1>2. QED
  BY <1>1 DEF Delivered, Shown, BackedUpOver, Renders

LEMMA DeliverCalm ==
  ASSUME TypeInv, NEW p \in Procs, DeliverInv(p),
         Start(p) \/ Cache(p) \/ BeginPass(p) \/ EndPass(p) \/ Crash(p)
  PROVE  DeliverInv(p)'
<1> USE DEF TypeInv
<1>1. CASE Start(p)
  <2>1. pc'[p] = "cache" /\ first'[p]
    BY <1>1 DEF Start, TypeOK
  <2>2. QED
    BY <2>1 DEF DeliverInv, DueInv, Passing, Running, Midway
<1>2. CASE Cache(p)
  <2>1. pc[p] = "cache" /\ pc'[p] \in {"cache", "failed"} /\ UNCHANGED first
    BY <1>2 DEF Cache, TypeOK, passVars
  <2>2. QED
    BY <2>1 DEF DeliverInv, DueInv, Passing, Running, Midway
<1>3. CASE BeginPass(p)
  <2>1. /\ pc'[p] = "apply" /\ op'[p] = 1 /\ spoiled'[p] = {} /\ UNCHANGED <<first, due>>
    BY <1>3 DEF BeginPass, TypeOK
  <2>2. \A o \in Ops : ~ (o < 1) /\ (o > 1 \/ o = 1)
    BY PlanFacts, SMT DEF Ops
  <2>3. due[p] \subseteq Ops
    BY DEF TypeOK
  <2>4. \A o \in due[p] : first[p]
    BY <1>3 DEF BeginPass, DeliverInv, DueInv, Passing, Running
  <2>5. QED
    BY <2>1, <2>2, <2>3, <2>4 DEF DeliverInv, DueInv
<1>4. CASE EndPass(p)
  <2>1. /\ pc[p] = "apply" /\ pc'[p] \in {"waiting", "exited"} /\ op[p] \notin Ops
        /\ UNCHANGED <<fs, env, due, op, spoiled, data>>
    BY <1>4 DEF EndPass, TypeOK, fileVars
  <2>2. \A o \in Ops : ~ (o > op[p])
    BY <2>1, PlanFacts, SMT DEF TypeOK, Ops
  <2>3. due[p] \subseteq Ops /\ pc[p] \in Passing
    BY <2>1 DEF TypeOK, Passing, Running
  <2>4. due[p] = {}
    BY <2>1, <2>2, <2>3 DEF DeliverInv, DueInv
  <2>5. \A o \in Ops : Target(p, o)' = Target(p, o)
    BY <2>1, SameTarget
  <2>6. QED
    BY <2>1, <2>3, <2>4, <2>5 DEF DeliverInv, DueInv, Delivered, Shown, BackedUpOver, Renders
<1>5. CASE Crash(p)
  <2>1. pc'[p] = "down"
    BY <1>5 DEF Crash, TypeOK
  <2>2. QED
    BY <2>1 DEF DeliverInv, DueInv, Passing, Running, Midway
<1>6. QED
  BY <1>1, <1>2, <1>3, <1>4, <1>5

\* Where a backup may be made, its file is absent or holds the text to back up: so
\* a delivered file that is taken for the backup shows that text.
LEMMA DeliverApply ==
  ASSUME TypeInv, NEW p \in Procs \ DryRuns, DeliverInv(p), Apply(p) PROVE DeliverInv(p)'
<1> DEFINE o == op[p]
<1>1. /\ pc[p] = "apply" /\ pc[p] \in Passing /\ o \in Ops
      /\ UNCHANGED <<fs, env, data, first>> /\ due'[p] \subseteq due[p]
  BY DEF Apply, TypeInv, TypeOK, Passing, Running, fileVars, passVars
<1>2. DeliverFrame(p)
  BY <1>1 DEF DeliverFrame
<1>3. CASE Fail(p)
  BY <1>1, <1>2, <1>3, DeliverFail
<1>4. CASE o \in due[p] /\ due' = [due EXCEPT ![p] = @ \ {o}] /\ MayBackup(o) /\ Proceed(p, "copy")
  <2>1. pc'[p] = "copy" /\ UNCHANGED op /\ o \notin due'[p] /\ first[p] /\ Backup(o) \in Files
    <3>1. Backup(o) # NoBackup
      BY <1>4 DEF TypeInv, Ready, ReadyAt
    <3>2. QED
      BY <1>1, <1>4, <3>1, ProceedType, PlanFacts DEF TypeInv, TypeOK, DeliverInv, DueInv, Midway
  <2>2. ASSUME NEW q \in Ops, Dest(q) # StdOut, q < o, Delivered(p, q) PROVE Delivered(p, q)'
    <3>1. Target(p, q)' = Target(p, q)
      BY <1>1, SameTarget
    <3>2. Shown(p, q)
      BY <1>1, <2>2 DEF Delivered
    <3>3. Dest(q) = Backup(o) => fs[Src(o)] = Target(p, q)
      <4>1. Target(p, q) # Absent
        <5>1. env[p][Src(q)] \in Text
          BY <1>1 DEF TypeInv, Ready, ReadyAt, Running
        <5>2. QED
          BY <2>2, <5>1, TargetIsText, TemplatePlanAssumption
             DEF Delivered, TypeInv, TemplatePlanAssumption
      <4>2. QED
        BY <1>4, <3>2, <4>1 DEF MayBackup, Shown
    <3>4. QED
      BY <1>1, <2>1, <2>2, <3>1, <3>2, <3>3 DEF Delivered, Shown, BackedUpOver, Renders
  <2>3. QED
    BY <1>1, <1>4, <2>1, <2>2, DeliverProceed DEF Midway
<1>5. CASE o \notin due[p] /\ Proceed(p, "write") /\ UNCHANGED due
  <2>1. pc'[p] = "write"
    BY <1>5, ProceedType DEF Midway, TypeInv
  <2>2. \A q \in Ops : q < o => q # o
    BY PlanFacts, SMT DEF TypeInv, TypeOK
  <2>3. \A q \in Ops : Dest(q) # StdOut /\ q < o /\ Delivered(p, q) => Delivered(p, q)'
    BY <1>1, <1>2, <2>1, <2>2, DeliverOn
  <2>4. QED
    BY <1>1, <1>5, <2>1, <2>3, DeliverProceed DEF Midway
<1>6. QED
  BY <1>3, <1>4, <1>5 DEF Apply, Simulates

\* The copy goes over a delivered file only to write the same text there.
LEMMA DeliverCopy ==
  ASSUME TypeInv, NEW p \in Procs, DeliverInv(p), CopyOpen(p) \/ CopyData(p) PROVE DeliverInv(p)'
<1> DEFINE o == op[p]
<1>1. /\ pc[p] \in {"copy", "copying"} /\ pc[p] \in Midway /\ pc[p] \in Passing
      /\ UNCHANGED <<env, data, first, due>>
  BY DEF CopyOpen, CopyData, Midway, Passing, Running, passVars
<1>2. /\ o \in Ops /\ Backup(o) \in Files /\ Src(o) \in Files /\ Backup(o) # Src(o)
      /\ Backup(o) # NoBackup /\ first[p] /\ o \notin due[p]
  <2>1. o \in Ops /\ Backup(o) \in Files /\ Src(o) \in Files /\ Backup(o) # NoBackup
    BY <1>1, OperandTypes DEF TypeInv, Ready, ReadyAt
  <2>2. Backup(o) # Src(o)
    BY <2>1, PlanFacts
  <2>3. first[p] /\ o \notin due[p]
    BY <1>1, <2>1, NotAheadOfItself DEF DeliverInv, DueInv
  <2>4. QED
    BY <2>1, <2>2, <2>3
<1>3. CASE Fail(p)
  BY <1>1, <1>2, <1>3, DeliverFail
<1>4. ASSUME NEW q \in Ops, Dest(q) # StdOut, Delivered(p, q), NEW t \in Text \union {Absent},
             fs' = [fs EXCEPT ![Backup(o)] = t]
      PROVE  /\ Dest(q) # Backup(o) => Shown(p, q)'
             /\ Dest(q) = Backup(o) => fs[Src(o)] = Target(p, q)
             /\ fs'[Src(o)] = fs[Src(o)] /\ fs'[Backup(o)] = t
             /\ Target(p, q)' = Target(p, q) /\ Renders(p, q)
  <2>1. Target(p, q)' = Target(p, q)
    BY <1>1, SameTarget
  <2>2. fs'[Src(o)] = fs[Src(o)] /\ fs'[Backup(o)] = t
        /\ (Dest(q) # Backup(o) => fs'[Dest(q)] = fs[Dest(q)])
    BY <1>2, <1>4, PlanFacts, WriteType DEF TypeInv
  <2>3. QED
    BY <1>1, <1>4, <2>1, <2>2 DEF Delivered, Shown, BackedUpOver
<1>5. CASE CopyOpen(p) /\ fs' = [fs EXCEPT ![Backup(o)] = Empty] /\ Proceed(p, "copying")
  <2>1. pc'[p] = "copying" /\ UNCHANGED op /\ Empty \in Text
    BY <1>5, ProceedType, TemplatePlanAssumption DEF Midway, TypeInv, TemplatePlanAssumption
  <2>2. ASSUME NEW q \in Ops, Dest(q) # StdOut, Delivered(p, q) PROVE Delivered(p, q)'
    <3>1. /\ Dest(q) # Backup(o) => Shown(p, q)'
          /\ Dest(q) = Backup(o) => fs[Src(o)] = Target(p, q)
          /\ fs'[Src(o)] = fs[Src(o)]
          /\ Target(p, q)' = Target(p, q) /\ Renders(p, q)
      BY <1>4, <1>5, <2>1, <2>2
    <3>2. QED
      BY <2>1, <3>1 DEF Delivered, BackedUpOver, Renders
  <2>3. QED
    BY <1>1, <1>2, <1>5, <2>1, <2>2, DeliverProceed DEF Midway
<1>6. CASE CopyData(p) /\ fs' = [fs EXCEPT ![Backup(o)] = fs[Src(o)]] /\ Proceed(p, "write")
  <2>1. pc'[p] = "write" /\ fs[Src(o)] \in Text \union {Absent}
    BY <1>2, <1>6, ProceedType DEF Midway, TypeInv, TypeOK
  <2>2. ASSUME NEW q \in Ops, Dest(q) # StdOut, Delivered(p, q) PROVE Delivered(p, q)'
    <3>1. /\ Dest(q) # Backup(o) => Shown(p, q)'
          /\ Dest(q) = Backup(o) => fs'[Dest(q)] = Target(p, q)
          /\ Target(p, q)' = Target(p, q) /\ Renders(p, q)
      BY <1>4, <1>6, <2>1, <2>2
    <3>2. QED
      BY <2>1, <3>1 DEF Delivered, Shown, BackedUpOver, Renders
  <2>3. QED
    BY <1>1, <1>2, <1>6, <2>1, <2>2, DeliverProceed DEF Midway
<1>7. QED
  BY <1>3, <1>5, <1>6 DEF CopyOpen, CopyData

LEMMA DeliverWrite ==
  ASSUME TypeInv, NEW p \in Procs, DeliverInv(p), Compare(p) \/ Truncate(p) \/ Fill(p)
  PROVE  DeliverInv(p)'
<1> DEFINE o == op[p]
<1>1. /\ pc[p] \in {"write", "truncate", "fill"} /\ pc[p] \in Midway /\ pc[p] \in Passing
      /\ UNCHANGED <<env, data, first, due>>
  BY DEF Compare, Truncate, Fill, Midway, Passing, Running, passVars
<1>2. o \in Ops /\ Target(p, o) \in Text /\ Renders(p, o) /\ o \notin due[p]
  <2>1. o \in Ops /\ Target(p, o) \in Text /\ ~ (o > o)
    BY <1>1, OperandTypes, NotAheadOfItself
  <2>2. QED
    BY <1>1, <2>1, TemplatePlanAssumption DEF Renders, TemplatePlanAssumption, DeliverInv, DueInv
<1>3. ASSUME NEW t \in Text \union {Absent}, Dest(o) # StdOut, fs' = [fs EXCEPT ![Dest(o)] = t]
      PROVE  DeliverFrame(p) /\ fs'[Dest(o)] = t
  BY <1>1, <1>2, <1>3, OwnDestination DEF DeliverFrame
<1>4. ASSUME DeliverFrame(p), NEW step \in {"truncate", "fill"}, Proceed(p, step),
             step = "fill" => fs'[Dest(o)] = Empty
      PROVE  DeliverInv(p)'
  <2>1. pc'[p] = step
    BY <1>4, ProceedType DEF Midway, TypeInv
  <2>2. \A q \in Ops : q < o => q # o
    BY PlanFacts, SMT DEF TypeInv, TypeOK
  <2>3. \A q \in Ops : Dest(q) # StdOut /\ q < o /\ Delivered(p, q) => Delivered(p, q)'
    BY <1>1, <1>4, <2>1, <2>2, DeliverOn
  <2>4. QED
    BY <1>1, <1>2, <1>4, <2>3, DeliverProceed DEF Midway
<1>5. CASE Compare(p)
  <2>1. CASE Dest(o) = StdOut /\ Return(p, TRUE) /\ UNCHANGED fs
    <3>1. DeliverFrame(p) /\ pc[p] = "write"
      BY <1>1, <1>5, <2>1 DEF DeliverFrame, Compare
    <3>2. QED
      BY <1>2, <2>1, <3>1, DeliverReturn
  <2>2. CASE /\ Dest(o) # StdOut
             /\ fs' = [fs EXCEPT ![Dest(o)] = Existing(Dest(o))]
             /\ IF Differs(Dest(o), Target(p, o)) THEN Proceed(p, "truncate") ELSE Return(p, FALSE)
    <3>1. Existing(Dest(o)) \in Text \union {Absent}
      BY <1>2, <2>2, PlanFacts, TemplatePlanAssumption
         DEF Existing, TypeInv, TypeOK, TemplatePlanAssumption
    <3>2. DeliverFrame(p) /\ fs'[Dest(o)] = Existing(Dest(o)) /\ pc[p] = "write"
      BY <1>3, <1>5, <2>2, <3>1 DEF Compare
    <3>3. CASE Differs(Dest(o), Target(p, o)) /\ Proceed(p, "truncate")
      BY <1>4, <3>2, <3>3
    <3>4. CASE ~ Differs(Dest(o), Target(p, o)) /\ Return(p, FALSE)
      BY <1>2, <3>2, <3>4, DeliverReturn DEF Differs
    <3>5. QED
      BY <2>2, <3>3, <3>4
  <2>3. CASE Fail(p) /\ UNCHANGED fs
    <3>1. DeliverFrame(p)
      BY <1>1, <2>3 DEF DeliverFrame
    <3>2. QED
      BY <1>1, <1>2, <2>3, <3>1, DeliverFail
  <2>4. QED
    BY <1>5, <2>1, <2>2, <2>3 DEF Compare
<1>6. CASE Truncate(p) \/ Fill(p)
  <2>1. Dest(o) # StdOut /\ Dest(o) \in Files
    BY <1>6, OperandTypes DEF Truncate, Fill, Midway, TypeInv, Ready, ReadyAt
  <2>2. CASE Truncate(p)
    BY <1>3, <1>4, <2>1, <2>2, TemplatePlanAssumption DEF Truncate, TemplatePlanAssumption
  <2>3. CASE Fill(p)
    <3>1. fs[Dest(o)] = Empty /\ pc[p] = "fill"
      BY <1>1, <2>3 DEF Fill, DeliverInv
    <3>2. CASE fs' = [fs EXCEPT ![Dest(o)] = Target(p, o)] /\ Return(p, TRUE)
      BY <1>2, <1>3, <2>1, <3>1, <3>2, DeliverReturn
    <3>3. CASE (\E t \in {fs[Dest(o)], Torn} : fs' = [fs EXCEPT ![Dest(o)] = t]) /\ Fail(p)
      <4>1. DeliverFrame(p)
        BY <1>3, <2>1, <3>1, <3>3, TemplatePlanAssumption DEF TemplatePlanAssumption
      <4>2. QED
        BY <1>1, <1>2, <3>3, <4>1, DeliverFail
    <3>4. QED
      BY <2>3, <3>1, <3>2, <3>3 DEF Fill
  <2>4. QED
    BY <1>6, <2>2, <2>3
<1>7. QED
  BY <1>5, <1>6

LEMMA DeliverAlways ==
  ASSUME NEW p \in Procs, OneWriter(p) PROVE Spec => []DeliverInv(p)
<1>1. Init => DeliverInv(p)
  BY DEF Init, DeliverInv, DueInv, Passing, Running, Midway
<1>2. TypeInv /\ DryInv /\ DeliverInv(p) /\ [Next]_vars => DeliverInv(p)'
  <2> SUFFICES ASSUME TypeInv, DryInv, DeliverInv(p), [Next]_vars PROVE DeliverInv(p)'
    OBVIOUS
  <2>1. CASE UNCHANGED vars
    BY <2>1 DEF vars, fileVars, passVars, histVars, DeliverInv, DueInv, Delivered, Shown,
                BackedUpOver, Renders, Target, Template
  <2>2. CASE Start(p) \/ Step(p) \/ Crash(p)
    BY <2>2, DeliverCalm, DeliverApply, DeliverCopy, DeliverWrite DEF Step, OneWriter
  <2>3. ASSUME NEW q \in Procs \ {p}, Start(q) \/ Step(q) \/ Crash(q) PROVE DeliverInv(p)'
    <3>1. UNCHANGED fs
      BY <2>3, DryStep DEF OneWriter
    <3>2. pc'[p] = pc[p] /\ op'[p] = op[p] /\ due'[p] = due[p] /\ first'[p] = first[p]
      BY <2>3, OthersProgress
    <3>3. env'[p] = env[p] /\ data'[p] = data[p] /\ spoiled'[p] = spoiled[p]
      BY <2>3, OthersKeep
    <3>4. QED
      BY <3>1, <3>2, <3>3 DEF DeliverInv, DueInv, Delivered, Shown, BackedUpOver, Renders,
                              Target, Template
  <2>4. QED
    BY <2>1, <2>2, <2>3 DEF Next
<1>3. QED
  BY <1>1, <1>2, TypeAlways, DryAlways, PTL DEF Spec

\* When one process writes, after every pass of it, the first and every later one,
\* each file that it could write is the rendering of what the source of the
\* operation held when the process started, for every plan that reads standard input
\* once: also where a template is overwritten by its own rendering or by that of
\* another operation, and where a backup goes to the destination of another one.
THEOREM PassesDeliver ==
  ASSUME NEW p \in Procs, OneWriter(p), StdInOnce
  PROVE  Spec => []PassDelivers
<1>1. TypeInv /\ DeliverInv(p) /\ CacheInv(p) => PassDelivers
  <2> SUFFICES ASSUME TypeInv, DeliverInv(p), CacheInv(p), NEW q \in Procs, PassEnded(q),
                      NEW o \in Written(q)
               PROVE  fs[Dest(o)] = Rendering[<<start[q][Src(o)], data[q]>>]
    BY DEF PassDelivers
  <2>1. q = p /\ o \in Ops \ spoiled[p] /\ Dest(o) # StdOut /\ pc[p] \in Passing
    BY DEF OneWriter, Written, PassEnded, Passing, Running
  <2>2. o < op[p]
    <3>1. op[p] \notin Ops
      BY <2>1 DEF PassEnded, DeliverInv
    <3>2. QED
      BY <2>1, <3>1, PlanFacts, SMT DEF TypeInv, TypeOK, Ops
  <2>3. Shown(p, o)
    BY <2>1, <2>2 DEF DeliverInv, Delivered, PassEnded
  <2>4. env[p][Src(o)] = start[p][Src(o)]
    BY <2>1 DEF CacheInv
  <2>5. QED
    BY <2>1, <2>3, <2>4 DEF Shown, Target, Template
<1>2. QED
  BY <1>1, TypeAlways, DeliverAlways, CacheAlways, PTL

\* When one process writes, what a pass reports as changed is what it changed: the
\* on-reload action is due exactly when a file has another text. A backup made over
\* the destination of another operation would be a change that nothing reports.
THEOREM ReportsAreExact ==
  ASSUME NEW p \in Procs, OneWriter(p), BackupsBeside
  PROVE  Spec => []ReportIsExact
<1>1. TypeInv /\ PassInv(p) => ReportIsExact
  BY PassOver DEF TypeInv, ReportIsExact, Reported
<1>2. QED
  BY <1>1, TypeAlways, PassAlways, PTL

\* When one process writes, a file that shows its rendering when a pass begins
\* shows it throughout the pass, whatever fails: the pass never truncates it. Copying
\* a backup there would.
THEOREM UpToDateStays ==
  ASSUME NEW p \in Procs, OneWriter(p), BackupsBeside
  PROVE  Spec => []UpToDateIsUntouched
<1>1. TypeInv /\ PassInv(p) => UpToDateIsUntouched
  <2> SUFFICES ASSUME TypeInv, PassInv(p), NEW q \in Procs \ DryRuns,
                      pc[q] \in {"apply", "copy", "copying", "write", "truncate", "fill"},
                      NEW o \in Ops, Dest(o) # StdOut, before[q][Dest(o)] = Target(q, o)
               PROVE  fs[Dest(o)] = Target(q, o)
    BY DEF UpToDateIsUntouched
  <2>1. q = p /\ pc[p] \in Passing
    BY DEF OneWriter, Passing, Running, Midway
  <2>2. CASE o < op[p]
    BY <2>1, <2>2 DEF PassInv, Past, Shown
  <2>3. CASE Ahead(p, o)
    BY <2>1, <2>3 DEF PassInv
  <2>4. CASE o = op[p] /\ pc[p] \in {"truncate", "fill"}
    <3>1. before[p][Dest(o)] = Absent
      BY <2>1, <2>4 DEF PassInv, Differed
    <3>2. Target(p, o) \in Text
      BY <2>4, OperandTypes DEF Midway
    <3>3. QED
      BY <2>1, <3>1, <3>2, TemplatePlanAssumption DEF TemplatePlanAssumption
  <2>5. QED
    BY <2>2, <2>3, <2>4, PlanFacts, SMT DEF Ahead, TypeInv, TypeOK
<1>2. QED
  BY <1>1, TypeAlways, PassAlways, PTL
=============================================================================
