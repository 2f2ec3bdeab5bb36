-------------------------- MODULE WatchLoopProofs --------------------------
(***************************************************************************)
(* What holds of the watch loop for every registry of sources, every set   *)
(* of data and webhook callers, and every choice of faults.                *)
(***************************************************************************)
EXTENDS WatchLoop, TLAPS

\* Sources are numbered, and positions run over their numbers and one more.
LEMMA SourceNumbers ==
  /\ Len(Kind) \in Nat
  /\ Sources \subseteq Nat
  /\ Files \subseteq Sources
  /\ Maps \subseteq Sources
  /\ \A s \in Sources : 1 <= s /\ s <= Len(Kind)
BY WatchLoopAssumption, SMT DEF Sources, Files, Maps, WatchLoopAssumption

\* What a source holds fits the View.
LEMMA ContentsInView ==
  \A s \in Sources : Contents(s) \subseteq Values \union {NoData, Malformed}
BY DEF Contents

\* A run that goes wrong ends the program.
LEMMA EndRunStops == EndRun => pc' \in Stopped /\ ~ Alive'
BY DEF EndRun, Stopped, Alive

\* A step of as_figment that does not end the program has looked at the source.
LEMMA ReadGoesOn ==
  ASSUME TypeOK, NEW s \in Sources, ReadSource(s), Alive'
  PROVE  /\ s \notin fatal
         /\ pos = s /\ pos' = s + 1 /\ pc' = pc
         /\ observed' = observed \ {s}
         /\ \/ seen' = [seen EXCEPT ![s] = content[s]] /\ missed' = missed \ {s}
            \/ seen' = [seen EXCEPT ![s] = NoData] /\ missed' = missed \union {s}
<1>1. s \in Maps => s \notin fatal
  BY DEF TypeOK, Maps, Files
<1>2. QED
  BY <1>1, EndRunStops DEF ReadSource, ReadsFatally, Fetched

\* The operations write what was read, tear their files or leave them alone.
LEMMA WrittenType ==
  ASSUME TypeOK, NEW failed, NEW torn, dest' = Written(failed, torn)
  PROVE  dest' \in [Ops -> View \union {Torn}]
BY DEF TypeOK, Written

-----------------------------------------------------------------------------
(* Types.                                                                  *)

LEMMA TypeInit == Init => TypeOK
BY SourceNumbers, WatchLoopAssumption, SMT
   DEF Init, TypeOK, View, ChannelCapacity, Stopped, WatchLoopAssumption

\* Report and Overlook keep the types of what they change.
LEMMA ReportType ==
  ASSUME TypeOK, NEW s \in Sources, Report(s)
  PROVE  /\ events' \in [Sources -> 0 .. QueueCap]
         /\ observed' \subseteq Sources
         /\ missed' \subseteq Sources
<1>1. \A t \in Sources : events[t] \in 0 .. QueueCap
  BY DEF TypeOK
<1>2. events' \in [Sources -> 0 .. QueueCap]
  BY <1>1, WatchLoopAssumption, SMT DEF Report, TypeOK, WatchLoopAssumption
<1>3. QED
  BY <1>2 DEF Report, TypeOK

LEMMA OverlookType ==
  ASSUME TypeOK, NEW s \in Sources, Overlook(s)
  PROVE  /\ events' \in [Sources -> 0 .. QueueCap]
         /\ observed' \subseteq Sources
         /\ missed' \subseteq Sources
BY DEF Overlook, TypeOK

LEMMA EditType ==
  ASSUME TypeOK, NEW s \in Sources, NEW c \in Contents(s),
         content' = [content EXCEPT ![s] = c]
  PROVE  content' \in View
BY ContentsInView DEF TypeOK, View

LEMMA TypeWorld == TypeOK /\ World => TypeOK'
<1> SUFFICES ASSUME TypeOK, World PROVE TypeOK'
  OBVIOUS
<1> USE SourceNumbers, ContentsInView, WatchLoopAssumption
<1>1. ASSUME NEW s \in Files, ModifyFile(s) PROVE TypeOK'
  <2>1. content' \in View
    BY <1>1, EditType DEF ModifyFile
  <2>2. QED
    BY <1>1, <2>1, ReportType, OverlookType DEF ModifyFile, TypeOK, sendVars, loopVars, newsVars
<1>2. ASSUME NEW s \in Files, ReplaceFile(s) PROVE TypeOK'
  <2>1. content' \in View
    BY <1>2, EditType DEF ReplaceFile
  <2>2. QED
    BY <1>2, <2>1, ReportType, OverlookType DEF ReplaceFile, TypeOK, sendVars, loopVars, newsVars
<1>3. ASSUME NEW s \in Maps, ApplyMap(s) PROVE TypeOK'
  <2>1. content' \in View
    BY <1>3, EditType DEF ApplyMap, Contents
  <2>2. QED
    BY <1>3, <2>1, ReportType, OverlookType DEF ApplyMap, TypeOK, sendVars, loopVars, newsVars
<1>4. ASSUME NEW s \in Maps, DeleteMap(s) PROVE TypeOK'
  BY <1>4, SMT DEF DeleteMap, TypeOK, View, Overlook, sendVars, loopVars, newsVars
<1>5. ASSUME NEW s \in Maps, BreakWatch(s) PROVE TypeOK'
  BY <1>5, SMTT(20) DEF BreakWatch, TypeOK, View, worldVars, sendVars, loopVars, newsVars
<1>6. QED
  BY <1>1, <1>2, <1>3, <1>4, <1>5 DEF World

LEMMA TypeSenders == TypeOK /\ Senders => TypeOK'
<1> SUFFICES ASSUME TypeOK, Senders PROVE TypeOK'
  OBVIOUS
<1> USE SourceNumbers, WatchLoopAssumption
<1>1. ASSUME NEW s \in Maps, ListMap(s) PROVE TypeOK'
  BY <1>1, ReportType DEF ListMap, TypeOK, worldVars, sendVars, loopVars, newsVars, changeVars
<1>2. ASSUME NEW s \in Sources, Notify(s) PROVE TypeOK'
  <2>1. events' \in [Sources -> 0 .. QueueCap]
    <3>1. events[s] \in 0 .. QueueCap
      BY DEF TypeOK
    <3>2. events[s] - 1 \in 0 .. QueueCap
      BY <1>2, <3>1, SMT DEF Notify
    <3>3. QED
      BY <1>2, <3>2 DEF Notify, TypeOK
  <2>2. sender' \in [Sources -> {"idle", "sending"}]
    BY <1>2 DEF Notify, TypeOK
  <2>3. QED
    BY <1>2, <2>1, <2>2 DEF Notify, TypeOK, worldVars, loopVars, newsVars, changeVars
<1>3. ASSUME NEW s \in Sources, Send(s) PROVE TypeOK'
  BY <1>3, SMTT(20) DEF Send, PutToken, ChannelCapacity, TypeOK, View, worldVars, watchVars, loopVars, newsVars, changeVars
<1>4. ASSUME Tick PROVE TypeOK'
  BY <1>4, SMT DEF Tick, TypeOK, View, worldVars, watchVars, loopVars, newsVars, changeVars
<1>5. ASSUME SendTick PROVE TypeOK'
  <2>1. chan' \in 0 .. ChannelCapacity
    BY <1>5, SMT DEF SendTick, PutToken, ChannelCapacity, TypeOK
  <2>2. QED
    BY <1>5, <2>1 DEF SendTick, PutToken, AskForAll, TypeOK, worldVars, watchVars, loopVars, newsVars
<1>6. ASSUME NEW c \in Clients, Request(c) PROVE TypeOK'
  <2>1. request' \in [Clients -> {"none", "waiting", "unrouted"}]
    BY <1>6 DEF Request, TypeOK
  <2>2. QED
    BY <1>6, <2>1 DEF Request, TypeOK, worldVars, watchVars, loopVars, newsVars, changeVars
<1>7. ASSUME NEW c \in Clients, Answer(c) PROVE TypeOK'
  <2>1. chan' \in 0 .. ChannelCapacity
    BY <1>7, SMT DEF Answer, PutToken, ChannelCapacity, TypeOK
  <2>2. request' \in [Clients -> {"none", "waiting", "unrouted"}]
    BY <1>7 DEF Answer, TypeOK
  <2>3. QED
    BY <1>7, <2>1, <2>2 DEF Answer, PutToken, AskForAll, TypeOK, worldVars, watchVars, loopVars, newsVars
<1>8. ASSUME NEW c \in Clients, NotFound(c) \/ HangUp(c) PROVE TypeOK'
  <2>1. request' \in [Clients -> {"none", "waiting", "unrouted"}]
    BY <1>8 DEF NotFound, HangUp, TypeOK
  <2>2. QED
    BY <1>8, <2>1 DEF NotFound, HangUp, TypeOK, worldVars, watchVars, loopVars, newsVars, changeVars
<1>9. QED
  BY <1>1, <1>2, <1>3, <1>4, <1>5, <1>6, <1>7, <1>8 DEF Senders

LEMMA TypeMainTask == TypeOK /\ MainTask => TypeOK'
<1> SUFFICES ASSUME TypeOK, MainTask PROVE TypeOK'
  OBVIOUS
<1> USE SourceNumbers, WatchLoopAssumption
<1>1. ASSUME NEW s \in Sources, ReadSource(s) PROVE TypeOK'
  <2>1. CASE Alive'
    <3>1. content[s] \in Values \union {NoData, Malformed}
      BY DEF TypeOK, View
    <3>2. pos' \in 1 .. Len(Kind) + 1
      BY <1>1, <2>1, ReadGoesOn, SMT DEF TypeOK
    <3>3. seen' \in View
      <4>1. PICK c \in Values \union {NoData, Malformed} : seen' = [seen EXCEPT ![s] = c]
        BY <1>1, <2>1, <3>1, ReadGoesOn
      <4>2. QED
        BY <4>1 DEF TypeOK, View
    <3>4. pc' = pc /\ observed' \subseteq Sources /\ missed' \subseteq Sources
      BY <1>1, <2>1, ReadGoesOn DEF TypeOK
    <3>5. QED
      BY <1>1, <3>2, <3>3, <3>4 DEF ReadSource, TypeOK, worldVars, watchVars, sendVars, newsVars
  <2>2. CASE ~ Alive'
    <3>1. EndRun /\ UNCHANGED <<pos, seen, changeVars>>
      BY <1>1, <2>2 DEF ReadSource, Alive, Stopped, Reading
    <3>2. QED
      BY <1>1, <3>1, EndRunStops DEF ReadSource, TypeOK, worldVars, watchVars, sendVars, changeVars, newsVars
  <2>3. QED
    BY <2>1, <2>2
<1>2. ASSUME RenderOneshot PROVE TypeOK'
  <2>1. dest' \in [Ops -> View \union {Torn}]
    <3>1. dest' = dest \/ \E failed, torn : dest' = Written(failed, torn)
      BY <1>2 DEF RenderOneshot
    <3>2. QED
      BY <3>1, WrittenType DEF TypeOK
  <2>2. pos' \in 1 .. Len(Kind) + 1
    BY <1>2, SMT DEF RenderOneshot, TypeOK
  <2>3. pc' \in {"oneshot", "register", "recv", "read", "notify"} \union Stopped
    BY <1>2 DEF RenderOneshot, Stopped
  <2>4. QED
    BY <1>2, <2>1, <2>2, <2>3
       DEF RenderOneshot, TypeOK, worldVars, watchVars, sendVars, changeVars, newsVars
<1>3. ASSUME NEW s \in Sources, RegisterSource(s) PROVE TypeOK'
  BY <1>3, SMTT(20) DEF RegisterSource, TypeOK, View, worldVars, sendVars, changeVars, newsVars
<1>4. ASSUME StartWatchers PROVE TypeOK'
  BY <1>4, SMT DEF StartWatchers, TypeOK, View, Stopped, worldVars, watchVars, changeVars, newsVars
<1>5. ASSUME Recv PROVE TypeOK'
  BY <1>5, SMT DEF Recv, ChannelCapacity, TypeOK, View, worldVars, watchVars, changeVars, newsVars
<1>6. ASSUME Render PROVE TypeOK'
  <2>1. CASE ~ ExtractOk
    BY <1>6, <2>1 DEF Render, TypeOK, worldVars, watchVars, sendVars, changeVars, newsVars
  <2>2. CASE ExtractOk
    <3>1. PICK failed \in SUBSET Ops, torn \in SUBSET Ops :
            /\ dest' = Written(failed, torn)
            /\ updated' = Changed(failed)
            /\ behind' = {o \in failed : dest[o] # seen}
            /\ unannounced' = unannounced \union {o \in Ops : dest'[o] # dest[o]}
            /\ pc' = IF updated' = {} THEN "recv" ELSE "notify"
      BY <1>6, <2>2 DEF Render, MayFail, MayTear
    <3>2. dest' \in [Ops -> View \union {Torn}]
      BY <3>1, WrittenType
    <3>3. updated' \subseteq Ops /\ behind' \subseteq Ops /\ unannounced' \subseteq Ops
      BY <3>1 DEF Changed, TypeOK
    <3>4. QED
      BY <1>6, <3>1, <3>2, <3>3 DEF Render, TypeOK, worldVars, watchVars, sendVars, changeVars, newsVars
  <2>3. QED
    BY <2>1, <2>2
<1>7. ASSUME OnReload PROVE TypeOK'
  BY <1>7, SMT DEF OnReload, TypeOK, View, worldVars, watchVars, sendVars, changeVars, newsVars
<1>8. ASSUME RenderPanics PROVE TypeOK'
  <2>1. dest' \in [Ops -> View \union {Torn}]
    <3>1. \E failed, torn : dest' = Written(failed, torn)
      BY <1>8 DEF RenderPanics
    <3>2. QED
      BY <3>1, WrittenType
  <2>2. QED
    BY <1>8, <2>1, EndRunStops
       DEF RenderPanics, TypeOK, worldVars, watchVars, sendVars, changeVars, newsVars
<1>9. QED
  BY <1>1, <1>2, <1>3, <1>4, <1>5, <1>6, <1>7, <1>8 DEF MainTask

\* Every state of the watch loop is well typed; in particular the channel never
\* holds more than its one notification.
THEOREM TypeCorrect == Spec => []TypeOK
<1>1. TypeOK /\ [Next]_vars => TypeOK'
  <2>1. ASSUME TypeOK, UNCHANGED vars PROVE TypeOK'
    BY <2>1 DEF vars, TypeOK, View, Stopped
  <2>2. QED
    BY <2>1, TypeWorld, TypeSenders, TypeMainTask DEF Next
<1>2. QED
  BY TypeInit, <1>1, PTL DEF Spec
-----------------------------------------------------------------------------
(* How the loop ends. The initial run ends at the first fatal source, so    *)
(* past it no source is fatal.                                              *)

FatalFound ==
  /\ pc = "oneshot" => \A s \in Sources : s < pos => s \notin fatal
  /\ pc \in {"register", "recv", "read", "notify"} => fatal = {}

FatalInv == TypeOK /\ FatalFound

LEMMA FatalInit == Init => FatalInv
<1> SUFFICES ASSUME Init PROVE FatalInv
  OBVIOUS
<1>1. TypeOK
  BY TypeInit
<1>2. FatalFound
  BY SourceNumbers, SMT DEF Init, FatalFound
<1>3. QED
  BY <1>1, <1>2 DEF FatalInv

LEMMA FatalStep == FatalInv /\ [Next]_vars => FatalInv'
<1> SUFFICES ASSUME FatalInv, [Next]_vars PROVE FatalInv'
  OBVIOUS
<1>1. TypeOK'
  <2>1. CASE UNCHANGED vars
    BY <2>1 DEF vars, FatalInv, TypeOK, View, Stopped
  <2>2. QED
    BY <2>1, TypeWorld, TypeSenders, TypeMainTask DEF Next, FatalInv
<1>2. CASE UNCHANGED <<pc, pos, fatal>>
  BY <1>1, <1>2 DEF FatalInv, FatalFound
<1>3. CASE pc' \in Stopped
  BY <1>1, <1>3 DEF FatalInv, FatalFound, Stopped
<1>4. CASE MainTask
  <2>1. ASSUME NEW s \in Sources, ReadSource(s), Alive' PROVE FatalFound'
    <3>1. s \notin fatal /\ pos = s /\ pos' = s + 1 /\ pc' = pc /\ fatal' = fatal
      BY <2>1, ReadGoesOn DEF ReadSource, FatalInv, worldVars
    <3>2. \A t \in Sources : t < pos' => t < pos \/ t = s
      BY <3>1, SourceNumbers, SMT
    <3>3. QED
      BY <3>1, <3>2 DEF FatalInv, FatalFound
  <2>2. ASSUME RenderOneshot PROVE FatalFound'
    <3>1. \A s \in Sources : s < pos
      BY <2>2, SourceNumbers, SMT DEF RenderOneshot, AllRead
    <3>2. fatal = {}
      BY <2>2, <3>1, SourceNumbers DEF RenderOneshot, FatalInv, FatalFound, TypeOK
    <3>3. QED
      BY <2>2, <3>2 DEF RenderOneshot, FatalFound, worldVars
  <2>3. ASSUME NEW s \in Sources, RegisterSource(s) PROVE FatalFound'
    BY <2>3 DEF RegisterSource, FatalInv, FatalFound, worldVars
  <2>4. ASSUME StartWatchers \/ Recv \/ Render \/ OnReload PROVE FatalFound'
    BY <2>4 DEF StartWatchers, Recv, Render, OnReload, FatalInv, FatalFound, worldVars
  <2>5. CASE ~ Alive'
    BY <1>3, <2>5 DEF Alive
  <2>6. CASE RenderPanics
    BY <1>3, <2>6, EndRunStops DEF RenderPanics
  <2>7. QED
    BY <1>1, <1>4, <2>1, <2>2, <2>3, <2>4, <2>5, <2>6 DEF MainTask, FatalInv
<1>5. CASE World
  <2>1. UNCHANGED <<pc, pos, fatal>>
    BY <1>5 DEF World, ModifyFile, ReplaceFile, ApplyMap, DeleteMap, BreakWatch, loopVars, worldVars
  <2>2. QED
    BY <1>2, <2>1
<1>6. CASE Senders
  <2>1. UNCHANGED <<pc, pos, fatal>>
    BY <1>6 DEF Senders, ListMap, Notify, Send, PutToken, Tick, SendTick, Request, Answer,
         NotFound, HangUp, loopVars, worldVars
  <2>2. QED
    BY <1>2, <2>1
<1>7. QED
  BY <1>2, <1>4, <1>5, <1>6 DEF Next, vars

\* The loop ends only by the panic of a provider, at a ConfigMap with a bare
\* key, or of a rendering: whatever the sources are and however they change, the
\* unwrap() of as_figment's result never fails.
THEOREM LoopSurvivesItsSources == Spec => UnwrapHolds
<1>1. FatalInv /\ [Next]_vars =>
        [Looping /\ ~ Alive' =>
           pc = "read" /\ (AllRead \/ (pos \in Sources /\ HasBareKey(pos)))]_vars
  <2> SUFFICES ASSUME FatalInv, Next, Looping, ~ Alive'
               PROVE  pc = "read" /\ (AllRead \/ (pos \in Sources /\ HasBareKey(pos)))
    BY DEF vars
  <2>1. Alive
    BY DEF Looping, Alive, Stopped
  <2>2. CASE World \/ Senders
    <3>1. UNCHANGED pc
      BY <2>2 DEF World, ModifyFile, ReplaceFile, ApplyMap, DeleteMap, BreakWatch, loopVars,
         Senders, ListMap, Notify, Send, PutToken, Tick, SendTick, Request, Answer, NotFound, HangUp
    <3>2. QED
      BY <2>1, <3>1 DEF Alive
  <2>3. ASSUME NEW s \in Sources, ReadSource(s) PROVE pc = "read" /\ pos \in Sources /\ HasBareKey(pos)
    <3>1. pc = "read" /\ fatal = {}
      BY <2>3 DEF ReadSource, Reading, Looping, FatalInv, FatalFound
    <3>2. QED
      BY <2>1, <2>3, <3>1 DEF ReadSource, ReadsFatally, Alive
  <2>4. CASE RenderPanics
    BY <2>4 DEF RenderPanics, Reading, Looping
  <2>5. ASSUME NEW s \in Sources, RegisterSource(s) PROVE FALSE
    BY <2>5 DEF RegisterSource, Looping
  <2>6. CASE RenderOneshot \/ StartWatchers
    BY <2>6 DEF RenderOneshot, StartWatchers, Looping
  <2>7. CASE Recv \/ Render \/ OnReload
    <3>1. pc' \in {"recv", "read", "notify"}
      BY <2>7 DEF Recv, Render, OnReload
    <3>2. QED
      BY <3>1 DEF Alive, Stopped
  <2>8. QED
    BY <2>2, <2>3, <2>4, <2>5, <2>6, <2>7 DEF Next, MainTask
<1>2. QED
  BY FatalInit, FatalStep, <1>1, PTL DEF Spec, UnwrapHolds

-----------------------------------------------------------------------------
(* No lost wakeup. The invariant is inductive together with the types: it   *)
(* names every place where a reported change can be on its way.            *)

WakeupInv == TypeOK /\ NoLostWakeup

LEMMA WakeupInit == Init => WakeupInv
<1>1. Init => NoLostWakeup
  BY DEF Init, NoLostWakeup
<1>2. QED
  BY <1>1, TypeInit DEF WakeupInv

\* A reported change has an event.
LEMMA ReportIsDue ==
  ASSUME TypeOK, NEW s \in Sources, Report(s)
  PROVE  /\ events'[s] > 0
         /\ \A t \in Sources : t # s => events'[t] = events[t]
BY WatchLoopAssumption, SMT DEF TypeOK, Report, WatchLoopAssumption

LEMMA WakeupWorld == WakeupInv /\ World => NoLostWakeup'
<1> SUFFICES ASSUME WakeupInv, World, Alive', NEW t \in observed', t \in Sources
             PROVE  ReadIsDue(t)'
  BY TypeWorld DEF NoLostWakeup, WakeupInv, TypeOK
<1>0. UNCHANGED <<sender, chan, pc, pos>> /\ Alive
  BY DEF World, ModifyFile, ReplaceFile, ApplyMap, DeleteMap, BreakWatch, loopVars, newsVars, sendVars, Alive
<1>1. ASSUME NEW s \in Sources, Report(s) PROVE ReadIsDue(t)'
  <2>1. CASE t = s
    BY <1>1, <2>1, ReportIsDue DEF ReadIsDue, WakeupInv
  <2>2. CASE t # s
    <3>1. t \in observed /\ events'[t] = events[t]
      BY <1>1, <2>2, ReportIsDue DEF Report, WakeupInv
    <3>2. QED
      BY <1>0, <3>1 DEF ReadIsDue, WakeupInv, NoLostWakeup
  <2>3. QED
    BY <2>1, <2>2
<1>2. ASSUME UNCHANGED <<events, observed>> PROVE ReadIsDue(t)'
  BY <1>0, <1>2 DEF ReadIsDue, WakeupInv, NoLostWakeup
<1>3. ASSUME NEW s \in Maps, BreakWatch(s) PROVE ReadIsDue(t)'
  <2>1. t \in observed /\ t # s /\ events'[t] = events[t]
    BY <1>3 DEF BreakWatch, WakeupInv, TypeOK
  <2>2. QED
    BY <1>0, <2>1 DEF ReadIsDue, WakeupInv, NoLostWakeup
<1>4. QED
  BY <1>1, <1>2, <1>3, SourceNumbers
     DEF World, ModifyFile, ReplaceFile, ApplyMap, DeleteMap, Overlook

LEMMA WakeupSenders == WakeupInv /\ Senders => NoLostWakeup'
<1> SUFFICES ASSUME WakeupInv, Senders, Alive', NEW t \in observed', t \in Sources
             PROVE  ReadIsDue(t)'
  BY TypeSenders DEF NoLostWakeup, WakeupInv, TypeOK
<1>0. UNCHANGED <<pc, pos>> /\ Alive
  BY DEF Senders, ListMap, Notify, Send, PutToken, Tick, SendTick, Request, Answer,
     NotFound, HangUp, loopVars, newsVars, Alive
<1>1. ASSUME NEW s \in Maps, ListMap(s) PROVE ReadIsDue(t)'
  <2>1. UNCHANGED <<sender, chan>>
    BY <1>1 DEF ListMap, sendVars
  <2>2. CASE Report(s) /\ t = s
    BY <2>2, ReportIsDue, SourceNumbers DEF ReadIsDue, WakeupInv
  <2>3. CASE Report(s) /\ t # s
    <3>1. t \in observed /\ events'[t] = events[t]
      BY <2>3, ReportIsDue, SourceNumbers DEF Report, WakeupInv
    <3>2. QED
      BY <1>0, <2>1, <3>1 DEF ReadIsDue, WakeupInv, NoLostWakeup
  <2>4. CASE UNCHANGED <<events, changeVars>>
    BY <1>0, <2>1, <2>4 DEF ReadIsDue, WakeupInv, NoLostWakeup, changeVars, newsVars
  <2>5. QED
    BY <1>1, <2>2, <2>3, <2>4 DEF ListMap
<1>2. ASSUME NEW s \in Sources, Notify(s) PROVE ReadIsDue(t)'
  <2>1. CASE t = s
    BY <1>2, <2>1 DEF Notify, ReadIsDue, WakeupInv, TypeOK
  <2>2. CASE t # s
    <3>1. /\ t \in observed /\ events'[t] = events[t] /\ sender'[t] = sender[t]
          /\ chan' = chan
      BY <1>2, <2>2 DEF Notify, changeVars, newsVars, WakeupInv, TypeOK
    <3>2. QED
      BY <1>0, <3>1 DEF ReadIsDue, WakeupInv, NoLostWakeup
  <2>3. QED
    BY <2>1, <2>2
<1>3. ASSUME PutToken PROVE ReadIsDue(t)'
  BY <1>3, SMT DEF PutToken, ReadIsDue, WakeupInv, TypeOK, ChannelCapacity
<1>4. ASSUME UNCHANGED <<events, sender, chan, observed>> PROVE ReadIsDue(t)'
  BY <1>0, <1>4 DEF ReadIsDue, WakeupInv, NoLostWakeup
<1>5. QED
  BY <1>1, <1>2, <1>3, <1>4
     DEF Senders, Send, SendTick, Answer, Tick, Request, NotFound, HangUp, watchVars, changeVars, newsVars

LEMMA WakeupMainTask == WakeupInv /\ MainTask => NoLostWakeup'
<1> SUFFICES ASSUME WakeupInv, MainTask, Alive', NEW t \in observed', t \in Sources
             PROVE  ReadIsDue(t)'
  BY TypeMainTask DEF NoLostWakeup, WakeupInv, TypeOK
<1>0. UNCHANGED <<events, sender>> /\ Alive
  BY DEF MainTask, ReadSource, Reading, RenderOneshot, RegisterSource, StartWatchers, Recv, Render,
     RenderPanics, OnReload, watchVars, sendVars, Alive, Stopped
<1>1. ASSUME NEW s \in Sources, ReadSource(s) PROVE ReadIsDue(t)'
  <2>2. /\ pos = s /\ pos' = s + 1 /\ pc' = pc /\ chan' = chan
        /\ t \in observed /\ t # s
    BY <1>1, ReadGoesOn DEF ReadSource, WakeupInv, sendVars
  <2>3. ReadIsDue(t)
    BY <1>0, <2>2 DEF WakeupInv, NoLostWakeup
  <2>4. s <= t => s + 1 <= t
    BY <2>2, SourceNumbers, SMT
  <2>5. QED
    BY <1>0, <2>2, <2>3, <2>4 DEF ReadIsDue
<1>2. ASSUME RenderOneshot \/ StartWatchers \/ OnReload PROVE ReadIsDue(t)'
  <2>1. UNCHANGED <<observed, chan>> /\ pc # "read"
    BY <1>2 DEF RenderOneshot, StartWatchers, OnReload, changeVars, newsVars, sendVars
  <2>2. QED
    BY <1>0, <2>1 DEF ReadIsDue, WakeupInv, NoLostWakeup
<1>3. ASSUME NEW s \in Sources, RegisterSource(s) PROVE ReadIsDue(t)'
  <2>1. UNCHANGED <<observed, chan, pc>> /\ pc # "read"
    BY <1>3 DEF RegisterSource, changeVars, newsVars, sendVars
  <2>2. QED
    BY <1>0, <2>1 DEF ReadIsDue, WakeupInv, NoLostWakeup
<1>4. ASSUME Recv PROVE ReadIsDue(t)'
  BY <1>4, SourceNumbers, SMT DEF Recv, ReadIsDue
<1>5. ASSUME Render PROVE ReadIsDue(t)'
  <2>1. ~ (pos <= t)
    BY <1>5, SourceNumbers, SMT DEF Render, AllRead
  <2>2. UNCHANGED <<observed, chan>>
    BY <1>5 DEF Render, changeVars, newsVars, sendVars
  <2>3. QED
    BY <1>0, <2>1, <2>2 DEF ReadIsDue, WakeupInv, NoLostWakeup
<1>6. QED
  BY <1>1, <1>2, <1>3, <1>4, <1>5, EndRunStops DEF MainTask, RenderPanics

LEMMA WakeupStep == WakeupInv /\ [Next]_vars => WakeupInv'
<1> SUFFICES ASSUME WakeupInv, [Next]_vars PROVE WakeupInv'
  OBVIOUS
<1>1. CASE UNCHANGED vars
  BY <1>1 DEF vars, WakeupInv, TypeOK, View, Stopped, NoLostWakeup, ReadIsDue, Alive
<1>2. CASE Next
  BY <1>2, WakeupWorld, WakeupSenders, WakeupMainTask, TypeWorld, TypeSenders, TypeMainTask
     DEF Next, WakeupInv
<1>3. QED
  BY <1>1, <1>2

\* A change that was reported is never forgotten, however the watches, the
\* timer, the webhook callers and the one place in the channel interleave.
THEOREM WakeupsAreKept == Spec => []NoLostWakeup
<1>1. WakeupInv => NoLostWakeup
  BY DEF WakeupInv
<1>2. QED
  BY WakeupInit, WakeupStep, <1>1, PTL DEF Spec
-----------------------------------------------------------------------------
(* An idle loop is up to date. What a source is known to hold is what it    *)
(* holds, unless a change of it was missed or is still to be read; and      *)
(* outside a pass the files show what was read, unless it does not parse or *)
(* their operation failed.                                                 *)

Known ==
  Alive => \A s \in Sources \ (observed \union missed) :
             (pc = "oneshot" /\ pos <= s) \/ seen[s] = content[s]

Shown ==
  pc \in {"register", "recv", "notify"} =>
    (\E s \in Sources : seen[s] = Malformed) \/ (\A o \in Ops \ behind : dest[o] = seen)

FreshInv == WakeupInv /\ Known /\ Shown

LEMMA FreshInit == Init => FreshInv
<1> SUFFICES ASSUME Init PROVE FreshInv
  OBVIOUS
<1>1. Known
  BY SourceNumbers, SMT DEF Init, Known
<1>2. Shown
  BY DEF Init, Shown
<1>3. QED
  BY <1>1, <1>2, WakeupInit DEF FreshInv

LEMMA KnownWorld == FreshInv /\ World => Known'
<1> SUFFICES ASSUME FreshInv, World, Alive', NEW t \in Sources, t \notin observed', t \notin missed'
             PROVE  ((pc = "oneshot" /\ pos <= t) \/ seen[t] = content[t])'
  BY DEF Known
<1>1. UNCHANGED <<pc, pos, seen>> /\ Alive
  BY DEF World, ModifyFile, ReplaceFile, ApplyMap, DeleteMap, BreakWatch, loopVars, newsVars, Alive
<1>2. t \notin observed /\ t \notin missed
  <2>1. ASSUME NEW s \in Sources, Report(s) \/ Overlook(s) PROVE t \notin observed /\ t \notin missed
    BY <2>1 DEF Report, Overlook
  <2>2. ASSUME NEW s \in Maps, BreakWatch(s) PROVE t \notin observed /\ t \notin missed
    BY <2>2 DEF BreakWatch
  <2>3. QED
    BY <2>1, <2>2, SourceNumbers DEF World, ModifyFile, ReplaceFile, ApplyMap, DeleteMap
<1>3. content'[t] = content[t]
  <2>1. ASSUME NEW s \in Sources, Report(s) \/ Overlook(s) PROVE t # s
    BY <2>1 DEF Report, Overlook
  <2>2. ASSUME NEW s \in Maps, BreakWatch(s) PROVE content'[t] = content[t]
    BY <2>2 DEF BreakWatch, worldVars
  <2>3. content \in [Sources -> Values \union {NoData, Malformed}]
    BY DEF FreshInv, WakeupInv, TypeOK, View
  <2>4. ASSUME NEW s \in Sources, NEW c, t # s, content' = [content EXCEPT ![s] = c]
        PROVE  content'[t] = content[t]
    BY <2>3, <2>4
  <2>5. QED
    BY <2>1, <2>2, <2>4, SourceNumbers DEF World, ModifyFile, ReplaceFile, ApplyMap, DeleteMap
<1>4. QED
  BY <1>1, <1>2, <1>3 DEF FreshInv, Known

LEMMA KnownSenders == FreshInv /\ Senders => Known'
<1> SUFFICES ASSUME FreshInv, Senders, Alive', NEW t \in Sources, t \notin observed', t \notin missed'
             PROVE  ((pc = "oneshot" /\ pos <= t) \/ seen[t] = content[t])'
  BY DEF Known
<1>1. UNCHANGED <<content, pc, pos, seen>> /\ Alive
  BY DEF Senders, ListMap, Notify, Send, PutToken, Tick, SendTick, Request, Answer,
     NotFound, HangUp, loopVars, newsVars, worldVars, Alive
<1>2. t \notin observed /\ t \notin missed
  BY SourceNumbers DEF Senders, ListMap, Report, Notify, Send, Tick, SendTick, Request, Answer, AskForAll,
     NotFound, HangUp, changeVars, newsVars
<1>3. QED
  BY <1>1, <1>2 DEF FreshInv, Known

LEMMA KnownMainTask == FreshInv /\ MainTask => Known'
<1> SUFFICES ASSUME FreshInv, MainTask, Alive', NEW t \in Sources, t \notin observed', t \notin missed'
             PROVE  ((pc = "oneshot" /\ pos <= t) \/ seen[t] = content[t])'
  BY DEF Known
<1>0. content' = content /\ Alive
  BY DEF MainTask, ReadSource, Reading, RenderOneshot, RegisterSource, StartWatchers, Recv, Render,
     RenderPanics, OnReload, worldVars, Alive, Stopped
<1>1. ASSUME NEW s \in Sources, ReadSource(s) PROVE ((pc = "oneshot" /\ pos <= t) \/ seen[t] = content[t])'
  <2>1. TypeOK
    BY DEF FreshInv, WakeupInv
  <2>2. seen \in [Sources -> Values \union {NoData, Malformed}]
    BY <2>1 DEF TypeOK, View
  <2>3. CASE t = s
    BY <1>0, <1>1, <2>1, <2>2, <2>3, ReadGoesOn
  <2>4. CASE t # s
    <3>1. t \notin observed /\ t \notin missed /\ seen'[t] = seen[t]
      BY <1>1, <2>1, <2>2, <2>4, ReadGoesOn
    <3>2. pos = s /\ pos' = s + 1 /\ pc' = pc
      BY <1>1, <2>1, ReadGoesOn
    <3>3. pos <= t => pos' <= t
      BY <3>2, <2>4, SourceNumbers, SMT
    <3>4. QED
      BY <1>0, <3>1, <3>2, <3>3 DEF FreshInv, Known
  <2>5. QED
    BY <2>3, <2>4
<1>2. ASSUME RenderOneshot PROVE ((pc = "oneshot" /\ pos <= t) \/ seen[t] = content[t])'
  <2>1. ~ (pos <= t)
    BY <1>2, SourceNumbers, SMT DEF RenderOneshot, AllRead
  <2>2. QED
    BY <1>0, <1>2, <2>1 DEF RenderOneshot, FreshInv, Known, changeVars, newsVars
<1>3. ASSUME NEW s \in Sources, RegisterSource(s) PROVE ((pc = "oneshot" /\ pos <= t) \/ seen[t] = content[t])'
  BY <1>0, <1>3 DEF RegisterSource, FreshInv, Known, changeVars, newsVars
<1>4. ASSUME StartWatchers \/ Recv \/ Render \/ OnReload
      PROVE  ((pc = "oneshot" /\ pos <= t) \/ seen[t] = content[t])'
  BY <1>0, <1>4 DEF StartWatchers, Recv, Render, OnReload, FreshInv, Known, changeVars, newsVars
<1>5. QED
  BY <1>1, <1>2, <1>3, <1>4, EndRunStops DEF MainTask, RenderPanics

LEMMA ShownStep ==
  ASSUME FreshInv, [Next]_vars
  PROVE  Shown'
<1>1. CASE UNCHANGED <<pc, seen, dest, behind>>
  BY <1>1 DEF FreshInv, Shown
<1>2. CASE World \/ Senders
  <2>1. UNCHANGED <<pc, seen, dest, behind>>
    BY <1>2 DEF World, ModifyFile, ReplaceFile, ApplyMap, DeleteMap, BreakWatch, loopVars, newsVars,
       Senders, ListMap, Notify, Send, PutToken, Tick, SendTick, Request, Answer, NotFound, HangUp
  <2>2. QED
    BY <1>1, <2>1
<1>3. CASE MainTask
  <2>1. ASSUME NEW s \in Sources, ReadSource(s) PROVE Shown'
    BY <2>1 DEF ReadSource, Reading, EndRun, Shown
  <2>2. ASSUME RenderOneshot PROVE Shown'
    <3>1. pc' = "register" => dest' = [o \in Ops |-> seen] /\ seen' = seen
      BY <2>2 DEF RenderOneshot, Written
    <3>2. pc' \in {"register", "exited"}
      BY <2>2 DEF RenderOneshot
    <3>3. QED
      BY <3>1, <3>2 DEF Shown
  <2>3. ASSUME Render PROVE Shown'
    <3>1. CASE ExtractOk
      <4>1. PICK failed, torn :
              /\ torn \in MayTear(failed)
              /\ dest' = Written(failed, torn)
              /\ behind' = {o \in failed : dest[o] # seen}
              /\ seen' = seen
        BY <2>3, <3>1 DEF Render
      <4>2. \A o \in Ops \ behind' : dest'[o] = seen'
        BY <4>1 DEF Written, MayTear
      <4>3. QED
        BY <4>2 DEF Shown
    <3>2. CASE ~ ExtractOk
      BY <2>3, <3>2 DEF Render, ExtractOk, Shown
    <3>3. QED
      BY <3>1, <3>2
  <2>4. ASSUME NEW s \in Sources, RegisterSource(s) PROVE Shown'
    BY <2>4 DEF RegisterSource, FreshInv, Shown
  <2>5. ASSUME StartWatchers \/ Recv \/ OnReload PROVE Shown'
    BY <2>5 DEF StartWatchers, Recv, OnReload, FreshInv, Shown
  <2>6. ASSUME RenderPanics PROVE Shown'
    BY <2>6, EndRunStops DEF RenderPanics, Shown, Stopped
  <2>7. QED
    BY <1>3, <2>1, <2>2, <2>3, <2>4, <2>5, <2>6 DEF MainTask
<1>4. QED
  BY <1>1, <1>2, <1>3 DEF Next, vars

\* An idle loop with nothing due has rendered what every source holds, but for
\* changes that nothing reported, into every file whose operation did not fail.
THEOREM IdleLoopIsFresh == Spec => []IdleMeansFresh
<1>1. FreshInv /\ [Next]_vars => FreshInv'
  <2> SUFFICES ASSUME FreshInv, [Next]_vars PROVE FreshInv'
    OBVIOUS
  <2>1. Known'
    <3>1. CASE UNCHANGED vars
      BY <3>1 DEF vars, FreshInv, Known, Alive
    <3>2. QED
      BY <3>1, KnownWorld, KnownSenders, KnownMainTask DEF Next
  <2>2. QED
    BY <2>1, ShownStep, WakeupStep DEF FreshInv
<1>2. FreshInv => IdleMeansFresh
  <2> SUFFICES ASSUME FreshInv, pc = "recv", chan = 0, NEW o \in Ops \ behind, NEW s \in Sources \ missed,
                      \A t \in Sources : events[t] = 0 /\ sender[t] = "idle",
                      ~ \E t \in Sources : seen[t] = Malformed
               PROVE  dest[o][s] = content[s]
    BY DEF IdleMeansFresh
  <2>1. s \notin observed
    BY SMT DEF FreshInv, WakeupInv, NoLostWakeup, ReadIsDue, Alive, Stopped
  <2>2. seen[s] = content[s]
    BY <2>1 DEF FreshInv, Known, Alive, Stopped
  <2>3. QED
    BY <2>2 DEF FreshInv, Shown
<1>3. QED
  BY FreshInit, <1>1, <1>2, PTL DEF Spec

-----------------------------------------------------------------------------
(* The on-reload action hears of every change, except by a failing write.  *)

\* During the on-reload action the files that changed are also those given to it.
Heard ==
  /\ pc = "oneshot" => unannounced = {}
  /\ Alive => \A o \in unannounced :
       dest[o] = Torn \/ o \in refused \/ (pc = "notify" /\ o \in updated)

LEMMA HeardRender == ASSUME TypeOK, Heard, Render PROVE Heard'
<1>1. pc = "read" /\ Alive /\ pc' # "oneshot" /\ refused' = refused
  BY DEF Render, Alive, Stopped
<1>2. CASE ~ ExtractOk
  BY <1>1, <1>2 DEF Render, Heard
<1>3. CASE ExtractOk
  <2>1. PICK failed, torn :
          /\ torn \in MayTear(failed)
          /\ dest' = Written(failed, torn)
          /\ updated' = Changed(failed)
          /\ unannounced' = unannounced \union {o \in Ops : dest'[o] # dest[o]}
          /\ pc' = IF updated' = {} THEN "recv" ELSE "notify"
    BY <1>3 DEF Render
  <2> SUFFICES ASSUME NEW o \in unannounced'
               PROVE  dest'[o] = Torn \/ o \in refused' \/ (pc' = "notify" /\ o \in updated')
    BY <1>1 DEF Heard
  <2>2. CASE o \in refused
    BY <1>1, <2>2
  <2>3. CASE dest'[o] = dest[o] /\ o \notin refused
    BY <1>1, <2>1, <2>3 DEF Heard
  <2>4. CASE o \in Ops /\ dest'[o] # dest[o]
    <3>1. CASE o \in torn
      BY <2>1, <2>4, <3>1 DEF Written
    <3>2. CASE o \notin torn
      <4>1. o \notin failed /\ dest'[o] = seen
        BY <2>1, <2>4, <3>2 DEF Written
      <4>2. o \in updated'
        BY <2>1, <2>4, <4>1 DEF Changed
      <4>3. QED
        BY <2>1, <4>2
    <3>3. QED
      BY <3>1, <3>2
  <2>5. QED
    BY <2>1, <2>2, <2>3, <2>4 DEF TypeOK
<1>4. QED
  BY <1>2, <1>3

\* When the loop goes back to wait, every changed file has been given to on-reload,
\* but for those torn by their own failing write and those whose on-reload action
\* failed, whichever operations and on-reload actions fail.
THEOREM AllChangesAnnounced == Spec => []ChangesAnnounced
<1>1. Init => Heard
  BY DEF Init, Heard
<1>2. TypeOK /\ Heard /\ [Next]_vars => Heard'
  <2> SUFFICES ASSUME TypeOK, Heard, [Next]_vars PROVE Heard'
    OBVIOUS
  <2>1. CASE UNCHANGED <<pc, dest, updated, unannounced, refused>>
    BY <2>1 DEF Heard, Alive
  <2>2. CASE World \/ Senders
    <3>1. UNCHANGED <<pc, dest, updated, unannounced, refused>>
      BY <2>2 DEF World, ModifyFile, ReplaceFile, ApplyMap, DeleteMap, BreakWatch, loopVars, newsVars,
         Senders, ListMap, Notify, Send, PutToken, Tick, SendTick, Request, Answer, NotFound, HangUp
    <3>2. QED
      BY <2>1, <3>1
  <2>3. CASE Render
    BY <2>3, HeardRender
  <2>4. CASE OnReload
    BY <2>4 DEF OnReload, Heard, Alive, Stopped
  <2>5. CASE UNCHANGED <<dest, updated, unannounced, refused>> /\ pc # "notify" /\ Alive
             /\ (pc' = "oneshot" => pc = "oneshot")
    BY <2>5 DEF Heard
  <2>6. ASSUME NEW s \in Sources, ReadSource(s) \/ RegisterSource(s) PROVE Heard'
    BY <2>5, <2>6 DEF ReadSource, Reading, EndRun, RegisterSource, Alive, Stopped, loopVars, newsVars
  <2>7. CASE StartWatchers \/ Recv
    BY <2>5, <2>7 DEF StartWatchers, Recv, Alive, Stopped, newsVars
  <2>8. CASE RenderOneshot
    BY <2>8 DEF RenderOneshot, Heard, newsVars
  <2>9. CASE RenderPanics
    BY <2>9, EndRunStops DEF RenderPanics, Heard, Stopped
  <2>10. QED
    BY <2>1, <2>2, <2>3, <2>4, <2>6, <2>7, <2>8, <2>9 DEF Next, MainTask, vars
<1>3. Heard => ChangesAnnounced
  BY DEF Heard, ChangesAnnounced, Alive, Stopped
<1>4. QED
  BY <1>1, <1>2, <1>3, TypeCorrect, PTL DEF Spec

-----------------------------------------------------------------------------
(* The watch loop implements LiveConfig: its initial states are initial    *)
(* states there, and each of its steps is a step there or changes nothing  *)
(* of what LiveConfig speaks about.                                        *)

AllData == Values \union {NoData, Malformed}

\* A step that leaves these alone is a stuttering step of LiveConfig.
Visible == <<content, seen, dest, observed, pc, pos>>

LEMMA Stutters == UNCHANGED Visible => UNCHANGED Live!vars
BY DEF Visible, Live!vars, Looked, Owed, Alive

LEMMA InitMaps == Init => Live!Init
<1> SUFFICES ASSUME Init PROVE Live!Init
  OBVIOUS
<1>1. Looked = {}
  BY SourceNumbers, SMT DEF Init, Looked
<1>2. Owed = {} /\ Alive = TRUE
  BY DEF Init, Owed, Alive, Stopped
<1>3. QED
  BY <1>1, <1>2 DEF Init, Live!Init

-----------------------------------------------------------------------------
(* The world edits, and a broken connection loses what it reported.        *)

LEMMA EditMaps ==
  ASSUME TypeOK, NEW s \in Sources, NEW c \in Contents(s) \ {content[s]},
         content' = [content EXCEPT ![s] = c],
         Report(s) \/ Overlook(s),
         UNCHANGED <<seen, dest, pc, pos>>
  PROVE  Live!Edit(s)
<1>1. c \in AllData \ {content[s]}
  BY ContentsInView DEF AllData
<1>2. UNCHANGED <<Looked, Alive>>
  BY DEF Looked, Alive
<1>3. Owed' \in {Owed} \union (IF Alive THEN {Owed \union {s}} ELSE {})
  BY <1>2 DEF Owed, Report, Overlook
<1>4. QED
  BY <1>1, <1>2, <1>3 DEF Live!Edit, AllData

LEMMA WorldMaps == TypeOK /\ World => [Live!Next]_Live!vars
<1> SUFFICES ASSUME TypeOK, World PROVE Live!Next
  OBVIOUS
<1>1. ASSUME NEW s \in Files, ModifyFile(s) PROVE Live!Edit(s)
  BY <1>1, EditMaps, SourceNumbers DEF ModifyFile, loopVars, newsVars
<1>2. ASSUME NEW s \in Files, ReplaceFile(s) PROVE Live!Edit(s)
  BY <1>2, EditMaps, SourceNumbers DEF ReplaceFile, loopVars, newsVars
<1>3. ASSUME NEW s \in Maps, ApplyMap(s) PROVE Live!Edit(s)
  BY <1>3, EditMaps, SourceNumbers DEF ApplyMap, loopVars, newsVars, Contents
<1>4. ASSUME NEW s \in Maps, DeleteMap(s) PROVE Live!Edit(s)
  BY <1>4, EditMaps, SourceNumbers DEF DeleteMap, loopVars, newsVars, Contents
<1>5. ASSUME NEW s \in Maps, BreakWatch(s) PROVE Live!Lose(s)
  BY <1>5 DEF BreakWatch, Live!Lose, Looked, Owed, Alive, worldVars, loopVars, newsVars
<1>6. QED
  BY <1>1, <1>2, <1>3, <1>4, <1>5, SourceNumbers DEF World, Live!Next

-----------------------------------------------------------------------------
(* The watches, the timer and the webhook ask for looks.                   *)

LEMMA AskMaps ==
  ASSUME NEW S \in SUBSET Sources, Alive, observed' = observed \union S,
         UNCHANGED <<content, seen, dest, pc, pos>>
  PROVE  Live!Ask
<1>1. UNCHANGED <<Looked, Alive>>
  BY DEF Looked, Alive
<1>2. Owed' = Owed \union S
  BY <1>1 DEF Owed
<1>3. QED
  BY <1>1, <1>2 DEF Live!Ask

LEMMA SendersMap == TypeOK /\ Senders => [Live!Next]_Live!vars
<1> SUFFICES ASSUME TypeOK, Senders PROVE Live!Next \/ UNCHANGED Live!vars
  OBVIOUS
<1>1. ASSUME NEW s \in Maps, ListMap(s) PROVE Live!Ask
  <2>1. \E S \in SUBSET Sources : observed' = observed \union S
    <3>1. CASE Report(s)
      BY <3>1, SourceNumbers DEF Report
    <3>2. CASE UNCHANGED <<events, changeVars>>
      <4>1. observed' = observed \union {}
        BY <3>2 DEF changeVars, newsVars
      <4>2. QED
        BY <4>1
    <3>3. QED
      BY <1>1, <3>1, <3>2 DEF ListMap
  <2>2. QED
    BY <1>1, <2>1, AskMaps DEF ListMap, worldVars, loopVars, newsVars
<1>2. ASSUME SendTick \/ \E c \in Clients : Answer(c) PROVE Live!Ask
  <2>1. observed' = observed \union Sources
    BY <1>2 DEF SendTick, Answer, AskForAll, TypeOK
  <2>2. QED
    BY <1>2, <2>1, AskMaps DEF SendTick, Answer, PutToken, worldVars, loopVars, newsVars
<1>3. ASSUME \/ \E s \in Sources : Notify(s) \/ Send(s)
             \/ Tick
             \/ \E c \in Clients : Request(c) \/ NotFound(c) \/ HangUp(c)
      PROVE  UNCHANGED Live!vars
  <2>1. UNCHANGED Visible
    BY <1>3 DEF Visible, Notify, Send, PutToken, Tick, Request, NotFound, HangUp,
       worldVars, loopVars, newsVars, changeVars
  <2>2. QED
    BY <2>1, Stutters
<1>4. QED
  BY <1>1, <1>2, <1>3 DEF Senders, Live!Next

-----------------------------------------------------------------------------
(* The main task looks, publishes and stops.                               *)

LEMMA ReadMaps == ASSUME TypeOK, NEW s \in Sources, ReadSource(s) PROVE Live!Look(s) \/ Live!Stop
<1>1. UNCHANGED <<content, dest>> /\ Reading /\ Alive
  BY DEF ReadSource, Reading, worldVars, Alive, Stopped
<1>2. CASE ~ Alive'
  <2>1. UNCHANGED <<seen, pos>> /\ pc' = (IF pc = "oneshot" THEN "exited" ELSE "panicked")
    BY <1>1, <1>2 DEF ReadSource, EndRun, Alive
  <2>2. Looked' = Looked /\ Alive' = FALSE /\ Owed' = {}
    BY <1>1, <2>1 DEF Looked, Owed, Alive, Stopped, Reading
  <2>3. QED
    BY <1>1, <2>1, <2>2 DEF Live!Stop
<1>3. CASE Alive'
  <2>1. /\ pos = s /\ pos' = s + 1 /\ pc' = pc
        /\ observed' = observed \ {s}
        /\ \E c \in {content[s], NoData} : seen' = [seen EXCEPT ![s] = c]
    BY <1>3, ReadGoesOn
  <2>2. Alive' = Alive /\ Owed' = Owed \ {s}
    BY <1>1, <2>1 DEF Owed, Alive
  <2>3. Looked' = Looked \union {s}
    <3>1. \A t \in Sources : t < s + 1 <=> t < s \/ t = s
      BY SourceNumbers, SMT
    <3>2. CASE pc = "oneshot"
      <4>1. Looked = {t \in Sources : t < s} /\ Looked' = {t \in Sources : t < s + 1}
        BY <2>1, <3>2 DEF Looked
      <4>2. QED
        BY <3>1, <4>1
    <3>3. CASE pc = "read"
      BY <2>1, <3>3 DEF Looked
    <3>4. QED
      BY <1>1, <3>2, <3>3 DEF Reading
  <2>4. QED
    BY <1>1, <2>1, <2>2, <2>3 DEF Live!Look
<1>4. QED
  BY <1>2, <1>3

LEMMA PublishMaps ==
  ASSUME TypeOK, NEW failed, NEW gone, NEW torn \in MayTear(gone), Alive, Looked = Sources, ExtractOk,
         dest' = Written(failed, torn),
         UNCHANGED <<content, seen, Looked>>,
         UNCHANGED <<Owed, Alive>> \/ (Alive' = FALSE /\ Owed' = {})
  PROVE  Live!Publish
<1> DEFINE P == Ops \ (failed \union torn)
           D == torn \cap Ops
<1>1. P \in SUBSET Ops /\ D \in SUBSET {o \in Ops \ P : dest[o] # seen}
  BY DEF MayTear
<1>2. dest' = [o \in Ops |-> IF o \in P THEN seen ELSE IF o \in D THEN Torn ELSE dest[o]]
  BY DEF Written
<1>3. \A s \in Sources : seen[s] # Malformed
  BY DEF ExtractOk
<1> HIDE DEF P, D
<1>4. QED
  BY <1>1, <1>2, <1>3 DEF Live!Publish

LEMMA OneshotMaps == ASSUME TypeOK, RenderOneshot PROVE Live!Publish \/ Live!Stop
<1>1. /\ pc = "oneshot" /\ Alive
      /\ UNCHANGED <<content, seen, observed>>
      /\ pc' \in {"exited", "register"}
  BY DEF RenderOneshot, worldVars, changeVars, Alive, Stopped
<1>2. Looked = Sources
  <2>1. \A s \in Sources : s < pos
    BY SourceNumbers, SMT DEF RenderOneshot, AllRead
  <2>2. QED
    BY <1>1, <2>1 DEF Looked
<1>3. Looked' = Sources
  <2>1. pc' = "exited" => pos' = pos
    BY <1>1 DEF RenderOneshot
  <2>2. QED
    BY <1>1, <1>2, <2>1 DEF Looked
<1>4. pc' = "exited" => Alive' = FALSE /\ Owed' = {}
  BY DEF Owed, Alive, Stopped
<1>5. CASE ~ ExtractOk
  BY <1>1, <1>2, <1>3, <1>4, <1>5 DEF RenderOneshot, Live!Stop
<1>6. CASE ExtractOk
  <2>1. \E failed, gone : \E torn \in MayTear(gone) : dest' = Written(failed, torn)
    <3>1. {} \in MayTear({})
      BY DEF MayTear
    <3>2. QED
      BY <1>6, <3>1 DEF RenderOneshot
  <2>2. UNCHANGED <<Owed, Alive>> \/ (Alive' = FALSE /\ Owed' = {})
    BY <1>1, <1>4 DEF Owed, Alive, Stopped
  <2>3. QED
    BY <1>1, <1>2, <1>3, <1>6, <2>1, <2>2, PublishMaps
<1>7. QED
  BY <1>5, <1>6

LEMMA PanicMaps == ASSUME TypeOK, RenderPanics PROVE Live!Publish
<1>1. /\ Reading /\ Alive /\ ExtractOk
      /\ UNCHANGED <<content, seen, pos>>
      /\ pc' = (IF pc = "oneshot" THEN "exited" ELSE "panicked")
  BY DEF RenderPanics, Reading, EndRun, worldVars, Alive, Stopped
<1>2. Looked = Sources /\ Looked' = Sources
  <2>1. \A s \in Sources : s < pos
    BY SourceNumbers, SMT DEF RenderPanics, AllRead
  <2>2. QED
    BY <1>1, <2>1 DEF Looked, Reading
<1>3. Alive' = FALSE /\ Owed' = {}
  BY <1>1 DEF Owed, Alive, Stopped
<1>4. \E failed, gone : \E torn \in MayTear(gone) : dest' = Written(failed, torn)
  BY DEF RenderPanics
<1>5. QED
  BY <1>1, <1>2, <1>3, <1>4, PublishMaps

LEMMA RenderMaps == ASSUME TypeOK, Render PROVE Live!Publish \/ UNCHANGED Live!vars
<1>1. /\ pc = "read" /\ pc' \in {"recv", "notify"}
      /\ UNCHANGED <<content, seen, observed, pos>>
  BY DEF Render, worldVars, changeVars
<1>2. Looked = Sources /\ Looked' = Sources /\ Alive /\ UNCHANGED <<Alive, Owed>>
  BY <1>1 DEF Looked, Owed, Alive, Stopped
<1>3. CASE ~ ExtractOk
  <2>1. dest' = dest
    BY <1>3 DEF Render
  <2>2. QED
    BY <1>1, <1>2, <2>1 DEF Live!vars
<1>4. CASE ExtractOk
  <2>1. \E failed : \E torn \in MayTear(failed) : dest' = Written(failed, torn)
    BY <1>4 DEF Render
  <2>2. QED
    BY <1>1, <1>2, <1>4, <2>1, PublishMaps
<1>5. QED
  BY <1>3, <1>4

LEMMA MainTaskMaps == TypeOK /\ MainTask => [Live!Next]_Live!vars
<1> SUFFICES ASSUME TypeOK, MainTask PROVE Live!Next \/ UNCHANGED Live!vars
  OBVIOUS
<1>1. ASSUME NEW s \in Sources, ReadSource(s) PROVE Live!Next
  BY <1>1, ReadMaps DEF Live!Next
<1>2. ASSUME RenderOneshot \/ Render \/ RenderPanics PROVE Live!Next \/ UNCHANGED Live!vars
  BY <1>2, OneshotMaps, RenderMaps, PanicMaps DEF Live!Next
<1>3. ASSUME NEW s \in Sources, RegisterSource(s) PROVE UNCHANGED Live!vars
  BY <1>3 DEF RegisterSource, Live!vars, Looked, Owed, Alive, worldVars, changeVars, newsVars
<1>4. ASSUME StartWatchers PROVE Live!Next \/ UNCHANGED Live!vars
  <2>1. /\ pc = "register" /\ Alive /\ UNCHANGED <<content, seen, dest, observed, pos>>
        /\ Looked = Sources /\ Looked' = Sources
    BY <1>4 DEF StartWatchers, Alive, Stopped, Looked, worldVars, changeVars, newsVars
  <2>2. CASE pc' = "recv"
    BY <2>1, <2>2 DEF Live!vars, Owed, Alive, Stopped
  <2>3. CASE pc' = "aborted"
    BY <2>1, <2>3 DEF Live!Next, Live!Stop, Owed, Alive, Stopped
  <2>4. QED
    BY <1>4, <2>2, <2>3 DEF StartWatchers
<1>5. ASSUME Recv \/ OnReload PROVE UNCHANGED Live!vars
  BY <1>5 DEF Recv, OnReload, Live!vars, Looked, Owed, Alive, Stopped, worldVars, changeVars, newsVars
<1>6. QED
  BY <1>1, <1>2, <1>3, <1>4, <1>5 DEF MainTask

\* For every registry and every choice of faults the watch loop only does what
\* LiveConfig allows: it writes whole views in which all data parses, and it
\* owes a look at every source whose change was reported.
THEOREM LoopImplementsLiveConfig == Spec => ImplementsLiveConfig
<1>1. TypeOK /\ [Next]_vars => [Live!Next]_Live!vars
  <2>1. UNCHANGED vars => UNCHANGED Live!vars
    BY Stutters DEF vars, Visible
  <2>2. QED
    BY <2>1, WorldMaps, SendersMap, MainTaskMaps DEF Next
<1>2. QED
  BY InitMaps, <1>1, TypeCorrect, PTL DEF Spec, ImplementsLiveConfig, Live!Spec
=============================================================================
