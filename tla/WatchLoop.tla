----------------------------- MODULE WatchLoop -----------------------------
(***************************************************************************)
(* `contemplate --watch`: the initial run, the registration of the watches *)
(* and the loop that re-renders when a data source reports a change        *)
(* (src/src/main.rs run_oneshot and run_watch, src/src/watch.rs,           *)
(* src/src/datasource).                                                    *)
(*                                                                         *)
(* Four kinds of actors run concurrently:                                  *)
(*   - the outside world, which edits the data sources and calls the hook; *)
(*   - one watch per file or Kubernetes source, the poll timer and the     *)
(*     webhook handlers, which each put a () into a channel of capacity 1  *)
(*     and block while it is full;                                         *)
(*   - the loop, which takes a () out, reads every source in registry      *)
(*     order, renders, and runs the on-reload action.                      *)
(***************************************************************************)
EXTENDS Naturals, Sequences, FiniteSets

CONSTANTS
  Kind,       \* the registry: Kind[s] is "env", "file" or "k8s"
  Values,     \* well-formed data that a source can hold
  NoData,     \* what an absent or unreachable source contributes: nothing
  Malformed,  \* the text of a file that does not parse, or a ConfigMap with a key that
              \* starts with a separator (a Secret never holds it: its value is a table)
  Torn,       \* what a write that failed half-way leaves in a file
  NumOps,     \* number of template operations in the plan
  Clients,    \* concurrent webhook callers; {} without --webhook
  Poll,       \* TRUE with --poll
  QueueCap,   \* undelivered change events that one watch can hold
  Edits,      \* the kinds of change the world makes, see EditKinds
  Faults      \* the failures the environment may inject, see FaultKinds

EditKinds  == {"modify", "corrupt", "replace", "remove", "early"}
FaultKinds == {"setup", "bind", "api", "disconnect", "hangup", "unrouted", "apply", "panic", "notify"}

ASSUME WatchLoopAssumption ==
  /\ Kind \in Seq({"env", "file", "k8s"})
  /\ NoData \notin Values /\ Malformed \notin Values /\ NoData # Malformed
  /\ Torn \notin [1 .. Len(Kind) -> Values \union {NoData, Malformed}]
  /\ NumOps \in Nat
  /\ Poll \in BOOLEAN
  /\ QueueCap \in Nat \ {0}
  /\ Edits \subseteq EditKinds
  /\ Faults \subseteq FaultKinds

Sources == 1 .. Len(Kind)
Files   == {s \in Sources : Kind[s] = "file"}
Maps    == {s \in Sources : Kind[s] = "k8s"}
Ops     == 1 .. NumOps

\* mpsc::channel(1)
ChannelCapacity == 1

VARIABLES
  content,    \* content[s]: what source s holds now
  fatal,      \* file sources whose name has no supported extension
  watch,      \* watch[s]: "none", "starting" (k8s, not yet listed) or "live"
  events,     \* events[s]: change events not yet delivered to the callback
  sender,     \* sender[s]: "sending" while the callback of s is in tx.send
  tick,       \* the poll timer: "off", "idle" or "sending"
  request,    \* request[c]: "none", "waiting" for the answer of the hook, or
              \* "unrouted" when its path is not "/"
  chan,       \* number of () in the channel
  pc,         \* where the main task is
  pos,        \* the next source to read or to register
  seen,       \* seen[s]: what as_figment last read from s
  dest,       \* dest[o]: the data that the file of operation o was rendered from
              \* completely, or Torn
  updated,    \* the operations that the current pass reports as changed
  behind,     \* history: operations that failed in the last rendering of the loop
              \* and whose file does not show it
  observed,   \* history: sources that something asked to read and nothing read yet
  missed,     \* history: sources with a change that was neither reported nor read
  unannounced, \* history: operations whose file changed since an on-reload action
              \* that succeeded was given it
  refused     \* history: operations whose file was given to an on-reload action
              \* that failed, and to none that succeeded since

vars == <<content, fatal, watch, events, sender, tick, request, chan, pc, pos,
          seen, dest, updated, behind, observed, missed, unannounced, refused>>

worldVars  == <<content, fatal>>
watchVars  == <<watch, events>>
sendVars   == <<sender, tick, request, chan>>
loopVars   == <<pc, pos, seen, dest, updated, behind>>
changeVars == <<observed, missed>>
newsVars   == <<unannounced, refused>>

Contents(s) == Values \union {NoData} \union (IF s \in Files \union Maps THEN {Malformed} ELSE {})
View        == [Sources -> Values \union {NoData, Malformed}]

Stopped == {"exited", "aborted", "panicked"}
Alive   == pc \notin Stopped
Looping == pc \in {"recv", "read", "notify"}

-----------------------------------------------------------------------------
(* The world. A change reaches the program only through a live watch.      *)

Init ==
  /\ content \in [Sources -> Values \union {NoData, Malformed}]
  /\ \A s \in Sources : content[s] \in Contents(s)
  /\ fatal \in SUBSET Files
  /\ watch = [s \in Sources |-> "none"]
  /\ events = [s \in Sources |-> 0]
  /\ sender = [s \in Sources |-> "idle"]
  /\ tick = "off"
  /\ request = [c \in Clients |-> "none"]
  /\ chan = 0
  /\ pc = "oneshot"
  /\ pos = 1
  /\ seen = [s \in Sources |-> NoData]
  /\ dest = [o \in Ops |-> [s \in Sources |-> NoData]]
  /\ updated = {}
  /\ behind = {}
  /\ observed = {}
  /\ missed = {}
  /\ unannounced = {}
  /\ refused = {}

\* The watch of s reports a change. The kernel drops what its queue cannot hold.
Report(s) ==
  /\ events' = [events EXCEPT ![s] = IF @ < QueueCap THEN @ + 1 ELSE @]
  /\ observed' = observed \union {s}
  /\ missed' = missed \ {s}

\* Nothing reports the change; a read that is already due still finds it.
Overlook(s) ==
  /\ missed' = IF s \in observed THEN missed ELSE missed \union {s}
  /\ UNCHANGED <<events, observed>>

\* Without "early" the sources are left alone until the loop runs.
MayEdit == Looping \/ "early" \in Edits

\* An editor writes into the file: the watch on its inode reports it.
ModifyFile(s) ==
  /\ MayEdit
  /\ content[s] # NoData
  /\ \E c \in Contents(s) \ {content[s], NoData} :
       /\ c = Malformed => "corrupt" \in Edits
       /\ c \in Values => "modify" \in Edits
       /\ content' = [content EXCEPT ![s] = c]
  /\ IF watch[s] = "live" THEN Report(s) ELSE Overlook(s)
  /\ UNCHANGED <<fatal, watch, sendVars, loopVars, newsVars>>

\* The path gets another inode (a rename over it, a creation) or none. The
\* watch is on the old inode: it reports the loss, and nothing after it.
ReplaceFile(s) ==
  /\ MayEdit
  /\ \E c \in Contents(s) \ {content[s]} :
       /\ c # NoData => "replace" \in Edits
       /\ c = Malformed => "corrupt" \in Edits
       /\ c = NoData => "remove" \in Edits
       /\ content' = [content EXCEPT ![s] = c]
  /\ watch' = [watch EXCEPT ![s] = "none"]
  /\ IF watch[s] = "live" THEN Report(s) ELSE Overlook(s)
  /\ UNCHANGED <<fatal, sendVars, loopVars, newsVars>>

\* The API server applies a new version of the object: applied_objects yields it.
ApplyMap(s) ==
  /\ MayEdit
  /\ \E c \in Contents(s) \ {content[s], NoData} :
       /\ c = Malformed => "corrupt" \in Edits
       /\ c \in Values => "modify" \in Edits
       /\ content' = [content EXCEPT ![s] = c]
  /\ IF watch[s] = "live" THEN Report(s) ELSE Overlook(s)
  /\ UNCHANGED <<fatal, watch, sendVars, loopVars, newsVars>>

\* applied_objects drops deletions.
DeleteMap(s) ==
  /\ MayEdit
  /\ "remove" \in Edits
  /\ content[s] # NoData
  /\ content' = [content EXCEPT ![s] = NoData]
  /\ Overlook(s)
  /\ UNCHANGED <<fatal, watch, sendVars, loopVars, newsVars>>

\* The watch connection is lost together with the events in flight;
\* default_backoff makes the watcher start again with a list.
BreakWatch(s) ==
  /\ "disconnect" \in Faults
  /\ Alive
  /\ watch[s] = "live"
  /\ watch' = [watch EXCEPT ![s] = "starting"]
  /\ events' = [events EXCEPT ![s] = 0]
  /\ observed' = observed \ {s}
  /\ missed' = IF s \in observed THEN missed \union {s} ELSE missed
  /\ UNCHANGED <<worldVars, sendVars, loopVars, newsVars>>

World ==
  \/ \E s \in Files : ModifyFile(s) \/ ReplaceFile(s)
  \/ \E s \in Maps  : ApplyMap(s) \/ DeleteMap(s) \/ BreakWatch(s)

-----------------------------------------------------------------------------
(* The watches and the channel.                                            *)

\* The (re)started Kubernetes watcher lists the object: if it exists, the
\* list yields it as applied and a notification follows.
ListMap(s) ==
  /\ Alive
  /\ watch[s] = "starting"
  /\ watch' = [watch EXCEPT ![s] = "live"]
  /\ IF content[s] # NoData THEN Report(s) ELSE UNCHANGED <<events, changeVars>>
  /\ UNCHANGED <<worldVars, sendVars, loopVars, newsVars>>

\* Mutant: an event is dropped while a pass is running.
NotifyUnlessBusy(s) ==
  /\ Alive
  /\ events[s] > 0
  /\ sender[s] = "idle"
  /\ events' = [events EXCEPT ![s] = @ - 1]
  /\ sender' = IF pc = "recv" THEN [sender EXCEPT ![s] = "sending"] ELSE sender
  /\ UNCHANGED <<worldVars, watch, tick, request, chan, loopVars, changeVars, newsVars>>

\* The callback of the watch handles one event: it enters notify / notify_async.
Notify(s) ==
  /\ Alive
  /\ events[s] > 0
  /\ sender[s] = "idle"
  /\ events' = [events EXCEPT ![s] = @ - 1]
  /\ sender' = [sender EXCEPT ![s] = "sending"]
  /\ UNCHANGED <<worldVars, watch, tick, request, chan, loopVars, changeVars, newsVars>>

\* Mutant: an unbounded channel.
PutTokenAnyway ==
  /\ Alive
  /\ chan' = chan + 1
  /\ UNCHANGED <<worldVars, watchVars, loopVars, newsVars>>

\* tx.send: waits for room in the channel.
PutToken ==
  /\ Alive
  /\ chan < ChannelCapacity
  /\ chan' = chan + 1
  /\ UNCHANGED <<worldVars, watchVars, loopVars, newsVars>>

Send(s) ==
  /\ sender[s] = "sending"
  /\ PutToken
  /\ sender' = [sender EXCEPT ![s] = "idle"]
  /\ UNCHANGED <<tick, request, changeVars>>

\* A poll tick or a webhook call asks to read every source.
AskForAll ==
  /\ observed' = Sources
  /\ missed' = {}

\* PollWatcher: interval.tick(), then notify_async.
Tick ==
  /\ Alive
  /\ tick = "idle"
  /\ tick' = "sending"
  /\ UNCHANGED <<worldVars, watchVars, sender, request, chan, loopVars, changeVars, newsVars>>

\* Mutant: the timer fires once.
SendTickOnce ==
  /\ tick = "sending"
  /\ PutToken
  /\ AskForAll
  /\ tick' = "off"
  /\ UNCHANGED <<sender, request>>

SendTick ==
  /\ tick = "sending"
  /\ PutToken
  /\ AskForAll
  /\ tick' = "idle"
  /\ UNCHANGED <<sender, request>>

\* WebHook: the handler of "/" notifies and answers once the token is in.
Request(c) ==
  /\ Looping
  /\ request[c] = "none"
  /\ \/ request' = [request EXCEPT ![c] = "waiting"]
     \/ "unrouted" \in Faults /\ request' = [request EXCEPT ![c] = "unrouted"]
  /\ UNCHANGED <<worldVars, watchVars, sender, tick, chan, loopVars, changeVars, newsVars>>

Answer(c) ==
  /\ request[c] = "waiting"
  /\ PutToken
  /\ AskForAll
  /\ request' = [request EXCEPT ![c] = "none"]
  /\ UNCHANGED <<sender, tick>>

\* The router has the one route "/": it answers 404 to any other path.
NotFound(c) ==
  /\ Alive
  /\ request[c] = "unrouted"
  /\ request' = [request EXCEPT ![c] = "none"]
  /\ UNCHANGED <<worldVars, watchVars, sender, tick, chan, loopVars, changeVars, newsVars>>

\* The caller closes the connection: its handler is dropped while it waits.
HangUp(c) ==
  /\ "hangup" \in Faults
  /\ request[c] = "waiting"
  /\ request' = [request EXCEPT ![c] = "none"]
  /\ UNCHANGED <<worldVars, watchVars, sender, tick, chan, loopVars, changeVars, newsVars>>

Senders ==
  \/ \E s \in Maps : ListMap(s)
  \/ \E s \in Sources : Notify(s) \/ Send(s)
  \/ Tick \/ SendTick
  \/ \E c \in Clients : Request(c) \/ Answer(c) \/ NotFound(c) \/ HangUp(c)

-----------------------------------------------------------------------------
(* The main task: run_oneshot, the registration, the loop.                 *)

Reading == pc \in {"oneshot", "read"}

\* Mutant: the initial run logs a fatal error and goes on.
LoopReadsFatally(s) == s \in fatal /\ pc # "oneshot"

\* merge_to_figment returns a fatal error: the extension is unknown or missing.
ReadsFatally(s) == s \in fatal

\* Mutant: what a source held once is kept.
FetchedOnce(s) == IF seen[s] = NoData THEN content[s] ELSE seen[s]

\* merge_to_figment opens the file or asks the API server anew.
Fetched(s) == content[s]

\* nest() turns a key that starts with a separator into its bare value, and the
\* expect() of the ConfigMap's provider fails on it.
HasBareKey(s) == s \in Maps /\ content[s] = Malformed

\* A run that goes wrong ends the program: the initial one by exit(1) or a panic, one
\* of the loop always by a panic.
EndRun == pc' = IF pc = "oneshot" THEN "exited" ELSE "panicked"

\* One step of as_figment. An absent source contributes nothing; a recoverable
\* error (the API is unreachable) skips the source; a fatal one ends the run, in the
\* loop through unwrap(). merge() calls the provider at once, so that its panic ends
\* the run here.
ReadSource(s) ==
  /\ Reading
  /\ pos = s
  /\ \/ /\ ReadsFatally(s) \/ HasBareKey(s)
        /\ EndRun
        /\ UNCHANGED <<pos, seen, changeVars>>
     \/ /\ ~ ReadsFatally(s) /\ ~ HasBareKey(s)
        /\ seen' = [seen EXCEPT ![s] = Fetched(s)]
        /\ missed' = missed \ {s}
        /\ observed' = observed \ {s} /\ pos' = pos + 1
        /\ UNCHANGED pc
     \/ /\ "api" \in Faults /\ s \in Maps
        /\ seen' = [seen EXCEPT ![s] = NoData]
        /\ missed' = missed \union {s}
        /\ observed' = observed \ {s} /\ pos' = pos + 1
        /\ UNCHANGED pc
  /\ UNCHANGED <<worldVars, watchVars, sendVars, dest, updated, behind, newsVars>>

\* Mutant: rendering does not wait for the last source.
AllButLastRead == pos >= Len(Kind)

AllRead == pos = Len(Kind) + 1

\* Figment::extract: a parse error of a file surfaces here.
ExtractOk == \A s \in Sources : seen[s] # Malformed

\* The files after an execution in which the operations in torn and failed failed:
\* all others show the data that was read.
Written(failed, torn) ==
  [o \in Ops |-> IF o \in torn THEN Torn ELSE IF o \in failed THEN dest[o] ELSE seen]

\* A write that fails after set_len(0) tears the file, one that fails before leaves
\* it as it was. A file that is up to date is not written.
MayTear(failed) == SUBSET {o \in failed : dest[o] # seen}

\* run_oneshot after as_figment: extract, then try_execute, which stops at the
\* first operation that fails. Any error is exit(1).
RenderOneshot ==
  /\ pc = "oneshot" /\ AllRead
  /\ \/ /\ ~ ExtractOk
        /\ pc' = "exited"
        /\ UNCHANGED <<pos, dest>>
     \/ /\ ExtractOk
        /\ pc' = "register" /\ pos' = 1
        /\ dest' = Written({}, {})
     \/ /\ ExtractOk /\ "apply" \in Faults
        /\ \E f \in Ops : \E torn \in MayTear({f}) : dest' = Written(f .. NumOps, torn)
        /\ pc' = "exited"
        /\ UNCHANGED pos
  /\ UNCHANGED <<worldVars, watchVars, sendVars, seen, updated, behind,
                 changeVars, newsVars>>

\* source.watch(notifier), one source after the other. A file watch needs the
\* file to exist; a failure is logged and leaves the source unwatched.
RegisterSource(s) ==
  /\ pc = "register"
  /\ pos = s
  /\ pos' = pos + 1
  /\ \/ /\ s \in Maps
        /\ watch' = [watch EXCEPT ![s] = "starting"]
     \/ /\ s \in Files /\ content[s] # NoData
        /\ watch' = [watch EXCEPT ![s] = "live"]
     \/ /\ \/ s \notin Files \union Maps
           \/ s \in Files /\ content[s] = NoData
           \/ "setup" \in Faults
        /\ UNCHANGED watch
  /\ UNCHANGED <<worldVars, events, sendVars, pc, seen, dest, updated, behind,
                 changeVars, newsVars>>

\* The poll timer and the webhook listener; a failed bind is unwrapped.
StartWatchers ==
  /\ pc = "register" /\ AllRead
  /\ \/ pc' = "recv"
     \/ "bind" \in Faults /\ Clients # {} /\ pc' = "aborted"
  /\ tick' = IF Poll THEN "idle" ELSE "off"
  /\ UNCHANGED <<worldVars, watchVars, sender, request, chan, pos, seen, dest,
                 updated, behind, changeVars, newsVars>>

\* Mutant: the next pass goes on where the last one ended.
RecvWithoutReset ==
  /\ pc = "recv"
  /\ chan > 0
  /\ chan' = chan - 1
  /\ pc' = "read"
  /\ UNCHANGED <<worldVars, watchVars, sender, tick, request, pos, seen, dest, updated,
                 behind, changeVars, newsVars>>

\* watch_rx.recv(), then the callback starts to read the sources.
Recv ==
  /\ pc = "recv"
  /\ chan > 0
  /\ chan' = chan - 1
  /\ pc' = "read" /\ pos' = 1
  /\ UNCHANGED <<worldVars, watchVars, sender, tick, request, seen, dest, updated,
                 behind, changeVars, newsVars>>

\* Mutant: on-reload is left to the next pass when one is due already.
ChangedUnlessDue(failed) == {o \in Ops \ failed : dest[o] # seen /\ chan = 0}

\* Plan::execute returns the operations that changed their destination.
Changed(failed) == {o \in Ops \ failed : dest[o] # seen}

MayFail == IF "apply" \in Faults THEN SUBSET Ops ELSE {{}}

\* The callback after as_figment: give up if the data does not parse, else
\* execute the plan (a failing operation is skipped) and collect what changed:
\* an operation that failed is not among them, whatever it did to its file.
Render ==
  /\ pc = "read" /\ AllRead
  /\ IF ~ ExtractOk
     THEN /\ pc' = "recv"
          /\ UNCHANGED <<dest, updated, behind, unannounced>>
     ELSE \E failed \in MayFail : \E torn \in MayTear(failed) :
            /\ dest' = Written(failed, torn)
            /\ updated' = Changed(failed)
            /\ behind' = {o \in failed : dest[o] # seen}
            /\ unannounced' = unannounced \union {o \in Ops : dest'[o] # dest[o]}
            /\ pc' = IF updated' = {} THEN "recv" ELSE "notify"
  /\ UNCHANGED <<worldVars, watchVars, sendVars, pos, seen, changeVars, refused>>

\* The rendering of operation f panics (a template function may); in the loop it
\* is the unwrap() of the JoinError that ends the program. Those before f are done.
RenderPanics ==
  /\ "panic" \in Faults
  /\ Reading /\ AllRead /\ ExtractOk
  /\ \E f \in Ops : \E failed \in IF pc = "read" THEN MayFail ELSE {{}} :
       \E torn \in MayTear(failed \ (f .. NumOps)) :
         dest' = Written(failed \union (f .. NumOps), torn)
  /\ EndRun
  /\ UNCHANGED <<worldVars, watchVars, sendVars, pos, seen, updated, behind, changeVars, newsVars>>

\* Mutant: the loop waits for a hook that does not return.
OnReloadWaits == pc = "notify" /\ UNCHANGED vars

\* on_reload.execute with the changed files; a failure is only logged.
OnReload ==
  /\ pc = "notify"
  /\ \/ unannounced' = unannounced \ updated /\ refused' = refused \ updated
     \/ "notify" \in Faults /\ refused' = refused \union updated /\ UNCHANGED unannounced
  /\ updated' = {}
  /\ pc' = "recv"
  /\ UNCHANGED <<worldVars, watchVars, sendVars, pos, seen, dest, behind, changeVars>>

MainTask ==
  \/ \E s \in Sources : ReadSource(s) \/ RegisterSource(s)
  \/ RenderOneshot \/ StartWatchers \/ Recv \/ Render \/ RenderPanics \/ OnReload

Next == World \/ Senders \/ MainTask

(***************************************************************************)
(* The main task and the spawned tasks are scheduled by tokio, the notify  *)
(* thread by the kernel. The semaphore behind mpsc::Sender::send is FIFO:  *)
(* a blocked sender gets a permit if permits keep being released, which is *)
(* strong fairness. The world owes nothing.                                *)
(***************************************************************************)
Fairness ==
  /\ WF_vars(MainTask)
  /\ \A s \in Maps : WF_vars(ListMap(s))
  /\ \A s \in Files \union Maps : WF_vars(Notify(s)) /\ SF_vars(Send(s))
  /\ WF_vars(Tick) /\ SF_vars(SendTick)
  /\ \A c \in Clients : SF_vars(Answer(c)) /\ WF_vars(NotFound(c))

Spec     == Init /\ [][Next]_vars
FairSpec == Spec /\ Fairness

-----------------------------------------------------------------------------
(* Properties.                                                             *)

\* The types of the variables: in particular the channel never holds more than
\* its capacity, and no event queue overflows.
TypeOK ==
  /\ content \in View
  /\ fatal \subseteq Files
  /\ watch \in [Sources -> {"none", "starting", "live"}]
  /\ events \in [Sources -> 0 .. QueueCap]
  /\ sender \in [Sources -> {"idle", "sending"}]
  /\ tick \in {"off", "idle", "sending"}
  /\ request \in [Clients -> {"none", "waiting", "unrouted"}]
  /\ chan \in 0 .. ChannelCapacity
  /\ pc \in {"oneshot", "register", "recv", "read", "notify"} \union Stopped
  /\ pos \in 1 .. Len(Kind) + 1
  /\ seen \in View
  /\ dest \in [Ops -> View \union {Torn}]
  /\ updated \subseteq Ops
  /\ behind \subseteq Ops
  /\ observed \subseteq Sources
  /\ missed \subseteq Sources
  /\ unannounced \subseteq Ops
  /\ refused \subseteq Ops

\* Something is still to come that makes the loop read source s.
ReadIsDue(s) ==
  \/ events[s] > 0
  \/ sender[s] = "sending"
  \/ chan > 0
  \/ pc = "read" /\ pos <= s

\* No lost wakeup: while the program runs, a change that a watch reported, or a
\* read that a poll tick or a webhook call asked for, is either done or some
\* event, blocked sender, token or running pass still leads to a read of that
\* source, whatever the channel held at the time.
NoLostWakeup == Alive => \A s \in observed : ReadIsDue(s)

\* Once it runs, the loop ends only by a panic in a pass, and while it reads only at
\* a ConfigMap with a bare key: the unwrap() of as_figment's result never
\* fails, because the initial run ended on any fatal source error.
UnwrapHolds ==
  [][Looping /\ ~ Alive' =>
       pc = "read" /\ (AllRead \/ (pos \in Sources /\ HasBareKey(pos)))]_vars

\* While the loop waits for the next notification, every file that changed has been
\* given to an on-reload action that succeeded, but for a file that its own failing
\* write tore and one whose on-reload action failed: nothing else loses a change,
\* neither another operation that fails nor whatever comes in during the pass.
ChangesAnnounced == pc = "recv" => \A o \in unannounced : dest[o] = Torn \/ o \in refused

\* While the loop is idle with nothing due, the files show what the sources
\* hold: they can be out of date only by a change that nothing reported, by data
\* that does not parse, or because their own operation failed the last time.
IdleMeansFresh ==
  (pc = "recv" /\ chan = 0 /\ \A s \in Sources : events[s] = 0 /\ sender[s] = "idle")
    => \/ \E s \in Sources : seen[s] = Malformed
       \/ \A o \in Ops \ behind, s \in Sources \ missed : dest[o][s] = content[s]

\* Every file shows what the sources hold.
Fresh == \A o \in Ops : dest[o] = content

\* Eventually the sources stay as they are, all of them well-formed.
Settled ==
  /\ <>[][UNCHANGED content]_vars
  /\ <>[](Alive /\ \A s \in Sources : content[s] # Malformed)

\* Each file whose own operation does not go on to fail ends up rendered from what
\* the sources hold.
EndsFresh == \A o \in Ops : <>[](o \notin behind) => <>[](dest[o] = content)

\* When the sources settle and no change went unreported, the files end up rendered
\* from them, however often their operation, or another one, failed before.
Converges == (Settled /\ <>[](missed = {})) => EndsFresh

\* When the sources settle, the files end up rendered from what they hold, reported
\* or not.
FollowsSources == Settled => EndsFresh

\* Files that existed when they were registered: each is watched, and the loop waits
\* with all files rendered from the sources.
WatchedAndFresh ==
  /\ pc = "recv" /\ Fresh
  /\ \A s \in Files : watch[s] = "live"

\* When a loop that watches every file has once been up to date, and the sources
\* settle, the destinations end up rendered from what the sources hold.
FollowsWatchedFiles == (Settled /\ <>WatchedAndFresh) => EndsFresh

\* Every webhook caller gets its answer, as long as the program runs.
HookAnswers == \A c \in Clients : request[c] # "none" ~> request[c] = "none" \/ ~ Alive

-----------------------------------------------------------------------------
(* The watch loop implements LiveConfig.                                   *)

Looked == IF pc \in {"oneshot", "exited"} THEN {s \in Sources : s < pos} ELSE Sources
Owed   == IF Alive THEN observed ELSE {}

Live == INSTANCE LiveConfig WITH
  Data <- Values \union {NoData, Malformed}, Nothing <- NoData, Garbage <- Malformed,
  Damaged <- Torn,
  view <- seen, looked <- Looked, owed <- Owed, running <- Alive

\* Files are only written from a view of all sources in which all data parses, and
\* one that shows this view already is not touched; the view only changes by a look
\* at a source; after an error nothing changes.
ImplementsLiveConfig == Live!Spec

\* A source whose change was reported, or that a poll tick or a webhook call
\* asked to read, is read, however busy the channel and the loop are.
PaysItsDebts == Live!PaysItsDebts
=============================================================================
