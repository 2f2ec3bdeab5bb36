----------------------------- MODULE HttpCache -----------------------------
(***************************************************************************)
(* The template function http() and the cache behind it                    *)
(* (src/src/functions/http.rs): the calls that the templates of a pass     *)
(* make, one after the other, to a server whose answers change. The cache  *)
(* lives in the context of the templates, which is made anew for each pass *)
(* (src/src/functions/mod.rs, src/src/main.rs).                            *)
(***************************************************************************)
EXTENDS Naturals

CONSTANTS
  Requests,     \* what is equal here has the same method, url, headers and body
  Versions,     \* what the server can hold under a request
  Etag,         \* Etag[v]: the ETag header of version v, or NoEtag
  NoEtag,
  NoResponse,   \* in the place of a response: nothing is cached
  NotModified,  \* the answer 304
  Failed,       \* http() ends with an error
  MaxCalls,     \* calls of http() in one pass
  Faults        \* failures that the environment may inject, see FaultKinds

FaultKinds == {"lost", "unasked"}

ASSUME HttpCacheAssumption ==
  /\ NoResponse \notin Versions /\ NotModified \notin Versions /\ Failed \notin Versions
  /\ \A v, w \in Versions : Etag[v] = Etag[w] /\ Etag[v] # NoEtag => v = w
  /\ MaxCalls \in Nat
  /\ Faults \subseteq FaultKinds

VARIABLES
  server,     \* server[r]: the version that the server holds
  cache,      \* cache[r]: the response in the RequestCache of this context
  pc,         \* "idle" between passes, "render", "sent" or "answered"
  call,       \* the request of the current call
  cached,     \* cached_response of the CachableRequest that the call works on
  condition,  \* the If-None-Match header that was sent, or NoEtag
  reply,      \* the answer of the server
  calls,      \* the number of calls in this pass
  held,       \* history: what the server held when it answered
  result      \* what the last call returned

vars == <<server, cache, pc, call, cached, condition, reply, calls, held, result>>

callVars == <<call, cached, condition>>

Init ==
  /\ server \in [Requests -> Versions]
  /\ cache = [r \in Requests |-> NoResponse]
  /\ pc = "idle"
  /\ call \in Requests
  /\ cached = NoResponse
  /\ condition = NoEtag
  /\ reply = NoResponse
  /\ calls = 0
  /\ held = server[call]
  /\ result = Failed

ServerChanges(r) ==
  /\ \E v \in Versions : server' = [server EXCEPT ![r] = v]
  /\ UNCHANGED <<cache, pc, callVars, reply, calls, held, result>>

\* capture_runtime_handle: a context without any cache.
BeginPass ==
  /\ pc = "idle"
  /\ pc' = "render"
  /\ cache' = [r \in Requests |-> NoResponse]
  /\ calls' = 0
  /\ UNCHANGED <<server, callVars, reply, held, result>>

EndPass ==
  /\ pc = "render"
  /\ pc' = "idle"
  /\ UNCHANGED <<server, cache, callVars, reply, calls, held, result>>

\* Mutant: the ETag of the last response is sent, whichever is cached.
ConditionOfLast(c) == IF result = Failed THEN NoEtag ELSE Etag[result]

\* The If-None-Match header: the ETag of the cached response, if it has one.
Condition(c) == IF c = NoResponse THEN NoEtag ELSE Etag[c]

\* get_cacheable_request clones the request with its cached response, and
\* perform sends it, whatever is cached.
Call(r) ==
  /\ pc = "render"
  /\ calls < MaxCalls
  /\ pc' = "sent"
  /\ call' = r
  /\ cached' = cache[r]
  /\ condition' = Condition(cache[r])
  /\ calls' = calls + 1
  /\ UNCHANGED <<server, cache, reply, held, result>>

\* A server answers 304 if the version it holds has the ETag it was asked for.
Matches(v) == condition # NoEtag /\ Etag[v] = condition

Serve ==
  /\ pc = "sent"
  /\ pc' = "answered"
  /\ held' = server[call]
  /\ \/ reply' = IF Matches(server[call]) THEN NotModified ELSE server[call]
     \/ "unasked" \in Faults /\ reply' = NotModified
  /\ UNCHANGED <<server, cache, callVars, calls, result>>

\* Mutant: every answer is stored, the answer 304 too.
StoredAnyway == reply

\* perform: 304 stands for the cached response; any other is stored in the request.
Stored == IF reply = NotModified THEN cached ELSE reply

\* The answer arrives. HashSet::insert keeps the request that is in the cache.
Receive ==
  /\ pc = "answered"
  /\ Stored # NoResponse
  /\ result' = Stored
  /\ cache' = IF cache[call] = NoResponse THEN [cache EXCEPT ![call] = Stored] ELSE cache
  /\ pc' = "render"
  /\ UNCHANGED <<server, callVars, reply, calls, held>>

\* 304 without a cached response, a connection that fails, or a body that does
\* not come through: an error for the template, and the cache stays as it is.
Fail ==
  /\ \/ pc = "answered" /\ Stored = NoResponse
     \/ pc \in {"sent", "answered"} /\ "lost" \in Faults
  /\ result' = Failed
  /\ pc' = "render"
  /\ UNCHANGED <<server, cache, callVars, reply, calls, held>>

Next ==
  \/ \E r \in Requests : ServerChanges(r) \/ Call(r)
  \/ BeginPass \/ EndPass \/ Serve \/ Receive \/ Fail

Spec == Init /\ [][Next]_vars

-----------------------------------------------------------------------------
(* Properties.                                                             *)

Responses == Versions \union {NoResponse}

\* The types of the variables: what is cached, and what http() returns, is a full
\* response, never the bare answer 304.
TypeOK ==
  /\ server \in [Requests -> Versions]
  /\ cache \in [Requests -> Responses]
  /\ pc \in {"idle", "render", "sent", "answered"}
  /\ call \in Requests
  /\ cached \in Responses
  /\ condition \in {Etag[v] : v \in Versions} \union {NoEtag}
  /\ reply \in Responses \union {NotModified}
  /\ calls \in 0 .. MaxCalls
  /\ held \in Versions
  /\ result \in Versions \union {Failed}

\* The server answered 304 to a condition that the version it holds does not meet.
Misled == reply = NotModified /\ (condition = NoEtag \/ Etag[held] # condition)

\* A call returns what the server held when it answered, also when the server
\* answered 304 and however old the response is that the cache has kept.
AnswersAreCurrent ==
  pc \in {"render", "idle"} /\ result # Failed /\ ~ Misled => result = held
=============================================================================
