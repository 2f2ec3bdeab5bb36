-------------------------- MODULE HttpCacheProofs --------------------------
(***************************************************************************)
(* What http() returns, for any requests, versions and number of calls.    *)
(***************************************************************************)
EXTENDS HttpCache, TLAPS

LEMMA TypeInit == Init => TypeOK
BY HttpCacheAssumption DEF Init, TypeOK, Responses, HttpCacheAssumption

LEMMA TypeNext == TypeOK /\ [Next]_vars => TypeOK'
<1> SUFFICES ASSUME TypeOK, [Next]_vars PROVE TypeOK'
  OBVIOUS
<1> USE HttpCacheAssumption DEF TypeOK, Responses, HttpCacheAssumption, callVars
<1>1. ASSUME NEW r \in Requests, ServerChanges(r) PROVE TypeOK'
  BY <1>1 DEF ServerChanges
<1>2. ASSUME NEW r \in Requests, Call(r) PROVE TypeOK'
  <2>1. calls' = calls + 1 /\ calls' \in 0 .. MaxCalls
    BY <1>2 DEF Call
  <2>3. condition' \in {Etag[v] : v \in Versions} \union {NoEtag}
    BY <1>2 DEF Call, Condition
  <2>4. QED
    BY <1>2, <2>1, <2>3 DEF Call
<1>3. CASE BeginPass
  BY <1>3 DEF BeginPass
<1>4. CASE EndPass
  BY <1>4 DEF EndPass
<1>5. CASE Serve
  BY <1>5 DEF Serve
<1>6. CASE Receive
  <2>1. Stored \in Versions
    BY <1>6 DEF Receive, Stored
  <2>2. QED
    BY <1>6, <2>1 DEF Receive
<1>7. CASE Fail
  BY <1>7 DEF Fail
<1>8. CASE UNCHANGED vars
  BY <1>8 DEF vars
<1>9. QED
  BY <1>1, <1>2, <1>3, <1>4, <1>5, <1>6, <1>7, <1>8 DEF Next

\* What the cache holds and what a call returns is a full response, never a 304,
\* even from a server that answers 304 to requests without a condition.
THEOREM HttpTypes == Spec => []TypeOK
BY TypeInit, TypeNext, PTL DEF Spec

-----------------------------------------------------------------------------
(* A 304 stands for the version that the server holds: the call carries    *)
(* the response whose ETag it sent, and no two versions share an ETag.     *)

CallInv ==
  /\ pc \in {"sent", "answered"} => condition = Condition(cached)
  /\ pc = "answered" => reply \in {held, NotModified}
  /\ AnswersAreCurrent

\* Whatever the server held earlier in the pass and whatever is left of it in the
\* cache, http() returns what the server held when it answered, unless that was a
\* 304 to a condition that what it held does not meet.
THEOREM HttpAnswersAreCurrent == Spec => []AnswersAreCurrent
<1>1. Init => CallInv
  BY DEF Init, CallInv, AnswersAreCurrent
<1>2. TypeOK /\ CallInv /\ [Next]_vars => CallInv'
  <2> SUFFICES ASSUME TypeOK, CallInv, [Next]_vars PROVE CallInv'
    OBVIOUS
  <2> USE HttpCacheAssumption
      DEF TypeOK, CallInv, AnswersAreCurrent, Misled, HttpCacheAssumption, callVars
  <2>1. CASE \/ UNCHANGED vars \/ BeginPass \/ EndPass
             \/ \E r \in Requests : ServerChanges(r)
    BY <2>1 DEF vars, BeginPass, EndPass, ServerChanges, Condition
  <2>2. ASSUME NEW r \in Requests, Call(r) PROVE CallInv'
    BY <2>2 DEF Call, Condition
  <2>3. CASE Serve
    BY <2>3 DEF Serve, Condition
  <2>4. CASE Receive
    <3>1. ~ Misled => Stored = held
      <4>1. CASE reply = NotModified /\ ~ Misled
        <5>1. cached \in Versions /\ Etag[cached] = Etag[held] /\ Etag[held] # NoEtag
          BY <2>4, <4>1 DEF Receive, Condition, Responses
        <5>2. QED
          BY <4>1, <5>1 DEF Stored
      <4>2. CASE reply # NotModified
        BY <2>4, <4>2 DEF Receive, Stored
      <4>3. QED
        BY <4>1, <4>2
    <3>2. QED
      BY <2>4, <3>1 DEF Receive
  <2>5. CASE Fail
    BY <2>5 DEF Fail
  <2>6. QED
    BY <2>1, <2>2, <2>3, <2>4, <2>5 DEF Next
<1>3. QED
  BY <1>1, <1>2, HttpTypes, PTL DEF Spec, CallInv
=============================================================================
