---------------------------- MODULE MCHttpCache ----------------------------
(***************************************************************************)
(* Instances of HttpCache for TLC: a server that sends ETags for some of   *)
(* its versions.                                                           *)
(***************************************************************************)
EXTENDS HttpCache, TLC

AllVersions == {"v1", "v2", "v3"}

Tags == [v \in AllVersions |-> CASE v = "v1" -> "e1" [] v = "v2" -> "e2" [] v = "v3" -> "none"]
=============================================================================
