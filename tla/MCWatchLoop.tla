---------------------------- MODULE MCWatchLoop ----------------------------
(***************************************************************************)
(* Instances of WatchLoop for TLC. A registry is a sequence, which a .cfg  *)
(* cannot write, so the registries are named here.                         *)
(***************************************************************************)
EXTENDS WatchLoop, TLC

File       == <<"file">>
Map        == <<"k8s">>
FileAndMap == <<"file", "k8s">>

\* The data are interchangeable, and so are the webhook callers.
Symmetry == Permutations(Values) \union Permutations(Clients)
=============================================================================
