--------------------------- MODULE LayeringTrees ---------------------------
(***************************************************************************)
(* Nest and Merge of Layering, which know a value by its nodes, against    *)
(* the recursions of the code, which take a dictionary for a map of keys   *)
(* to values.                                                              *)
(***************************************************************************)
EXTENDS Layering

\* The value as the code has it: a leaf, or a dictionary of values.
RECURSIVE Deep(_)
Deep(v) ==
  IF IsDict(v)
  THEN [map |-> [h \in {Head(p) : p \in DOMAIN v \ {<<>>}} |->
          Deep([p \in {Tail(q) : q \in {r \in DOMAIN v \ {<<>>} : Head(r) = h}} |-> v[<<h>> \o p]])]]
  ELSE [leaf |-> v[<<>>]]

\* figment's nest.
RECURSIVE DeepNest(_, _)
DeepNest(segments, v) ==
  IF segments = <<>> \/ Head(segments) = "" THEN v
  ELSE [map |-> Head(segments) :> DeepNest(Tail(segments), v)]

\* Coalescible::coalesce, of two values and, key by key, of two maps.
RECURSIVE Coalesce(_, _)
Coalesce(a, b) ==
  IF "map" \in DOMAIN a /\ "map" \in DOMAIN b
  THEN [map |-> [k \in DOMAIN a.map \union DOMAIN b.map |->
          CASE k \notin DOMAIN b.map -> a.map[k]
            [] k \notin DOMAIN a.map -> b.map[k]
            [] OTHER -> Coalesce(a.map[k], b.map[k])]]
  ELSE b

\* What Layering computes on nodes is what the code computes by recursion: for the
\* entry at hand, for merging it into the dictionary of its source, and for merging
\* that dictionary into the data of the sources before (k8s.rs:261).
NodesMakeTrees ==
  /\ \A k \in Keys : Reading({"environment", "k8s-configmap", "k8s-secret"}) /\ k \in Remaining =>
       LET value  == Value(Current, k)
           nested == Nest(Segments[k], value)
       IN /\ Deep(nested) = DeepNest(Segments[k], Deep(value))
          /\ Deep(Merge(dict, nested)) = Coalesce(Deep(dict), Deep(nested))
  /\ figment # Malformed => Deep(Merge(figment, dict)) = Coalesce(Deep(figment), Deep(dict))
=============================================================================
