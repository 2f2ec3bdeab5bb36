------------------------------ MODULE Layering ------------------------------
(***************************************************************************)
(* How the data of all sources become one tree: the registry in the order  *)
(* of the command line (src/src/cli.rs), the names of environment          *)
(* variables and of keys of Kubernetes objects as paths, and the merge of  *)
(* entries and of sources (src/src/datasource), against a reference that   *)
(* knows paths and no trees.                                               *)
(***************************************************************************)
EXTENDS Naturals, SequencesExt, TLC

CONSTANTS
  Names,      \* names of variables and keys, in the order of their spelling
  Segments,   \* Segments[k]: what k is split into at "_" and ".", in lower case
  Fields,     \* the keys of a value that parses to a table, such as {x=1,y=2}
  MaxSpecs,   \* sources in CONTEMPLATE_DATASOURCES
  MaxSources, \* sources there and on the command line
  MaxKeys     \* entries of a source

Keys == Range(Names)

ASSUME LayeringAssumption ==
  /\ Names \in Seq(STRING) /\ IsInjective(Names)
  /\ \A k \in Keys : Segments[k] \in Seq(STRING) /\ Segments[k] # <<>>
  /\ Fields \subseteq STRING \ {""} /\ Fields # {}
  /\ MaxSpecs \in Nat /\ MaxSources \in Nat /\ MaxKeys \in Nat

-----------------------------------------------------------------------------
(* Values: trees, known by their nodes. A value maps the path of each of   *)
(* its nodes to the leaf that is there, or to Branch for a dictionary.     *)
(* LayeringTrees shows that Nest and Merge are the recursions of the code. *)

Branch      == <<>>
IsDict(v)   == v[<<>>] = Branch
EmptyDict   == [p \in {<<>>} |-> Branch]

\* In the place of the data after a file that does not parse: no value at all.
Malformed   == <<>>

LeafSet(v) == {[path |-> p, value |-> v[p]] : p \in {q \in DOMAIN v : v[q] # Branch}}

\* The value with these leaves, none of which is below another one.
Tree(leaves) ==
  [p \in {<<>>} \union UNION {Prefixes(l.path) : l \in leaves} |->
     IF \E l \in leaves : l.path = p THEN (CHOOSE l \in leaves : l.path = p).value ELSE Branch]

\* The segments before the first empty one.
Stem(segments) ==
  LET Empty == {n \in DOMAIN segments : segments[n] = ""}
  IN IF Empty = {} THEN segments ELSE SubSeq(segments, 1, Min(Empty) - 1)

\* figment's nest: one dictionary inside the other, up to an empty segment.
Nest(segments, v) ==
  LET stem == Stem(segments) IN
  [p \in Prefixes(stem) \union {stem \o q : q \in DOMAIN v} |->
     IF IsPrefix(stem, p) THEN v[SubSeq(p, Len(stem) + 1, Len(p))] ELSE Branch]

\* Mutant: a dictionary replaces another one instead of being merged into it.
MergeTop(a, b) ==
  LET Top(v) == {Head(p) : p \in DOMAIN v \ {<<>>}} IN
  [p \in DOMAIN b \union {q \in DOMAIN a : q = <<>> \/ (IsDict(b) /\ Head(q) \notin Top(b))} |->
     IF p \in DOMAIN b THEN b[p] ELSE a[p]]

\* Coalescible::merge: dictionaries are merged key by key, and of any other two
\* values the second one stays.
Merge(a, b) ==
  [p \in DOMAIN b \union {q \in DOMAIN a : \A r \in Prefixes(q) \intersect DOMAIN b : b[r] = Branch} |->
     IF p \in DOMAIN b THEN b[p] ELSE a[p]]

-----------------------------------------------------------------------------
(* Sources. An object maps its keys to what their values are: "text", or   *)
(* "table" if the text parses to one, or for a Secret "text" or "binary"   *)
(* (not UTF-8).                                                            *)

Comparable(p, q) == IsPrefix(p, q) \/ IsPrefix(q, p)

\* A file has paths of its own, none of which is below another one.
Apart(K) ==
  /\ \A k \in K : "" \notin Range(Segments[k])
  /\ \A k, j \in K : k # j => ~ Comparable(Segments[k], Segments[j])

Kinds == <<"environment", "file", "k8s-configmap", "k8s-secret">>

Forms(kind) ==
  CASE kind = "file"       -> {"text"}
    [] kind = "k8s-secret" -> {"text", "binary"}
    [] OTHER               -> {"text", "table"}

Objects(kind) ==
  UNION {[K -> Forms(kind)] :
           K \in {S \in SUBSET Keys : Cardinality(S) <= MaxKeys /\ (kind = "file" => Apart(S))}}

Source == UNION {[kind : {kind}, object : Objects(kind)] : kind \in Range(Kinds)}

VARIABLES
  specs,   \* the sources in CONTEMPLATE_DATASOURCES
  args,    \* the sources on the command line, in its order
  pc,      \* "read", "done", "failed" or "panicked"
  pos,     \* the place in the registry that is being read
  dict,    \* the dictionary of the current source
  figment, \* the data of the sources so far
  handled, \* history: the keys of each source that were handled, in that order
  outcome  \* history: what became of each source

vars == <<specs, args, pc, pos, dict, figment, handled, outcome>>

\* All sources have a number, from the lowest precedence to the highest: the
\* command line overrides the variable, and what comes later what comes earlier.
Layers == specs \o args
Ids    == DOMAIN Layers

\* Mutant: the sources of the command line stay grouped by their kind.
RegisteredByKind ==
  [i \in DOMAIN specs |-> i] \o
  FlattenSeq([n \in DOMAIN Kinds |->
    SelectSeq([i \in DOMAIN args |-> Len(specs) + i], LAMBDA i : Layers[i].kind = Kinds[n])])

Ascending(S) ==
  CHOOSE s \in [1 .. Cardinality(S) -> S] : \A m, n \in 1 .. Cardinality(S) : m < n => s[m] < s[n]

\* Cli::sources collects the arguments of one kind after the other, with their
\* indices on the command line, and sorts them by index.
Registered ==
  LET Collected == UNION {{i \in DOMAIN args : args[i].kind = kind} : kind \in Range(Kinds)}
      sorted    == Ascending(Collected)
  IN [n \in 1 .. Len(specs) + Cardinality(Collected) |->
        IF n <= Len(specs) THEN n ELSE Len(specs) + sorted[n - Len(specs)]]

\* What is below a key: a Secret's value is its bytes, and a string as well if
\* they are UTF-8.
Parts(i, k) ==
  LET form == Layers[i].object[k] IN
  CASE form = "binary" -> {<<"bytes">>}
    [] form = "text" /\ Layers[i].kind = "k8s-secret" -> {<<"bytes">>, <<"string">>}
    [] form = "table" -> {<<f>> : f \in Fields}
    [] OTHER -> {<<>>}

\* Every leaf has a value of its own, named by where it comes from.
Value(i, k) == Tree({[path |-> p, value |-> <<i, k, p>>] : p \in Parts(i, k)})

SequencesOf(n) == UNION {[1 .. m -> Source] : m \in 0 .. n}

Init ==
  /\ specs \in SequencesOf(MaxSpecs)
  /\ args \in SequencesOf(MaxSources - Len(specs))
  /\ pc = "read"
  /\ pos = 1
  /\ dict = EmptyDict
  /\ figment = EmptyDict
  /\ handled = [i \in Ids |-> <<>>]
  /\ outcome = [i \in Ids |-> "unread"]

-----------------------------------------------------------------------------
(* Reading the registry.                                                   *)

Reading(kinds) == pc = "read" /\ pos <= Len(Registered) /\ Layers[Registered[pos]].kind \in kinds

Current   == Registered[pos]
Remaining == DOMAIN Layers[Current].object \ Range(handled[Current])

Rank(k) == CHOOSE n \in DOMAIN Names : Names[n] = k

Handle(k) == handled' = [handled EXCEPT ![Current] = Append(@, k)]

\* One entry of a ConfigMap or a Secret, in the order of a BTreeMap. The expect
\* fails on a nested value that is no dictionary.
ReadEntry(k) ==
  /\ Reading({"k8s-configmap", "k8s-secret"})
  /\ k \in Remaining
  /\ \A j \in Remaining : Rank(k) <= Rank(j)
  /\ LET nested == Nest(Segments[k], Value(Current, k)) IN
     IF IsDict(nested)
     THEN dict' = Merge(dict, nested) /\ Handle(k) /\ UNCHANGED pc
     ELSE pc' = "panicked" /\ UNCHANGED <<dict, handled>>
  /\ UNCHANGED <<specs, args, pos, figment, outcome>>

\* Mutant: a variable of any name is nested.
IgnoredNone(k) == FALSE

\* figment's Env leaves out a variable with an empty segment in its name.
Ignored(k) == "" \in Range(Segments[k])

\* One variable: the environment has them in any order.
ReadVariable(k) ==
  /\ Reading({"environment"})
  /\ k \in Remaining
  /\ dict' = IF Ignored(k) THEN dict ELSE Merge(dict, Nest(Segments[k], Value(Current, k)))
  /\ Handle(k)
  /\ UNCHANGED <<specs, args, pc, pos, figment, outcome>>

\* What the registry does with the result of a source. Figment keeps the error
\* of a file that does not parse, whatever is merged after it.
Continue(data, result) ==
  /\ figment' = IF figment = Malformed THEN Malformed ELSE data
  /\ dict' = EmptyDict
  /\ pos' = pos + 1
  /\ outcome' = [outcome EXCEPT ![Current] = result]
  /\ UNCHANGED <<specs, args, pc>>

MergeSource ==
  /\ Reading({"environment", "k8s-configmap", "k8s-secret"})
  /\ Remaining = {}
  /\ Continue(Merge(figment, dict), "merged")
  /\ UNCHANGED handled

\* A file has its dictionary from a parser; one that is missing has no keys.
MergeFile ==
  /\ Reading({"file"})
  /\ LET K == DOMAIN Layers[Current].object
         data == Tree({[path |-> Segments[k], value |-> <<Current, k, <<>>>>] : k \in K})
     IN /\ Continue(Merge(figment, data), "merged")
        /\ handled' = [handled EXCEPT ![Current] = SetToSeq(K)]

ParseFails == Reading({"file"}) /\ Continue(Malformed, "malformed") /\ UNCHANGED handled

\* An extension that is not known is a fatal error.
RejectFile ==
  /\ Reading({"file"})
  /\ pc' = "failed"
  /\ UNCHANGED <<specs, args, pos, dict, figment, handled, outcome>>

\* An API server that cannot be reached, an object that does not exist or has no
\* data: a recoverable error, after which the next source gets the same figment.
SkipSource ==
  /\ Reading({"k8s-configmap", "k8s-secret"})
  /\ handled[Current] = <<>>
  /\ Continue(figment, "skipped")
  /\ UNCHANGED handled

Finish ==
  /\ pc = "read" /\ pos > Len(Registered)
  /\ pc' = "done"
  /\ UNCHANGED <<specs, args, pos, dict, figment, handled, outcome>>

Next ==
  \/ \E k \in Keys : ReadEntry(k) \/ ReadVariable(k)
  \/ MergeSource \/ MergeFile \/ ParseFails \/ RejectFile \/ SkipSource \/ Finish

Spec == Init /\ [][Next]_vars

-----------------------------------------------------------------------------
(* The reference: leaves and their paths.                                  *)

AllLeaves(i, k) ==
  IF Layers[i].kind = "environment" /\ "" \in Range(Segments[k]) THEN {}
  ELSE {[path |-> Stem(Segments[k]) \o p, value |-> <<i, k, p>>] : p \in Parts(i, k)}

Overridden(l, leaves) == \E m \in leaves : Comparable(l.path, m.path)

\* The leaves of a source that no later entry of it overrides.
LeavesOf(i) ==
  LET K == handled[i] IN
  UNION {{l \in AllLeaves(i, K[n]) : \A m \in n + 1 .. Len(K) : ~ Overridden(l, AllLeaves(i, K[m]))} :
           n \in DOMAIN K}

\* The leaves that no later source overrides.
Stacked ==
  LET Merged == {i \in Ids : outcome[i] = "merged"} IN
  UNION {{l \in LeavesOf(i) : \A j \in Merged : j > i => ~ Overridden(l, LeavesOf(j))} : i \in Merged}

-----------------------------------------------------------------------------
(* Properties.                                                             *)

\* What a key on the path of a node may be: nothing else makes a name.
Word == (UNION {Range(Segments[k]) : k \in Keys}) \union Fields \union {"bytes", "string"}

\* Every node is below dictionaries only and has a name, and only the root may be
\* an empty dictionary.
IsTree(v) ==
  /\ v = [p \in DOMAIN v |-> v[p]]
  /\ <<>> \in DOMAIN v
  /\ \A p \in DOMAIN v :
       /\ p \in Seq(Word) /\ "" \notin Range(p)
       /\ \A q \in Prefixes(p) \ {p} : q \in DOMAIN v /\ v[q] = Branch
       /\ v[p] = Branch /\ p # <<>> => \E l \in LeafSet(v) : IsPrefix(p, l.path)

\* The data of the sources, and of the one being read, are dictionaries in which
\* every key has a name.
TypeOK ==
  /\ pc \in {"read", "done", "failed", "panicked"}
  /\ pos \in 1 .. Len(Layers) + 1
  /\ IsTree(dict) /\ IsDict(dict)
  /\ figment # Malformed => IsTree(figment) /\ IsDict(figment)
  /\ \A i \in Ids : Range(handled[i]) \subseteq DOMAIN Layers[i].object
  /\ outcome \in [Ids -> {"unread", "merged", "malformed", "skipped"}]

\* What the templates see is stacked path by path (src/src/cli.rs:116,
\* src/src/datasource/mod.rs:177): a leaf is there if and only if its source could
\* be read, no later entry of that source is at, above or below its path, and
\* nothing that a later source is left with is. That holds for every order of
\* variables and options, spelling of keys, and source that is skipped.
LayersStack ==
  figment = IF \E i \in Ids : outcome[i] = "malformed" THEN Malformed ELSE Tree(Stacked)

\* Keys of ConfigMaps and Secrets always nest to a dictionary: what the expect
\* in src/src/datasource/k8s.rs:126 says. The code does not keep it: a key that
\* begins with "_" or "." is not empty and nests to its bare value.
KeysNest == pc # "panicked"
=============================================================================
