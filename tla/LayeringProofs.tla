--------------------------- MODULE LayeringProofs ---------------------------
(***************************************************************************)
(* The data that templates see are stacked path by path, for every         *)
(* registry of sources and every content of them.                          *)
(***************************************************************************)
EXTENDS Layering, SequenceTheorems, FiniteSetTheorems, WellFoundedInduction, TLAPS

Path == Seq(Word)

-----------------------------------------------------------------------------
(* Paths and their prefixes.                                               *)

LEMMA PrefixIs ==
  ASSUME NEW s \in Path, NEW t \in Path
  PROVE  IsPrefix(s, t) <=> Len(s) <= Len(t) /\ \A n \in 1 .. Len(s) : s[n] = t[n]
BY DEF IsPrefix, Path

LEMMA PrefixesAre ==
  ASSUME NEW t \in Path
  PROVE  Prefixes(t) = {s \in Path : IsPrefix(s, t)}
<1>1. ASSUME NEW l \in 0 .. Len(t) PROVE SubSeq(t, 1, l) \in Path /\ IsPrefix(SubSeq(t, 1, l), t)
  <2>1. /\ SubSeq(t, 1, l) \in Path /\ Len(SubSeq(t, 1, l)) = l /\ Len(t) \in Nat
        /\ \A n \in 1 .. l : SubSeq(t, 1, l)[n] = t[n]
    BY DEF Path
  <2>2. IsPrefix(SubSeq(t, 1, l), t) <=>
          Len(SubSeq(t, 1, l)) <= Len(t) /\ \A n \in 1 .. Len(SubSeq(t, 1, l)) : SubSeq(t, 1, l)[n] = t[n]
    BY <2>1, PrefixIs
  <2>3. QED
    BY <2>1, <2>2
<1>2. ASSUME NEW s \in Path, IsPrefix(s, t) PROVE s = SubSeq(t, 1, Len(s)) /\ Len(s) \in 0 .. Len(t)
  <2>1. Len(s) \in 0 .. Len(t) /\ \A n \in 1 .. Len(s) : s[n] = t[n]
    BY <1>2, PrefixIs DEF Path
  <2>2. SubSeq(s, 1, Len(s)) = s /\ SubSeq(s, 1, Len(s)) = SubSeq(t, 1, Len(s))
    BY <1>2, SubSeqFull DEF IsPrefix, Path
  <2>3. QED
    BY <2>1, <2>2
<1>3. QED
  BY <1>1, <1>2 DEF Prefixes

LEMMA PrefixOrder ==
  /\ <<>> \in Path
  /\ \A s \in Path : IsPrefix(<<>>, s) /\ IsPrefix(s, s)
  /\ \A s, t \in Path : IsPrefix(s, t) /\ IsPrefix(t, s) => s = t
  /\ \A s, t, u \in Path : IsPrefix(s, t) /\ IsPrefix(t, u) => IsPrefix(s, u)
  /\ \A s, t, u \in Path : IsPrefix(s, u) /\ IsPrefix(t, u) => IsPrefix(s, t) \/ IsPrefix(t, s)
<1>1. <<>> \in Path
  BY DEF Path
<1>0. ASSUME NEW s \in Path PROVE IsPrefix(<<>>, s) /\ IsPrefix(s, s)
  <2>1. Len(s) \in Nat /\ Len(<<>>) = 0
    BY DEF Path
  <2>2. QED
    BY <1>1, <2>1, PrefixIs
<1>2. ASSUME NEW s \in Path, NEW t \in Path, IsPrefix(s, t), IsPrefix(t, s) PROVE s = t
  <2>1. Len(s) = Len(t) /\ \A n \in 1 .. Len(s) : s[n] = t[n]
    BY <1>2, PrefixIs DEF Path
  <2>2. QED
    BY <2>1, SeqEqual DEF Path
<1>3. ASSUME NEW s \in Path, NEW t \in Path, NEW u \in Path, IsPrefix(s, t), IsPrefix(t, u)
      PROVE  IsPrefix(s, u)
  BY <1>3, PrefixIs DEF Path
<1>4. ASSUME NEW s \in Path, NEW t \in Path, NEW u \in Path, IsPrefix(s, u), IsPrefix(t, u)
      PROVE  IsPrefix(s, t) \/ IsPrefix(t, s)
  BY <1>4, PrefixIs DEF Path
<1>5. QED
  BY <1>0, <1>1, <1>2, <1>3, <1>4

LEMMA PrefixOfConcat ==
  ASSUME NEW s \in Path, NEW p \in Path
  PROVE  /\ s \o p \in Path /\ IsPrefix(s, s \o p)
         /\ SubSeq(s \o p, Len(s) + 1, Len(s \o p)) = p
         /\ \A q \in Path : IsPrefix(s \o q, s \o p) <=> IsPrefix(q, p)
         /\ \A q \in Path : s \o q = s \o p => q = p
         /\ \A t \in Path : IsPrefix(t, s \o p) => IsPrefix(t, s) \/ IsPrefix(s, t)
<1>1. s \o p \in Path /\ IsPrefix(s, s \o p)
  <2>1. /\ s \o p \in Path /\ Len(s \o p) = Len(s) + Len(p) /\ Len(s) \in Nat /\ Len(p) \in Nat
        /\ \A n \in 1 .. Len(s) : (s \o p)[n] = s[n]
    BY DEF Path
  <2>2. IsPrefix(s, s \o p) <=> Len(s) <= Len(s \o p) /\ \A n \in 1 .. Len(s) : s[n] = (s \o p)[n]
    BY <2>1, PrefixIs
  <2>3. QED
    BY <2>1, <2>2
<1>2. ASSUME NEW q \in Path
      PROVE  s \o q \in Path /\ SubSeq(s \o q, Len(s) + 1, Len(s \o q)) = q
  <2>1. Len(s \o q) = Len(s) + Len(q)
    BY DEF Path
  <2>2. QED
    BY <2>1 DEF Path
<1>3. ASSUME NEW q \in Path PROVE IsPrefix(s \o q, s \o p) <=> IsPrefix(q, p)
  <2>1. /\ s \o q \in Path /\ Len(s \o q) = Len(s) + Len(q) /\ Len(s \o p) = Len(s) + Len(p)
        /\ \A n \in 1 .. Len(s) : (s \o q)[n] = (s \o p)[n]
        /\ \A n \in 1 .. Len(q) : (s \o q)[Len(s) + n] = q[n]
        /\ \A n \in 1 .. Len(p) : (s \o p)[Len(s) + n] = p[n]
        /\ Len(s) \in Nat /\ Len(p) \in Nat /\ Len(q) \in Nat
    BY DEF Path
  <2>2. ASSUME IsPrefix(s \o q, s \o p) PROVE IsPrefix(q, p)
    <3>1. Len(q) <= Len(p)
      <4>1. Len(s \o q) <= Len(s \o p)
        BY <1>1, <2>1, <2>2, PrefixIs
      <4>2. QED
        BY <2>1, <4>1
    <3>2. ASSUME NEW n \in 1 .. Len(q) PROVE q[n] = p[n]
      <4>1. Len(s) + n \in 1 .. Len(s \o q) /\ n \in 1 .. Len(p)
        BY <2>1, <3>1
      <4>2. QED
        BY <1>1, <2>1, <2>2, <4>1, PrefixIs
    <3>3. QED
      BY <3>1, <3>2, PrefixIs
  <2>3. ASSUME IsPrefix(q, p) PROVE IsPrefix(s \o q, s \o p)
    <3>1. Len(q) <= Len(p) /\ \A n \in 1 .. Len(q) : q[n] = p[n]
      BY <2>3, PrefixIs
    <3>2. ASSUME NEW n \in 1 .. Len(s \o q), n > Len(s) PROVE (s \o q)[n] = (s \o p)[n]
      <4>1. n - Len(s) \in 1 .. Len(q) /\ n - Len(s) \in 1 .. Len(p) /\ n = Len(s) + (n - Len(s))
        BY <2>1, <3>1, <3>2
      <4>2. QED
        BY <2>1, <3>1, <4>1
    <3>3. \A n \in 1 .. Len(s \o q) : n > Len(s) \/ n \in 1 .. Len(s)
      BY <2>1
    <3>4. Len(s \o q) <= Len(s \o p) /\ \A n \in 1 .. Len(s \o q) : (s \o q)[n] = (s \o p)[n]
      BY <2>1, <3>1, <3>2, <3>3
    <3>5. QED
      BY <1>1, <2>1, <3>4, PrefixIs
  <2>4. QED
    BY <2>2, <2>3
<1>4. ASSUME NEW q \in Path, s \o q = s \o p PROVE q = p
  BY <1>2, <1>4
<1>5. QED
  BY <1>1, <1>2, <1>3, <1>4, PrefixOrder

LEMMA SuffixExists ==
  ASSUME NEW s \in Path, NEW t \in Path, IsPrefix(s, t)
  PROVE  \E q \in Path : t = s \o q
<1>1. Len(s) <= Len(t) /\ \A n \in 1 .. Len(s) : s[n] = t[n]
  BY PrefixIs
<1>2. SubSeq(t, Len(s) + 1, Len(t)) \in Path /\ t = s \o SubSeq(t, Len(s) + 1, Len(t))
  BY <1>1 DEF Path
<1>3. QED
  BY <1>2

Named(p) == p \in Path /\ "" \notin Range(p)

LEMMA PrefixNamed ==
  ASSUME NEW s \in Path, NEW t, Named(t), IsPrefix(s, t)
  PROVE  Named(s)
<1>1. t \in Path /\ Len(s) <= Len(t) /\ \A n \in 1 .. Len(s) : s[n] = t[n]
  BY PrefixIs DEF Named
<1>2. DOMAIN s = 1 .. Len(s) /\ DOMAIN t = 1 .. Len(t) /\ Len(s) \in Nat /\ Len(t) \in Nat
  BY <1>1 DEF Path
<1>3. ASSUME NEW n \in DOMAIN s PROVE s[n] \in Range(t)
  <2>1. n \in DOMAIN t /\ s[n] = t[n]
    BY <1>1, <1>2
  <2>2. QED
    BY <2>1 DEF Range
<1>4. QED
  BY <1>3 DEF Named, Range

LEMMA ConcatNamed ==
  ASSUME NEW s, NEW t, Named(s), Named(t)
  PROVE  Named(s \o t)
<1>1. /\ s \o t \in Path
      /\ \A n \in DOMAIN (s \o t) : (\E m \in DOMAIN s : (s \o t)[n] = s[m]) \/ (\E m \in DOMAIN t : (s \o t)[n] = t[m])
  <2>1. s \in Path /\ t \in Path
    BY DEF Named
  <2>2. /\ s \o t \in Path /\ Len(s \o t) = Len(s) + Len(t) /\ Len(s) \in Nat /\ Len(t) \in Nat
        /\ DOMAIN (s \o t) = 1 .. Len(s \o t) /\ DOMAIN s = 1 .. Len(s) /\ DOMAIN t = 1 .. Len(t)
        /\ \A n \in 1 .. Len(s) : (s \o t)[n] = s[n]
        /\ \A n \in 1 .. Len(s) + Len(t) : n > Len(s) => (s \o t)[n] = t[n - Len(s)]
    BY <2>1 DEF Path
  <2>3. ASSUME NEW n \in 1 .. Len(s) + Len(t), n > Len(s) PROVE n - Len(s) \in 1 .. Len(t)
    BY <2>2, <2>3
  <2>4. QED
    BY <2>2, <2>3
<1>2. QED
  BY <1>1 DEF Named, Range

-----------------------------------------------------------------------------
(* Trees and their leaves.                                                 *)

\* IsTree in terms of the order of paths.
Shape(v) ==
  /\ v = [p \in DOMAIN v |-> v[p]]
  /\ <<>> \in DOMAIN v
  /\ \A p \in DOMAIN v : Named(p)
  /\ \A p \in DOMAIN v : \A q \in Path : IsPrefix(q, p) /\ q # p => q \in DOMAIN v /\ v[q] = Branch
  /\ \A p \in DOMAIN v : v[p] = Branch /\ p # <<>> => \E q \in DOMAIN v : v[q] # Branch /\ IsPrefix(p, q)

LEMMA TreeIs == ASSUME NEW v PROVE IsTree(v) <=> Shape(v)
<1>1. ASSUME NEW p
      PROVE  (\E l \in LeafSet(v) : IsPrefix(p, l.path)) <=> \E q \in DOMAIN v : v[q] # Branch /\ IsPrefix(p, q)
  <2>1. \A l \in LeafSet(v) : l.path \in DOMAIN v /\ v[l.path] # Branch
    BY DEF LeafSet
  <2>2. \A q \in DOMAIN v : v[q] # Branch => \E l \in LeafSet(v) : l.path = q
    <3>1. \A q \in DOMAIN v : v[q] # Branch => [path |-> q, value |-> v[q]] \in LeafSet(v)
      BY DEF LeafSet
    <3>2. QED
      BY <3>1
  <2>3. QED
    BY <2>1, <2>2
<1>2. ASSUME NEW p, p \in Path
      PROVE  (\A q \in Prefixes(p) \ {p} : q \in DOMAIN v /\ v[q] = Branch) <=>
             (\A q \in Path : IsPrefix(q, p) /\ q # p => q \in DOMAIN v /\ v[q] = Branch)
  BY <1>2, PrefixesAre
<1>3. QED
  BY <1>1, <1>2, Zenon DEF IsTree, Shape, Named, Path

\* Sets of leaves that a tree may have.
Leaves(L) ==
  /\ \A l \in L : l = [path |-> l.path, value |-> l.value] /\ Named(l.path) /\ l.value # Branch
  /\ \A l, m \in L : IsPrefix(l.path, m.path) => l = m

LEMMA TreeNodes ==
  ASSUME NEW L, Leaves(L)
  PROVE  /\ \A p : p \in DOMAIN Tree(L) <=> p = <<>> \/ \E l \in L : p \in Path /\ IsPrefix(p, l.path)
         /\ \A l \in L : l.path \in DOMAIN Tree(L) /\ Tree(L)[l.path] = l.value
         /\ \A p \in DOMAIN Tree(L) : (\A l \in L : l.path # p) => Tree(L)[p] = Branch
         /\ Tree(L) = [p \in DOMAIN Tree(L) |-> Tree(L)[p]]
<1> DEFINE T == Tree(L)
<1>1. ASSUME NEW p PROVE p \in DOMAIN T <=> p = <<>> \/ \E l \in L : p \in Path /\ IsPrefix(p, l.path)
  <2>1. \A l \in L : l.path \in Path
    BY DEF Leaves, Named
  <2>2. DOMAIN T = {<<>>} \union UNION {Prefixes(l.path) : l \in L}
    BY DEF Tree
  <2>3. \A l \in L : Prefixes(l.path) = {s \in Path : IsPrefix(s, l.path)}
    BY <2>1, PrefixesAre
  <2> HIDE DEF T
  <2>4. QED
    BY <2>2, <2>3
<1>2. ASSUME NEW l \in L PROVE l.path \in DOMAIN T /\ T[l.path] = l.value
  <2>1. l.path \in Path /\ l.path \in DOMAIN T
    BY <1>1, PrefixOrder DEF Leaves, Named
  <2>2. \A m \in L : m.path = l.path => m = l
    BY <2>1, PrefixOrder DEF Leaves
  <2>3. (CHOOSE m \in L : m.path = l.path) = l
    BY <2>2
  <2>4. QED
    BY <2>1, <2>3 DEF Tree
<1>3. ASSUME NEW p \in DOMAIN T, \A l \in L : l.path # p PROVE T[p] = Branch
  BY <1>3 DEF Tree
<1>4. T = [p \in DOMAIN T |-> T[p]]
  BY DEF Tree
<1>5. QED
  BY <1>1, <1>2, <1>3, <1>4

\* A tree has exactly the leaves it is made of.
LEMMA TreeOfLeaves ==
  ASSUME NEW L, Leaves(L)
  PROVE  /\ IsTree(Tree(L)) /\ LeafSet(Tree(L)) = L
         /\ IsDict(Tree(L)) <=> \A l \in L : l.path # <<>>
<1> DEFINE T == Tree(L)
<1>1. \A p : p \in DOMAIN T <=> p = <<>> \/ \E l \in L : p \in Path /\ IsPrefix(p, l.path)
  BY TreeNodes
<1>2. \A l \in L : l.path \in DOMAIN T /\ T[l.path] = l.value
  BY TreeNodes
<1>3. ASSUME NEW p \in DOMAIN T, \A l \in L : l.path # p PROVE T[p] = Branch
  BY <1>3, TreeNodes
<1>4. <<>> \in DOMAIN T /\ T = [p \in DOMAIN T |-> T[p]]
  BY <1>1, TreeNodes
<1> HIDE DEF T
<1>5. LeafSet(T) = L
  <2>1. ASSUME NEW l \in L PROVE l \in LeafSet(T)
    BY <1>2 DEF LeafSet, Leaves
  <2>2. ASSUME NEW p \in DOMAIN T, T[p] # Branch PROVE [path |-> p, value |-> T[p]] \in L
    <3>1. PICK l \in L : l.path = p
      BY <1>3, <2>2
    <3>2. l = [path |-> p, value |-> T[p]]
      BY <1>2, <3>1 DEF Leaves
    <3>3. QED
      BY <3>2
  <2>3. QED
    BY <2>1, <2>2 DEF LeafSet
<1>6. IsDict(T) <=> \A l \in L : l.path # <<>>
  BY <1>2, <1>3, <1>4 DEF IsDict, Leaves
<1>7. ASSUME NEW p \in DOMAIN T PROVE Named(p)
  <2>1. Named(<<>>)
    BY PrefixOrder DEF Named, Range
  <2>2. QED
    BY <1>1, <2>1, PrefixNamed DEF Leaves
<1>8. ASSUME NEW p \in DOMAIN T, NEW q \in Path, IsPrefix(q, p), q # p PROVE q \in DOMAIN T /\ T[q] = Branch
  <2>1. p # <<>>
    BY <1>8, PrefixOrder
  <2>2. PICK l \in L : p \in Path /\ IsPrefix(p, l.path)
    BY <1>1, <2>1
  <2>3. l.path \in Path /\ IsPrefix(q, l.path) /\ q \in DOMAIN T
    BY <1>1, <1>8, <2>2, PrefixOrder DEF Leaves, Named
  <2>4. ASSUME NEW m \in L, m.path = q PROVE FALSE
    <3>1. m = l
      BY <2>3, <2>4 DEF Leaves
    <3>2. QED
      BY <1>8, <2>2, <2>4, <3>1, PrefixOrder
  <2>5. QED
    BY <1>3, <2>3, <2>4
<1>9. ASSUME NEW p \in DOMAIN T, T[p] = Branch, p # <<>> PROVE \E q \in DOMAIN T : T[q] # Branch /\ IsPrefix(p, q)
  BY <1>1, <1>2, <1>9 DEF Leaves
<1>10. Shape(T)
  BY <1>4, <1>7, <1>8, <1>9 DEF Shape
<1>11. QED
  BY <1>5, <1>6, <1>10, TreeIs DEF T

\* A tree is made of its leaves: nothing else tells two trees apart.
LEMMA LeavesOfTree ==
  ASSUME NEW v, IsTree(v)
  PROVE  Leaves(LeafSet(v)) /\ v = Tree(LeafSet(v))
<1> DEFINE L == LeafSet(v)
<1>1. Shape(v)
  BY TreeIs
<1>2. \A p \in DOMAIN v : v[p] # Branch => [path |-> p, value |-> v[p]] \in L
  BY DEF LeafSet
<1>3. \A l \in L : /\ l = [path |-> l.path, value |-> l.value] /\ l.path \in DOMAIN v
                   /\ l.value = v[l.path] /\ l.value # Branch
  BY DEF LeafSet
<1> HIDE DEF L
<1>4. Leaves(L)
  <2>1. ASSUME NEW l \in L, NEW m \in L, IsPrefix(l.path, m.path) PROVE l = m
    <3>1. l.path \in DOMAIN v /\ m.path \in DOMAIN v /\ v[l.path] # Branch
      BY <1>3
    <3>2. l.path \in Path
      BY <1>1, <3>1 DEF Shape, Named
    <3>3. l.path = m.path
      BY <1>1, <2>1, <3>1, <3>2 DEF Shape
    <3>4. QED
      BY <1>3, <3>3
  <2>2. QED
    BY <1>1, <1>3, <2>1 DEF Leaves, Shape
<1>5. ASSUME NEW p PROVE p \in DOMAIN v <=> p = <<>> \/ \E l \in L : p \in Path /\ IsPrefix(p, l.path)
  <2>1. ASSUME NEW l \in L, p \in Path, IsPrefix(p, l.path) PROVE p \in DOMAIN v
    BY <1>1, <1>3, <2>1 DEF Shape
  <2>2. ASSUME p \in DOMAIN v, p # <<>> PROVE \E l \in L : p \in Path /\ IsPrefix(p, l.path)
    <3>1. p \in Path /\ IsPrefix(p, p)
      BY <1>1, <2>2, PrefixOrder DEF Shape, Named
    <3>2. PICK q \in DOMAIN v : v[q] # Branch /\ IsPrefix(p, q)
      BY <1>1, <2>2, <3>1 DEF Shape
    <3>3. QED
      BY <1>2, <3>1, <3>2
  <2>3. QED
    BY <1>1, <2>1, <2>2 DEF Shape
<1>6. DOMAIN Tree(L) = DOMAIN v
  <2>1. \A p : p \in DOMAIN Tree(L) <=> p = <<>> \/ \E l \in L : p \in Path /\ IsPrefix(p, l.path)
    BY <1>4, TreeNodes
  <2>2. QED
    BY <1>5, <2>1
<1>7. ASSUME NEW p \in DOMAIN v PROVE Tree(L)[p] = v[p]
  <2>1. ASSUME NEW l \in L, l.path = p PROVE (CHOOSE m \in L : m.path = p).value = v[p]
    BY <1>3, <2>1
  <2>2. ASSUME \A l \in L : l.path # p PROVE v[p] = Branch
    BY <1>2, <2>2
  <2>3. Tree(L)[p] = IF \E l \in L : l.path = p THEN (CHOOSE l \in L : l.path = p).value ELSE Branch
    BY <1>6 DEF Tree
  <2>4. QED
    BY <2>1, <2>2, <2>3
<1>8. Tree(L) = [p \in DOMAIN Tree(L) |-> Tree(L)[p]]
  BY DEF Tree
<1>9. v = [p \in DOMAIN v |-> v[p]]
  BY <1>1 DEF Shape
<1>10. v = Tree(L)
  BY <1>6, <1>7, <1>8, <1>9
<1>11. QED
  BY <1>4, <1>10 DEF L

LEMMA MergeNodes ==
  ASSUME NEW a, NEW b, IsTree(a), IsTree(b)
  PROVE  LET D == Merge(a, b)
             Free(q) == \A r \in Path : IsPrefix(r, q) /\ r \in DOMAIN b => b[r] = Branch
         IN  /\ D = [p \in DOMAIN D |-> D[p]]
             /\ \A p : p \in DOMAIN D <=> p \in DOMAIN b \/ (p \in DOMAIN a /\ Free(p))
             /\ \A p \in DOMAIN D : D[p] = IF p \in DOMAIN b THEN b[p] ELSE a[p]
<1> DEFINE D == Merge(a, b)
           Free(q) == \A r \in Path : IsPrefix(r, q) /\ r \in DOMAIN b => b[r] = Branch
<1>1. ASSUME NEW q, q \in DOMAIN a PROVE Free(q) <=> \A r \in Prefixes(q) \intersect DOMAIN b : b[r] = Branch
  <2>1. q \in Path
    BY <1>1, TreeIs DEF Shape, Named
  <2>2. QED
    BY <2>1, PrefixesAre
<1>2. DOMAIN D = DOMAIN b \union {q \in DOMAIN a : \A r \in Prefixes(q) \intersect DOMAIN b : b[r] = Branch}
  BY DEF Merge
<1>3. QED
  BY <1>1, <1>2 DEF Merge

\* Merging keeps the leaves of the second tree, and of the first one those that are
\* not at, above or below one of them.
LEMMA MergeOfTrees ==
  ASSUME NEW a, NEW b, IsTree(a), IsDict(a), IsTree(b), IsDict(b)
  PROVE  /\ IsTree(Merge(a, b)) /\ IsDict(Merge(a, b))
         /\ LeafSet(Merge(a, b)) = LeafSet(b) \union {l \in LeafSet(a) : ~ Overridden(l, LeafSet(b))}
<1> DEFINE D == Merge(a, b)
           Free(q) == \A r \in Path : IsPrefix(r, q) /\ r \in DOMAIN b => b[r] = Branch
<1>1. Shape(a) /\ Shape(b) /\ a[<<>>] = Branch /\ b[<<>>] = Branch
  BY TreeIs DEF IsDict
<1>2. \A q \in DOMAIN a : q \in Path
  BY <1>1 DEF Shape, Named
<1>3. /\ D = [p \in DOMAIN D |-> D[p]]
      /\ \A p : p \in DOMAIN D <=> p \in DOMAIN b \/ (p \in DOMAIN a /\ Free(p))
      /\ \A p \in DOMAIN D : D[p] = IF p \in DOMAIN b THEN b[p] ELSE a[p]
  BY MergeNodes
<1> HIDE DEF D
<1>4. <<>> \in DOMAIN D /\ D[<<>>] = Branch
  BY <1>1, <1>3 DEF Shape
<1>5. \A p \in DOMAIN D : Named(p)
  BY <1>1, <1>3 DEF Shape
<1>6. ASSUME NEW p \in DOMAIN D, NEW q \in Path, IsPrefix(q, p), q # p PROVE q \in DOMAIN D /\ D[q] = Branch
  <2>1. CASE p \in DOMAIN b
    BY <1>1, <1>3, <1>6, <2>1 DEF Shape
  <2>2. CASE p \in DOMAIN a /\ Free(p)
    <3>1. q \in DOMAIN a /\ a[q] = Branch
      BY <1>1, <1>6, <2>2 DEF Shape
    <3>2. p \in Path
      BY <1>2, <2>2
    <3>3. Free(q)
      BY <1>6, <2>2, <3>2, PrefixOrder
    <3>4. q \in DOMAIN b => b[q] = Branch
      BY <1>6, <2>2
    <3>5. QED
      BY <1>3, <3>1, <3>3, <3>4
  <2>3. QED
    BY <1>3, <2>1, <2>2
<1>7. ASSUME NEW p \in DOMAIN D, D[p] = Branch, p # <<>> PROVE \E q \in DOMAIN D : D[q] # Branch /\ IsPrefix(p, q)
  <2>1. CASE p \in DOMAIN b
    <3>1. PICK q \in DOMAIN b : b[q] # Branch /\ IsPrefix(p, q)
      BY <1>1, <1>3, <1>7, <2>1 DEF Shape
    <3>2. QED
      BY <1>3, <3>1
  <2>2. CASE p \in DOMAIN a /\ Free(p) /\ p \notin DOMAIN b
    <3>1. PICK q \in DOMAIN a : a[q] # Branch /\ IsPrefix(p, q)
      BY <1>1, <1>3, <1>7, <2>2 DEF Shape
    <3>2. p \in Path /\ q \in Path
      BY <1>2, <2>2
    <3>3. ASSUME NEW r \in Path, IsPrefix(r, q), r \in DOMAIN b PROVE IsPrefix(r, p)
      <4>1. IsPrefix(p, r) => p = r \/ p \in DOMAIN b
        BY <1>1, <3>2, <3>3 DEF Shape
      <4>2. IsPrefix(r, p) \/ IsPrefix(p, r)
        BY <3>1, <3>2, <3>3, PrefixOrder
      <4>3. QED
        BY <2>2, <3>3, <4>1, <4>2
    <3>4. Free(q)
      BY <2>2, <3>3
    <3>5. q \notin DOMAIN b
      <4>1. IsPrefix(p, q) /\ p # q => q \notin DOMAIN b
        BY <1>1, <2>2, <3>2 DEF Shape
      <4>2. QED
        BY <2>2, <3>1, <4>1
    <3>6. q \in DOMAIN D /\ D[q] = a[q]
      BY <1>3, <3>4, <3>5
    <3>7. QED
      BY <3>1, <3>6
  <2>3. QED
    BY <1>3, <2>1, <2>2
<1>8. IsTree(D)
  <2>1. Shape(D)
    BY <1>3, <1>4, <1>5, <1>6, <1>7 DEF Shape
  <2>2. QED
    BY <2>1, TreeIs
<1>9. ASSUME NEW p \in DOMAIN a, a[p] # Branch
      PROVE  (Free(p) /\ p \notin DOMAIN b) <=> \A q \in DOMAIN b : b[q] # Branch => ~ Comparable(p, q)
  <2>0. p \in Path /\ p # <<>> /\ \A q \in DOMAIN b : q \in Path
    BY <1>1, <1>9 DEF Shape, Named
  <2>1. ASSUME Free(p), p \notin DOMAIN b, NEW q \in DOMAIN b, b[q] # Branch, Comparable(p, q) PROVE FALSE
    <3>1. ~ IsPrefix(q, p)
      BY <2>0, <2>1
    <3>2. IsPrefix(p, q)
      BY <2>1, <3>1 DEF Comparable
    <3>3. QED
      BY <1>1, <2>0, <2>1, <3>2 DEF Shape
  <2>2. ASSUME \A q \in DOMAIN b : b[q] # Branch => ~ Comparable(p, q) PROVE Free(p) /\ p \notin DOMAIN b
    <3>1. Free(p)
      BY <2>2 DEF Comparable
    <3>2. ASSUME p \in DOMAIN b PROVE FALSE
      <4>1. CASE b[p] = Branch
        <5>1. PICK q \in DOMAIN b : b[q] # Branch /\ IsPrefix(p, q)
          BY <1>1, <2>0, <3>2, <4>1 DEF Shape
        <5>2. QED
          BY <2>2, <5>1 DEF Comparable
      <4>2. CASE b[p] # Branch
        BY <2>0, <2>2, <3>2, <4>2, PrefixOrder DEF Comparable
      <4>3. QED
        BY <4>1, <4>2
    <3>3. QED
      BY <3>1, <3>2
  <2>3. QED
    BY <2>1, <2>2
<1>10. ASSUME NEW p, NEW x
       PROVE  Overridden([path |-> p, value |-> x], LeafSet(b)) <=> \E q \in DOMAIN b : b[q] # Branch /\ Comparable(p, q)
  <2>1. \A l \in LeafSet(b) : l.path \in DOMAIN b /\ b[l.path] # Branch
    BY DEF LeafSet
  <2>2. \A q \in DOMAIN b : b[q] # Branch => [path |-> q, value |-> b[q]] \in LeafSet(b)
    BY DEF LeafSet
  <2>3. \A q \in DOMAIN b : b[q] # Branch => \E l \in LeafSet(b) : l.path = q
    BY <2>2
  <2>4. QED
    BY <2>1, <2>3 DEF Overridden
<1>11. ASSUME NEW l PROVE l \in LeafSet(D) <=> l \in LeafSet(b) \/ (l \in LeafSet(a) /\ ~ Overridden(l, LeafSet(b)))
  <2>1. ASSUME NEW v PROVE l \in LeafSet(v) <=> \E p \in DOMAIN v : v[p] # Branch /\ l = [path |-> p, value |-> v[p]]
    BY DEF LeafSet
  <2>2. ASSUME l \in LeafSet(b) PROVE l \in LeafSet(D)
    BY <1>3, <2>1, <2>2
  <2>3. ASSUME l \in LeafSet(a), ~ Overridden(l, LeafSet(b)) PROVE l \in LeafSet(D)
    <3>1. PICK p \in DOMAIN a : a[p] # Branch /\ l = [path |-> p, value |-> a[p]]
      BY <2>1, <2>3
    <3>2. Free(p) /\ p \notin DOMAIN b
      BY <1>9, <1>10, <2>3, <3>1
    <3>3. p \in DOMAIN D /\ D[p] = a[p]
      BY <1>3, <3>2
    <3>4. QED
      BY <2>1, <3>1, <3>3
  <2>4. ASSUME l \in LeafSet(D), l \notin LeafSet(b) PROVE l \in LeafSet(a) /\ ~ Overridden(l, LeafSet(b))
    <3>1. PICK p \in DOMAIN D : D[p] # Branch /\ l = [path |-> p, value |-> D[p]]
      BY <2>1, <2>4
    <3>2. p \notin DOMAIN b /\ p \in DOMAIN a /\ Free(p) /\ D[p] = a[p]
      BY <1>3, <2>1, <2>4, <3>1
    <3>3. l \in LeafSet(a)
      BY <2>1, <3>1, <3>2
    <3>4. QED
      BY <1>9, <1>10, <3>1, <3>2, <3>3
  <2>5. QED
    BY <2>2, <2>3, <2>4
<1>12. IsDict(D)
  BY <1>4 DEF IsDict
<1>13. QED
  BY <1>8, <1>11, <1>12 DEF D

-----------------------------------------------------------------------------
(* Nesting a value below the segments of a name.                           *)

LEMMA Least ==
  ASSUME NEW S \in SUBSET Nat, S # {}
  PROVE  \E m \in S : \A k \in S : m <= k
<1> DEFINE R == OpToRel(<, Nat)
<1>1. \A k, m \in Nat : <<k, m>> \in R <=> k < m
  BY DEF OpToRel
<1>2. IsWellFoundedOn(R, Nat)
  BY NatLessThanWellFounded, Zenon
<1> HIDE DEF R
<1>3. PICK m \in S : \A k \in S : ~ (<<k, m>> \in R)
  BY <1>2, WFMin
<1>4. \A k \in S : ~ (k < m)
  BY <1>1, <1>3
<1>5. QED
  BY <1>4

\* c is what is before the first x.
Cut(s, x, c) ==
  /\ c \in Path /\ IsPrefix(c, s) /\ x \notin Range(c)
  /\ c # s => Len(c) + 1 \in DOMAIN s /\ s[Len(c) + 1] = x

LEMMA CutIs ==
  ASSUME NEW s \in Path, NEW x, {n \in DOMAIN s : s[n] = x} # {}
  PROVE  Cut(s, x, SubSeq(s, 1, Min({n \in DOMAIN s : s[n] = x}) - 1))
<1> DEFINE Hits == {n \in DOMAIN s : s[n] = x}
<1>1. DOMAIN s = 1 .. Len(s) /\ Len(s) \in Nat
  BY DEF Path
<1>2. \A n : n \in Hits <=> n \in 1 .. Len(s) /\ s[n] = x
  BY <1>1
<1>3. Hits \in SUBSET Nat /\ Hits # {}
  BY <1>1
<1> HIDE DEF Hits
<1>4. Min(Hits) \in Hits /\ \A k \in Hits : Min(Hits) <= k
  BY <1>3, Least DEF Min
<1>5. PICK m \in 1 .. Len(s) : Min(Hits) = m /\ s[m] = x /\ \A k \in 1 .. Len(s) : k < m => s[k] # x
  BY <1>1, <1>2, <1>4
<1>6. /\ SubSeq(s, 1, m - 1) \in Path /\ DOMAIN SubSeq(s, 1, m - 1) = 1 .. m - 1
      /\ \A k \in 1 .. m - 1 : SubSeq(s, 1, m - 1)[k] = s[k]
  BY <1>1, <1>5 DEF Path
<1>7. x \notin Range(SubSeq(s, 1, m - 1))
  <2>1. \A k \in 1 .. m - 1 : k \in 1 .. Len(s) /\ k < m
    BY <1>1, <1>5
  <2>2. QED
    BY <1>5, <1>6, <2>1 DEF Range
<1> DEFINE cut == SubSeq(s, 1, m - 1)
<1>8. IsPrefix(cut, s) /\ Len(cut) + 1 = m
  <2>1. Len(cut) = m - 1 /\ m - 1 <= Len(s) /\ m \in Nat
    BY <1>1, <1>5 DEF Path
  <2>2. cut \in Path /\ \A k \in 1 .. Len(cut) : cut[k] = s[k]
    BY <1>6, <2>1
  <2> HIDE DEF cut
  <2>3. Len(cut) <= Len(s) /\ Len(cut) + 1 = m
    BY <1>1, <2>1
  <2>4. QED
    BY <2>2, <2>3, PrefixIs
<1>9. QED
  BY <1>1, <1>5, <1>6, <1>7, <1>8 DEF Cut, Hits

LEMMA CutOnce ==
  ASSUME NEW s \in Path, NEW x, NEW c, NEW d, Cut(s, x, c), Cut(s, x, d)
  PROVE  c = d
<1>1. ASSUME NEW e, NEW f, Cut(s, x, e), Cut(s, x, f) PROVE Len(f) <= Len(e)
  <2>1. /\ e \in Path /\ f \in Path /\ IsPrefix(f, s) /\ x \notin Range(f)
        /\ Len(e) \in Nat /\ Len(f) \in Nat /\ DOMAIN f = 1 .. Len(f)
    BY <1>1 DEF Cut, Path
  <2>2. Len(f) <= Len(s) /\ \A n \in 1 .. Len(f) : f[n] = s[n]
    BY <2>1, PrefixIs
  <2>3. CASE e = s
    BY <2>2, <2>3
  <2>4. CASE e # s
    <3>1. s[Len(e) + 1] = x
      BY <1>1, <2>4 DEF Cut
    <3>2. Len(e) + 1 \notin 1 .. Len(f)
      BY <2>1, <2>2, <3>1 DEF Range
    <3>3. QED
      BY <2>1, <3>2
  <2>5. QED
    BY <2>3, <2>4
<1>2. c \in Path /\ d \in Path /\ IsPrefix(c, s) /\ IsPrefix(d, s) /\ Len(c) \in Nat /\ Len(d) \in Nat
  BY DEF Cut, Path
<1>3. Len(c) <= Len(d) /\ Len(d) <= Len(c)
  BY <1>1
<1>4. Len(c) = Len(d) /\ \A n \in 1 .. Len(c) : c[n] = d[n]
  BY <1>2, <1>3, PrefixIs
<1>5. QED
  BY <1>2, <1>4, SeqEqual DEF Path

LEMMA StemIs ==
  ASSUME NEW s \in Path
  PROVE  Cut(s, "", Stem(s)) /\ Named(Stem(s)) /\ ("" \notin Range(s) => Stem(s) = s)
<1> DEFINE Empty == {n \in DOMAIN s : s[n] = ""}
<1>1. CASE Empty = {}
  BY <1>1, PrefixOrder DEF Stem, Named, Range, Cut
<1>2. CASE Empty # {}
  <2>1. "" \in Range(s)
    BY <1>2 DEF Range
  <2>2. Stem(s) = SubSeq(s, 1, Min(Empty) - 1)
    BY <1>2 DEF Stem
  <2>3. Cut(s, "", SubSeq(s, 1, Min(Empty) - 1))
    BY <1>2, CutIs
  <2>4. QED
    BY <2>1, <2>2, <2>3 DEF Named, Cut
<1>3. QED
  BY <1>1, <1>2

\* The leaves of a nested value are those of the value, below the stem.
LEMMA NestOfTree ==
  ASSUME NEW s \in Path, NEW L, Leaves(L), L # {}
  PROVE  LET Below == {[path |-> Stem(s) \o l.path, value |-> l.value] : l \in L}
         IN  Leaves(Below) /\ Nest(s, Tree(L)) = Tree(Below)
<1> DEFINE t == Stem(s)
           M == {[path |-> t \o l.path, value |-> l.value] : l \in L}
           N == Nest(s, Tree(L))
<1>1. Named(t) /\ t \in Path
  BY StemIs DEF Named
<1>2. /\ \A l \in L : [path |-> t \o l.path, value |-> l.value] \in M
      /\ \A m \in M : \E l \in L : m = [path |-> t \o l.path, value |-> l.value]
  OBVIOUS
<1>3. N = [p \in Prefixes(t) \union {t \o q : q \in DOMAIN Tree(L)} |->
            IF IsPrefix(t, p) THEN Tree(L)[SubSeq(p, Len(t) + 1, Len(p))] ELSE Branch]
  BY DEF Nest
<1> HIDE DEF t, M, N
<1>4. \A l \in L : l.path \in Path /\ Named(l.path)
  BY DEF Leaves, Named
<1>5. Leaves(M)
  <2>1. ASSUME NEW m \in M PROVE m = [path |-> m.path, value |-> m.value] /\ Named(m.path) /\ m.value # Branch
    <3>1. PICK l \in L : m = [path |-> t \o l.path, value |-> l.value]
      BY <1>2
    <3>2. Named(t \o l.path) /\ l.value # Branch
      BY <1>1, <1>4, ConcatNamed DEF Leaves
    <3>3. QED
      BY <3>1, <3>2
  <2>2. ASSUME NEW l \in M, NEW m \in M, IsPrefix(l.path, m.path) PROVE l = m
    <3>1. PICK j \in L : l = [path |-> t \o j.path, value |-> j.value]
      BY <1>2
    <3>2. PICK k \in L : m = [path |-> t \o k.path, value |-> k.value]
      BY <1>2
    <3>3. IsPrefix(t \o j.path, t \o k.path)
      BY <2>2, <3>1, <3>2
    <3>4. IsPrefix(j.path, k.path)
      BY <1>1, <1>4, <3>3, PrefixOfConcat
    <3>5. QED
      BY <3>1, <3>2, <3>4 DEF Leaves
  <2>3. QED
    BY <2>1, <2>2 DEF Leaves
<1>6. ASSUME NEW q PROVE q \in DOMAIN Tree(L) <=> q \in Path /\ \E l \in L : IsPrefix(q, l.path)
  BY <1>4, TreeNodes, PrefixOrder
<1>7. ASSUME NEW p PROVE p \in DOMAIN N <=> p \in Path /\ \E l \in L : IsPrefix(p, t \o l.path)
  <2>1. p \in DOMAIN N <=> (p \in Path /\ IsPrefix(p, t)) \/ \E q \in DOMAIN Tree(L) : p = t \o q
    BY <1>1, <1>3, PrefixesAre
  <2>2. ASSUME p \in Path, IsPrefix(p, t), NEW l \in L PROVE IsPrefix(p, t \o l.path)
    <3>1. t \o l.path \in Path /\ IsPrefix(t, t \o l.path)
      BY <1>1, <1>4, PrefixOfConcat
    <3>2. QED
      BY <1>1, <2>2, <3>1, PrefixOrder
  <2>3. ASSUME NEW q \in DOMAIN Tree(L), p = t \o q PROVE p \in Path /\ \E l \in L : IsPrefix(p, t \o l.path)
    <3>1. PICK l \in L : q \in Path /\ IsPrefix(q, l.path)
      BY <1>6
    <3>2. QED
      BY <1>1, <1>4, <2>3, <3>1, PrefixOfConcat
  <2>4. ASSUME p \in Path, NEW l \in L, IsPrefix(p, t \o l.path), ~ IsPrefix(p, t)
        PROVE  \E q \in DOMAIN Tree(L) : p = t \o q
    <3>1. IsPrefix(t, p)
      BY <1>1, <1>4, <2>4, PrefixOfConcat
    <3>2. PICK q \in Path : p = t \o q
      BY <1>1, <2>4, <3>1, SuffixExists
    <3>3. IsPrefix(q, l.path)
      BY <1>1, <1>4, <2>4, <3>2, PrefixOfConcat
    <3>4. QED
      BY <1>6, <3>2, <3>3
  <2>5. QED
    BY <2>1, <2>2, <2>3, <2>4
<1>8. ASSUME NEW p PROVE p \in DOMAIN Tree(M) <=> p \in Path /\ \E l \in L : IsPrefix(p, t \o l.path)
  <2>1. p \in DOMAIN Tree(M) <=> p = <<>> \/ \E m \in M : p \in Path /\ IsPrefix(p, m.path)
    BY <1>5, TreeNodes
  <2>2. \A l \in L : t \o l.path \in Path
    BY <1>1, <1>4, PrefixOfConcat
  <2>3. (\E m \in M : IsPrefix(p, m.path)) <=> \E l \in L : IsPrefix(p, t \o l.path)
    <3>1. \A m \in M : \E l \in L : m.path = t \o l.path
      BY <1>2
    <3>2. \A l \in L : \E m \in M : m.path = t \o l.path
      <4>1. ASSUME NEW l \in L PROVE \E m \in M : m.path = t \o l.path
        <5>1. PICK m \in M : m = [path |-> t \o l.path, value |-> l.value]
          BY <1>2
        <5>2. QED
          BY <5>1
      <4>2. QED
        BY <4>1
    <3>3. QED
      BY <3>1, <3>2
  <2>4. QED
    BY <2>1, <2>2, <2>3, PrefixOrder
<1>9. ASSUME NEW p \in DOMAIN N PROVE N[p] = Tree(M)[p]
  <2>1. p \in Path /\ p \in DOMAIN Tree(M) /\ p \in Prefixes(t) \union {t \o q : q \in DOMAIN Tree(L)}
    BY <1>3, <1>7, <1>8
  <2>2. ASSUME NEW l \in L, t \o l.path = p PROVE N[p] = Tree(M)[p]
    <3>1. IsPrefix(t, p) /\ SubSeq(p, Len(t) + 1, Len(p)) = l.path
      BY <1>1, <1>4, <2>2, PrefixOfConcat
    <3>2. N[p] = Tree(L)[l.path]
      BY <1>3, <2>1, <3>1
    <3>3. Tree(L)[l.path] = l.value
      BY TreeNodes
    <3>4. PICK m \in M : m = [path |-> t \o l.path, value |-> l.value]
      BY <1>2
    <3>5. Tree(M)[m.path] = m.value
      BY <1>5, TreeNodes
    <3>6. QED
      BY <2>2, <3>2, <3>3, <3>4, <3>5
  <2>3. ASSUME \A l \in L : t \o l.path # p PROVE N[p] = Tree(M)[p]
    <3>1. ASSUME NEW m \in M PROVE m.path # p
      <4>1. PICK l \in L : m = [path |-> t \o l.path, value |-> l.value]
        BY <1>2
      <4>2. QED
        BY <2>3, <4>1
    <3>2. Tree(M)[p] = Branch
      BY <1>5, <2>1, <3>1, TreeNodes
    <3>3. CASE ~ IsPrefix(t, p)
      BY <1>3, <2>1, <3>2, <3>3
    <3>4. CASE IsPrefix(t, p)
      <4>1. PICK q \in Path : p = t \o q
        BY <1>1, <2>1, <3>4, SuffixExists
      <4>2. SubSeq(p, Len(t) + 1, Len(p)) = q
        BY <1>1, <4>1, PrefixOfConcat
      <4>3. PICK l \in L : IsPrefix(p, t \o l.path)
        BY <1>7
      <4>4. IsPrefix(q, l.path)
        BY <1>1, <1>4, <4>1, <4>3, PrefixOfConcat
      <4>5. q \in DOMAIN Tree(L) /\ \A k \in L : k.path # q
        BY <1>6, <2>3, <4>1, <4>4
      <4>6. Tree(L)[q] = Branch
        BY <4>5, TreeNodes
      <4>7. QED
        BY <1>3, <2>1, <3>2, <3>4, <4>2, <4>6
    <3>5. QED
      BY <3>3, <3>4
  <2>4. QED
    BY <2>2, <2>3
<1>10. DOMAIN N = DOMAIN Tree(M)
  BY <1>7, <1>8
<1>11. N = Tree(M)
  <2>1. N = [p \in DOMAIN N |-> N[p]]
    BY <1>3
  <2>2. Tree(M) = [p \in DOMAIN Tree(M) |-> Tree(M)[p]]
    BY <1>5, TreeNodes
  <2>3. QED
    BY <1>9, <1>10, <2>1, <2>2
<1>12. QED
  BY <1>5, <1>11 DEF M, N, t

-----------------------------------------------------------------------------
(* What a source has, and the leaves of its entries.                       *)

Contents == specs \in Seq(Source) /\ args \in Seq(Source)

LEMMA SourceIs ==
  ASSUME NEW s \in Source
  PROVE  /\ s.kind \in Range(Kinds)
         /\ DOMAIN s.object \subseteq Keys
         /\ s.kind = "file" => Apart(DOMAIN s.object) /\ \A k \in DOMAIN s.object : s.object[k] = "text"
<1>1. PICK kind \in Range(Kinds) : s \in [kind : {kind}, object : Objects(kind)]
  BY DEF Source
<1>2. PICK K \in SUBSET Keys : (kind = "file" => Apart(K)) /\ s.object \in [K -> Forms(kind)]
  BY <1>1 DEF Objects
<1>3. s.kind = kind /\ DOMAIN s.object = K
  BY <1>1, <1>2
<1>4. kind = "file" => Forms(kind) = {"text"}
  BY DEF Forms
<1>5. QED
  BY <1>2, <1>3, <1>4

LEMMA LayersAre ==
  ASSUME Contents
  PROVE  /\ Layers \in Seq(Source) /\ Ids = 1 .. Len(Layers) /\ Len(Layers) = Len(specs) + Len(args)
         /\ \A i \in Ids : Layers[i] \in Source
         /\ Len(specs) \in Nat /\ Len(args) \in Nat /\ DOMAIN args = 1 .. Len(args)
         /\ \A i \in DOMAIN args : args[i] \in Source
BY DEF Contents, Layers, Ids

LEMMA SegmentsAre ==
  ASSUME NEW k \in Keys
  PROVE  Segments[k] \in Path /\ Segments[k] # <<>> /\ Named(Stem(Segments[k]))
<1>1. Segments[k] \in Seq(STRING) /\ Segments[k] # <<>>
  BY LayeringAssumption
<1>2. \A n \in DOMAIN Segments[k] : Segments[k][n] \in Word
  <2>1. \A x \in Range(Segments[k]) : x \in Word
    BY Zenon DEF Word
  <2>2. QED
    BY <2>1 DEF Range
<1>3. Segments[k] \in Path
  BY <1>1, <1>2 DEF Path
<1>4. QED
  BY <1>1, <1>3, StemIs

LEMMA SingleIs ==
  ASSUME NEW f \in Word
  PROVE  <<f>> \in Path /\ Range(<<f>>) = {f}
BY DEF Path, Range

LEMMA OneSegment ==
  ASSUME NEW f \in Word, f # ""
  PROVE  Named(<<f>>)
BY SingleIs, Zenon DEF Named

\* A value is one leaf, or has leaves of one segment each.
LEMMA PartsAre ==
  ASSUME NEW i, NEW k
  PROVE  /\ Parts(i, k) # {} /\ \A p \in Parts(i, k) : Named(p)
         /\ \A p, q \in Parts(i, k) : IsPrefix(p, q) => p = q
<1>1. \/ Parts(i, k) = {<<>>}
      \/ Parts(i, k) # {} /\ \A p \in Parts(i, k) : \E f \in Word : f # "" /\ p = <<f>>
  <2>1. "bytes" \in Word /\ "string" \in Word /\ Fields \subseteq Word
    <3>1. ASSUME NEW x \in Fields PROVE x \in Word
      BY <3>1, Zenon DEF Word
    <3>2. ASSUME NEW x \in {"bytes", "string"} PROVE x \in Word
      BY <3>2, Zenon DEF Word
    <3>3. "bytes" \in {"bytes", "string"} /\ "string" \in {"bytes", "string"}
      OBVIOUS
    <3>4. QED
      BY <3>1, <3>2, <3>3, Zenon
  <2>0. "bytes" # "" /\ "string" # ""
    BY Zenon
  <2>2. \/ Parts(i, k) = {<<"bytes">>}
        \/ Parts(i, k) = {<<"bytes">>, <<"string">>}
        \/ Parts(i, k) = {<<f>> : f \in Fields}
        \/ Parts(i, k) = {<<>>}
    BY DEF Parts
  <2>3. Fields # {} /\ \A f \in Fields : f \in Word /\ f # ""
    BY <2>1, LayeringAssumption, Zenon
  <2>4. CASE Parts(i, k) = {<<"bytes">>}
    BY <2>0, <2>1, <2>4, Zenon
  <2>5. CASE Parts(i, k) = {<<"bytes">>, <<"string">>}
    BY <2>0, <2>1, <2>5, Zenon
  <2>6. CASE Parts(i, k) = {<<f>> : f \in Fields}
    BY <2>3, <2>6, Zenon
  <2>7. QED
    BY <2>2, <2>4, <2>5, <2>6, Zenon
<1>2. Named(<<>>)
  BY PrefixOrder DEF Named, Range
<1>3. ASSUME NEW f, NEW g, IsPrefix(<<f>>, <<g>>) PROVE f = g
  BY <1>3 DEF IsPrefix
<1>4. \A p \in Parts(i, k) : Named(p)
  BY <1>1, <1>2, OneSegment
<1>5. ASSUME NEW p \in Parts(i, k), NEW q \in Parts(i, k), IsPrefix(p, q) PROVE p = q
  <2>1. CASE Parts(i, k) = {<<>>}
    BY <2>1
  <2>2. CASE \A r \in Parts(i, k) : \E f \in Word : f # "" /\ r = <<f>>
    BY <1>3, <1>5, <2>2, Zenon
  <2>3. QED
    BY <1>1, <2>1, <2>2, Zenon
<1>6. QED
  BY <1>1, <1>4, <1>5, Zenon

ValueLeaves(i, k) == {[path |-> p, value |-> <<i, k, p>>] : p \in Parts(i, k)}

LEMMA ValueIs ==
  ASSUME NEW i, NEW k
  PROVE  Leaves(ValueLeaves(i, k)) /\ ValueLeaves(i, k) # {} /\ Value(i, k) = Tree(ValueLeaves(i, k))
<1>1. \A l \in ValueLeaves(i, k) : l.path \in Parts(i, k) /\ l = [path |-> l.path, value |-> <<i, k, l.path>>]
  BY DEF ValueLeaves
<1>2. \A p : <<i, k, p>> # Branch
  BY DEF Branch
<1>3. ValueLeaves(i, k) # {}
  BY PartsAre DEF ValueLeaves
<1>4. ASSUME NEW l \in ValueLeaves(i, k)
      PROVE  l = [path |-> l.path, value |-> l.value] /\ Named(l.path) /\ l.value # Branch
  <2>1. l.path \in Parts(i, k) /\ l.value = <<i, k, l.path>> /\ l = [path |-> l.path, value |-> <<i, k, l.path>>]
    BY <1>1
  <2>2. QED
    BY <1>2, <2>1, PartsAre
<1>5. ASSUME NEW l \in ValueLeaves(i, k), NEW m \in ValueLeaves(i, k), IsPrefix(l.path, m.path) PROVE l = m
  <2>1. l.path = m.path
    BY <1>1, <1>5, PartsAre
  <2>2. QED
    BY <1>1, <2>1
<1>6. Value(i, k) = Tree(ValueLeaves(i, k))
  BY DEF Value, ValueLeaves
<1>7. QED
  BY <1>3, <1>4, <1>5, <1>6 DEF Leaves

\* The leaves of an entry, were it not ignored.
Nested(i, k) == {[path |-> Stem(Segments[k]) \o p, value |-> <<i, k, p>>] : p \in Parts(i, k)}

LEMMA EntryIs ==
  ASSUME NEW i, NEW k \in Keys
  PROVE  /\ Leaves(Nested(i, k))
         /\ Nest(Segments[k], Value(i, k)) = Tree(Nested(i, k))
         /\ ("" \notin Range(Segments[k]) => IsDict(Tree(Nested(i, k))))
<1>1. Nested(i, k) = {[path |-> Stem(Segments[k]) \o l.path, value |-> l.value] : l \in ValueLeaves(i, k)}
  <2>1. ASSUME NEW p \in Parts(i, k)
        PROVE  \E l \in ValueLeaves(i, k) : [path |-> Stem(Segments[k]) \o p, value |-> <<i, k, p>>] =
                                            [path |-> Stem(Segments[k]) \o l.path, value |-> l.value]
    <3>1. PICK l \in ValueLeaves(i, k) : l = [path |-> p, value |-> <<i, k, p>>]
      BY DEF ValueLeaves
    <3>2. QED
      BY <3>1
  <2>2. \A l \in ValueLeaves(i, k) : l.path \in Parts(i, k) /\ l.value = <<i, k, l.path>>
    BY DEF ValueLeaves
  <2>3. ASSUME NEW l
        PROVE  l \in Nested(i, k) <=> \E m \in ValueLeaves(i, k) : l = [path |-> Stem(Segments[k]) \o m.path, value |-> m.value]
    <3>1. l \in Nested(i, k) <=> \E p \in Parts(i, k) : l = [path |-> Stem(Segments[k]) \o p, value |-> <<i, k, p>>]
      BY DEF Nested
    <3>2. QED
      BY <2>1, <2>2, <3>1
  <2>4. QED
    BY <2>3
<1>2. Leaves(Nested(i, k)) /\ Nest(Segments[k], Value(i, k)) = Tree(Nested(i, k))
  <2>1. Segments[k] \in Path
    BY SegmentsAre
  <2>2. Leaves(ValueLeaves(i, k)) /\ ValueLeaves(i, k) # {} /\ Value(i, k) = Tree(ValueLeaves(i, k))
    BY ValueIs
  <2> HIDE DEF Nested, ValueLeaves
  <2>3. LET Below == {[path |-> Stem(Segments[k]) \o l.path, value |-> l.value] : l \in ValueLeaves(i, k)}
        IN  Leaves(Below) /\ Nest(Segments[k], Tree(ValueLeaves(i, k))) = Tree(Below)
    BY <2>1, <2>2, NestOfTree
  <2>4. QED
    BY <1>1, <2>2, <2>3
<1>3. ASSUME "" \notin Range(Segments[k]) PROVE IsDict(Tree(Nested(i, k)))
  <2>1. Stem(Segments[k]) = Segments[k] /\ Segments[k] \in Path /\ Segments[k] # <<>>
    BY <1>3, SegmentsAre, StemIs
  <2>2. ASSUME NEW p \in Parts(i, k) PROVE Segments[k] \o p # <<>>
    <3>1. p \in Path
      BY PartsAre DEF Named
    <3>2. IsPrefix(Segments[k], Segments[k] \o p)
      BY <2>1, <3>1, PrefixOfConcat
    <3>3. QED
      BY <2>1, <3>2, PrefixOrder
  <2>3. \A l \in Nested(i, k) : l.path # <<>>
    BY <2>1, <2>2 DEF Nested
  <2>4. QED
    BY <1>2, <2>3, TreeOfLeaves
<1>4. QED
  BY <1>2, <1>3

\* An ignored variable has no leaves.
LEMMA AllLeavesAre ==
  ASSUME NEW i, NEW k
  PROVE  AllLeaves(i, k) = IF Layers[i].kind = "environment" /\ Ignored(k) THEN {} ELSE Nested(i, k)
BY DEF AllLeaves, Ignored, Nested

-----------------------------------------------------------------------------
(* The registry and the keys of a file.                                    *)

LEMMA KeysFinite == IsFiniteSet(Keys)
<1>1. Names \in Seq(STRING)
  BY LayeringAssumption
<1>2. PICK n \in Nat : DOMAIN Names = 1 .. n
  BY <1>1
<1>3. Names \in Surjection(DOMAIN Names, Keys)
  BY <1>1 DEF Keys, Range, Surjection
<1>4. IsFiniteSet(DOMAIN Names)
  BY <1>2, FS_Interval
<1>5. QED
  BY <1>3, <1>4, FS_Surjection

LEMMA SetToSeqIs ==
  ASSUME NEW S, IsFiniteSet(S)
  PROVE  SetToSeq(S) \in Seq(S) /\ IsInjective(SetToSeq(S)) /\ Range(SetToSeq(S)) = S
<1> DEFINE n == Cardinality(S)
           s == SetToSeq(S)
<1>1. n \in Nat /\ ExistsBijection(1 .. n, S)
  BY FS_CardinalityType
<1>2. PICK f \in [1 .. n -> S] : IsInjective(f)
  BY <1>1 DEF ExistsBijection, Bijection, Injection
<1>3. s \in [1 .. n -> S] /\ IsInjective(s)
  BY <1>2 DEF SetToSeq
<1>4. s \in Injection(1 .. n, S)
  BY <1>3 DEF Injection
<1>5. IsFiniteSet(1 .. n) /\ Cardinality(1 .. n) = n
  BY <1>1, FS_Interval
<1> HIDE DEF s
<1>6. s \in Surjection(1 .. n, S)
  BY <1>4, <1>5, FS_Injection
<1>7. Range(s) = S
  BY <1>3, <1>6 DEF Surjection, Range
<1>8. s \in Seq(S)
  BY <1>1, <1>3
<1>9. QED
  BY <1>3, <1>7, <1>8 DEF s

\* The registry has every source, the lowest precedence first.
LEMMA RegisteredIs ==
  ASSUME Contents
  PROVE  /\ Registered \in Seq(Ids) /\ Len(Registered) = Len(Layers)
         /\ \A m, n \in 1 .. Len(Registered) : m < n => Registered[m] < Registered[n]
<1> DEFINE Collected == UNION {{i \in DOMAIN args : args[i].kind = kind} : kind \in Range(Kinds)}
           a == Len(args)
           b == Len(specs)
           sorted == Ascending(Collected)
<1>1. /\ Ids = 1 .. Len(Layers) /\ Len(Layers) = b + a /\ a \in Nat /\ b \in Nat
      /\ DOMAIN args = 1 .. a /\ \A i \in DOMAIN args : args[i] \in Source
  BY LayersAre
<1>2. Collected = 1 .. a
  <2>1. \A i \in DOMAIN args : args[i].kind \in Range(Kinds)
    BY <1>1, SourceIs
  <2>2. QED
    BY <1>1, <2>1
<1> HIDE DEF Collected
<1> HIDE DEF a, b
<1>3. Cardinality(Collected) = a
  <2>1. Cardinality(1 .. a) = IF 1 > a THEN 0 ELSE a - 1 + 1
    BY <1>1, FS_Interval
  <2>2. QED
    BY <1>1, <1>2, <2>1
<1>4. sorted \in [1 .. a -> 1 .. a] /\ \A m, n \in 1 .. a : m < n => sorted[m] < sorted[n]
  <2>1. sorted = CHOOSE s \in [1 .. a -> 1 .. a] : \A m, n \in 1 .. a : m < n => s[m] < s[n]
    BY <1>2, <1>3 DEF Ascending
  <2>2. [n \in 1 .. a |-> n] \in [1 .. a -> 1 .. a] /\ \A m, n \in 1 .. a : m < n => [k \in 1 .. a |-> k][m] < [k \in 1 .. a |-> k][n]
    BY <1>1
  <2> HIDE DEF sorted
  <2>3. QED
    BY <2>1, <2>2
<1> HIDE DEF sorted
<1>5. Registered = [n \in 1 .. b + a |-> IF n <= b THEN n ELSE b + sorted[n - b]]
  BY <1>3 DEF Registered, Collected, sorted, b
<1>6. ASSUME NEW n \in 1 .. b + a PROVE Registered[n] \in 1 .. b + a /\ (n <= b <=> Registered[n] <= b)
  <2>1. CASE n <= b
    BY <1>1, <1>5, <2>1
  <2>2. CASE n > b
    <3>1. n - b \in 1 .. a
      BY <1>1, <2>2
    <3>2. sorted[n - b] \in 1 .. a
      BY <1>4, <3>1
    <3>3. Registered[n] = b + sorted[n - b]
      BY <1>1, <1>5, <2>2
    <3>4. QED
      BY <1>1, <2>2, <3>2, <3>3
  <2>3. QED
    BY <1>1, <2>1, <2>2
<1>7. ASSUME NEW m \in 1 .. b + a, NEW n \in 1 .. b + a, m < n PROVE Registered[m] < Registered[n]
  <2>1. CASE n <= b
    BY <1>1, <1>5, <1>7, <2>1
  <2>2. CASE m <= b /\ n > b
    BY <1>1, <1>6, <2>2
  <2>3. CASE m > b
    <3>1. m - b \in 1 .. a /\ n - b \in 1 .. a /\ m - b < n - b
      BY <1>1, <1>7, <2>3
    <3>2. sorted[m - b] < sorted[n - b] /\ sorted[m - b] \in 1 .. a /\ sorted[n - b] \in 1 .. a
      BY <1>4, <3>1
    <3>3. Registered[m] = b + sorted[m - b] /\ Registered[n] = b + sorted[n - b]
      BY <1>1, <1>5, <1>7, <2>3
    <3>4. QED
      BY <1>1, <3>2, <3>3
  <2>4. QED
    BY <1>1, <2>1, <2>2, <2>3
<1>8. Registered \in Seq(Ids) /\ Len(Registered) = b + a
  <2>1. Registered \in [1 .. b + a -> Ids]
    BY <1>1, <1>5, <1>6
  <2>2. b + a \in Nat
    BY <1>1
  <2>3. QED
    BY <2>1, <2>2
<1>9. QED
  BY <1>1, <1>7, <1>8

-----------------------------------------------------------------------------
(* What the reference says of a step.                                      *)

LEMMA SourcesStay ==
  ASSUME UNCHANGED <<specs, args>>
  PROVE  /\ Layers' = Layers /\ Ids' = Ids /\ Registered' = Registered
         /\ \A i, k : AllLeaves(i, k)' = AllLeaves(i, k)
BY DEF Layers, Ids, Registered, AllLeaves, Parts

\* The leaves of the entries K of a source that no later one of them overrides.
Stay(i, K) ==
  UNION {{l \in AllLeaves(i, K[n]) : \A m \in n + 1 .. Len(K) : ~ Overridden(l, AllLeaves(i, K[m]))} :
           n \in DOMAIN K}

LEMMA LeavesOfIs ==
  /\ \A i : LeavesOf(i) = Stay(i, handled[i])
  /\ UNCHANGED <<specs, args>> => \A i : LeavesOf(i)' = Stay(i, handled'[i])
<1>1. \A i : LeavesOf(i) = Stay(i, handled[i])
  BY DEF LeavesOf, Stay
<1>2. ASSUME UNCHANGED <<specs, args>>, NEW i PROVE LeavesOf(i)' = Stay(i, handled'[i])
  <2>1. \A k : AllLeaves(i, k)' = AllLeaves(i, k)
    BY <1>2, SourcesStay
  <2>2. QED
    BY <2>1 DEF LeavesOf, Stay, Overridden
<1>3. QED
  BY <1>1, <1>2

LEMMA StayIs ==
  ASSUME NEW i, NEW K \in Seq(Keys), NEW l
  PROVE  l \in Stay(i, K) <=>
           \E n \in 1 .. Len(K) : /\ l \in AllLeaves(i, K[n])
                                  /\ \A m \in n + 1 .. Len(K) : ~ Overridden(l, AllLeaves(i, K[m]))
BY DEF Stay

LEMMA StayOfNone == ASSUME NEW i PROVE Stay(i, <<>>) = {}
BY DEF Stay

LEMMA StayAppend ==
  ASSUME NEW i, NEW K \in Seq(Keys), NEW k \in Keys
  PROVE  Stay(i, Append(K, k)) = AllLeaves(i, k) \union {l \in Stay(i, K) : ~ Overridden(l, AllLeaves(i, k))}
<1> DEFINE H == Append(K, k)
<1>1. PICK len \in Nat : /\ Len(K) = len /\ H \in Seq(Keys) /\ Len(H) = len + 1 /\ H[len + 1] = k
                         /\ \A n \in 1 .. len : H[n] = K[n]
  BY AppendProperties
<1> HIDE DEF H
<1>2. ASSUME NEW l \in AllLeaves(i, k) PROVE l \in Stay(i, H)
  <2>1. \A m \in len + 1 + 1 .. len + 1 : FALSE
    OBVIOUS
  <2>2. QED
    BY <1>1, <1>2, <2>1, StayIs
<1>3. ASSUME NEW l \in Stay(i, K), ~ Overridden(l, AllLeaves(i, k)) PROVE l \in Stay(i, H)
  <2>1. PICK n \in 1 .. len : /\ l \in AllLeaves(i, K[n])
                              /\ \A m \in n + 1 .. len : ~ Overridden(l, AllLeaves(i, K[m]))
    BY <1>1, StayIs
  <2>2. \A m \in n + 1 .. len + 1 : m = len + 1 \/ m \in n + 1 .. len
    OBVIOUS
  <2>3. \A m \in n + 1 .. len : m \in 1 .. len
    OBVIOUS
  <2>4. \A m \in n + 1 .. len + 1 : ~ Overridden(l, AllLeaves(i, H[m]))
    BY <1>1, <1>3, <2>1, <2>2, <2>3
  <2>5. n \in 1 .. len + 1 /\ l \in AllLeaves(i, H[n])
    BY <1>1, <2>1
  <2>6. QED
    BY <1>1, <2>4, <2>5, StayIs
<1>4. ASSUME NEW l \in Stay(i, H), l \notin AllLeaves(i, k) PROVE l \in Stay(i, K) /\ ~ Overridden(l, AllLeaves(i, k))
  <2>1. PICK n \in 1 .. len + 1 : /\ l \in AllLeaves(i, H[n])
                                  /\ \A m \in n + 1 .. len + 1 : ~ Overridden(l, AllLeaves(i, H[m]))
    BY <1>1, StayIs
  <2>2. n \in 1 .. len /\ l \in AllLeaves(i, K[n])
    <3>1. n # len + 1
      BY <1>1, <1>4, <2>1
    <3>2. n \in 1 .. len
      BY <3>1
    <3>3. QED
      BY <1>1, <2>1, <3>2
  <2>3. len + 1 \in n + 1 .. len + 1 /\ \A m \in n + 1 .. len : m \in n + 1 .. len + 1 /\ m \in 1 .. len
    BY <2>2
  <2>4. \A m \in n + 1 .. len : ~ Overridden(l, AllLeaves(i, K[m]))
    BY <1>1, <2>1, <2>3
  <2>5. ~ Overridden(l, AllLeaves(i, k))
    BY <1>1, <2>1, <2>3
  <2>6. QED
    BY <1>1, <2>2, <2>4, <2>5, StayIs
<1>5. QED
  BY <1>2, <1>3, <1>4 DEF H

FileLeaves(i) == {[path |-> Segments[k], value |-> <<i, k, <<>>>>] : k \in DOMAIN Layers[i].object}

\* The entries of a file are apart: all of their leaves stay, in any order.
LEMMA FileIs ==
  ASSUME Contents, NEW i \in Ids, Layers[i].kind = "file"
  PROVE  LET K == DOMAIN Layers[i].object IN
         /\ IsFiniteSet(K) /\ Leaves(FileLeaves(i)) /\ IsDict(Tree(FileLeaves(i)))
         /\ Stay(i, SetToSeq(K)) = FileLeaves(i)
<1> DEFINE K == DOMAIN Layers[i].object
           leaf(k) == [path |-> Segments[k], value |-> <<i, k, <<>>>>]
<1>1. K \subseteq Keys /\ Apart(K) /\ \A k \in K : Layers[i].object[k] = "text"
  BY LayersAre, SourceIs
<1>2. IsFiniteSet(K)
  BY <1>1, KeysFinite, FS_Subset
<1>3. /\ \A k \in K : Segments[k] \in Path /\ Segments[k] # <<>> /\ "" \notin Range(Segments[k])
      /\ \A k, j \in K : k # j => ~ Comparable(Segments[k], Segments[j])
  BY <1>1, SegmentsAre, Zenon DEF Apart
<1>4. FileLeaves(i) = {leaf(k) : k \in K}
  BY DEF FileLeaves
<1>5. \A k : leaf(k) = [path |-> Segments[k], value |-> <<i, k, <<>>>>] /\ leaf(k).path = Segments[k] /\ leaf(k).value # Branch
  BY DEF Branch
<1>6. ASSUME NEW k \in K PROVE AllLeaves(i, k) = {leaf(k)}
  <2>1. Parts(i, k) = {<<>>}
    BY <1>1 DEF Parts
  <2>2. Stem(Segments[k]) \o <<>> = Segments[k]
    <3>1. Stem(Segments[k]) = Segments[k]
      BY <1>3, StemIs, Zenon
    <3>2. QED
      BY <1>3, <3>1, ConcatEmptySeq DEF Path
  <2>3. AllLeaves(i, k) = Nested(i, k)
    BY AllLeavesAre
  <2>4. QED
    BY <2>1, <2>2, <2>3 DEF Nested
<1> HIDE DEF K, leaf
<1>7. Leaves(FileLeaves(i)) /\ IsDict(Tree(FileLeaves(i)))
  <2>1. ASSUME NEW l \in FileLeaves(i)
        PROVE  l = [path |-> l.path, value |-> l.value] /\ Named(l.path) /\ l.value # Branch /\ l.path # <<>>
    <3>1. PICK k \in K : l = leaf(k)
      BY <1>4
    <3>2. Named(Segments[k])
      BY <1>3, Zenon DEF Named
    <3>3. QED
      BY <1>3, <1>5, <3>1, <3>2
  <2>2. ASSUME NEW l \in FileLeaves(i), NEW m \in FileLeaves(i), IsPrefix(l.path, m.path) PROVE l = m
    <3>1. PICK j \in K, k \in K : l = leaf(j) /\ m = leaf(k)
      BY <1>4
    <3>2. j = k
      BY <1>3, <1>5, <2>2, <3>1 DEF Comparable
    <3>3. QED
      BY <3>1, <3>2
  <2>3. Leaves(FileLeaves(i))
    BY <2>1, <2>2 DEF Leaves
  <2>4. QED
    BY <2>1, <2>3, TreeOfLeaves
<1>8. Stay(i, SetToSeq(K)) = FileLeaves(i)
  <2> DEFINE s == SetToSeq(K)
  <2>1. s \in Seq(K) /\ IsInjective(s) /\ Range(s) = K
    BY <1>2, SetToSeqIs
  <2> HIDE DEF s
  <2>2. s \in Seq(Keys)
    BY <1>1, <2>1 DEF K
  <2>3. PICK len \in Nat : Len(s) = len /\ DOMAIN s = 1 .. len /\ \A n \in 1 .. len : s[n] \in K
    BY <2>1
  <2>4. \A k \in K : \E n \in 1 .. len : s[n] = k
    BY <2>1, <2>3 DEF Range
  <2>5. \A m, n \in 1 .. len : m # n => s[m] # s[n]
    BY <2>1, <2>3 DEF IsInjective
  <2>6. ASSUME NEW n \in 1 .. len, NEW m \in n + 1 .. len PROVE ~ Overridden(leaf(s[n]), AllLeaves(i, s[m]))
    <3>1. m \in 1 .. len /\ m # n
      OBVIOUS
    <3>2. ~ Comparable(Segments[s[n]], Segments[s[m]]) /\ AllLeaves(i, s[m]) = {leaf(s[m])}
      BY <1>3, <1>6, <2>3, <2>5, <3>1
    <3>3. QED
      BY <1>5, <3>2 DEF Overridden
  <2>7. ASSUME NEW l PROVE l \in Stay(i, s) <=> \E n \in 1 .. len : l = leaf(s[n])
    <3>1. \A n \in 1 .. len : AllLeaves(i, s[n]) = {leaf(s[n])}
      BY <1>6, <2>3
    <3>2. l \in Stay(i, s) <=>
            \E n \in 1 .. len : l \in AllLeaves(i, s[n]) /\ \A m \in n + 1 .. len : ~ Overridden(l, AllLeaves(i, s[m]))
      BY <2>2, <2>3, StayIs
    <3>3. QED
      BY <2>6, <3>1, <3>2
  <2>8. \A l : l \in Stay(i, s) <=> l \in FileLeaves(i)
    BY <1>4, <2>3, <2>4, <2>7
  <2>9. QED
    BY <2>8 DEF s
<1>9. QED
  BY <1>2, <1>7, <1>8 DEF K

-----------------------------------------------------------------------------
(* The inductive invariant: what has been read so far is what the          *)
(* reference says, of the current source and of all sources, and only      *)
(* sources up to the current one have been touched.                        *)

LayersInv ==
  /\ Contents
  /\ TypeOK
  /\ handled \in [Ids -> Seq(Keys)]
  /\ pos <= Len(Registered) => LeafSet(dict) = LeavesOf(Current)
  /\ figment = Malformed <=> \E i \in Ids : outcome[i] = "malformed"
  /\ figment # Malformed => LeafSet(figment) = Stacked
  /\ \A i \in Ids : outcome[i] # "unread" => \E n \in 1 .. pos - 1 : i = Registered[n]
  /\ \A i \in Ids : handled[i] # <<>> => \E n \in 1 .. pos : n <= Len(Registered) /\ i = Registered[n]

LEMMA EmptyDictIs == IsTree(EmptyDict) /\ IsDict(EmptyDict) /\ LeafSet(EmptyDict) = {}
<1>1. Leaves({})
  BY DEF Leaves
<1>2. DOMAIN Tree({}) = {<<>>} /\ Tree({})[<<>>] = Branch
  BY DEF Tree
<1>3. Tree({}) = EmptyDict
  BY <1>1, <1>2, TreeNodes DEF EmptyDict
<1>4. QED
  BY <1>1, <1>3, TreeOfLeaves

LEMMA TreeIsSomething == ASSUME NEW v, IsTree(v) PROVE v # Malformed
<1>1. DOMAIN Malformed = {}
  BY DEF Malformed
<1>2. <<>> \in DOMAIN v
  BY DEF IsTree
<1>3. QED
  BY <1>1, <1>2

\* The sources before the current one come before it in the order of precedence.
LEMMA CurrentIs ==
  ASSUME LayersInv, pos <= Len(Registered)
  PROVE  /\ Current \in Ids /\ pos \in 1 .. Len(Registered) /\ outcome[Current] = "unread"
         /\ \A i \in Ids : outcome[i] # "unread" => i < Current
<1>1. pos \in 1 .. Len(Registered) /\ Contents
  BY RegisteredIs, LayersAre DEF LayersInv, TypeOK
<1>2. PICK len \in Nat : Len(Registered) = len /\ Registered \in [1 .. len -> Ids]
  BY <1>1, RegisteredIs
<1>3. Ids \subseteq Nat
  BY <1>1, LayersAre
<1>4. Current \in Ids
  BY <1>1, <1>2 DEF Current
<1>5. ASSUME NEW i \in Ids, outcome[i] # "unread" PROVE i < Current
  <2>1. PICK n \in 1 .. pos - 1 : i = Registered[n]
    BY <1>5 DEF LayersInv
  <2>2. n \in 1 .. len /\ n < pos
    BY <1>1, <1>2
  <2>3. QED
    BY <1>1, <1>2, <2>1, <2>2, RegisteredIs DEF Current
<1>6. QED
  BY <1>1, <1>3, <1>4, <1>5

MergedIds == {i \in Ids : outcome[i] = "merged"}

LEMMA StackedIs ==
  ASSUME NEW l
  PROVE  l \in Stacked <=>
           \E i \in MergedIds : l \in LeavesOf(i) /\ \A j \in MergedIds : j > i => ~ Overridden(l, LeavesOf(j))
BY DEF Stacked, MergedIds

LEMMA StackedAfter ==
  ASSUME UNCHANGED <<specs, args>>, NEW l
  PROVE  l \in Stacked' <=>
           \E i \in MergedIds' : l \in Stay(i, handled'[i])
                                 /\ \A j \in MergedIds' : j > i => ~ Overridden(l, Stay(j, handled'[j]))
BY LeavesOfIs DEF Stacked, MergedIds, Overridden

\* A step that merges no source leaves the reference alone.
LEMMA StackedStays ==
  ASSUME UNCHANGED <<specs, args>>, MergedIds' = MergedIds, \A i \in MergedIds : handled'[i] = handled[i]
  PROVE  Stacked' = Stacked
<1>1. \A i \in MergedIds : Stay(i, handled'[i]) = LeavesOf(i)
  BY LeavesOfIs
<1>2. \A l : l \in Stacked' <=> l \in Stacked
  BY <1>1, StackedIs, StackedAfter
<1>3. QED
  BY <1>2

\* A source that is merged overrides all that are merged already.
LEMMA StackedGrows ==
  ASSUME UNCHANGED <<specs, args>>, NEW c, Ids \subseteq Nat, c \in Nat,
         MergedIds' = MergedIds \union {c}, \A i \in MergedIds : i < c /\ handled'[i] = handled[i]
  PROVE  Stacked' = Stay(c, handled'[c]) \union {l \in Stacked : ~ Overridden(l, Stay(c, handled'[c]))}
<1> DEFINE new == Stay(c, handled'[c])
<1>1. \A i \in MergedIds : Stay(i, handled'[i]) = LeavesOf(i) /\ i < c /\ i \in Nat
  BY LeavesOfIs DEF MergedIds
<1>2. ASSUME NEW l \in new PROVE l \in Stacked'
  <2>1. c \in MergedIds' /\ \A j \in MergedIds' : ~ (j > c)
    BY <1>1
  <2>2. QED
    BY <1>2, <2>1, StackedAfter
<1>3. ASSUME NEW l \in Stacked, ~ Overridden(l, new) PROVE l \in Stacked'
  <2>1. PICK i \in MergedIds : l \in LeavesOf(i) /\ \A j \in MergedIds : j > i => ~ Overridden(l, LeavesOf(j))
    BY StackedIs
  <2>2. l \in Stay(i, handled'[i]) /\ \A j \in MergedIds' : j > i => ~ Overridden(l, Stay(j, handled'[j]))
    BY <1>1, <1>3, <2>1
  <2>3. QED
    BY <2>2, StackedAfter
<1>4. ASSUME NEW l \in Stacked', l \notin new PROVE l \in Stacked /\ ~ Overridden(l, new)
  <2>1. PICK i \in MergedIds' : l \in Stay(i, handled'[i])
                                /\ \A j \in MergedIds' : j > i => ~ Overridden(l, Stay(j, handled'[j]))
    BY StackedAfter
  <2>2. i \in MergedIds /\ l \in LeavesOf(i)
    BY <1>1, <1>4, <2>1
  <2>3. c \in MergedIds' /\ c > i
    BY <1>1, <2>2
  <2>4. ~ Overridden(l, new)
    BY <2>1, <2>3
  <2>5. \A j \in MergedIds : j > i => ~ Overridden(l, LeavesOf(j))
    BY <1>1, <2>1
  <2>6. QED
    BY <2>2, <2>4, <2>5, StackedIs
<1> HIDE DEF new
<1>5. Stacked' = new \union {l \in Stacked : ~ Overridden(l, new)}
  BY <1>2, <1>3, <1>4
<1>6. QED
  BY <1>5 DEF new

-----------------------------------------------------------------------------
(* Every step preserves the invariant.                                     *)

LEMMA SequencesAre ==
  ASSUME NEW n \in Int, NEW s \in SequencesOf(n)
  PROVE  s \in Seq(Source)
<1>1. PICK m \in 0 .. n : s \in [1 .. m -> Source]
  BY DEF SequencesOf
<1>2. m \in Nat
  OBVIOUS
<1>3. QED
  BY <1>1, <1>2

LEMMA InvInit == Init => LayersInv
<1> SUFFICES ASSUME Init PROVE LayersInv
  OBVIOUS
<1>1. Contents
  <2>1. MaxSpecs \in Nat /\ MaxSources \in Nat
    BY LayeringAssumption
  <2>2. specs \in Seq(Source)
    BY <2>1, SequencesAre DEF Init
  <2>3. MaxSources - Len(specs) \in Int
    BY <2>1, <2>2
  <2>4. args \in Seq(Source)
    BY <2>3, SequencesAre DEF Init
  <2>5. QED
    BY <2>2, <2>4 DEF Contents
<1>2. /\ pc = "read" /\ pos = 1 /\ dict = EmptyDict /\ figment = EmptyDict
      /\ handled = [i \in Ids |-> <<>>] /\ outcome = [i \in Ids |-> "unread"]
  BY DEF Init
<1>3. TypeOK
  <2>1. pos \in 1 .. Len(Layers) + 1
    BY <1>1, <1>2, LayersAre
  <2>2. \A i \in Ids : Range(handled[i]) = {}
    BY <1>2 DEF Range
  <2>3. QED
    BY <1>2, <2>1, <2>2, EmptyDictIs DEF TypeOK
<1>4. \A i \in Ids : handled[i] = <<>> /\ outcome[i] = "unread" /\ LeavesOf(i) = {}
  BY <1>2, LeavesOfIs, StayOfNone
<1>5. handled \in [Ids -> Seq(Keys)]
  BY <1>2
<1>6. pos <= Len(Registered) => LeafSet(dict) = LeavesOf(Current)
  <2>1. ASSUME pos <= Len(Registered) PROVE Current \in Ids
    BY <1>1, <1>2, <2>1, RegisteredIs DEF Current
  <2>2. QED
    BY <1>2, <1>4, <2>1, EmptyDictIs
<1>7. Stacked = {}
  BY <1>4, StackedIs DEF MergedIds
<1>8. QED
  BY <1>1, <1>2, <1>3, <1>4, <1>5, <1>6, <1>7, EmptyDictIs, TreeIsSomething DEF LayersInv

\* An entry is merged into the dictionary of its source.
LEMMA EntryRead ==
  ASSUME LayersInv, UNCHANGED <<specs, args, pc, pos, figment, outcome>>, pos <= Len(Registered),
         NEW k \in Remaining, Handle(k), IsTree(dict'), IsDict(dict'),
         LeafSet(dict') = AllLeaves(Current, k)
                            \union {l \in LeafSet(dict) : ~ Overridden(l, AllLeaves(Current, k))}
  PROVE  LayersInv'
<1> DEFINE c == Current
<1>1. /\ c \in Ids /\ outcome[c] = "unread" /\ c = Registered[pos] /\ pos \in Nat
      /\ \A i \in Ids : outcome[i] # "unread" => i # c
  BY CurrentIs DEF Current, LayersInv, TypeOK
<1>2. /\ Layers' = Layers /\ Ids' = Ids /\ Registered' = Registered /\ c' = c
  BY SourcesStay DEF Current
<1> HIDE DEF c
<1>3. /\ handled \in [Ids -> Seq(Keys)] /\ k \in DOMAIN Layers[c].object /\ k \in Keys
      /\ handled' = [handled EXCEPT ![c] = Append(@, k)]
  <2>1. DOMAIN Layers[c].object \subseteq Keys
    BY <1>1, LayersAre, SourceIs DEF LayersInv
  <2>2. QED
    BY <2>1 DEF LayersInv, Handle, Remaining, c
<1>4. /\ handled' \in [Ids -> Seq(Keys)] /\ handled'[c] = Append(handled[c], k)
      /\ \A i \in Ids : i # c => handled'[i] = handled[i]
  BY <1>1, <1>3, AppendProperties
<1>5. \A i \in Ids : Range(handled'[i]) \subseteq DOMAIN Layers[i].object
  <2>1. \A i \in Ids : Range(handled[i]) \subseteq DOMAIN Layers[i].object
    BY DEF LayersInv, TypeOK
  <2>2. Range(handled'[c]) \subseteq Range(handled[c]) \union {k}
    BY <1>1, <1>3, <1>4, AppendProperties DEF Range
  <2>3. QED
    BY <1>1, <1>3, <1>4, <2>1, <2>2
<1>6. LeafSet(dict') = LeavesOf(c)'
  <2>1. LeavesOf(c)' = Stay(c, Append(handled[c], k)) /\ LeavesOf(c) = Stay(c, handled[c])
    BY <1>2, <1>4, LeavesOfIs
  <2>2. LeafSet(dict) = LeavesOf(c)
    BY DEF LayersInv, c
  <2>3. QED
    BY <1>1, <1>3, <2>1, <2>2, StayAppend DEF c
<1>7. Stacked' = Stacked
  <2>1. MergedIds' = MergedIds
    BY <1>2 DEF MergedIds
  <2>2. \A i \in MergedIds : handled'[i] = handled[i]
    BY <1>1, <1>4 DEF MergedIds
  <2>3. QED
    BY <2>1, <2>2, StackedStays
<1>8. TypeOK'
  BY <1>2, <1>5 DEF LayersInv, TypeOK
<1>9. \A i \in Ids : handled'[i] # <<>> => \E n \in 1 .. pos : n <= Len(Registered) /\ i = Registered[n]
  <2>1. \A i \in Ids : handled[i] # <<>> => \E n \in 1 .. pos : n <= Len(Registered) /\ i = Registered[n]
    BY DEF LayersInv
  <2>2. pos \in 1 .. pos /\ pos <= Len(Registered)
    BY CurrentIs
  <2>3. QED
    BY <1>1, <1>4, <2>1, <2>2
<1>10. Contents'
  BY DEF LayersInv, Contents
<1>11. QED
  BY <1>2, <1>4, <1>6, <1>7, <1>8, <1>9, <1>10 DEF LayersInv, c

\* The result of a source is merged, dropped, or an error that stays.
LEMMA Continues ==
  ASSUME LayersInv, pos <= Len(Registered), NEW data, NEW result, Continue(data, result),
         handled' \in [Ids -> Seq(Keys)], \A i \in Ids : i # Current => handled'[i] = handled[i],
         Range(handled'[Current]) \subseteq DOMAIN Layers[Current].object,
         \/ result = "malformed" /\ data = Malformed
         \/ result = "skipped" /\ data = figment
         \/ /\ result = "merged"
            /\ \E d : /\ IsTree(d) /\ IsDict(d) /\ LeafSet(d) = Stay(Current, handled'[Current])
                      /\ data = Merge(figment, d)
  PROVE  LayersInv'
<1> DEFINE c == Current
<1>1. /\ c \in Ids /\ outcome[c] = "unread" /\ pos \in 1 .. Len(Registered) /\ c = Registered[pos]
      /\ \A i \in Ids : outcome[i] # "unread" => i < c
  BY CurrentIs DEF Current
<1>2. /\ Layers' = Layers /\ Ids' = Ids /\ Registered' = Registered /\ UNCHANGED <<specs, args, pc>>
      /\ pos' = pos + 1 /\ dict' = EmptyDict /\ outcome' = [outcome EXCEPT ![c] = result]
      /\ figment' = IF figment = Malformed THEN Malformed ELSE data
  BY SourcesStay DEF Continue, c
<1>3. /\ TypeOK /\ Contents /\ outcome \in [Ids -> {"unread", "merged", "malformed", "skipped"}]
      /\ Ids \subseteq Nat /\ Len(Registered) = Len(Layers)
  <2>1. TypeOK /\ Contents
    BY DEF LayersInv
  <2>2. Ids \subseteq Nat /\ Len(Registered) = Len(Layers)
    BY <2>1, LayersAre, RegisteredIs
  <2>3. QED
    BY <2>1, <2>2 DEF TypeOK
<1>4. /\ outcome'[c] = result /\ \A i \in Ids : i # c => outcome'[i] = outcome[i]
      /\ outcome' \in [Ids -> {"unread", "merged", "malformed", "skipped"}]
  BY <1>1, <1>2, <1>3
<1>5. PICK len \in Nat : len = Len(Registered) /\ pos \in 1 .. len /\ \A n \in 1 .. len : Registered[n] \in Ids
  BY <1>1, <1>3, RegisteredIs
<1>6. \A m, n \in 1 .. len : m < n => Registered[m] # Registered[n]
  <2>1. \A m, n \in 1 .. len : m < n => Registered[m] < Registered[n]
    BY <1>3, <1>5, RegisteredIs
  <2>2. \A n \in 1 .. len : Registered[n] \in Nat
    BY <1>3, <1>5
  <2>3. QED
    BY <2>1, <2>2
<1>7. MergedIds' = IF result = "merged" THEN MergedIds \union {c} ELSE MergedIds
  BY <1>1, <1>2, <1>4 DEF MergedIds
<1>8. \A i \in MergedIds : i < c /\ i # c /\ handled'[i] = handled[i]
  BY <1>1, <1>3 DEF MergedIds, c
<1> HIDE DEF c
<1>9. ASSUME figment # Malformed
      PROVE  IsTree(figment) /\ IsDict(figment) /\ LeafSet(figment) = Stacked
  BY <1>3, <1>9 DEF LayersInv, TypeOK
<1>10. ASSUME figment' # Malformed
       PROVE  IsTree(figment') /\ IsDict(figment') /\ LeafSet(figment') = Stacked'
  <2>1. figment # Malformed /\ figment' = data /\ result # "malformed"
    BY <1>2, <1>10
  <2>2. CASE result = "skipped" /\ data = figment
    <3>1. Stacked' = Stacked
      BY <1>2, <1>7, <1>8, <2>2, StackedStays
    <3>2. QED
      BY <1>9, <2>1, <2>2, <3>1
  <2>3. CASE result = "merged"
    <3>1. PICK d : IsTree(d) /\ IsDict(d) /\ LeafSet(d) = Stay(c, handled'[c]) /\ data = Merge(figment, d)
      BY <2>3 DEF c
    <3>2. Stacked' = Stay(c, handled'[c]) \union {l \in Stacked : ~ Overridden(l, Stay(c, handled'[c]))}
      BY <1>1, <1>2, <1>3, <1>7, <1>8, <2>3, StackedGrows
    <3>3. /\ IsTree(data) /\ IsDict(data)
          /\ LeafSet(data) = LeafSet(d) \union {l \in LeafSet(figment) : ~ Overridden(l, LeafSet(d))}
      BY <1>9, <2>1, <3>1, MergeOfTrees
    <3>4. QED
      BY <1>9, <2>1, <3>1, <3>2, <3>3
  <2>4. QED
    BY <2>1, <2>2, <2>3
<1>11. (figment' = Malformed <=> \E i \in Ids : outcome'[i] = "malformed")
  <2>1. figment = Malformed <=> \E i \in Ids : outcome[i] = "malformed"
    BY DEF LayersInv
  <2>2. CASE figment = Malformed
    BY <1>1, <1>2, <1>4, <2>1, <2>2
  <2>3. CASE figment # Malformed /\ result = "malformed"
    BY <1>1, <1>2, <1>4, <2>3
  <2>4. CASE figment # Malformed /\ result # "malformed"
    <3>1. \A i \in Ids : outcome'[i] # "malformed"
      BY <1>1, <1>4, <2>1, <2>4
    <3>2. data # Malformed
      <4>1. CASE result = "merged"
        <5>1. PICK d : IsTree(d) /\ IsDict(d) /\ data = Merge(figment, d)
          BY <4>1
        <5>2. IsTree(data)
          BY <1>9, <2>4, <5>1, MergeOfTrees
        <5>3. QED
          BY <5>2, TreeIsSomething
      <4>2. QED
        BY <2>4, <4>1
    <3>3. QED
      BY <1>2, <2>4, <3>1, <3>2
  <2>5. QED
    BY <2>2, <2>3, <2>4
<1>12. \A i \in Ids : Range(handled'[i]) \subseteq DOMAIN Layers[i].object
  BY <1>1, <1>3 DEF TypeOK, c
<1>13. TypeOK'
  <2>1. pos' \in 1 .. Len(Layers) + 1
    BY <1>2, <1>3, <1>5
  <2>2. QED
    BY <1>2, <1>3, <1>4, <1>10, <1>12, <2>1, EmptyDictIs DEF TypeOK
<1>14. ASSUME NEW i \in Ids, handled'[i] # <<>> PROVE \E n \in 1 .. pos : n <= len /\ i = Registered[n]
  BY <1>1, <1>5, <1>14 DEF LayersInv, c
<1>15. ASSUME pos' <= len PROVE LeavesOf(Current)' = {}
  <2>1. pos + 1 \in 1 .. len /\ Registered[pos + 1] \in Ids /\ Current' = Registered[pos + 1]
    BY <1>2, <1>5, <1>15 DEF Current
  <2>2. \A n \in 1 .. pos : n \in 1 .. len /\ n < pos + 1
    BY <1>5
  <2>3. handled'[Current'] = <<>>
    BY <1>6, <1>14, <2>1, <2>2
  <2>4. LeavesOf(Current)' = Stay(Current', handled'[Current'])
    BY <1>2, LeavesOfIs
  <2>5. QED
    BY <2>3, <2>4, StayOfNone
<1>16. pos' <= Len(Registered)' => LeafSet(dict') = LeavesOf(Current)'
  BY <1>2, <1>5, <1>15, EmptyDictIs
<1>17. ASSUME NEW i \in Ids, outcome'[i] # "unread" PROVE \E n \in 1 .. pos' - 1 : i = Registered[n]
  <2>1. CASE i = c
    BY <1>1, <1>2, <1>5, <2>1
  <2>2. CASE i # c
    <3>1. PICK n \in 1 .. pos - 1 : i = Registered[n]
      BY <1>4, <1>17, <2>2 DEF LayersInv
    <3>2. n \in 1 .. pos' - 1
      BY <1>2, <1>5
    <3>3. QED
      BY <3>1, <3>2
  <2>3. QED
    BY <2>1, <2>2
<1>18. ASSUME NEW i \in Ids, handled'[i] # <<>> PROVE \E n \in 1 .. pos' : n <= len /\ i = Registered[n]
  BY <1>2, <1>5, <1>14, <1>18
<1>19. Contents'
  BY <1>2, <1>3 DEF Contents
<1>20. QED
  BY <1>2, <1>5, <1>10, <1>11, <1>13, <1>16, <1>17, <1>18, <1>19 DEF LayersInv

\* A step that only stops reading, or none at all.
LEMMA OnlyPcChanges ==
  ASSUME LayersInv, UNCHANGED <<specs, args, pos, dict, figment, handled, outcome>>,
         pc' \in {"read", "done", "failed", "panicked"}
  PROVE  LayersInv'
<1>1. Layers' = Layers /\ Ids' = Ids /\ Registered' = Registered
  BY SourcesStay
<1>2. LeavesOf(Current)' = LeavesOf(Current)
  <2>1. Current' = Current
    BY <1>1 DEF Current
  <2>2. LeavesOf(Current)' = Stay(Current', handled'[Current'])
    BY LeavesOfIs
  <2>3. QED
    BY <2>1, <2>2, LeavesOfIs
<1>3. Stacked' = Stacked
  <2>1. MergedIds' = MergedIds
    BY <1>1 DEF MergedIds
  <2>2. QED
    BY <2>1, StackedStays
<1>4. Contents' /\ TypeOK'
  BY <1>1 DEF LayersInv, Contents, TypeOK
<1>5. QED
  BY <1>1, <1>2, <1>3, <1>4 DEF LayersInv

\* What is merged for an entry that is not ignored.
LEMMA NestedMerges ==
  ASSUME LayersInv, NEW k \in Keys, NEW nested, nested = Nest(Segments[k], Value(Current, k)), IsDict(nested)
  PROVE  LET merged == Merge(dict, nested) IN
         /\ IsTree(merged) /\ IsDict(merged)
         /\ LeafSet(merged) = Nested(Current, k) \union {l \in LeafSet(dict) : ~ Overridden(l, Nested(Current, k))}
<1>1. nested = Tree(Nested(Current, k)) /\ Leaves(Nested(Current, k))
  BY EntryIs
<1>2. IsTree(nested) /\ LeafSet(nested) = Nested(Current, k)
  BY <1>1, TreeOfLeaves
<1>3. IsTree(dict) /\ IsDict(dict)
  BY DEF LayersInv, TypeOK
<1>4. QED
  BY <1>2, <1>3, MergeOfTrees

LEMMA InvReadEntry ==
  ASSUME LayersInv, NEW k \in Keys, ReadEntry(k)
  PROVE  LayersInv'
<1> DEFINE nested == Nest(Segments[k], Value(Current, k))
<1>1. /\ pos <= Len(Registered) /\ Layers[Current].kind # "environment" /\ k \in Remaining
      /\ UNCHANGED <<specs, args, pos, figment, outcome>>
      /\ IF IsDict(nested) THEN dict' = Merge(dict, nested) /\ Handle(k) /\ UNCHANGED pc
                           ELSE pc' = "panicked" /\ UNCHANGED <<dict, handled>>
  BY DEF ReadEntry, Reading, Current
<1> HIDE DEF nested
<1>2. CASE IsDict(nested)
  <2>1. AllLeaves(Current, k) = Nested(Current, k)
    BY <1>1, AllLeavesAre
  <2>2. /\ IsTree(dict') /\ IsDict(dict')
        /\ LeafSet(dict') = AllLeaves(Current, k) \union {l \in LeafSet(dict) : ~ Overridden(l, AllLeaves(Current, k))}
    BY <1>1, <1>2, <2>1, NestedMerges DEF nested
  <2>3. QED
    BY <1>1, <1>2, <2>2, EntryRead
<1>3. CASE ~ IsDict(nested)
  BY <1>1, <1>3, OnlyPcChanges
<1>4. QED
  BY <1>2, <1>3

LEMMA InvReadVariable ==
  ASSUME LayersInv, NEW k \in Keys, ReadVariable(k)
  PROVE  LayersInv'
<1> DEFINE nested == Nest(Segments[k], Value(Current, k))
<1>1. /\ pos <= Len(Registered) /\ Layers[Current].kind = "environment" /\ k \in Remaining /\ Handle(k)
      /\ UNCHANGED <<specs, args, pc, pos, figment, outcome>>
      /\ dict' = IF Ignored(k) THEN dict ELSE Merge(dict, nested)
  BY DEF ReadVariable, Reading, Current
<1> HIDE DEF nested
<1>2. CASE Ignored(k)
  <2>1. AllLeaves(Current, k) = {}
    BY <1>1, <1>2, AllLeavesAre
  <2>2. LeafSet(dict') = AllLeaves(Current, k) \union {l \in LeafSet(dict) : ~ Overridden(l, AllLeaves(Current, k))}
    BY <1>1, <1>2, <2>1 DEF Overridden
  <2>3. IsTree(dict') /\ IsDict(dict')
    BY <1>1, <1>2 DEF LayersInv, TypeOK
  <2>4. QED
    BY <1>1, <2>2, <2>3, EntryRead
<1>3. CASE ~ Ignored(k)
  <2>1. AllLeaves(Current, k) = Nested(Current, k)
    BY <1>3, AllLeavesAre
  <2>2. IsDict(nested)
    BY <1>3, EntryIs, Zenon DEF Ignored, nested
  <2>3. /\ IsTree(dict') /\ IsDict(dict')
        /\ LeafSet(dict') = AllLeaves(Current, k) \union {l \in LeafSet(dict) : ~ Overridden(l, AllLeaves(Current, k))}
    BY <1>1, <1>3, <2>1, <2>2, NestedMerges DEF nested
  <2>4. QED
    BY <1>1, <2>3, EntryRead
<1>4. QED
  BY <1>2, <1>3

LEMMA InvMergeSource == ASSUME LayersInv, MergeSource PROVE LayersInv'
<1>1. pos <= Len(Registered) /\ Continue(Merge(figment, dict), "merged") /\ handled' = handled
  BY DEF MergeSource, Reading
<1>2. /\ IsTree(dict) /\ IsDict(dict) /\ LeafSet(dict) = Stay(Current, handled[Current])
      /\ handled \in [Ids -> Seq(Keys)] /\ Range(handled[Current]) \subseteq DOMAIN Layers[Current].object
  BY <1>1, CurrentIs, LeavesOfIs DEF LayersInv, TypeOK
<1>3. QED
  BY <1>1, <1>2, Continues

LEMMA InvMergeFile == ASSUME LayersInv, MergeFile PROVE LayersInv'
<1> DEFINE K == DOMAIN Layers[Current].object
           keys == SetToSeq(K)
<1>1. /\ pos <= Len(Registered) /\ Layers[Current].kind = "file"
      /\ Continue(Merge(figment, Tree(FileLeaves(Current))), "merged")
      /\ handled' = [handled EXCEPT ![Current] = keys]
  BY DEF MergeFile, Reading, Current, FileLeaves
<1>2. Current \in Ids /\ Contents /\ handled \in [Ids -> Seq(Keys)]
  BY <1>1, CurrentIs DEF LayersInv
<1>3. /\ IsFiniteSet(K) /\ Leaves(FileLeaves(Current)) /\ IsDict(Tree(FileLeaves(Current)))
      /\ Stay(Current, keys) = FileLeaves(Current)
  BY <1>1, <1>2, FileIs
<1>4. keys \in Seq(Keys) /\ Range(keys) = K
  <2>1. keys \in Seq(K) /\ Range(keys) = K
    BY <1>3, SetToSeqIs
  <2>2. K \subseteq Keys
    BY <1>2, LayersAre, SourceIs
  <2> HIDE DEF K, keys
  <2>3. QED
    BY <2>1, <2>2
<1> HIDE DEF keys
<1>5. /\ handled'[Current] = keys /\ \A i \in Ids : i # Current => handled'[i] = handled[i]
      /\ handled' \in [Ids -> Seq(Keys)]
  BY <1>1, <1>2, <1>4
<1>6. IsTree(Tree(FileLeaves(Current))) /\ LeafSet(Tree(FileLeaves(Current))) = Stay(Current, handled'[Current])
  BY <1>3, <1>5, TreeOfLeaves
<1>7. QED
  BY <1>1, <1>3, <1>4, <1>5, <1>6, Continues

LEMMA InvOther == ASSUME LayersInv, ParseFails \/ SkipSource \/ RejectFile \/ Finish PROVE LayersInv'
<1>1. CASE ParseFails \/ SkipSource
  <2>1. pos <= Len(Registered) /\ (Continue(Malformed, "malformed") \/ Continue(figment, "skipped")) /\ handled' = handled
    BY <1>1 DEF ParseFails, SkipSource, Reading
  <2>2. handled \in [Ids -> Seq(Keys)] /\ Range(handled[Current]) \subseteq DOMAIN Layers[Current].object
    BY <2>1, CurrentIs DEF LayersInv, TypeOK
  <2>3. CASE Continue(Malformed, "malformed")
    BY <2>1, <2>2, <2>3, Continues
  <2>4. CASE Continue(figment, "skipped")
    BY <2>1, <2>2, <2>4, Continues
  <2>5. QED
    BY <2>1, <2>3, <2>4
<1>2. CASE RejectFile \/ Finish
  BY <1>2, OnlyPcChanges DEF RejectFile, Finish
<1>3. QED
  BY <1>1, <1>2

LEMMA InvNext == LayersInv /\ [Next]_vars => LayersInv'
<1> SUFFICES ASSUME LayersInv, [Next]_vars PROVE LayersInv'
  OBVIOUS
<1>1. ASSUME NEW k \in Keys, ReadEntry(k) \/ ReadVariable(k) PROVE LayersInv'
  BY <1>1, InvReadEntry, InvReadVariable
<1>2. CASE MergeSource
  BY <1>2, InvMergeSource
<1>3. CASE MergeFile
  BY <1>3, InvMergeFile
<1>4. CASE ParseFails \/ SkipSource \/ RejectFile \/ Finish
  BY <1>4, InvOther
<1>5. CASE UNCHANGED vars
  <2>1. UNCHANGED <<specs, args, pos, dict, figment, handled, outcome>> /\ pc' = pc
    BY <1>5 DEF vars
  <2>2. pc \in {"read", "done", "failed", "panicked"}
    BY DEF LayersInv, TypeOK
  <2>3. QED
    BY <2>1, <2>2, OnlyPcChanges
<1>6. QED
  BY <1>1, <1>2, <1>3, <1>4, <1>5 DEF Next

\* The invariant says what the data are, not only what their leaves are.
LEMMA InvStacks == LayersInv => TypeOK /\ LayersStack
<1> SUFFICES ASSUME LayersInv PROVE TypeOK /\ LayersStack
  OBVIOUS
<1>1. TypeOK
  BY DEF LayersInv
<1>2. CASE \E i \in Ids : outcome[i] = "malformed"
  BY <1>1, <1>2 DEF LayersInv, LayersStack
<1>3. CASE ~ \E i \in Ids : outcome[i] = "malformed"
  <2>1. figment # Malformed /\ IsTree(figment) /\ LeafSet(figment) = Stacked
    BY <1>1, <1>3 DEF LayersInv, TypeOK
  <2>2. figment = Tree(Stacked)
    BY <2>1, LeavesOfTree
  <2>3. QED
    BY <1>1, <1>3, <2>2 DEF LayersStack
<1>4. QED
  BY <1>1, <1>2, <1>3

LEMMA LayersInvariant == Spec => []LayersInv
BY InvInit, InvNext, PTL DEF Spec

-----------------------------------------------------------------------------
(* The recursions of the code. Merge and Nest satisfy the equations by     *)
(* which the code computes them, on what is below each key.                *)

LEMMA Unprefixed ==
  ASSUME NEW s \in Path, NEW p \in Path, Named(s \o p)
  PROVE  Named(p)
<1>1. /\ Len(s) \in Nat /\ DOMAIN p = 1 .. Len(p) /\ Len(p) \in Nat
      /\ DOMAIN (s \o p) = 1 .. Len(s) + Len(p) /\ \A n \in 1 .. Len(p) : (s \o p)[Len(s) + n] = p[n]
  BY DEF Path
<1>2. \A n \in DOMAIN p : Len(s) + n \in DOMAIN (s \o p) /\ (s \o p)[Len(s) + n] = p[n]
  BY <1>1
<1>3. Range(p) \subseteq Range(s \o p)
  BY <1>2 DEF Range
<1>4. QED
  BY <1>3 DEF Named

\* Paths that begin with the key h.
LEMMA Under ==
  ASSUME NEW h \in Word
  PROVE  /\ <<h>> \in Path /\ <<h>> # <<>> /\ <<h>> \o <<>> = <<h>>
         /\ \A p \in Path : <<h>> \o p \in Path /\ <<h>> \o p # <<>>
         /\ \A p, q \in Path : <<h>> \o q = <<h>> \o p => q = p
         /\ \A p, q \in Path : IsPrefix(<<h>> \o q, <<h>> \o p) <=> IsPrefix(q, p)
         /\ \A p, r \in Path : IsPrefix(r, <<h>> \o p) => r = <<>> \/ \E q \in Path : r = <<h>> \o q /\ IsPrefix(q, p)
<1>1. <<h>> \in Path /\ <<h>> # <<>> /\ <<h>> \o <<>> = <<h>> /\ <<>> \in Path
  BY SingleIs, PrefixOrder DEF Path
<1>2. \A p \in Path : <<h>> \o p \in Path /\ IsPrefix(<<h>>, <<h>> \o p)
  BY <1>1, PrefixOfConcat
<1>3. ASSUME NEW p \in Path PROVE <<h>> \o p # <<>>
  BY <1>1, <1>2, PrefixOrder
<1>4. \A p, q \in Path : <<h>> \o q = <<h>> \o p => q = p
  BY <1>1, PrefixOfConcat
<1>5. \A p, q \in Path : IsPrefix(<<h>> \o q, <<h>> \o p) <=> IsPrefix(q, p)
  BY <1>1, PrefixOfConcat
<1>6. ASSUME NEW p \in Path, NEW r \in Path, IsPrefix(r, <<h>> \o p), r # <<>>
      PROVE  \E q \in Path : r = <<h>> \o q /\ IsPrefix(q, p)
  <2>1. IsPrefix(<<h>>, r)
    <3>1. CASE IsPrefix(r, <<h>>)
      <4>1. Len(r) <= Len(<<h>>) /\ \A n \in 1 .. Len(r) : r[n] = <<h>>[n]
        BY <1>1, <3>1, PrefixIs
      <4>2. Len(<<h>>) = 1 /\ Len(r) \in Nat /\ Len(r) # 0
        BY <1>6 DEF Path
      <4>3. Len(r) = 1
        BY <4>1, <4>2
      <4>4. r = <<h>>
        BY <4>1, <4>2, <4>3 DEF Path
      <4>5. QED
        BY <1>1, <4>4, PrefixOrder
    <3>2. QED
      BY <1>1, <1>6, <3>1, PrefixOfConcat
  <2>2. PICK q \in Path : r = <<h>> \o q
    BY <1>1, <2>1, SuffixExists
  <2>3. QED
    BY <1>5, <1>6, <2>2
<1>7. QED
  BY <1>1, <1>2, <1>3, <1>4, <1>5, <1>6

LEMMA PathSplits ==
  ASSUME NEW p \in Path, p # <<>>
  PROVE  Head(p) \in Word /\ Tail(p) \in Path /\ p = <<Head(p)>> \o Tail(p)
BY DEF Path

\* The keys of a dictionary, and the value that a key has.
KeysOf(v)   == {h \in Word : <<h>> \in DOMAIN v}
Child(v, h) == [p \in {q \in Path : <<h>> \o q \in DOMAIN v} |-> v[<<h>> \o p]]

LEMMA ChildIsTree ==
  ASSUME NEW v, IsTree(v), NEW h \in KeysOf(v)
  PROVE  IsTree(Child(v, h))
<1> DEFINE c == Child(v, h)
<1>1. Shape(v) /\ h \in Word /\ <<h>> \in DOMAIN v
  BY TreeIs DEF KeysOf
<1>2. /\ c = [p \in DOMAIN c |-> c[p]]
      /\ \A p : p \in DOMAIN c <=> p \in Path /\ <<h>> \o p \in DOMAIN v
      /\ \A p \in DOMAIN c : c[p] = v[<<h>> \o p]
  BY DEF Child
<1> HIDE DEF c
<1>3. <<>> \in DOMAIN c
  <2>1. <<>> \in Path /\ <<h>> \o <<>> = <<h>>
    BY <1>1, Under, PrefixOrder
  <2>2. QED
    BY <1>1, <1>2, <2>1, Zenon
<1>4. ASSUME NEW p \in DOMAIN c PROVE Named(p)
  <2>1. <<h>> \in Path
    BY <1>1, Under
  <2>2. p \in Path /\ Named(<<h>> \o p)
    BY <1>1, <1>2 DEF Shape
  <2>3. QED
    BY <2>1, <2>2, Unprefixed
<1>5. ASSUME NEW p \in DOMAIN c, NEW q \in Path, IsPrefix(q, p), q # p PROVE q \in DOMAIN c /\ c[q] = Branch
  <2>1. p \in Path /\ <<h>> \o p \in DOMAIN v
    BY <1>2
  <2>2. IsPrefix(<<h>> \o q, <<h>> \o p) /\ <<h>> \o q # <<h>> \o p /\ <<h>> \o q \in Path
    BY <1>1, <1>5, <2>1, Under
  <2>3. <<h>> \o q \in DOMAIN v /\ v[<<h>> \o q] = Branch
    BY <1>1, <2>1, <2>2 DEF Shape
  <2>4. QED
    BY <1>2, <2>3
<1>6. ASSUME NEW p \in DOMAIN c, c[p] = Branch, p # <<>> PROVE \E q \in DOMAIN c : c[q] # Branch /\ IsPrefix(p, q)
  <2>1. p \in Path /\ <<h>> \o p \in DOMAIN v /\ v[<<h>> \o p] = Branch /\ <<h>> \o p # <<>> /\ <<h>> \o p \in Path
    BY <1>1, <1>2, <1>6, Under
  <2>2. PICK r \in DOMAIN v : v[r] # Branch /\ IsPrefix(<<h>> \o p, r)
    BY <1>1, <2>1 DEF Shape
  <2>3. r \in Path
    BY <1>1, <2>2 DEF Shape, Named
  <2>4. PICK q \in Path : r = (<<h>> \o p) \o q
    BY <2>1, <2>2, <2>3, SuffixExists
  <2>5. p \o q \in Path /\ IsPrefix(p, p \o q)
    BY <2>1, PrefixOfConcat
  <2>6. r = <<h>> \o (p \o q)
    <3>1. <<h>> \in Seq(Word) /\ p \in Seq(Word) /\ q \in Seq(Word)
      BY <1>1, <2>1, <2>4, Under DEF Path
    <3>2. QED
      BY <2>4, <3>1, ConcatAssociative
  <2>7. QED
    BY <1>2, <2>2, <2>5, <2>6
<1>7. QED
  BY <1>2, <1>3, <1>4, <1>5, <1>6, TreeIs DEF Shape, c

\* A dictionary is its keys and what they have: two of them that agree on both are one.
LEMMA DictIsItsChildren ==
  ASSUME NEW v, IsTree(v), IsDict(v), NEW w, IsTree(w), IsDict(w),
         KeysOf(v) = KeysOf(w), \A h \in KeysOf(v) : Child(v, h) = Child(w, h)
  PROVE  v = w
<1>1. Shape(v) /\ Shape(w)
  BY TreeIs
<1>2. ASSUME NEW a, Shape(a), NEW p \in DOMAIN a, p # <<>>
      PROVE  /\ p \in Path /\ Head(p) \in KeysOf(a) /\ Tail(p) \in DOMAIN Child(a, Head(p))
             /\ a[p] = Child(a, Head(p))[Tail(p)] /\ p = <<Head(p)>> \o Tail(p)
  <2>1. p \in Path
    BY <1>2 DEF Shape, Named
  <2>2. Head(p) \in Word /\ Tail(p) \in Path /\ p = <<Head(p)>> \o Tail(p)
    BY <1>2, <2>1, PathSplits
  <2>3. <<Head(p)>> \in DOMAIN a
    <3>1. <<Head(p)>> \in Path /\ IsPrefix(<<Head(p)>>, p)
      <4>1. <<Head(p)>> \in Path
        BY <2>2, Under
      <4>2. IsPrefix(<<Head(p)>>, <<Head(p)>> \o Tail(p))
        BY <2>2, <4>1, PrefixOfConcat
      <4>3. QED
        BY <2>2, <4>1, <4>2
    <3>2. QED
      BY <1>2, <3>1 DEF Shape
  <2>4. QED
    BY <2>1, <2>2, <2>3 DEF KeysOf, Child
<1>3. ASSUME NEW a, Shape(a), NEW h \in KeysOf(a), NEW q \in DOMAIN Child(a, h) PROVE <<h>> \o q \in DOMAIN a
  BY DEF Child
<1>4. ASSUME NEW p \in DOMAIN v PROVE p \in DOMAIN w /\ v[p] = w[p]
  <2>1. CASE p = <<>>
    BY <1>1, <2>1 DEF Shape, IsDict
  <2>2. CASE p # <<>>
    <3>1. /\ Head(p) \in KeysOf(w) /\ Tail(p) \in DOMAIN Child(w, Head(p)) /\ p = <<Head(p)>> \o Tail(p)
          /\ v[p] = Child(w, Head(p))[Tail(p)]
      BY <1>1, <1>2, <2>2
    <3>2. p \in DOMAIN w
      BY <1>1, <1>3, <3>1
    <3>3. w[p] = Child(w, Head(p))[Tail(p)]
      BY <1>1, <1>2, <2>2, <3>2
    <3>4. QED
      BY <3>1, <3>2, <3>3
  <2>3. QED
    BY <2>1, <2>2
<1>5. ASSUME NEW p \in DOMAIN w PROVE p \in DOMAIN v
  <2>1. CASE p = <<>>
    BY <1>1, <2>1 DEF Shape
  <2>2. CASE p # <<>>
    <3>1. Head(p) \in KeysOf(v) /\ Tail(p) \in DOMAIN Child(v, Head(p)) /\ p = <<Head(p)>> \o Tail(p)
      BY <1>1, <1>2, <2>2
    <3>2. QED
      BY <1>1, <1>3, <3>1
  <2>3. QED
    BY <2>1, <2>2
<1>6. DOMAIN v = DOMAIN w
  BY <1>4, <1>5
<1>7. QED
  BY <1>1, <1>4, <1>6 DEF Shape

\* What is below a key after a merge.
LEMMA MergeBelow ==
  ASSUME NEW a, NEW b, IsTree(a), IsTree(b), IsDict(a), IsDict(b), NEW h \in Word
  PROVE  LET D == Merge(a, b) IN
         /\ <<h>> \in DOMAIN D <=> <<h>> \in DOMAIN a \/ <<h>> \in DOMAIN b
         /\ <<h>> \notin DOMAIN b => Child(D, h) = Child(a, h)
         /\ <<h>> \notin DOMAIN a => Child(D, h) = Child(b, h)
         /\ <<h>> \in DOMAIN a /\ <<h>> \in DOMAIN b => Child(D, h) = Merge(Child(a, h), Child(b, h))
<1> DEFINE D == Merge(a, b)
           Free(q) == \A r \in Path : IsPrefix(r, q) /\ r \in DOMAIN b => b[r] = Branch
           At(p) == <<h>> \o p
<1>1. Shape(a) /\ Shape(b) /\ a[<<>>] = Branch /\ b[<<>>] = Branch
  BY TreeIs DEF IsDict
<1>2. /\ \A p : p \in DOMAIN D <=> p \in DOMAIN b \/ (p \in DOMAIN a /\ Free(p))
      /\ \A p \in DOMAIN D : D[p] = IF p \in DOMAIN b THEN b[p] ELSE a[p]
  BY MergeNodes
<1> HIDE DEF D
<1>3. ASSUME NEW v, Shape(v), NEW q \in Path, At(q) \in DOMAIN v PROVE <<h>> \in DOMAIN v
  <2>1. <<h>> \in Path /\ IsPrefix(<<h>>, At(q))
    BY Under, PrefixOfConcat
  <2>2. QED
    BY <1>3, <2>1 DEF Shape
<1>4. ASSUME NEW q \in Path
      PROVE  Free(At(q)) <=> \A r \in Path : IsPrefix(r, q) /\ At(r) \in DOMAIN b => b[At(r)] = Branch
  <2>1. ASSUME NEW r \in Path, IsPrefix(r, At(q)) PROVE r = <<>> \/ \E u \in Path : r = At(u) /\ IsPrefix(u, q)
    BY <2>1, Under
  <2>2. ASSUME NEW r \in Path, IsPrefix(r, q) PROVE At(r) \in Path /\ IsPrefix(At(r), At(q))
    BY <2>2, Under
  <2> HIDE DEF At
  <2>3. QED
    BY <1>1, <2>1, <2>2
<1>5. At(<<>>) = <<h>> /\ <<>> \in Path
  BY Under, PrefixOrder
<1> HIDE DEF Free, At
<1>6. <<h>> \in DOMAIN D <=> <<h>> \in DOMAIN a \/ <<h>> \in DOMAIN b
  <2>1. ASSUME <<h>> \notin DOMAIN b PROVE Free(<<h>>)
    BY <1>1, <1>3, <1>4, <1>5, <2>1
  <2>2. QED
    BY <1>2, <2>1
<1>7. \A v : Child(v, h) = [p \in {q \in Path : At(q) \in DOMAIN v} |-> v[At(p)]]
  BY DEF Child, At
<1>8. ASSUME NEW v, NEW w,
             \A q \in Path : At(q) \in DOMAIN v <=> At(q) \in DOMAIN w,
             \A q \in Path : At(q) \in DOMAIN v => v[At(q)] = w[At(q)]
      PROVE  Child(v, h) = Child(w, h)
  <2>1. {q \in Path : At(q) \in DOMAIN v} = {q \in Path : At(q) \in DOMAIN w}
    BY <1>8
  <2>2. \A p \in {q \in Path : At(q) \in DOMAIN v} : v[At(p)] = w[At(p)]
    BY <1>8
  <2>3. QED
    BY <1>7, <2>1, <2>2
<1>9. ASSUME <<h>> \notin DOMAIN b PROVE Child(D, h) = Child(a, h)
  <2>1. \A q \in Path : At(q) \notin DOMAIN b
    BY <1>1, <1>3, <1>9
  <2>2. \A q \in Path : Free(At(q))
    BY <1>4, <2>1
  <2>3. QED
    BY <1>2, <1>8, <2>1, <2>2
<1>10. ASSUME <<h>> \notin DOMAIN a PROVE Child(D, h) = Child(b, h)
  <2>1. \A q \in Path : At(q) \notin DOMAIN a
    BY <1>1, <1>3, <1>10
  <2>2. QED
    BY <1>2, <1>8, <2>1
<1>11. ASSUME <<h>> \in DOMAIN a, <<h>> \in DOMAIN b PROVE Child(D, h) = Merge(Child(a, h), Child(b, h))
  <2> DEFINE c == Child(a, h)
             d == Child(b, h)
             M == Merge(c, d)
             C == Child(D, h)
  <2>1. IsTree(c) /\ IsTree(d)
    BY <1>11, ChildIsTree DEF KeysOf
  <2>0. ASSUME NEW v
        PROVE  /\ Child(v, h) = [p \in DOMAIN Child(v, h) |-> Child(v, h)[p]]
               /\ \A q : q \in DOMAIN Child(v, h) <=> q \in Path /\ At(q) \in DOMAIN v
               /\ \A q \in DOMAIN Child(v, h) : Child(v, h)[q] = v[At(q)]
    BY <1>7
  <2>2. /\ \A q : q \in DOMAIN c <=> q \in Path /\ At(q) \in DOMAIN a
        /\ \A q : q \in DOMAIN d <=> q \in Path /\ At(q) \in DOMAIN b
        /\ \A q \in DOMAIN c : c[q] = a[At(q)]
        /\ \A q \in DOMAIN d : d[q] = b[At(q)]
    BY <2>0
  <2>3. /\ C = [p \in DOMAIN C |-> C[p]]
        /\ \A q : q \in DOMAIN C <=> q \in Path /\ At(q) \in DOMAIN D
        /\ \A q \in DOMAIN C : C[q] = D[At(q)]
    BY <2>0
  <2>4. /\ M = [p \in DOMAIN M |-> M[p]]
        /\ \A p : p \in DOMAIN M <=> p \in DOMAIN d \/ (p \in DOMAIN c /\ \A r \in Path : IsPrefix(r, p) /\ r \in DOMAIN d => d[r] = Branch)
        /\ \A p \in DOMAIN M : M[p] = IF p \in DOMAIN d THEN d[p] ELSE c[p]
    BY <2>1, MergeNodes
  <2> HIDE DEF c, d, M, C
  <2>5. ASSUME NEW q \in Path
        PROVE  Free(At(q)) <=> \A r \in Path : IsPrefix(r, q) /\ r \in DOMAIN d => d[r] = Branch
    BY <1>4, <2>2
  <2>6. \A q : q \in DOMAIN C <=> q \in DOMAIN M
    BY <1>2, <2>2, <2>3, <2>4, <2>5
  <2>7. \A q \in DOMAIN C : C[q] = M[q]
    BY <1>2, <2>2, <2>3, <2>4, <2>6
  <2>8. DOMAIN C = DOMAIN M
    BY <2>6
  <2>9. C = M
    BY <2>3, <2>4, <2>7, <2>8
  <2>10. QED
    BY <2>9 DEF C, M, c, d
<1>12. QED
  BY <1>6, <1>9, <1>10, <1>11 DEF D

LEMMA LeafIsAlone ==
  ASSUME NEW v, IsTree(v), ~ IsDict(v)
  PROVE  DOMAIN v = {<<>>}
<1>1. Shape(v) /\ v[<<>>] # Branch
  BY TreeIs DEF IsDict
<1>2. ASSUME NEW p \in DOMAIN v PROVE p = <<>>
  <2>1. p \in Path
    BY <1>1 DEF Shape, Named
  <2>2. <<>> \in Path /\ IsPrefix(<<>>, p)
    BY <2>1, PrefixOrder
  <2>3. QED
    BY <1>1, <2>2 DEF Shape
<1>3. <<>> \in DOMAIN v
  BY <1>1 DEF Shape
<1>4. QED
  BY <1>2, <1>3

\* Of two values that are not both dictionaries the second one stays.
LEMMA MergeOfLeaf ==
  ASSUME NEW a, NEW b, IsTree(a), IsTree(b), ~ (IsDict(a) /\ IsDict(b))
  PROVE  Merge(a, b) = b
<1> DEFINE D == Merge(a, b)
<1>1. Shape(a) /\ Shape(b)
  BY TreeIs
<1>2. /\ D = [p \in DOMAIN D |-> D[p]]
      /\ \A p : p \in DOMAIN D <=> p \in DOMAIN b \/ (p \in DOMAIN a /\ \A r \in Path : IsPrefix(r, p) /\ r \in DOMAIN b => b[r] = Branch)
      /\ \A p \in DOMAIN D : D[p] = IF p \in DOMAIN b THEN b[p] ELSE a[p]
  BY MergeNodes
<1> HIDE DEF D
<1>3. ASSUME NEW p \in DOMAIN D PROVE p \in DOMAIN b
  <2>1. CASE ~ IsDict(b)
    <3>1. <<>> \in Path /\ <<>> \in DOMAIN b /\ b[<<>>] # Branch
      BY <1>1, <2>1, PrefixOrder DEF Shape, IsDict
    <3>2. p \in DOMAIN b \/ p \in Path
      BY <1>1, <1>2 DEF Shape, Named
    <3>3. p \in Path => IsPrefix(<<>>, p)
      BY PrefixOrder
    <3>4. QED
      BY <1>2, <3>1, <3>2, <3>3
  <2>2. CASE ~ IsDict(a)
    <3>1. DOMAIN a = {<<>>} /\ <<>> \in DOMAIN b
      BY <1>1, <2>2, LeafIsAlone DEF Shape
    <3>2. QED
      BY <1>2, <3>1
  <2>3. QED
    BY <2>1, <2>2
<1>4. DOMAIN D = DOMAIN b /\ b = [p \in DOMAIN b |-> b[p]]
  BY <1>1, <1>2, <1>3 DEF Shape
<1>5. D = b
  BY <1>2, <1>4
<1>6. QED
  BY <1>5 DEF D

LEMMA CutBelow ==
  ASSUME NEW h \in Word, NEW u \in Path, NEW x, h # x, NEW c, Cut(u, x, c)
  PROVE  Cut(<<h>> \o u, x, <<h>> \o c)
<1>1. c \in Path /\ IsPrefix(c, u) /\ x \notin Range(c) /\ <<h>> \in Path
  BY Under DEF Cut
<1>2. <<h>> \o c \in Path /\ <<h>> \o u \in Path /\ IsPrefix(<<h>> \o c, <<h>> \o u)
  BY <1>1, PrefixOfConcat
<1>3. ASSUME NEW w \in Path
      PROVE  /\ Len(<<h>> \o w) = Len(w) + 1 /\ Len(w) \in Nat
             /\ DOMAIN (<<h>> \o w) = 1 .. Len(w) + 1 /\ DOMAIN w = 1 .. Len(w)
             /\ (<<h>> \o w)[1] = h /\ \A n \in 1 .. Len(w) : (<<h>> \o w)[n + 1] = w[n]
  BY DEF Path
<1>4. x \notin Range(<<h>> \o c)
  <2> DEFINE hc == <<h>> \o c
  <2>1. DOMAIN hc = 1 .. Len(c) + 1 /\ DOMAIN c = 1 .. Len(c) /\ Len(c) \in Nat
        /\ hc[1] = h /\ \A n \in 1 .. Len(c) : hc[n + 1] = c[n]
    BY <1>1, <1>3
  <2> HIDE DEF hc
  <2>2. ASSUME NEW n \in DOMAIN hc PROVE hc[n] # x
    <3>1. CASE n = 1
      BY <2>1, <3>1
    <3>2. CASE n # 1
      <4>1. n - 1 \in DOMAIN c /\ (n - 1) + 1 = n
        BY <2>1, <2>2, <3>2
      <4>2. hc[n] = c[n - 1]
        BY <2>1, <4>1
      <4>3. QED
        BY <1>1, <4>1, <4>2 DEF Range
    <3>3. QED
      BY <3>1, <3>2
  <2>3. x \notin Range(hc)
    BY <2>2 DEF Range
  <2>4. QED
    BY <2>3 DEF hc
<1>5. ASSUME <<h>> \o c # <<h>> \o u
      PROVE  Len(<<h>> \o c) + 1 \in DOMAIN (<<h>> \o u) /\ (<<h>> \o u)[Len(<<h>> \o c) + 1] = x
  <2>1. Len(c) + 1 \in DOMAIN u /\ u[Len(c) + 1] = x
    BY <1>5 DEF Cut
  <2>2. Len(<<h>> \o c) = Len(c) + 1 /\ Len(c) \in Nat /\ DOMAIN u = 1 .. Len(u) /\ Len(u) \in Nat
        /\ DOMAIN (<<h>> \o u) = 1 .. Len(u) + 1
    BY <1>1, <1>3
  <2>3. (<<h>> \o u)[(Len(c) + 1) + 1] = u[Len(c) + 1]
    BY <1>3, <2>1, <2>2
  <2>4. QED
    BY <2>1, <2>2, <2>3
<1>6. QED
  BY <1>1, <1>2, <1>4, <1>5 DEF Cut

LEMMA StemUnfolds ==
  ASSUME NEW s \in Path
  PROVE  /\ s = <<>> \/ Head(s) = "" => Stem(s) = <<>>
         /\ s # <<>> /\ Head(s) # "" => Stem(s) = <<Head(s)>> \o Stem(Tail(s))
<1>1. Cut(s, "", Stem(s)) /\ <<>> \in Path /\ IsPrefix(<<>>, s)
  BY StemIs, PrefixOrder
<1>2. ASSUME NEW x, s = <<>> \/ Head(s) = x PROVE Cut(s, x, <<>>)
  <2>1. x \notin Range(<<>>)
    BY DEF Range
  <2>2. ASSUME s # <<>> PROVE Len(<<>>) + 1 \in DOMAIN s /\ s[Len(<<>>) + 1] = x
    BY <1>2, <2>2 DEF Path
  <2>3. QED
    BY <1>1, <2>1, <2>2 DEF Cut
<1>3. ASSUME s # <<>>, Head(s) # "" PROVE Cut(s, "", <<Head(s)>> \o Stem(Tail(s)))
  <2>1. Head(s) \in Word /\ Tail(s) \in Path /\ s = <<Head(s)>> \o Tail(s)
    BY <1>3, PathSplits
  <2>2. Cut(Tail(s), "", Stem(Tail(s)))
    BY <2>1, StemIs
  <2>3. Cut(<<Head(s)>> \o Tail(s), "", <<Head(s)>> \o Stem(Tail(s)))
    BY <1>3, <2>1, <2>2, CutBelow
  <2>4. QED
    BY <2>1, <2>3
<1>4. QED
  BY <1>1, <1>2, <1>3, CutOnce

\* N has the nodes of v below t.
IsBelow(N, t, v) ==
  /\ N = [p \in DOMAIN N |-> N[p]]
  /\ \A p : p \in DOMAIN N <=> (p \in Path /\ IsPrefix(p, t)) \/ \E q \in DOMAIN v : p = t \o q
  /\ \A q \in DOMAIN v : q \in Path /\ N[t \o q] = v[q]
  /\ \A p \in DOMAIN N : ~ IsPrefix(t, p) => N[p] = Branch

LEMMA NestNodes ==
  ASSUME NEW s \in Path, NEW v, IsTree(v)
  PROVE  IsBelow(Nest(s, v), Stem(s), v)
<1> DEFINE N == Nest(s, v)
           t == Stem(s)
<1>1. t \in Path
  BY StemIs DEF Named
<1>2. /\ DOMAIN N = Prefixes(t) \union {t \o q : q \in DOMAIN v}
      /\ \A p \in DOMAIN N : N[p] = IF IsPrefix(t, p) THEN v[SubSeq(p, Len(t) + 1, Len(p))] ELSE Branch
      /\ N = [p \in DOMAIN N |-> N[p]]
  BY DEF Nest
<1> HIDE DEF N, t
<1>3. Prefixes(t) = {p \in Path : IsPrefix(p, t)}
  BY <1>1, PrefixesAre
<1>4. ASSUME NEW q \in DOMAIN v PROVE q \in Path /\ N[t \o q] = v[q]
  <2>1. q \in Path
    BY TreeIs DEF Shape, Named
  <2>2. IsPrefix(t, t \o q) /\ SubSeq(t \o q, Len(t) + 1, Len(t \o q)) = q
    BY <1>1, <2>1, PrefixOfConcat
  <2>3. t \o q \in DOMAIN N
    BY <1>2
  <2>4. QED
    BY <1>2, <2>1, <2>2, <2>3
<1>5. \A p : p \in DOMAIN N <=> (p \in Path /\ IsPrefix(p, t)) \/ \E q \in DOMAIN v : p = t \o q
  BY <1>2, <1>3
<1>6. IsBelow(N, t, v)
  BY <1>2, <1>4, <1>5 DEF IsBelow
<1>7. QED
  BY <1>6 DEF N, t

\* No segment, or an empty one: the value itself.
LEMMA NestOfNothing ==
  ASSUME NEW s \in Path, NEW v, IsTree(v), s = <<>> \/ Head(s) = ""
  PROVE  Nest(s, v) = v
<1> DEFINE N == Nest(s, v)
           t == Stem(s)
<1>1. t = <<>>
  BY StemUnfolds
<1>2. IsBelow(N, t, v)
  BY NestNodes
<1> HIDE DEF N, t
<1>3. /\ N = [p \in DOMAIN N |-> N[p]]
      /\ \A p : p \in DOMAIN N <=> (p \in Path /\ IsPrefix(p, t)) \/ \E q \in DOMAIN v : p = t \o q
      /\ \A q \in DOMAIN v : q \in Path /\ N[t \o q] = v[q]
      /\ \A p \in DOMAIN N : ~ IsPrefix(t, p) => N[p] = Branch
  BY <1>2 DEF IsBelow
<1>4. ASSUME NEW q \in DOMAIN v PROVE t \o q = q
  <2>1. q \in Seq(Word)
    BY <1>3 DEF Path
  <2>2. <<>> \o q = q
    BY <2>1, ConcatEmptySeq
  <2>3. QED
    BY <1>1, <2>2, Zenon
<1>5. <<>> \in DOMAIN v /\ v = [p \in DOMAIN v |-> v[p]]
  BY TreeIs DEF Shape
<1>6. <<>> \in Path /\ \A p \in Path : IsPrefix(p, t) <=> p = <<>>
  BY <1>1, PrefixOrder
<1>7. \A p : p \in DOMAIN N <=> p \in DOMAIN v
  <2>1. ASSUME NEW p PROVE (\E q \in DOMAIN v : p = t \o q) <=> p \in DOMAIN v
    BY <1>4, Zenon
  <2>2. ASSUME NEW p PROVE p \in Path /\ IsPrefix(p, t) <=> p = <<>>
    BY <1>6
  <2>3. QED
    BY <1>3, <1>5, <2>1, <2>2
<1>8. \A p \in DOMAIN v : N[p] = v[p]
  BY <1>4, <1>3
<1>9. DOMAIN N = DOMAIN v
  BY <1>7
<1>10. N = v
  BY <1>3, <1>5, <1>8, <1>9
<1>11. QED
  BY <1>10 DEF N

\* A segment: a dictionary whose only key is that segment.
LEMMA NestBelow ==
  ASSUME NEW s \in Path, NEW v, IsTree(v),
         NEW h \in Word, NEW w \in Path, Stem(s) = <<h>> \o Stem(w)
  PROVE  /\ IsDict(Nest(s, v)) /\ \A g \in Word : <<g>> \in DOMAIN Nest(s, v) <=> g = h
         /\ Child(Nest(s, v), h) = Nest(w, v)
<1> DEFINE u == Stem(w)
           t == Stem(s)
           N == Nest(s, v)
           M == Nest(w, v)
           C == Child(N, h)
           At(p) == <<h>> \o p
<1>1. t = At(u) /\ u \in Path /\ t \in Path
  BY StemIs DEF Named
<1>2. IsBelow(N, t, v) /\ IsBelow(M, u, v)
  BY NestNodes
<1>3. /\ C = [p \in DOMAIN C |-> C[p]]
      /\ \A q : q \in DOMAIN C <=> q \in Path /\ At(q) \in DOMAIN N
      /\ \A q \in DOMAIN C : C[q] = N[At(q)]
  BY DEF Child
<1> HIDE DEF C, N, M, u, t
<1>4. /\ N = [p \in DOMAIN N |-> N[p]]
      /\ \A p : p \in DOMAIN N <=> (p \in Path /\ IsPrefix(p, t)) \/ \E q \in DOMAIN v : p = t \o q
      /\ \A q \in DOMAIN v : q \in Path /\ N[t \o q] = v[q]
      /\ \A p \in DOMAIN N : ~ IsPrefix(t, p) => N[p] = Branch
  BY <1>2 DEF IsBelow
<1>5. /\ M = [p \in DOMAIN M |-> M[p]]
      /\ \A p : p \in DOMAIN M <=> (p \in Path /\ IsPrefix(p, u)) \/ \E q \in DOMAIN v : p = u \o q
      /\ \A q \in DOMAIN v : q \in Path /\ M[u \o q] = v[q]
      /\ \A p \in DOMAIN M : ~ IsPrefix(u, p) => M[p] = Branch
  BY <1>2 DEF IsBelow
<1>6. /\ At(<<>>) = <<h>> /\ <<h>> \in Path /\ <<h>> # <<>> /\ <<>> \in Path
      /\ \A p \in Path : At(p) \in Path /\ At(p) # <<>> /\ IsPrefix(<<h>>, At(p))
      /\ \A p, q \in Path : At(q) = At(p) => q = p
      /\ \A p, q \in Path : IsPrefix(At(q), At(p)) <=> IsPrefix(q, p)
      /\ \A p, r \in Path : IsPrefix(r, At(p)) => r = <<>> \/ \E q \in Path : r = At(q) /\ IsPrefix(q, p)
  <2>1. /\ At(<<>>) = <<h>> /\ <<h>> \in Path /\ <<h>> # <<>>
        /\ \A p \in Path : At(p) \in Path /\ At(p) # <<>>
        /\ \A p, q \in Path : At(q) = At(p) => q = p
        /\ \A p, q \in Path : IsPrefix(At(q), At(p)) <=> IsPrefix(q, p)
        /\ \A p, r \in Path : IsPrefix(r, At(p)) => r = <<>> \/ \E q \in Path : r = At(q) /\ IsPrefix(q, p)
    BY Under
  <2>2. \A p \in Path : IsPrefix(<<h>>, At(p))
    BY <2>1, PrefixOfConcat
  <2> HIDE DEF At
  <2>3. QED
    BY <2>1, <2>2, PrefixOrder
<1>7. \A q \in Path : At(u) \o q = At(u \o q) /\ u \o q \in Path
  <2>1. ASSUME NEW q \in Path PROVE At(u) \o q = At(u \o q)
    <3>1. <<h>> \in Seq(Word) /\ u \in Seq(Word) /\ q \in Seq(Word)
      BY <1>1, <1>6 DEF Path
    <3>2. QED
      BY <3>1, ConcatAssociative
  <2>2. QED
    BY <1>1, <2>1, PrefixOfConcat
<1>8. ASSUME NEW g \in Word, NEW q \in Path, <<g>> = At(q) PROVE g = h
  <2>1. <<g>>[1] = g /\ At(q)[1] = h
    BY DEF Path
  <2>2. QED
    BY <1>8, <2>1
<1> HIDE DEF At
<1>9. IsDict(N)
  <2>1. <<>> \in DOMAIN N
    BY <1>1, <1>4, <1>6, PrefixOrder
  <2>2. ~ IsPrefix(t, <<>>)
    BY <1>1, <1>6, PrefixOrder
  <2>3. QED
    BY <1>4, <2>1, <2>2 DEF IsDict
<1>10. ASSUME NEW g \in Word PROVE <<g>> \in DOMAIN N <=> g = h
  <2>1. ASSUME g = h PROVE <<g>> \in DOMAIN N
    BY <1>1, <1>4, <1>6, <2>1
  <2>2. ASSUME <<g>> \in DOMAIN N PROVE \E q \in Path : <<g>> = At(q)
    <3>1. <<g>> # <<>>
      OBVIOUS
    <3>2. CASE <<g>> \in Path /\ IsPrefix(<<g>>, t)
      BY <1>1, <1>6, <3>1, <3>2
    <3>3. CASE \E q \in DOMAIN v : <<g>> = t \o q
      BY <1>1, <1>4, <1>7, <3>3
    <3>4. QED
      BY <1>4, <2>2, <3>2, <3>3
  <2>3. QED
    BY <1>8, <2>1, <2>2
<1>11. ASSUME NEW q PROVE q \in DOMAIN C <=> q \in DOMAIN M
  <2>1. ASSUME NEW r \in DOMAIN v, q \in Path PROVE At(q) = t \o r <=> q = u \o r
    <3>1. r \in Path /\ t \o r = At(u \o r) /\ u \o r \in Path
      BY <1>1, <1>4, <1>7, Zenon
    <3>2. QED
      BY <1>6, <2>1, <3>1
  <2>2. q \in DOMAIN M => q \in Path
    <3>1. ASSUME NEW r \in DOMAIN v, q = u \o r PROVE q \in Path
      BY <1>4, <1>7, <3>1, Zenon
    <3>2. QED
      BY <1>5, <3>1
  <2>3. q \in Path => (At(q) \in Path /\ (IsPrefix(At(q), t) <=> IsPrefix(q, u)))
    BY <1>1, <1>6
  <2>4. q \in Path => (At(q) \in DOMAIN N <=> q \in DOMAIN M)
    BY <1>4, <1>5, <2>1, <2>3
  <2>5. QED
    BY <1>3, <2>2, <2>4
<1>12. ASSUME NEW q \in DOMAIN C PROVE C[q] = M[q]
  <2>1. q \in DOMAIN M /\ q \in Path /\ C[q] = N[At(q)] /\ At(q) \in DOMAIN N
    BY <1>3, <1>11
  <2>2. CASE \E r \in DOMAIN v : q = u \o r
    <3>1. PICK r \in DOMAIN v : q = u \o r
      BY <2>2
    <3>2. At(q) = t \o r
      BY <1>1, <1>4, <1>7, <3>1
    <3>3. QED
      BY <1>4, <1>5, <2>1, <3>1, <3>2
  <2>3. CASE ~ \E r \in DOMAIN v : q = u \o r
    <3>1. <<>> \in DOMAIN v /\ u \o <<>> = u
      BY <1>1, TreeIs DEF Shape, Path
    <3>2. IsPrefix(q, u) /\ q # u
      BY <1>5, <2>1, <2>3, <3>1
    <3>3. ~ IsPrefix(u, q)
      BY <1>1, <2>1, <3>2, PrefixOrder
    <3>4. ~ IsPrefix(t, At(q))
      BY <1>1, <1>6, <2>1, <3>3
    <3>5. QED
      BY <1>4, <1>5, <2>1, <3>3, <3>4
  <2>4. QED
    BY <2>2, <2>3
<1>13. DOMAIN C = DOMAIN M
  BY <1>11
<1>14. C = M
  BY <1>5, <1>3, <1>12, <1>13
<1>15. QED
  BY <1>9, <1>10, <1>14 DEF C, M, N

-----------------------------------------------------------------------------
(* Results.                                                                *)

\* The dictionary of the source at hand and the data of all sources are always
\* trees in which every key has a name and no table is empty (src/src/datasource),
\* for every registry of sources and every content of them.
THEOREM LayersTyped == Spec => []TypeOK
<1>1. LayersInv => TypeOK
  BY InvStacks
<1>2. QED
  BY <1>1, LayersInvariant, PTL

\* What the templates see is stacked path by path (src/src/cli.rs:116,
\* src/src/datasource/mod.rs:177), whatever the sources, their keys, the order of
\* variables and options, and the sources that are skipped.
THEOREM LayersAlwaysStack == Spec => []LayersStack
<1>1. LayersInv => LayersStack
  BY InvStacks
<1>2. QED
  BY <1>1, LayersInvariant, PTL

\* Merge satisfies the equations of Coalescible::merge (src/src/datasource/k8s.rs:261)
\* for all trees: of two values that are not both dictionaries the second one stays,
\* and two dictionaries are merged key by key, a key of both having the merge of
\* what it has in each.
THEOREM MergeUnfolds ==
  ASSUME NEW a, NEW b, IsTree(a), IsTree(b)
  PROVE  /\ ~ (IsDict(a) /\ IsDict(b)) => Merge(a, b) = b
         /\ IsDict(a) /\ IsDict(b) =>
              /\ IsTree(Merge(a, b)) /\ IsDict(Merge(a, b))
              /\ KeysOf(Merge(a, b)) = KeysOf(a) \union KeysOf(b)
              /\ \A h \in KeysOf(a) \ KeysOf(b) : Child(Merge(a, b), h) = Child(a, h)
              /\ \A h \in KeysOf(b) \ KeysOf(a) : Child(Merge(a, b), h) = Child(b, h)
              /\ \A h \in KeysOf(a) \intersect KeysOf(b) :
                   Child(Merge(a, b), h) = Merge(Child(a, h), Child(b, h))
<1>1. ~ (IsDict(a) /\ IsDict(b)) => Merge(a, b) = b
  BY MergeOfLeaf
<1>2. ASSUME IsDict(a), IsDict(b)
      PROVE  /\ IsTree(Merge(a, b)) /\ IsDict(Merge(a, b))
             /\ KeysOf(Merge(a, b)) = KeysOf(a) \union KeysOf(b)
             /\ \A h \in KeysOf(a) \ KeysOf(b) : Child(Merge(a, b), h) = Child(a, h)
             /\ \A h \in KeysOf(b) \ KeysOf(a) : Child(Merge(a, b), h) = Child(b, h)
             /\ \A h \in KeysOf(a) \intersect KeysOf(b) :
                  Child(Merge(a, b), h) = Merge(Child(a, h), Child(b, h))
  <2>1. IsTree(Merge(a, b)) /\ IsDict(Merge(a, b))
    BY <1>2, MergeOfTrees
  <2>2. \A h \in Word : <<h>> \in DOMAIN Merge(a, b) <=> <<h>> \in DOMAIN a \/ <<h>> \in DOMAIN b
    BY <1>2, MergeBelow
  <2>3. KeysOf(Merge(a, b)) = KeysOf(a) \union KeysOf(b)
    BY <2>2 DEF KeysOf
  <2>4. \A h \in KeysOf(a) \ KeysOf(b) : Child(Merge(a, b), h) = Child(a, h)
    BY <1>2, MergeBelow DEF KeysOf
  <2>5. \A h \in KeysOf(b) \ KeysOf(a) : Child(Merge(a, b), h) = Child(b, h)
    BY <1>2, MergeBelow DEF KeysOf
  <2>6. \A h \in KeysOf(a) \intersect KeysOf(b) : Child(Merge(a, b), h) = Merge(Child(a, h), Child(b, h))
    BY <1>2, MergeBelow DEF KeysOf
  <2>7. QED
    BY <2>1, <2>3, <2>4, <2>5, <2>6
<1>3. QED
  BY <1>1, <1>2

\* Nest satisfies the equations of figment's nest, which the sources call with the
\* segments of a name (src/src/datasource/k8s.rs:124), for all trees: up to an empty
\* segment each one is the only key of a dictionary that has what the rest nests to.
THEOREM NestUnfolds ==
  ASSUME NEW s \in Path, NEW v, IsTree(v)
  PROVE  /\ s = <<>> \/ Head(s) = "" => Nest(s, v) = v
         /\ s # <<>> /\ Head(s) # "" =>
              /\ IsDict(Nest(s, v)) /\ KeysOf(Nest(s, v)) = {Head(s)}
              /\ Child(Nest(s, v), Head(s)) = Nest(Tail(s), v)
<1>1. s = <<>> \/ Head(s) = "" => Nest(s, v) = v
  BY NestOfNothing
<1>2. ASSUME s # <<>>, Head(s) # ""
      PROVE  IsDict(Nest(s, v)) /\ KeysOf(Nest(s, v)) = {Head(s)} /\ Child(Nest(s, v), Head(s)) = Nest(Tail(s), v)
  <2>1. Head(s) \in Word
    BY <1>2, PathSplits
  <2>0. Tail(s) \in Path /\ Stem(s) = <<Head(s)>> \o Stem(Tail(s))
    BY <1>2, PathSplits, StemUnfolds
  <2>2. /\ IsDict(Nest(s, v)) /\ Child(Nest(s, v), Head(s)) = Nest(Tail(s), v)
        /\ \A g \in Word : <<g>> \in DOMAIN Nest(s, v) <=> g = Head(s)
    BY <2>0, <2>1, NestBelow
  <2>3. KeysOf(Nest(s, v)) = {Head(s)}
    BY <2>1, <2>2 DEF KeysOf
  <2>4. QED
    BY <2>2, <2>3
<1>3. QED
  BY <1>1, <1>2

\* Two dictionaries with the same keys that have the same values are the same: what
\* MergeUnfolds says of the keys of a merge and of what they have determines it.
THEOREM DictsAreEqual ==
  ASSUME NEW v, IsTree(v), IsDict(v), NEW w, IsTree(w), IsDict(w),
         KeysOf(v) = KeysOf(w), \A h \in KeysOf(v) : Child(v, h) = Child(w, h)
  PROVE  v = w
BY DictIsItsChildren
=============================================================================
