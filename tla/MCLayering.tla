----------------------------- MODULE MCLayering -----------------------------
(***************************************************************************)
(* Instances of Layering for TLC: names and how they are split.            *)
(***************************************************************************)
EXTENDS LayeringTrees

\* Two spellings of one path, one above them, and one with an empty segment.
FourNames == <<"A", "A_X", "_A", "a.x">>

Splits == ("A" :> <<"a">>) @@ ("A_X" :> <<"a", "x">>) @@ ("_A" :> <<"", "a">>) @@ ("a.x" :> <<"a", "x">>)

BareName == <<"_A">>
=============================================================================
