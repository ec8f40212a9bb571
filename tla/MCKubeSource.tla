----------------------------- MODULE MCKubeSource -----------------------------
(* KubeSource on small sets, for TLC.  A policy name is a sequence of          *)
(* character codes: digits are 0 to 9, 10 is the letter a.                     *)
EXTENDS KubeSource

A == <<10>>
A1 == <<10, 1>>

JustA == {A}
AAndA1 == {A, A1}

\* slices.Sort orders the names.
ByName(p, q) == p = A /\ q # A
=============================================================================
