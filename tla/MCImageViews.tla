----------------------------- MODULE MCImageViews -----------------------------
(***************************************************************************)
(* An instance of ImageViews for TLC: two results whose URLs end in the    *)
(* same file name, a page with two images and one without.                 *)
(***************************************************************************)
EXTENDS ImageViews, TLC

CONSTANTS i1, i2, d1, d2, e1, e2, p1, p2, cover

SameName == [i \in Item |-> cover]

OnFirstPage == [e \in Img |-> p1]

\* The two of each kind are alike.
Alike == Permutations({i1, i2}) \cup Permutations({d1, d2}) \cup Permutations({e1, e2})
=============================================================================
