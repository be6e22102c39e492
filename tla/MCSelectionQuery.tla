-------------------------- MODULE MCSelectionQuery --------------------------
(***************************************************************************)
(* An instance of SelectionQuery for TLC.                                  *)
(***************************************************************************)
EXTENDS SelectionQuery, SequencesExt

CONSTANTS t1, t2, t3, t4

\* Any titles; the last track may be in another container; one may be a stream.
SomeLibraries ==
    {[album |-> a, container |-> [t \in Track |-> IF t = t4 THEN c ELSE "Library"],
      isFile |-> [t \in Track |-> t # stream]] :
        a \in [Track -> Album \cup {NoAlbum}], c \in {"Library", "Playlist"},
        stream \in {t1, t4, NoAlbum}}

\* Up to three tracks in any order.
SomeSelections == UNION {SetToSeqs(S) : S \in {T \in SUBSET Track : Cardinality(T) <= 3}}
=============================================================================
