------------------------------ MODULE MCAssistant ------------------------------
(***************************************************************************)
(* Instances of Assistant for TLC.                                         *)
(***************************************************************************)
EXTENDS Assistant, TLC

CONSTANTS t1, t2, i1, s1

\* Two albums somebody may delete from the list, and nil.
TwoAlbums == {{t1}, {t2}, {}, NoTracks}

\* One album, likewise.
OneAlbumOrNone == {{t1}, {}, NoTracks}

OneTitle == [list \in {{t1}} |-> s1]

\* The titles of both albums, cleaned, are empty: nothing is searched for.
Untitled == [list \in {{t1}, {t2}} |-> NoTitle]

\* The albums are alike.
Alike == Permutations({t1, t2})
===============================================================================
