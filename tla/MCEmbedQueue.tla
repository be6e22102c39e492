----------------------------- MODULE MCEmbedQueue -----------------------------
(***************************************************************************)
(* Instances of EmbedQueue for TLC.  The definitions at the end state what *)
(* the repository's documents say of the queue; they are checked by runs   *)
(* that show the code doing otherwise.                                     *)
(***************************************************************************)
EXTENDS EmbedQueue

CONSTANTS t1, t2, i1, i2

\* Two overlapping albums.
Overlapping == {{t1}, {t1, t2}}

\* The same, and the two lists no title can be taken from.
AnyList == Overlapping \cup {{}, NoTracks}

OneAlbum == {{t1, t2}}

OneAlbumOrEmpty == {{t1, t2}, {}}

(***************************************************************************)
(* release-notes.html: "The application now stores the queue contents      *)
(* every time an item is added, deleted or processed".  Added: a group     *)
(* with all its attributes is on disk as soon as it is in the queue.       *)
(***************************************************************************)
AddedGroupsAreStored == running => {g \in context : WellFormed(g)} \subseteq store

(***************************************************************************)
(* The same sentence.  Deleted: a group that was removed from the queue is *)
(* not on disk any more.                                                   *)
(***************************************************************************)
DeletedGroupsAreNotStored == running => store \cap discarded = {}
===============================================================================
