--------------------------- MODULE UpdateOperation ---------------------------
(***************************************************************************)
(* One run of UpdateOperation's -main: the image is written to a temporary *)
(* file and the embed-artwork script sets it as artwork 1 of every track,  *)
(* one track after the other.  The state of iTunes is  art, a function     *)
(* that gives every track its artwork.                                     *)
(*                                                                         *)
(* The module has no variables: it says what one run may do to  art  and   *)
(* which answer -didComplete may then give.  Both users of the class, the  *)
(* queue and the "Add Immediately" command, take a step from here.         *)
(***************************************************************************)
CONSTANTS
    Track,      \* the tracks of the iTunes library
    Image,      \* the image files found on the Internet
    NoArt,      \* artwork of a track that has none
    NoImage     \* nil in place of an image's data

ASSUME ImageAssumption == NoArt \notin Image /\ NoImage \notin Image

Artwork == Image \cup {NoArt}

(***************************************************************************)
(* The script's loop reached the tracks in  done: it sets the data of      *)
(* artwork 1 of each and leaves the other tracks alone.                    *)
(***************************************************************************)
EmbedArtwork(art, done, image) ==
    [t \in Track |-> IF t \in done THEN image ELSE art[t]]

(***************************************************************************)
(* The two checks in front of the script.  Without image data no temporary *)
(* file is written and -main throws; with an empty track list the album    *)
(* title in the status message raises.  Both are caught, and the operation *)
(* did not complete.                                                       *)
(***************************************************************************)
ReachesScript(tracks, image) == image # NoImage /\ tracks # {}

Outcomes_CompleteFirst(tracks, image) ==  \* mutant: didComplete is set before the script runs
    [done : SUBSET tracks, didComplete : {ReachesScript(tracks, image)}]

(***************************************************************************)
(* What -main may do: the tracks that got the image, and -didComplete.     *)
(* The script may fail at any track (deleted in iTunes, an Apple event     *)
(* that is not answered in time although iTunes executes it), the order of *)
(* the tracks of a group is not specified, and nothing undoes the tracks   *)
(* that were done.  didComplete is set only after the script returned      *)
(* without an error.                                                       *)
(***************************************************************************)
Outcomes(tracks, image) ==
    IF ReachesScript(tracks, image)
      THEN [done : {tracks}, didComplete : {TRUE}]
             \cup [done : SUBSET tracks, didComplete : {FALSE}]
      ELSE [done : {{}}, didComplete : {FALSE}]

(***************************************************************************)
(* Every track of the list carries the image.                              *)
(***************************************************************************)
AllCarry(art, tracks, image) == \A t \in tracks : art[t] = image
=============================================================================
