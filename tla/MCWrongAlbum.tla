----------------------------- MODULE MCWrongAlbum -----------------------------
(***************************************************************************)
(* What the help says of the track list.  It relates an image that arrives *)
(* to the list at the time it was chosen, which the application does not   *)
(* keep: a history variable does.                                          *)
(***************************************************************************)
EXTENDS MCAssistantSession

VARIABLE asked      \* history: the track list when the user chose the image of each request

AskedInit == Init /\ asked = [n \in 1..MaxRequests |-> NoTracks]

AskedNext ==
    /\ Next
    /\ asked' = IF requests' > requests THEN [asked EXCEPT ![requests'] = tracks] ELSE asked

AskedSpec == AskedInit /\ [][AskedNext]_<<vars, asked>>

(***************************************************************************)
(* The help on the track list: "These are the tracks that will be          *)
(* modified".  An image that was asked for while an album was listed goes  *)
(* to tracks of that album only.                                           *)
(***************************************************************************)
ImageGoesToTheAlbumItWasChosenFor ==
    [][\A j \in Finished :
           j.phase = "loaded" /\ asked[j.n] \notin {NoTracks, {}}
             => tracks \subseteq asked[j.n]]_<<vars, asked>>
===============================================================================
