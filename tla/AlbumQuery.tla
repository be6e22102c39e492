------------------------------ MODULE AlbumQuery ------------------------------
(***************************************************************************)
(* What "Get Albums" asks iTunes for, without saying how it is found: one  *)
(* question about the selected tracks, and one answer.                     *)
(*                                                                         *)
(*  - The answer lists the tracks of the albums the selection names, each  *)
(*    once.                                                                *)
(*  - Albums come in the order in which the selection names them, so that  *)
(*    the first track of the list stands for the first album selected.     *)
(*  - Instead of an answer there may be an error, and then no list at all. *)
(***************************************************************************)
EXTENDS Naturals, Sequences, Functions

CONSTANTS
    Track, NoAlbum, Libraries, Selections

VARIABLES
    itunes,         \* what iTunes holds: the album, container and class of a track
    selection,
    outcome,        \* "running", "returned" or "failed"
    answer

vars == <<itunes, selection, outcome, answer>>

\* A file track with a title names its album.
Names(t) == itunes.isFile[t] /\ itunes.album[t] # NoAlbum

Wanted ==
    {t \in Track : \E i \in DOMAIN selection :
        /\ Names(selection[i])
        /\ itunes.album[t] = itunes.album[selection[i]]
        /\ itunes.container[t] = itunes.container[selection[i]]}

\* Whatever selected track names the album of a later track of the list, one not
\* behind it names the album of an earlier one.
InOrderOfSelection(list) ==
    \A i, j \in DOMAIN list : i < j =>
        \A n \in DOMAIN selection :
            Names(selection[n]) /\ itunes.album[selection[n]] = itunes.album[list[j]]
              => \E m \in 1..n : /\ Names(selection[m])
                                 /\ itunes.album[selection[m]] = itunes.album[list[i]]

Init ==
    /\ itunes \in Libraries
    /\ selection \in Selections
    /\ outcome = "running"
    /\ answer = <<>>

Answer ==
    /\ outcome = "running"
    /\ outcome' = "returned"
    /\ answer' \in Seq(Track)
    /\ Range(answer') = Wanted
    /\ IsInjective(answer')
    /\ InOrderOfSelection(answer')
    /\ UNCHANGED <<itunes, selection>>

Refuse ==
    /\ outcome = "running"
    /\ outcome' = "failed"
    /\ UNCHANGED <<itunes, selection, answer>>

Next == Answer \/ Refuse

Spec == Init /\ [][Next]_vars
===============================================================================
