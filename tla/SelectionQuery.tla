---------------------------- MODULE SelectionQuery ----------------------------
(***************************************************************************)
(* fetch-selection-info.applescript: which tracks "Get Albums" lists for   *)
(* the tracks that are selected in iTunes.                                 *)
(*                                                                         *)
(* One step is one pass of the script's loop over the selection.  Titles   *)
(* that AppleScript takes for equal are one value of Album.  iTunes does   *)
(* not change while the script runs, but may fail to answer at any event.  *)
(***************************************************************************)
EXTENDS Naturals, Sequences, FiniteSets, Functions

CONSTANTS
    Track,          \* the tracks iTunes knows, each in one container
    Album,          \* album titles
    NoAlbum,        \* the empty title
    Libraries,      \* what iTunes may hold
    Selections      \* the selections of a window

Library(L) == L \in [album     : [Track -> Album \cup {NoAlbum}],
                     container : [Track -> {"Library", "Playlist"}],
                     isFile    : [Track -> BOOLEAN]]

ASSUME TracksAssumption == IsFiniteSet(Track)

ASSUME LibraryAssumption == NoAlbum \notin Album /\ \A L \in Libraries : Library(L)

ASSUME SelectionAssumption == Selections \subseteq Seq(Track)

VARIABLES
    itunes,         \* the library
    selection,
    next,           \* the loop is at this track of the selection
    myAlbums,       \* titles the loop has met
    myTracks,       \* the list so far
    outcome         \* "running", "returned" or "failed"

vars == <<itunes, selection, next, myAlbums, myTracks, outcome>>

\* A window shows one container: what is selected in it is in that container.
Init ==
    /\ itunes \in Libraries
    /\ selection \in Selections
    /\ \A i, j \in DOMAIN selection : itunes.container[selection[i]] = itunes.container[selection[j]]
    /\ next = 1
    /\ myAlbums = {}
    /\ myTracks = <<>>
    /\ outcome = "running"

myTrack == selection[next]
myalbum == itunes.album[myTrack]

\* The pass looks up an album; others leave the lists alone.
NamesNewAlbum_TakesUnnamed == itunes.isFile[myTrack] /\ myalbum \notin myAlbums  \* mutant: "" is a title

NamesNewAlbum == itunes.isFile[myTrack] /\ myalbum # NoAlbum /\ myalbum \notin myAlbums

\* tracks of mycontainer whose album is myalbum: of any kind, in the container's order.
Mates_OneTrack(t) == {t}  \* mutant: the selected track in place of its album

Mates(t) == {u \in Track : /\ itunes.container[u] = itunes.container[t]
                           /\ itunes.album[u] = itunes.album[t]}

ListAlbum_Again ==  \* mutant: the title is not remembered
    /\ NamesNewAlbum
    /\ myAlbums' = myAlbums
    /\ \E order \in Bijection(1..Cardinality(Mates(myTrack)), Mates(myTrack)) :
           myTracks' = myTracks \o order

ListAlbum_InFront ==  \* mutant: the album goes to the beginning of the list
    /\ NamesNewAlbum
    /\ myAlbums' = myAlbums \cup {myalbum}
    /\ \E order \in Bijection(1..Cardinality(Mates(myTrack)), Mates(myTrack)) :
           myTracks' = order \o myTracks

ListAlbum ==
    /\ NamesNewAlbum
    /\ myAlbums' = myAlbums \cup {myalbum}
    /\ \E order \in Bijection(1..Cardinality(Mates(myTrack)), Mates(myTrack)) :
           myTracks' = myTracks \o order

SkipTrack == ~NamesNewAlbum /\ UNCHANGED <<myAlbums, myTracks>>

LoopPass ==
    /\ outcome = "running" /\ next <= Len(selection)
    /\ next' = next + 1
    /\ ListAlbum \/ SkipTrack
    /\ UNCHANGED <<itunes, selection, outcome>>

Return_BeforeLast ==  \* mutant: the loop leaves out the last selected track
    /\ outcome = "running" /\ next >= Len(selection)
    /\ outcome' = "returned"
    /\ UNCHANGED <<itunes, selection, next, myAlbums, myTracks>>

Return ==
    /\ outcome = "running" /\ next > Len(selection)
    /\ outcome' = "returned"
    /\ UNCHANGED <<itunes, selection, next, myAlbums, myTracks>>

Fail ==
    /\ outcome = "running"
    /\ outcome' = "failed"
    /\ UNCHANGED <<itunes, selection, next, myAlbums, myTracks>>

Next == LoopPass \/ Return \/ Fail

Spec == Init /\ [][Next]_vars

-----------------------------------------------------------------------------
\* A selected track the script takes into account.
Named(t) == itunes.isFile[t] /\ itunes.album[t] # NoAlbum

(***************************************************************************)
(* Every track of a selected track's container that has its album title.   *)
(* This is narrower than what the help promises of a selection in a        *)
(* playlist ("all tracks that share the album title"): the script looks no *)
(* further than the container, so tracks of the album outside the playlist *)
(* are not listed.  In the library itself the two agree.                   *)
(***************************************************************************)
Expected ==
    {t \in Track : \E i \in DOMAIN selection :
        /\ Named(selection[i])
        /\ itunes.album[t] = itunes.album[selection[i]]
        /\ itunes.container[t] = itunes.container[selection[i]]}

\* Types.
TypeOK ==
    /\ itunes \in Libraries
    /\ selection \in Selections
    /\ next \in 1..(Len(selection) + 1)
    /\ myAlbums \subseteq Album
    /\ myTracks \in Seq(Track)
    /\ outcome \in {"running", "returned", "failed"}

(***************************************************************************)
(* What is returned are the tracks of the albums of the selected file      *)
(* tracks, as far as they are in the container they were selected in, and  *)
(* no others, however many tracks of an album, or tracks that name none,   *)
(* are selected and in whichever order.                                    *)
(***************************************************************************)
ListsSelectedAlbums ==
    outcome = "returned" => Range(myTracks) = Expected

(***************************************************************************)
(* No track is listed twice, also when several tracks of an album are      *)
(* selected: the script would set its artwork as often.                    *)
(***************************************************************************)
ListsTracksOnce == IsInjective(myTracks)

(***************************************************************************)
(* The first track of the list, which names the search and the group, is   *)
(* of the album of the first selected track that names one.                *)
(***************************************************************************)
FirstAlbumFirst ==
    \A i \in 1..(next - 1) :
        /\ Named(selection[i])
        /\ \A j \in 1..(i - 1) : ~Named(selection[j])
        => myTracks # <<>> /\ itunes.album[myTracks[1]] = itunes.album[selection[i]]

(***************************************************************************)
(* The loop, its list of titles and its appended lists are one question to *)
(* iTunes and one answer: what the caller sees is the list at the end, or  *)
(* nothing.                                                                *)
(***************************************************************************)
Query == INSTANCE AlbumQuery
           WITH answer <- IF outcome = "returned" THEN myTracks ELSE <<>>

(***************************************************************************)
(* Every pass of the loop leaves the answer open, and the end of the       *)
(* script gives one that a single look at the selection could have given:  *)
(* albums complete, no track twice, in the order of the selection.         *)
(***************************************************************************)
ImplementsAlbumQuery == Query!Spec
===============================================================================
