------------------------- MODULE SelectionQuery_proofs -------------------------
(***************************************************************************)
(* Theorems about SelectionQuery, for any library and selection.           *)
(***************************************************************************)
EXTENDS SelectionQuery, FiniteSetTheorems, SequenceTheorems, TLAPS

\* The order in which iTunes answers lists exactly the tracks asked for, once.
LEMMA Ordered ==
    ASSUME NEW S \in SUBSET Track, NEW order \in Bijection(1..Cardinality(S), S)
    PROVE  /\ order \in Seq(Track)
           /\ Len(order) = Cardinality(S)
           /\ \A i \in 1..Len(order) : order[i] \in S
           /\ \A t \in S : \E i \in 1..Len(order) : order[i] = t
           /\ \A i, j \in 1..Len(order) : order[i] = order[j] => i = j
  <1>1. Cardinality(S) \in Nat
    BY TracksAssumption, FS_Subset, FS_CardinalityType
  <1>2. /\ order \in [1..Cardinality(S) -> S]
        /\ IsInjective(order)
        /\ \A t \in S : \E i \in 1..Cardinality(S) : order[i] = t
    BY DEF Bijection, Injection, Surjection
  <1>3. order \in Seq(Track) /\ Len(order) = Cardinality(S)
    BY <1>1, <1>2
  <1> QED
    BY <1>1, <1>2, <1>3 DEF IsInjective

\* Lists of distinct tracks that share none can be joined.
LEMMA Joined ==
    ASSUME NEW s \in Seq(Track), NEW o \in Seq(Track),
           \A i, j \in 1..Len(s) : s[i] = s[j] => i = j,
           \A i, j \in 1..Len(o) : o[i] = o[j] => i = j,
           \A i \in 1..Len(s), j \in 1..Len(o) : s[i] # o[j]
    PROVE  \A i, j \in 1..Len(s \o o) : (s \o o)[i] = (s \o o)[j] => i = j
  <1>1. /\ Len(s \o o) = Len(s) + Len(o)
        /\ Len(s) \in Nat /\ Len(o) \in Nat
        /\ \A i \in 1..Len(s \o o) :
               (s \o o)[i] = IF i <= Len(s) THEN s[i] ELSE o[i - Len(s)]
    OBVIOUS
  <1> SUFFICES ASSUME NEW i \in 1..Len(s \o o), NEW j \in 1..Len(s \o o),
                      (s \o o)[i] = (s \o o)[j]
               PROVE  i = j
    OBVIOUS
  <1>2. CASE i <= Len(s) /\ j <= Len(s)
    BY <1>1, <1>2
  <1>3. CASE i > Len(s) /\ j > Len(s)
    <2>1. i - Len(s) \in 1..Len(o) /\ j - Len(s) \in 1..Len(o)
      BY <1>1, <1>3
    <2>2. i - Len(s) = j - Len(s)
      BY <1>1, <1>3, <2>1
    <2> QED
      BY <1>1, <2>2
  <1>4. CASE i <= Len(s) /\ j > Len(s)
    <2>1. i \in 1..Len(s) /\ j - Len(s) \in 1..Len(o)
      BY <1>1, <1>4
    <2> QED
      BY <1>1, <1>4, <2>1
  <1>5. CASE i > Len(s) /\ j <= Len(s)
    <2>1. j \in 1..Len(s) /\ i - Len(s) \in 1..Len(o)
      BY <1>1, <1>5
    <2> QED
      BY <1>1, <1>5, <2>1
  <1> QED
    BY <1>1, <1>2, <1>3, <1>4, <1>5

-----------------------------------------------------------------------------
LEMMA LibraryTypes ==
    ASSUME TypeOK
    PROVE  /\ itunes.album \in [Track -> Album \cup {NoAlbum}]
           /\ selection \in Seq(Track)
           /\ Len(selection) \in Nat
           /\ next \in Nat \ {0}
           /\ outcome = "running" /\ next <= Len(selection) => myTrack \in Track
  <1>1. Library(itunes)
    BY LibraryAssumption DEF TypeOK
  <1>2. selection \in Seq(Track)
    BY SelectionAssumption DEF TypeOK
  <1>3. next \in 1..(Len(selection) + 1)
    BY DEF TypeOK
  <1> QED
    BY <1>1, <1>2, <1>3 DEF Library, myTrack

LEMMA SelectionTypes == TypeOK /\ [Next]_vars => TypeOK'
  <1> SUFFICES ASSUME TypeOK, [Next]_vars PROVE TypeOK'
    OBVIOUS
  <1> USE LibraryTypes
  <1>1. CASE LoopPass
    <2>1. UNCHANGED <<itunes, selection, outcome>> /\ next' \in 1..(Len(selection) + 1)
      BY <1>1 DEF LoopPass, TypeOK
    <2>2. myTrack \in Track
      BY <1>1 DEF LoopPass
    <2>3. CASE ListAlbum
      <3>1. myalbum \in Album
        BY <2>2, <2>3 DEF ListAlbum, NamesNewAlbum, myalbum
      <3>2. PICK order \in Bijection(1..Cardinality(Mates(myTrack)), Mates(myTrack)) :
               myTracks' = myTracks \o order
        BY <2>3 DEF ListAlbum
      <3>3. order \in Seq(Track)
        BY <3>2, Ordered DEF Mates
      <3>4. myTracks' \in Seq(Track)
        BY <3>2, <3>3, ConcatProperties DEF TypeOK
      <3>5. myAlbums' \subseteq Album
        BY <2>3, <3>1 DEF ListAlbum, TypeOK
      <3> QED
        BY <2>1, <3>4, <3>5 DEF TypeOK
    <2>4. CASE SkipTrack
      BY <2>1, <2>4 DEF SkipTrack, TypeOK
    <2> QED
      BY <1>1, <2>3, <2>4 DEF LoopPass
  <1>2. CASE Return
    BY <1>2 DEF Return, TypeOK
  <1>3. CASE Fail
    BY <1>3 DEF Fail, TypeOK
  <1>4. CASE UNCHANGED vars
    BY <1>4 DEF vars, TypeOK
  <1> QED
    BY <1>1, <1>2, <1>3, <1>4 DEF Next

\* The script's lists hold tracks and titles, and its loop stays in the selection.
THEOREM SelectionTypeCorrect == Spec => []TypeOK
  <1>1. ASSUME Init PROVE TypeOK
    <2>1. selection \in Seq(Track)
      BY <1>1, SelectionAssumption DEF Init
    <2>2. 1 \in 1..(Len(selection) + 1) /\ <<>> \in Seq(Track)
      BY <2>1
    <2> QED
      BY <1>1, <2>2 DEF Init, TypeOK
  <1> QED
    BY <1>1, SelectionTypes, PTL DEF Spec

-----------------------------------------------------------------------------
(***************************************************************************)
(* The loop's invariant: the titles met are those of the selected tracks   *)
(* passed, and the list is what iTunes has of them in the selection's      *)
(* container, each track once, the first title's tracks first.             *)
(***************************************************************************)
OneContainer ==
    \A i, j \in 1..Len(selection) :
        itunes.container[selection[i]] = itunes.container[selection[j]]

PassedTitles ==
    /\ \A i \in 1..(next - 1) : Named(selection[i]) => itunes.album[selection[i]] \in myAlbums
    /\ \A a \in myAlbums : \E i \in 1..(next - 1) :
           Named(selection[i]) /\ itunes.album[selection[i]] = a

Here(t) == \A i \in 1..Len(selection) : itunes.container[t] = itunes.container[selection[i]]

Lists(list, t) == \E k \in 1..Len(list) : list[k] = t

ListIsOfTitles ==
    \A t \in Track : Lists(myTracks, t) <=> itunes.album[t] \in myAlbums /\ Here(t)

Distinct(list) == \A i, j \in 1..Len(list) : list[i] = list[j] => i = j

QueryInv ==
    /\ OneContainer
    /\ PassedTitles
    /\ ListIsOfTitles
    /\ Distinct(myTracks)
    /\ FirstAlbumFirst
    /\ outcome = "returned" => next = Len(selection) + 1

\* Listing an album adds its tracks in the selection's container, none of them listed before.
LEMMA ListingIsSound ==
    ASSUME TypeOK, QueryInv, outcome = "running", next <= Len(selection),
           next' = next + 1, UNCHANGED <<itunes, selection, outcome>>, ListAlbum
    PROVE  QueryInv'
  <1> DEFINE mates == Mates(myTrack)
  <1>1. /\ myTrack \in Track /\ myTrack = selection[next] /\ next \in 1..Len(selection)
        /\ selection \in Seq(Track) /\ Len(selection) \in Nat /\ next \in Nat
        /\ myTracks \in Seq(Track) /\ Len(myTracks) \in Nat
    BY LibraryTypes DEF TypeOK, myTrack
  <1>2. /\ Named(selection[next]) /\ myalbum = itunes.album[selection[next]]
        /\ myalbum \notin myAlbums
        /\ myAlbums' = myAlbums \cup {myalbum}
    BY DEF ListAlbum, NamesNewAlbum, Named, myalbum, myTrack
  <1>3. PICK order \in Bijection(1..Cardinality(mates), mates) : myTracks' = myTracks \o order
    BY DEF ListAlbum
  <1>4. mates \in SUBSET Track /\ myTrack \in mates
    BY <1>1 DEF Mates
  <1>5. /\ order \in Seq(Track) /\ Len(order) \in Nat
        /\ \A i \in 1..Len(order) : order[i] \in mates
        /\ \A t \in mates : \E i \in 1..Len(order) : order[i] = t
        /\ \A i, j \in 1..Len(order) : order[i] = order[j] => i = j
    <2> HIDE DEF mates
    <2>1. order \in Seq(Track) => Len(order) \in Nat
      OBVIOUS
    <2> QED
      BY <1>3, <1>4, <2>1, Ordered
  <1>a. /\ Len(myTracks') = Len(myTracks) + Len(order)
        /\ \A i \in 1..(Len(myTracks) + Len(order)) :
               myTracks'[i] = IF i <= Len(myTracks) THEN myTracks[i] ELSE order[i - Len(myTracks)]
    BY <1>1, <1>3, <1>5, ConcatProperties
  <1> HIDE DEF mates
  <1>b. \A i \in 1..Len(myTracks) : i \in 1..Len(myTracks') /\ myTracks'[i] = myTracks[i]
    BY <1>1, <1>5, <1>a
  <1>c. \A i \in 1..Len(order) :
           Len(myTracks) + i \in 1..Len(myTracks') /\ myTracks'[Len(myTracks) + i] = order[i]
    <2> SUFFICES ASSUME NEW i \in 1..Len(order)
                 PROVE  /\ Len(myTracks) + i \in 1..Len(myTracks')
                        /\ myTracks'[Len(myTracks) + i] = order[i]
      OBVIOUS
    <2>1. /\ Len(myTracks) + i \in 1..(Len(myTracks) + Len(order))
          /\ ~(Len(myTracks) + i <= Len(myTracks))
          /\ (Len(myTracks) + i) - Len(myTracks) = i
      BY <1>1, <1>5
    <2> QED
      BY <1>a, <2>1
  <1>d. \A i \in 1..Len(myTracks') :
           \/ i \in 1..Len(myTracks)
           \/ i - Len(myTracks) \in 1..Len(order) /\ myTracks'[i] = order[i - Len(myTracks)]
    BY <1>1, <1>5, <1>a
  <1>6. /\ Len(myTracks') = Len(myTracks) + Len(order)
        /\ \A i \in 1..Len(myTracks) : i \in 1..Len(myTracks') /\ myTracks'[i] = myTracks[i]
        /\ \A i \in 1..Len(order) :
               Len(myTracks) + i \in 1..Len(myTracks') /\ myTracks'[Len(myTracks) + i] = order[i]
        /\ \A i \in 1..Len(myTracks') :
               \/ i \in 1..Len(myTracks)
               \/ i - Len(myTracks) \in 1..Len(order) /\ myTracks'[i] = order[i - Len(myTracks)]
    BY <1>a, <1>b, <1>c, <1>d
  <1>7. \A t \in Track : t \in mates <=> itunes.album[t] = myalbum /\ Here(t)
    BY <1>1, <1>2 DEF mates, Mates, Here, QueryInv, OneContainer
  <1>8. OneContainer'
    BY DEF QueryInv, OneContainer
  <1>9. PassedTitles'
    <2>1. \A i \in 1..(next' - 1) : i \in 1..(next - 1) \/ i = next
      BY <1>1
    <2>2. \A i \in 1..(next - 1) : i \in 1..(next' - 1)
      BY <1>1
    <2>3. next \in 1..(next' - 1)
      BY <1>1
    <2>4. \A i \in 1..(next' - 1) :
             Named(selection[i]) => itunes.album[selection[i]] \in myAlbums'
      BY <1>2, <2>1 DEF QueryInv, PassedTitles
    <2>5. ASSUME NEW a \in myAlbums'
          PROVE  \E i \in 1..(next' - 1) : Named(selection[i]) /\ itunes.album[selection[i]] = a
      <3>1. CASE a = myalbum
        BY <1>2, <2>3, <3>1
      <3>2. CASE a \in myAlbums
        BY <2>2, <3>2 DEF QueryInv, PassedTitles
      <3> QED
        BY <1>2, <3>1, <3>2
    <2> QED
      BY <2>4, <2>5 DEF PassedTitles, Named
  <1>10. ASSUME NEW t \in Track
         PROVE  Lists(myTracks', t) <=> itunes.album[t] \in myAlbums' /\ Here(t)
    <2>1. Lists(myTracks', t) <=> Lists(myTracks, t) \/ t \in mates
      <3>1. Lists(myTracks, t) => Lists(myTracks', t)
        BY <1>6 DEF Lists
      <3>2. t \in mates => Lists(myTracks', t)
        BY <1>5, <1>6 DEF Lists
      <3>3. ASSUME Lists(myTracks', t) PROVE Lists(myTracks, t) \/ t \in mates
        <4>1. PICK k \in 1..Len(myTracks') : myTracks'[k] = t
          BY <3>3 DEF Lists
        <4>2. CASE k \in 1..Len(myTracks)
          BY <1>6, <4>1, <4>2 DEF Lists
        <4>3. CASE k - Len(myTracks) \in 1..Len(order) /\ myTracks'[k] = order[k - Len(myTracks)]
          BY <1>5, <4>1, <4>3
        <4> QED
          BY <1>6, <4>1, <4>2, <4>3
      <3> QED
        BY <3>1, <3>2, <3>3
    <2>2. Lists(myTracks, t) <=> itunes.album[t] \in myAlbums /\ Here(t)
      BY DEF QueryInv, ListIsOfTitles
    <2> QED
      BY <1>2, <1>7, <2>1, <2>2
  <1>11. ListIsOfTitles'
    BY <1>10 DEF ListIsOfTitles, Here
  <1>12. \A i \in 1..Len(myTracks), j \in 1..Len(order) : myTracks[i] # order[j]
    <2> SUFFICES ASSUME NEW i \in 1..Len(myTracks), NEW j \in 1..Len(order),
                        myTracks[i] = order[j]
                 PROVE  FALSE
      OBVIOUS
    <2>1. myTracks[i] \in Track /\ Lists(myTracks, myTracks[i])
      BY <1>1 DEF Lists
    <2>2. itunes.album[myTracks[i]] \in myAlbums
      BY <2>1 DEF QueryInv, ListIsOfTitles
    <2>3. itunes.album[myTracks[i]] = myalbum
      BY <1>5, <1>7, <2>1
    <2> QED
      BY <1>2, <2>2, <2>3
  <1>13. Distinct(myTracks')
    BY <1>1, <1>3, <1>5, <1>12, Joined DEF QueryInv, Distinct
  <1>14. FirstAlbumFirst'
    <2> SUFFICES ASSUME NEW i \in 1..(next' - 1), Named(selection[i]),
                        \A j \in 1..(i - 1) : ~Named(selection[j])
                 PROVE  myTracks' # <<>> /\ itunes.album[myTracks'[1]] = itunes.album[selection[i]]
      BY DEF FirstAlbumFirst, Named
    <2>1. CASE i \in 1..(next - 1)
      <3>1. myTracks # <<>> /\ itunes.album[myTracks[1]] = itunes.album[selection[i]]
        BY <2>1 DEF QueryInv, FirstAlbumFirst
      <3>2. Len(myTracks) > 0
        BY <1>1, <3>1
      <3>3. Len(myTracks') > 0 /\ 1 \in 1..Len(myTracks)
        BY <1>1, <1>5, <1>6, <3>2
      <3> QED
        BY <1>6, <3>1, <3>3
    <2>2. CASE i = next
      <3>1. myAlbums = {}
        BY <2>2 DEF QueryInv, PassedTitles
      <3>2. Len(myTracks) = 0
        <4>1. \A k \in 1..Len(myTracks) : Lists(myTracks, myTracks[k]) /\ myTracks[k] \in Track
          BY <1>1 DEF Lists
        <4>2. 1 \notin 1..Len(myTracks)
          BY <3>1, <4>1 DEF QueryInv, ListIsOfTitles
        <4> QED
          BY <1>1, <4>2
      <3>3. 1 \in 1..Len(order)
        BY <1>4, <1>5
      <3>4. myTracks'[1] = order[1] /\ Len(myTracks') > 0
        BY <1>5, <1>6, <3>2, <3>3
      <3>5. order[1] \in Track /\ itunes.album[order[1]] = myalbum
        BY <1>4, <1>5, <1>7, <3>3
      <3> QED
        BY <1>2, <2>2, <3>4, <3>5
    <2> QED
      BY <1>1, <2>1, <2>2
  <1> QED
    BY <1>8, <1>9, <1>11, <1>13, <1>14 DEF QueryInv

\* A track that names no new album leaves the lists as they should be.
LEMMA SkippingIsSound ==
    ASSUME TypeOK, QueryInv, outcome = "running", next <= Len(selection),
           next' = next + 1, UNCHANGED <<itunes, selection, outcome>>, SkipTrack
    PROVE  QueryInv'
  <1>1. selection \in Seq(Track) /\ Len(selection) \in Nat /\ next \in Nat /\ next \in 1..Len(selection)
    BY LibraryTypes
  <1>2. UNCHANGED <<myAlbums, myTracks>>
    BY DEF SkipTrack
  <1>3. Named(selection[next]) => itunes.album[selection[next]] \in myAlbums
    BY DEF SkipTrack, NamesNewAlbum, Named, myalbum, myTrack
  <1>4. /\ \A i \in 1..(next' - 1) : i \in 1..(next - 1) \/ i = next
        /\ \A i \in 1..(next - 1) : i \in 1..(next' - 1)
    BY <1>1
  <1>5. PassedTitles'
    BY <1>2, <1>3, <1>4 DEF QueryInv, PassedTitles, Named
  <1>6. FirstAlbumFirst'
    <2> SUFFICES ASSUME NEW i \in 1..(next' - 1), Named(selection[i]),
                        \A j \in 1..(i - 1) : ~Named(selection[j])
                 PROVE  myTracks # <<>> /\ itunes.album[myTracks[1]] = itunes.album[selection[i]]
      BY <1>2 DEF FirstAlbumFirst, Named
    <2>1. i \in 1..(next - 1)
      <3>1. ASSUME i = next PROVE FALSE
        <4>1. itunes.album[selection[i]] \in myAlbums
          BY <1>3, <3>1
        <4>2. PICK j \in 1..(next - 1) : Named(selection[j])
          BY <4>1 DEF QueryInv, PassedTitles
        <4> QED
          BY <3>1, <4>2
      <3> QED
        BY <1>4, <3>1
    <2> QED
      BY <2>1 DEF QueryInv, FirstAlbumFirst
  <1>7. OneContainer' /\ ListIsOfTitles' /\ Distinct(myTracks')
    BY <1>2 DEF QueryInv, OneContainer, ListIsOfTitles, Here
  <1> QED
    BY <1>5, <1>6, <1>7 DEF QueryInv

\* Outside the loop's passes only the outcome changes.
LEMMA EndingKeepsInv ==
    ASSUME TypeOK, QueryInv, UNCHANGED <<itunes, selection, next, myAlbums, myTracks>>,
           outcome' = "returned" => next = Len(selection) + 1
    PROVE  QueryInv'
  BY DEF QueryInv, OneContainer, PassedTitles, ListIsOfTitles, Here, Distinct, FirstAlbumFirst, Named

THEOREM QueryInvariant == Spec => []QueryInv
  <1>1. ASSUME Init PROVE QueryInv
    <2>1. selection \in Seq(Track)
      BY <1>1, SelectionAssumption DEF Init
    <2>2. OneContainer
      BY <1>1, <2>1 DEF Init, OneContainer
    <2>3. next = 1 /\ myAlbums = {} /\ myTracks = <<>> /\ outcome = "running"
      BY <1>1 DEF Init
    <2> QED
      BY <2>2, <2>3 DEF QueryInv, PassedTitles, ListIsOfTitles, Lists, Distinct, FirstAlbumFirst
  <1>2. TypeOK /\ QueryInv /\ [Next]_vars => QueryInv'
    <2> SUFFICES ASSUME TypeOK, QueryInv, [Next]_vars PROVE QueryInv'
      OBVIOUS
    <2>1. CASE LoopPass
      BY <2>1, ListingIsSound, SkippingIsSound DEF LoopPass
    <2>2. CASE Return
      <3>1. next = Len(selection) + 1
        BY <2>2, LibraryTypes DEF Return, TypeOK
      <3> QED
        BY <2>2, <3>1, EndingKeepsInv DEF Return
    <2>3. CASE Fail
      BY <2>3, EndingKeepsInv DEF Fail
    <2>4. CASE UNCHANGED vars
      BY <2>4, EndingKeepsInv DEF vars, QueryInv
    <2> QED
      BY <2>1, <2>2, <2>3, <2>4 DEF Next
  <1> QED
    BY <1>1, <1>2, SelectionTypeCorrect, PTL DEF Spec

-----------------------------------------------------------------------------
(***************************************************************************)
(* The script returns the tracks of the albums of the selected file tracks *)
(* in their container, whatever else is selected and in whichever order.   *)
(***************************************************************************)
THEOREM SelectedAlbumsAreListed == Spec => []ListsSelectedAlbums
  <1>1. TypeOK /\ QueryInv => ListsSelectedAlbums
    <2> SUFFICES ASSUME TypeOK, QueryInv, outcome = "returned"
                 PROVE  Range(myTracks) = Expected
      BY DEF ListsSelectedAlbums
    <2>1. /\ selection \in Seq(Track) /\ Len(selection) \in Nat
          /\ DOMAIN selection = 1..Len(selection) /\ 1..(next - 1) = 1..Len(selection)
          /\ myTracks \in Seq(Track) /\ DOMAIN myTracks = 1..Len(myTracks)
      BY LibraryTypes DEF TypeOK, QueryInv
    <2>2. \A t : t \in Range(myTracks) <=> t \in Track /\ Lists(myTracks, t)
      BY <2>1 DEF Range, Lists
    <2>3. ASSUME NEW t \in Track
          PROVE  Lists(myTracks, t) <=> t \in Expected
      <3>1. Lists(myTracks, t) <=> itunes.album[t] \in myAlbums /\ Here(t)
        BY DEF QueryInv, ListIsOfTitles
      <3>2. ASSUME itunes.album[t] \in myAlbums, Here(t) PROVE t \in Expected
        <4>1. PICK i \in 1..Len(selection) :
                 Named(selection[i]) /\ itunes.album[selection[i]] = itunes.album[t]
          BY <2>1, <3>2 DEF QueryInv, PassedTitles
        <4> QED
          BY <2>1, <3>2, <4>1 DEF Expected, Here
      <3>3. ASSUME t \in Expected PROVE itunes.album[t] \in myAlbums /\ Here(t)
        <4>1. PICK i \in 1..Len(selection) :
                 /\ Named(selection[i]) /\ itunes.album[t] = itunes.album[selection[i]]
                 /\ itunes.container[t] = itunes.container[selection[i]]
          BY <2>1, <3>3 DEF Expected
        <4>2. itunes.album[t] \in myAlbums
          BY <2>1, <4>1 DEF QueryInv, PassedTitles
        <4> QED
          BY <4>1, <4>2 DEF QueryInv, OneContainer, Here
      <3> QED
        BY <3>1, <3>2, <3>3
    <2> QED
      BY <2>2, <2>3 DEF Expected
  <1> QED
    BY <1>1, QueryInvariant, SelectionTypeCorrect, PTL

\* However often an album's tracks are selected, the script lists none twice.
THEOREM NoTrackIsListedTwice == Spec => []ListsTracksOnce
  <1>1. TypeOK /\ QueryInv => ListsTracksOnce
    BY DEF TypeOK, QueryInv, Distinct, ListsTracksOnce, IsInjective
  <1> QED
    BY <1>1, QueryInvariant, SelectionTypeCorrect, PTL

\* The list begins with the album of the first track that names one.
THEOREM FirstAlbumIsFirst == Spec => []FirstAlbumFirst
  <1>1. QueryInv => FirstAlbumFirst
    BY DEF QueryInv
  <1> QED
    BY <1>1, QueryInvariant, PTL
-----------------------------------------------------------------------------
(***************************************************************************)
(* Albums are listed in the order of the selection: inductive beside the   *)
(* loop's invariant, since an album that is looked up now is named by no   *)
(* track before this one, and every album in the list is.                  *)
(***************************************************************************)
AlbumsInOrder ==
    \A i, j \in 1..Len(myTracks) : i < j =>
        \A n \in 1..Len(selection) :
            Named(selection[n]) /\ itunes.album[selection[n]] = itunes.album[myTracks[j]]
              => \E m \in 1..n : /\ Named(selection[m])
                                 /\ itunes.album[selection[m]] = itunes.album[myTracks[i]]

LEMMA ListingKeepsOrder ==
    ASSUME TypeOK, QueryInv, AlbumsInOrder, outcome = "running", next <= Len(selection),
           UNCHANGED <<itunes, selection>>, ListAlbum
    PROVE  AlbumsInOrder'
  <1> DEFINE mates == Mates(myTrack)
  <1>1. /\ myTrack \in Track /\ selection \in Seq(Track) /\ Len(selection) \in Nat
        /\ next \in Nat \ {0} /\ myTracks \in Seq(Track) /\ Len(myTracks) \in Nat
    BY LibraryTypes DEF TypeOK
  <1>2. PICK order \in Bijection(1..Cardinality(mates), mates) : myTracks' = myTracks \o order
    BY DEF ListAlbum
  <1>3. mates \in SUBSET Track /\ \A t \in mates : itunes.album[t] = myalbum
    BY <1>1 DEF Mates, myalbum
  <1> HIDE DEF mates
  <1>4. /\ order \in Seq(Track) /\ Len(order) \in Nat
        /\ \A k \in 1..Len(order) : itunes.album[order[k]] = myalbum
    <2>1. order \in Seq(Track) /\ \A k \in 1..Len(order) : order[k] \in mates
      BY <1>2, <1>3, Ordered
    <2> QED
      BY <1>3, <2>1, LenProperties
  <1>5. \A k \in 1..Len(myTracks') :
           \/ k \in 1..Len(myTracks) /\ myTracks'[k] = myTracks[k]
           \/ k > Len(myTracks) /\ itunes.album[myTracks'[k]] = myalbum
    <2>1. /\ Len(myTracks') = Len(myTracks) + Len(order)
          /\ \A k \in 1..(Len(myTracks) + Len(order)) :
                 myTracks'[k] = IF k <= Len(myTracks) THEN myTracks[k] ELSE order[k - Len(myTracks)]
      BY <1>1, <1>2, <1>4, ConcatProperties
    <2> SUFFICES ASSUME NEW k \in 1..Len(myTracks')
                 PROVE  \/ k \in 1..Len(myTracks) /\ myTracks'[k] = myTracks[k]
                        \/ k > Len(myTracks) /\ itunes.album[myTracks'[k]] = myalbum
      OBVIOUS
    <2>2. CASE k <= Len(myTracks)
      BY <1>1, <1>4, <2>1, <2>2
    <2>3. CASE k > Len(myTracks)
      <3>1. k - Len(myTracks) \in 1..Len(order) /\ myTracks'[k] = order[k - Len(myTracks)]
        BY <1>1, <1>4, <2>1, <2>3
      <3> QED
        BY <1>4, <2>3, <3>1
    <2> QED
      BY <1>1, <1>4, <2>1, <2>2, <2>3
  <1>6. \A i \in 1..Len(myTracks) : itunes.album[myTracks[i]] \in myAlbums
    <2>1. \A i \in 1..Len(myTracks) : myTracks[i] \in Track /\ Lists(myTracks, myTracks[i])
      BY <1>1 DEF Lists
    <2> QED
      BY <2>1 DEF QueryInv, ListIsOfTitles
  <1>7. myalbum \notin myAlbums
    BY DEF ListAlbum, NamesNewAlbum
  <1> SUFFICES ASSUME NEW i \in 1..Len(myTracks'), NEW j \in 1..Len(myTracks'), i < j,
                      NEW n \in 1..Len(selection), Named(selection[n]),
                      itunes.album[selection[n]] = itunes.album[myTracks'[j]]
               PROVE  \E m \in 1..n : /\ Named(selection[m])
                                      /\ itunes.album[selection[m]] = itunes.album[myTracks'[i]]
    BY DEF AlbumsInOrder, Named
  <1>8. CASE j \in 1..Len(myTracks) /\ myTracks'[j] = myTracks[j]
    <2>1. i \in 1..Len(myTracks) /\ myTracks'[i] = myTracks[i]
      BY <1>1, <1>5, <1>8
    <2> QED
      BY <1>8, <2>1 DEF AlbumsInOrder
  <1>9. CASE j > Len(myTracks) /\ itunes.album[myTracks'[j]] = myalbum
    <2>1. CASE i > Len(myTracks) /\ itunes.album[myTracks'[i]] = myalbum
      <3>1. n \in 1..n
        BY <1>1
      <3> QED
        BY <1>9, <2>1, <3>1
    <2>2. CASE i \in 1..Len(myTracks) /\ myTracks'[i] = myTracks[i]
      <3>1. PICK m \in 1..(next - 1) :
               Named(selection[m]) /\ itunes.album[selection[m]] = itunes.album[myTracks[i]]
        BY <1>6, <2>2 DEF QueryInv, PassedTitles
      <3>2. ASSUME n \in 1..(next - 1) PROVE FALSE
        BY <1>7, <1>9, <3>2 DEF QueryInv, PassedTitles
      <3>3. m \in 1..n
        BY <1>1, <3>1, <3>2
      <3> QED
        BY <2>2, <3>1, <3>3
    <2> QED
      BY <1>5, <2>1, <2>2
  <1> QED
    BY <1>5, <1>8, <1>9

THEOREM OrderInvariant == Spec => []AlbumsInOrder
  <1>1. Init => AlbumsInOrder
    BY DEF Init, AlbumsInOrder
  <1>2. TypeOK /\ QueryInv /\ AlbumsInOrder /\ [Next]_vars => AlbumsInOrder'
    <2> SUFFICES ASSUME TypeOK, QueryInv, AlbumsInOrder, [Next]_vars PROVE AlbumsInOrder'
      OBVIOUS
    <2>1. ASSUME UNCHANGED <<itunes, selection, myTracks>> PROVE AlbumsInOrder'
      BY <2>1 DEF AlbumsInOrder, Named
    <2>2. CASE LoopPass
      BY <2>1, <2>2, ListingKeepsOrder DEF LoopPass, SkipTrack
    <2>3. CASE Return \/ Fail \/ UNCHANGED vars
      BY <2>1, <2>3 DEF Return, Fail, vars
    <2> QED
      BY <2>2, <2>3 DEF Next
  <1> QED
    BY <1>1, <1>2, SelectionTypeCorrect, QueryInvariant, PTL DEF Spec

(***************************************************************************)
(* The script implements the one question and one answer of AlbumQuery,    *)
(* for selections of any length: the passes of its loop stutter, and what  *)
(* it returns lists the albums completely, no track twice, in the order of *)
(* the selection.                                                          *)
(***************************************************************************)
THEOREM ScriptImplementsAlbumQuery == Spec => ImplementsAlbumQuery
  <1> DEFINE Good == /\ TypeOK /\ ListsSelectedAlbums /\ ListsTracksOnce /\ AlbumsInOrder
  <1>1. Init => Query!Init
    BY DEF Init, Query!Init
  <1>2. Good' /\ [Next]_vars => [Query!Next]_(Query!vars)
    <2> SUFFICES ASSUME Good', [Next]_vars PROVE [Query!Next]_(Query!vars)
      OBVIOUS
    <2>1. CASE LoopPass
      BY <2>1 DEF LoopPass, Query!vars
    <2>2. CASE Return
      <3>1. /\ outcome = "running" /\ outcome' = "returned"
            /\ itunes' = itunes /\ selection' = selection /\ myTracks' = myTracks
        BY <2>2 DEF Return
      <3>2. myTracks' \in Seq(Track) /\ IsInjective(myTracks') /\ Range(myTracks') = Expected'
        BY <3>1 DEF TypeOK, ListsTracksOnce, ListsSelectedAlbums
      <3>3. Expected' = Query!Wanted
        BY <3>1 DEF Expected, Named, Query!Wanted, Query!Names
      <3>4. Query!InOrderOfSelection(myTracks')
        <4>1. selection' \in Seq(Track)
          BY SelectionAssumption DEF TypeOK
        <4>2. DOMAIN selection' = 1..Len(selection') /\ DOMAIN myTracks' = 1..Len(myTracks')
          BY <3>2, <4>1
        <4>3. ASSUME NEW i \in 1..Len(myTracks'), NEW j \in 1..Len(myTracks'), i < j,
                     NEW n \in 1..Len(selection), Named(selection[n]),
                     itunes.album[selection[n]] = itunes.album[myTracks'[j]]
              PROVE  \E m \in 1..n : /\ Named(selection[m])
                                     /\ itunes.album[selection[m]] = itunes.album[myTracks'[i]]
          <5>1. AlbumsInOrder
            BY <3>1 DEF AlbumsInOrder, Named
          <5> QED
            BY <3>1, <4>3, <5>1 DEF AlbumsInOrder
        <4> QED
          BY <3>1, <4>2, <4>3 DEF Named, Query!InOrderOfSelection, Query!Names
      <3> DEFINE list == IF outcome = "returned" THEN myTracks ELSE <<>>
      <3>5. list' = myTracks'
        BY <3>1
      <3>6. Query!Answer
        BY <3>1, <3>2, <3>3, <3>4, <3>5
           DEF Query!Answer, Query!Range, Range, Query!IsInjective, IsInjective
      <3> QED
        BY <3>6 DEF Query!Next
    <2>3. CASE Fail
      BY <2>3 DEF Fail, Query!Next, Query!Refuse
    <2>4. CASE UNCHANGED vars
      BY <2>4 DEF vars, Query!vars
    <2> QED
      BY <2>1, <2>2, <2>3, <2>4 DEF Next
  <1>3. Spec => []Good
    BY SelectionTypeCorrect, SelectedAlbumsAreListed, NoTrackIsListedTwice, OrderInvariant, PTL
  <1> QED
    BY <1>1, <1>2, <1>3, PTL DEF Spec, ImplementsAlbumQuery, Query!Spec
================================================================================
