------------------------ MODULE AssistantSession_proofs ------------------------
(***************************************************************************)
(* Theorems of AssistantSession.  The invariants of the window hold for    *)
(* any number of tracks, titles, images, overlapping searches and          *)
(* downloads.  Each is inductive beside the types; what takes work is that *)
(* the list of images stays a sequence whose elements are images for the   *)
(* title, through searching, sorting and removing.                         *)
(***************************************************************************)
EXTENDS AssistantSession, FiniteSetTheorems, SequenceTheorems, TLAPS

-----------------------------------------------------------------------------
\* SetToSeqs lists the elements of a finite set and nothing else.
LEMMA FoundAreResults ==
    ASSUME NEW R, IsFiniteSet(R), NEW S, R \subseteq S, NEW found \in SetToSeqs(R)
    PROVE  found \in Seq(S)
<1>1. Cardinality(R) \in Nat
  BY FS_CardinalityType
<1> QED
  BY <1>1 DEF SetToSeqs

\* Results are images for the title of the moment, finitely many.
LEMMA ResultsAreForTitle ==
    ASSUME NEW areas, areas \subseteq Nat, IsFiniteSet(areas),
           albumTitle \in Title \cup {NoTitle}
    PROVE  /\ Results(areas) \subseteq {item \in Item : item.title = albumTitle}
           /\ IsFiniteSet(Results(areas))
<1> DEFINE f == [a \in areas |-> [source |-> "search", title |-> albumTitle, area |-> a]]
<1>1. f \in Surjection(areas, Results(areas))
  BY DEF Results, Surjection
<1>2. IsFiniteSet(Results(areas))
  BY <1>1, FS_Surjection
<1> QED
  BY <1>2 DEF Results, Item

\* Sorting changes the order of a sequence and nothing else.
LEMMA SortingKeepsElements ==
    ASSUME NEW S, NEW s \in Seq(S), NEW t \in Sortings(s)
    PROVE  t \in Seq(S)
<1>1. PICK p \in Bijection(DOMAIN s, DOMAIN s) : t = [i \in DOMAIN s |-> s[p[i]]]
  BY DEF Sortings
<1>2. p \in [DOMAIN s -> DOMAIN s]
  BY DEF Bijection, Injection
<1>3. DOMAIN s = 1..Len(s) /\ Len(s) \in Nat
  OBVIOUS
<1>4. \A i \in 1..Len(s) : t[i] \in S
  BY <1>1, <1>2, <1>3
<1> QED
  BY <1>1, <1>3, <1>4

\* Removing an element adds none.
LEMMA RemovingKeepsElements ==
    ASSUME NEW S, NEW s \in Seq(S), NEW i \in DOMAIN s
    PROVE  RemoveAt(s, i) \in Seq(S)
<1>1. DOMAIN s = 1..Len(s) /\ Len(s) \in Nat
  OBVIOUS
<1>2. SubSeq(s, 1, i-1) \in Seq(S)
  BY <1>1, SubSeqProperties
<1>3. SubSeq(s, i+1, Len(s)) \in Seq(S)
  BY <1>1, SubSeqProperties
<1> QED
  BY <1>2, <1>3, ConcatProperties DEF RemoveAt

(***************************************************************************)
(* Whatever set S holds the images of the list and the results for the     *)
(* title, it holds the images when a search has ended.                     *)
(***************************************************************************)
LEMMA FindingKeepsElements ==
    ASSUME NEW S, images \in Seq(S), albumTitle \in Title \cup {NoTitle},
           {item \in Item : item.title = albumTitle} \subseteq S,
           NEW amazon \in SUBSET AmazonAreas, NEW google \in SUBSET GoogleAreas,
           FindingEnds(amazon, google)
    PROVE  images' \in Seq(S)
<1>1. PICK found \in SetToSeqs(Results(amazon)), more \in SetToSeqs(Results(google)) :
        images' \in Sortings(images \o found \o more)
  BY DEF FindingEnds
<1>2. IsFiniteSet(amazon) /\ IsFiniteSet(google)
  BY BoundsAssumption, FS_Subset
<1>3. found \in Seq(S)
  <2>1. Results(amazon) \subseteq S /\ IsFiniteSet(Results(amazon))
    BY <1>2, ResultsAreForTitle, BoundsAssumption
  <2> QED
    BY <2>1, FoundAreResults
<1>4. more \in Seq(S)
  <2>1. Results(google) \subseteq S /\ IsFiniteSet(Results(google))
    BY <1>2, ResultsAreForTitle, BoundsAssumption
  <2> QED
    BY <2>1, FoundAreResults
<1>5. images \o found \o more \in Seq(S)
  BY <1>3, <1>4, ConcatProperties
<1> QED
  BY <1>1, <1>5, SortingKeepsElements

-----------------------------------------------------------------------------
\* A step of any handler keeps the types.
LEMMA SessionTypeStep == TypeOK /\ [Next]_vars => TypeOK'
<1> SUFFICES ASSUME TypeOK, [Next]_vars PROVE TypeOK'
  OBVIOUS
<1>0. finds \in 0..MaxFinds /\ requests \in 0..MaxRequests
  BY DEF TypeOK
<1> USE DEF TypeOK
<1>a. ASSUME finds < MaxFinds PROVE finds + 1 \in 0..MaxFinds
  BY ONLY <1>0, <1>a, BoundsAssumption
<1>b. ASSUME finds > 0 PROVE finds - 1 \in 0..MaxFinds
  BY ONLY <1>0, <1>b, BoundsAssumption
<1>c. ASSUME NEW kind \in {"immediate", "queue"}, NEW item \in Item,
             LoadInBackground(kind, item)
      PROVE  requests' \in 0..MaxRequests /\ \A j \in jobs' : j \in Job
  <2>1. requests + 1 \in 1..MaxRequests
    BY ONLY <1>0, <1>c, BoundsAssumption DEF LoadInBackground
  <2>2. requests' \in 0..MaxRequests
    BY ONLY <1>0, <1>c, BoundsAssumption DEF LoadInBackground
  <2> QED
    BY <1>c, <2>1, <2>2 DEF LoadInBackground, Job
<1>d. HasSelectedImage => images[selection] \in Item
  BY DEF HasSelectedImage
<1>e. <<>> \in Seq(Item)
  OBVIOUS
<1>f. Len(images) \in Nat
  BY ONLY TypeOK DEF TypeOK
<1>1. CASE FetchFails
  BY <1>1 DEF FetchFails, startBusyForNothing, window, browser, searching, downloads
<1>2. ASSUME NEW list \in TrackLists, FetchSucceeds(list)
      PROVE  TypeOK'
  <2>1. list # {} => TitleOf[list] \in Title \cup {NoTitle}
    BY TitleAssumption
  <2>2. /\ albumTitle' \in Title \cup {NoTitle}
        /\ images' \in Seq(Item)
        /\ finds' \in 0..MaxFinds
    BY <1>2, <1>a, <1>e, <2>1 DEF FetchSucceeds, findImages
  <2>3. isBusy' \in BOOLEAN /\ leaked' \in BOOLEAN
    BY <1>2 DEF FetchSucceeds, findImages, clearBusy, startBusy
  <2> QED
    BY <1>2, <2>2, <2>3 DEF FetchSucceeds, downloads
<1>3. ASSUME NEW title \in Title \cup {NoTitle}, setAlbumTitle(title)
      PROVE  TypeOK'
  <2>1. /\ albumTitle' \in Title \cup {NoTitle}
        /\ images' \in Seq(Item)
        /\ finds' \in 0..MaxFinds
    BY <1>3, <1>a, <1>e DEF setAlbumTitle, findImages
  <2>2. isBusy' \in BOOLEAN /\ leaked' \in BOOLEAN
    BY <1>3 DEF setAlbumTitle, findImages, startBusy, busy
  <2> QED
    BY <1>3, <2>1, <2>2 DEF setAlbumTitle, downloads
<1>4. ASSUME NEW list \in TrackLists, delete(list)
      PROVE  TypeOK'
  BY <1>4 DEF delete, browser, searching, downloads, busy
<1>5. CASE doFindImages
  <2>1. PICK amazon \in SUBSET AmazonAreas, google \in SUBSET GoogleAreas :
          FindingEnds(amazon, google)
    BY <1>5 DEF doFindImages
  <2>2. images' \in Seq(Item)
    BY <2>1, FindingKeepsElements
  <2>3. Len(images') \in Nat
    BY ONLY <2>2
  <2>4. shown' \in Nat /\ selection' \in Nat
    BY <2>1, <2>3 DEF FindingEnds, reloadData
  <2>5. isBusy' \in BOOLEAN /\ leaked' \in BOOLEAN
    BY <2>1 DEF FindingEnds, clearBusy
  <2> QED
    BY <1>5, <1>b, <2>2, <2>4, <2>5 DEF doFindImages, window, downloads
<1>6. CASE AmazonAlert
  BY <1>6, <1>b DEF AmazonAlert, clearBusy, window, browser, downloads
<1>7. CASE AlertDismissed
  <2>1. PICK google \in SUBSET GoogleAreas : FindingEnds({}, google)
    BY <1>7 DEF AlertDismissed
  <2>2. images' \in Seq(Item)
    BY <2>1, FindingKeepsElements
  <2>3. Len(images') \in Nat
    BY ONLY <2>2
  <2>4. shown' \in Nat /\ selection' \in Nat
    BY <2>1, <2>3 DEF FindingEnds, reloadData
  <2>5. isBusy' \in BOOLEAN /\ leaked' \in BOOLEAN
    BY <2>1 DEF FindingEnds, clearBusy
  <2> QED
    BY <1>7, <2>2, <2>4, <2>5 DEF AlertDismissed, window, downloads
<1>8. ASSUME NEW i \in 0..shown, Select(i)
      PROVE  TypeOK'
  BY <1>8 DEF Select, window, searching, downloads, busy
<1>9. CASE BrowserReloads
  <2>1. shown' \in Nat /\ selection' \in Nat
    BY <1>9, <1>f DEF BrowserReloads, reloadData
  <2> QED
    BY <1>9, <2>1 DEF BrowserReloads, window, searching, downloads, busy
<1>10. CASE setAlbumArtwork
  BY <1>10, <1>c, <1>d DEF setAlbumArtwork, startBusy, window, browser, searching
<1>11. CASE addToQueue
  BY <1>11, <1>c, <1>d
     DEF addToQueue, startBusy, startBusyForNothing, window, browser, searching, downloads
<1>12. ASSUME NEW kind \in {"immediate", "queue"}, ChooseWebImage(kind)
       PROVE  TypeOK'
  <2>1. WebItem \in Item
    BY DEF WebItem, Item
  <2> QED
    BY <1>12, <1>c, <2>1 DEF ChooseWebImage, startBusy, window, browser, searching
<1>13. ASSUME NEW j \in jobs, Load(j)
       PROVE  TypeOK'
  <2>1. \A k \in jobs' : k \in Job
    BY <1>13 DEF Load, Job
  <2> QED
    BY <1>13, <2>1 DEF Load, window, browser, searching, busy
<1>14. ASSUME NEW j \in jobs, ItemImageDataLoaded(j)
       PROVE  TypeOK'
  BY <1>14 DEF ItemImageDataLoaded, clearBusy, window, browser, searching
<1>15. ASSUME NEW j \in jobs, itemImageDataLoadFailed(j)
       PROVE  TypeOK'
  BY <1>15, RemovingKeepsElements
     DEF itemImageDataLoadFailed, removeCurrentItemAndWarn, HasSelectedImage, clearBusy,
         window, browser, searching
<1>16. CASE previewPanelItem
  BY <1>16 DEF previewPanelItem, startBusy, window, browser, searching, downloads
<1>17. CASE previewItemURL
  BY <1>17 DEF previewItemURL, clearBusy, window, browser, searching, downloads
<1>18. CASE UNCHANGED vars
  BY <1>18 DEF vars, window, browser, searching, downloads, busy
<1> QED
  BY <1>1, <1>2, <1>3, <1>4, <1>5, <1>6, <1>7, <1>8, <1>9, <1>10, <1>11, <1>12,
     <1>13, <1>14, <1>15, <1>16, <1>17, <1>18 DEF Next, fetch

(***************************************************************************)
(* Every handler of the window keeps the types of the state, for all       *)
(* tracks, titles, image sizes and bounds.                                 *)
(***************************************************************************)
THEOREM SessionTypeCorrect == Spec => []TypeOK
<1>1. Init => TypeOK
  <2>1. 0 \in 0..MaxFinds /\ 0 \in 0..MaxRequests
    BY BoundsAssumption
  <2>2. <<>> \in Seq(Item)
    OBVIOUS
  <2>3. Init => {reloadPending, alert, previewing, isBusy, leaked} \subseteq BOOLEAN
    BY Zenon DEF Init
  <2> QED
    BY <2>1, <2>2, <2>3, SMT DEF Init, TypeOK
<1> QED
  BY <1>1, SessionTypeStep, PTL DEF Spec

-----------------------------------------------------------------------------
\* A step of any handler keeps the indicator honest.
LEMMA IndicatorStep ==
    TypeOK /\ IndicatorStops /\ [Next]_vars => IndicatorStops'
<1> SUFFICES ASSUME TypeOK, IndicatorStops, [Next]_vars PROVE IndicatorStops'
  OBVIOUS
<1>0. finds \in Nat
  BY BoundsAssumption DEF TypeOK
<1> USE DEF IndicatorStops, Idle
<1>1. CASE fetch \/ \E title \in Title \cup {NoTitle} : setAlbumTitle(title)
  <2>1. finds + 1 # 0
    BY ONLY <1>0
  <2> QED
    BY <1>1, <2>1
       DEF fetch, FetchFails, FetchSucceeds, setAlbumTitle, findImages, startBusy, clearBusy,
           startBusyForNothing, downloads, busy
<1>2. CASE \E list \in TrackLists : delete(list)
  BY <1>2 DEF delete, searching, downloads, busy
<1>3. CASE doFindImages \/ AmazonAlert \/ AlertDismissed
  BY <1>3 DEF doFindImages, AmazonAlert, AlertDismissed, FindingEnds, clearBusy
<1>4. CASE BrowserReloads \/ \E i \in 0..shown : Select(i)
  BY <1>4 DEF BrowserReloads, Select, searching, downloads, busy
<1>5. CASE \/ setAlbumArtwork \/ addToQueue
           \/ \E kind \in {"immediate", "queue"} : ChooseWebImage(kind)
  BY <1>5 DEF setAlbumArtwork, addToQueue, ChooseWebImage, LoadInBackground, startBusyForNothing
<1>6. CASE \E j \in jobs : Load(j)
  BY <1>6 DEF Load
<1>7. CASE \E j \in jobs : ItemImageDataLoaded(j) \/ itemImageDataLoadFailed(j)
  BY <1>7 DEF ItemImageDataLoaded, itemImageDataLoadFailed, clearBusy
<1>8. CASE previewPanelItem \/ previewItemURL
  BY <1>8 DEF previewPanelItem, previewItemURL, clearBusy
<1>9. CASE UNCHANGED vars
  BY <1>9 DEF vars, searching, downloads, busy
<1> QED
  BY <1>1, <1>2, <1>3, <1>4, <1>5, <1>6, <1>7, <1>8, <1>9 DEF Next

(***************************************************************************)
(* The progress indicator is on only while something is to come that turns *)
(* it off, whichever operations overlapped, unless the last handler to     *)
(* finish was one of the two that leave it on for nothing.                 *)
(***************************************************************************)
THEOREM IndicatorIsHonest == Spec => []IndicatorStops
<1>1. Init => IndicatorStops
  BY DEF Init, IndicatorStops
<1> QED
  BY <1>1, IndicatorStep, SessionTypeCorrect, PTL DEF Spec

-----------------------------------------------------------------------------
\* A step of any handler keeps the results those for the title.
LEMMA ResultsStep ==
    TypeOK /\ ImagesAreForTitle /\ [Next]_vars => ImagesAreForTitle'
<1> DEFINE Of(title) == {item \in Item : item.title = title}
<1> SUFFICES ASSUME TypeOK, ImagesAreForTitle, [Next]_vars,
                    albumTitle' # NoTitle
             PROVE  \A i \in DOMAIN images' : images'[i].title = albumTitle'
  BY DEF ImagesAreForTitle
<1>0. images \in Seq(Item) /\ albumTitle \in Title \cup {NoTitle}
  BY DEF TypeOK
<1>a. ASSUME UNCHANGED <<albumTitle, images>>
      PROVE  \A i \in DOMAIN images' : images'[i].title = albumTitle'
  BY <1>a DEF ImagesAreForTitle
<1>b. ASSUME images' = <<>>
      PROVE  \A i \in DOMAIN images' : images'[i].title = albumTitle'
  BY <1>b
<1>c. ASSUME UNCHANGED albumTitle PROVE images \in Seq(Of(albumTitle))
  <2>1. \A i \in DOMAIN images : images[i] \in Of(albumTitle)
    BY <1>0, <1>c DEF ImagesAreForTitle
  <2> QED
    BY <1>0, <2>1
<1>d. ASSUME UNCHANGED albumTitle, images' \in Seq(Of(albumTitle))
      PROVE  \A i \in DOMAIN images' : images'[i].title = albumTitle'
  BY <1>d
<1>1. CASE FetchFails
  BY <1>1, <1>a DEF FetchFails, window, browser
<1>2. ASSUME NEW list \in TrackLists, FetchSucceeds(list)
      PROVE  \A i \in DOMAIN images' : images'[i].title = albumTitle'
  BY <1>2, <1>a, <1>b DEF FetchSucceeds, findImages
<1>3. ASSUME NEW title \in Title \cup {NoTitle}, setAlbumTitle(title)
      PROVE  \A i \in DOMAIN images' : images'[i].title = albumTitle'
  BY <1>3, <1>a, <1>b DEF setAlbumTitle, findImages
<1>4. ASSUME NEW amazon \in SUBSET AmazonAreas, NEW google \in SUBSET GoogleAreas,
             FindingEnds(amazon, google), UNCHANGED albumTitle
      PROVE  \A i \in DOMAIN images' : images'[i].title = albumTitle'
  <2>1. images' \in Seq(Of(albumTitle))
    BY <1>0, <1>4, <1>c, FindingKeepsElements
  <2> QED
    BY <1>4, <1>d, <2>1
<1>5. CASE doFindImages
  BY <1>4, <1>5 DEF doFindImages, window
<1>6. CASE AlertDismissed
  BY <1>4, <1>6 DEF AlertDismissed, window
<1>7. ASSUME NEW j \in jobs, itemImageDataLoadFailed(j)
      PROVE  \A i \in DOMAIN images' : images'[i].title = albumTitle'
  <2>1. UNCHANGED albumTitle
    BY <1>7 DEF itemImageDataLoadFailed, window
  <2>2. CASE HasSelectedImage /\ images' = RemoveAt(images, selection)
    <3>1. images' \in Seq(Of(albumTitle))
      BY <1>c, <2>1, <2>2, RemovingKeepsElements DEF HasSelectedImage
    <3> QED
      BY <1>d, <2>1, <3>1
  <2> QED
    BY <1>7, <1>a, <2>1, <2>2 DEF itemImageDataLoadFailed, removeCurrentItemAndWarn, browser
<1>8. CASE \E list \in TrackLists : delete(list)
  BY <1>8, <1>a DEF delete, browser
<1>9. CASE AmazonAlert \/ BrowserReloads \/ \E i \in 0..shown : Select(i)
  BY <1>9, <1>a DEF AmazonAlert, BrowserReloads, Select, window, browser
<1>10. CASE \/ setAlbumArtwork \/ addToQueue
            \/ \E kind \in {"immediate", "queue"} : ChooseWebImage(kind)
  BY <1>10, <1>a DEF setAlbumArtwork, addToQueue, ChooseWebImage, window, browser
<1>11. CASE \E j \in jobs : Load(j) \/ ItemImageDataLoaded(j)
  BY <1>11, <1>a DEF Load, ItemImageDataLoaded, window, browser
<1>12. CASE previewPanelItem \/ previewItemURL
  BY <1>12, <1>a DEF previewPanelItem, previewItemURL, window, browser
<1>13. CASE UNCHANGED vars
  BY <1>13, <1>a DEF vars, window, browser
<1> QED
  BY <1>1, <1>2, <1>3, <1>5, <1>6, <1>7, <1>8, <1>9, <1>10, <1>11, <1>12, <1>13
     DEF Next, fetch

(***************************************************************************)
(* The images shown are results for the text in the search field, for any  *)
(* interleaving of searches, alerts, failed downloads and new albums.      *)
(***************************************************************************)
THEOREM ResultsMatchTitle == Spec => []ImagesAreForTitle
<1>1. Init => ImagesAreForTitle
  BY DEF Init, ImagesAreForTitle
<1> QED
  BY <1>1, ResultsStep, SessionTypeCorrect, PTL DEF Spec

-----------------------------------------------------------------------------
\* A step of any handler keeps the browser at the list.
LEMMA BrowserStep ==
    TypeOK /\ BrowserShowsList /\ [Next]_vars => BrowserShowsList'
<1> SUFFICES ASSUME TypeOK, BrowserShowsList, [Next]_vars PROVE BrowserShowsList'
  OBVIOUS
<1>0. images \in Seq(Item) /\ images' \in Seq(Item) /\ finds \in Nat /\ selection \in Nat
  <2>1. TypeOK'
    BY SessionTypeStep
  <2> QED
    BY <2>1, BoundsAssumption DEF TypeOK
<1>a. DOMAIN images = 1..Len(images) /\ DOMAIN images' = 1..Len(images') /\ Len(images') \in Nat
  BY ONLY <1>0
<1>b. ASSUME reloadData PROVE BrowserShowsList'
  BY <1>0, <1>a, <1>b DEF reloadData, BrowserShowsList
<1> USE DEF BrowserShowsList
<1>1. CASE fetch \/ \E title \in Title \cup {NoTitle} : setAlbumTitle(title)
  <2>1. finds + 1 # 0
    BY ONLY <1>0
  <2> QED
    BY <1>1, <2>1
       DEF fetch, FetchFails, FetchSucceeds, setAlbumTitle, findImages, browser, searching
<1>2. CASE \E list \in TrackLists : delete(list)
  BY <1>2 DEF delete, browser, searching
<1>3. CASE doFindImages \/ AlertDismissed \/ BrowserReloads
  BY ONLY <1>3, <1>b DEF doFindImages, AlertDismissed, BrowserReloads, FindingEnds
<1>4. CASE AmazonAlert
  BY <1>4 DEF AmazonAlert
<1>5. ASSUME NEW i \in 0..shown, Select(i)
      PROVE  BrowserShowsList'
  BY <1>5, <1>a DEF Select, searching
<1>6. CASE \/ setAlbumArtwork \/ addToQueue
           \/ \E kind \in {"immediate", "queue"} : ChooseWebImage(kind)
  BY <1>6 DEF setAlbumArtwork, addToQueue, ChooseWebImage, browser, searching
<1>7. CASE \E j \in jobs : Load(j) \/ ItemImageDataLoaded(j)
  BY <1>7 DEF Load, ItemImageDataLoaded, browser, searching
<1>8. CASE \E j \in jobs : itemImageDataLoadFailed(j)
  BY <1>8 DEF itemImageDataLoadFailed, removeCurrentItemAndWarn, browser, searching
<1>9. CASE previewPanelItem \/ previewItemURL
  BY <1>9 DEF previewPanelItem, previewItemURL, browser, searching
<1>10. CASE UNCHANGED vars
  BY <1>10 DEF vars, browser, searching
<1> QED
  BY <1>1, <1>2, <1>3, <1>4, <1>5, <1>6, <1>7, <1>8, <1>9, <1>10 DEF Next

(***************************************************************************)
(* With no search, alert or reload to come, the browser shows the list of  *)
(* images as it is and selects one of them or none: a command acts on the  *)
(* image the user sees selected.                                           *)
(***************************************************************************)
THEOREM SelectionIsInList == Spec => []BrowserShowsList
<1>1. Init => BrowserShowsList
  BY DEF Init, BrowserShowsList
<1> QED
  BY <1>1, BrowserStep, SessionTypeCorrect, PTL DEF Spec
================================================================================
