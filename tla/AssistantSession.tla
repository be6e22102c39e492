--------------------------- MODULE AssistantSession ---------------------------
(***************************************************************************)
(* The main window: AppDelegate from "Get Albums" to the arrival of the    *)
(* chosen image, with the image browser it feeds.                          *)
(*                                                                         *)
(* Handlers run on the main thread, one at a time.  What happens between   *)
(* them is what matters here: a search starts 0.1 seconds after it was     *)
(* asked for (finds counts those calls), an image is downloaded by a       *)
(* background thread that hands its result to the main thread (jobs), the  *)
(* browser reloads later (reloadPending), and an alert inside a search     *)
(* runs a nested loop in which downloads are delivered (alert).            *)
(***************************************************************************)
EXTENDS Naturals, FiniteSets, Sequences, SequencesExt

CONSTANTS
    Track,
    TrackLists,     \* what iTunes' selection and the Delete command can leave in the list
    NoTracks,       \* nil: nothing was fetched yet
    Title,          \* search texts
    NoTitle,        \* the empty search text, and nil
    TitleOf,        \* the cleaned album title of a track list
    AmazonAreas,    \* the areas of the images Amazon offers
    GoogleAreas,    \* the areas of the images Google offers
    MaxFinds,       \* bound: searches waiting at once
    MaxRequests     \* bound: images asked for

ASSUME ListsAssumption == TrackLists \subseteq SUBSET Track

ASSUME TitleAssumption ==
    /\ NoTitle \notin Title
    /\ \A list \in TrackLists \ {{}} : TitleOf[list] \in Title \cup {NoTitle}

ASSUME BoundsAssumption ==
    /\ AmazonAreas \subseteq Nat /\ IsFiniteSet(AmazonAreas)
    /\ GoogleAreas \subseteq Nat /\ IsFiniteSet(GoogleAreas)
    /\ MaxFinds \in Nat /\ MaxRequests \in Nat

VARIABLES
    tracks,         \* the track list
    albumTitle,
    images,         \* the search results, a sequence
    selection,      \* first selected index of the image browser, 0 for none
    shown,          \* the number of cells the browser displays
    reloadPending,  \* reloadData is on its way to the browser
    finds,          \* calls of doFindImages still to come
    alert,          \* doFindImages is inside [alert runModal]
    jobs,           \* images being downloaded or waiting for the main thread
    previewing,     \* the Quick Look panel has asked for an item, not yet for its URL
    isBusy,         \* the progress indicator
    requests,       \* history: images asked for so far
    leaked          \* history: the last handler to finish left isBusy on

window == <<tracks, albumTitle>>
browser == <<images, selection, shown, reloadPending>>
searching == <<finds, alert>>
busy == <<isBusy, leaked>>
downloads == <<jobs, requests>>
vars == <<window, browser, searching, downloads, previewing, busy>>

Item == [source : {"search", "WebView"}, title : Title \cup {NoTitle}, area : Nat]

Job == [n : 1..MaxRequests, kind : {"immediate", "queue"}, item : Item,
        phase : {"loading", "loaded", "failed"}]

WebItem == [source |-> "WebView", title |-> NoTitle, area |-> 0]

TypeOK ==
    /\ tracks \in TrackLists \cup {NoTracks}
    /\ albumTitle \in Title \cup {NoTitle}
    /\ images \in Seq(Item)
    /\ selection \in Nat
    /\ shown \in Nat
    /\ finds \in 0..MaxFinds
    /\ requests \in 0..MaxRequests
    /\ \A j \in jobs : j \in Job
    /\ {reloadPending, alert, previewing, isBusy, leaked} \subseteq BOOLEAN

Init ==
    /\ tracks = NoTracks
    /\ albumTitle = NoTitle
    /\ images = <<>>
    /\ selection = 0
    /\ shown = 0
    /\ reloadPending = FALSE
    /\ finds = 0
    /\ alert = FALSE
    /\ jobs = {}
    /\ previewing = FALSE
    /\ isBusy = FALSE
    /\ requests = 0
    /\ leaked = FALSE

-----------------------------------------------------------------------------
\* startBusy by a handler whose work will end in clearBusy.
startBusy == isBusy' = TRUE /\ leaked' = FALSE

clearBusy == isBusy' = FALSE /\ leaked' = FALSE

\* startBusy in a handler that ends without any clearBusy to come for it.
startBusyForNothing == isBusy' = TRUE /\ leaked' = TRUE

findImages_Twice(title, idle) ==  \* mutant: one search too many is scheduled
    /\ albumTitle' = title
    /\ IF title = NoTitle
         THEN /\ UNCHANGED <<images, finds>>
              /\ idle
         ELSE /\ images' = <<>>
              /\ finds < MaxFinds
              /\ finds' = finds + 2
              /\ startBusy

findImages_KeepsImages(title, idle) ==  \* mutant: the old results are not cleared
    /\ albumTitle' = title
    /\ UNCHANGED images
    /\ IF title = NoTitle
         THEN /\ UNCHANGED finds
              /\ idle
         ELSE /\ finds < MaxFinds
              /\ finds' = finds + 1
              /\ startBusy

(***************************************************************************)
(* findImages: for the title the handler has just set.  An empty title     *)
(* returns before the old results are cleared; idle says what becomes of   *)
(* the progress indicator then.                                            *)
(***************************************************************************)
findImages(title, idle) ==
    /\ albumTitle' = title
    /\ IF title = NoTitle
         THEN /\ UNCHANGED <<images, finds>>
              /\ idle
         ELSE /\ images' = <<>>
              /\ finds < MaxFinds
              /\ finds' = finds + 1
              /\ startBusy

\* The user edits the search text, whose field is enabled while there are tracks.
setAlbumTitle(title) ==
    /\ ~alert
    /\ tracks \notin {NoTracks, {}}
    /\ findImages(title, UNCHANGED busy)
    /\ UNCHANGED <<tracks, selection, shown, reloadPending, alert, downloads, previewing>>

(***************************************************************************)
(* fetch: "Get Albums", or the iTunes script command.  The script may fail *)
(* or answer with something that is no property list.                      *)
(***************************************************************************)
FetchFails ==
    /\ ~alert
    /\ startBusyForNothing
    /\ UNCHANGED <<window, browser, searching, downloads, previewing>>

FetchSucceeds(list) ==
    /\ ~alert
    /\ tracks' = list
    /\ IF list = {}
         THEN clearBusy /\ UNCHANGED <<albumTitle, images, finds>>
         ELSE findImages(TitleOf[list], clearBusy)
    /\ UNCHANGED <<selection, shown, reloadPending, alert, downloads, previewing>>

fetch == FetchFails \/ \E list \in TrackLists : FetchSucceeds(list)

(***************************************************************************)
(* "Delete" in the track list: the selected tracks leave it.  The click    *)
(* only asks tracksController to remove: them, which AppKit carries out in *)
(* a later turn of the run loop; the step is that turn, and may come in    *)
(* the loop of an alert that began meanwhile.                              *)
(***************************************************************************)
delete(list) ==
    /\ tracks # NoTracks
    /\ list \subseteq tracks /\ list # tracks
    /\ tracks' = list
    /\ UNCHANGED <<albumTitle, browser, searching, downloads, previewing, busy>>

-----------------------------------------------------------------------------
\* What a search for the current title may find of the images a site offers.
Results(areas) ==
    {[source |-> "search", title |-> albumTitle, area |-> a] : a \in areas}

\* areaCompare: the larger image first.
Sorted(s) == \A i, j \in DOMAIN s : i < j => s[i].area >= s[j].area

\* sortUsingSelector: leaves images of one size in any order.
Sortings(s) ==
    {t \in {[i \in DOMAIN s |-> s[p[i]]] : p \in Bijection(DOMAIN s, DOMAIN s)} : Sorted(t)}

(***************************************************************************)
(* reloadData: the browser asks for the number of images.  A selection     *)
(* beyond it is gone; any other may stay or go.                            *)
(***************************************************************************)
reloadData ==
    /\ shown' = Len(images')
    /\ selection' \in {0} \cup (IF selection <= Len(images') THEN {selection} ELSE {})

\* The end of doFindImages: what was found is appended, sorted and shown.
FindingEnds(amazon, google) ==
    /\ \E found \in SetToSeqs(Results(amazon)), more \in SetToSeqs(Results(google)) :
           images' \in Sortings(images \o found \o more)
    /\ reloadData
    /\ clearBusy

(***************************************************************************)
(* doFindImages: the searches block the main thread.  Each may fail and    *)
(* find nothing; Google's second page may fail after the first.            *)
(***************************************************************************)
doFindImages ==
    /\ ~alert
    /\ finds > 0
    /\ finds' = finds - 1
    /\ \E amazon \in SUBSET AmazonAreas, google \in SUBSET GoogleAreas :
           FindingEnds(amazon, google)
    /\ UNCHANGED <<window, reloadPending, alert, downloads, previewing>>

\* doFindImagesAmazon cannot read the answer and runs an alert.
AmazonAlert ==
    /\ ~alert
    /\ finds > 0
    /\ finds' = finds - 1
    /\ alert' = TRUE
    /\ clearBusy
    /\ UNCHANGED <<window, browser, downloads, previewing>>

\* The user dismisses it, and doFindImages goes on with Google.
AlertDismissed ==
    /\ alert
    /\ alert' = FALSE
    /\ \E google \in SUBSET GoogleAreas : FindingEnds({}, google)
    /\ UNCHANGED <<window, reloadPending, finds, downloads, previewing>>

-----------------------------------------------------------------------------
\* imageBrowserSelectionDidChange: the user clicks one of the cells, or beside them.
Select(i) ==
    /\ ~alert
    /\ i \in 0..shown
    /\ selection' = i
    /\ UNCHANGED <<window, images, shown, reloadPending, searching, downloads,
                   previewing, busy>>

\* AppKit: a reloadData that removeItemAtIndex sent to the main thread.
BrowserReloads ==
    /\ reloadPending
    /\ reloadPending' = FALSE
    /\ UNCHANGED images
    /\ reloadData
    /\ UNCHANGED <<window, searching, downloads, previewing, busy>>

(***************************************************************************)
(* selectedImage answers with the selected image.  It answers nil for an   *)
(* index beyond the list, and raises for an empty list, because count - 1  *)
(* is the largest unsigned number then.                                    *)
(***************************************************************************)
HasSelectedImage == selection \in DOMAIN images

LoadInBackground(kind, item) ==
    /\ requests < MaxRequests
    /\ requests' = requests + 1
    /\ jobs' = jobs \cup {[n |-> requests + 1, kind |-> kind, item |-> item,
                           phase |-> "loading"]}

\* The buttons, enabled while an image is selected, and a double click.
setAlbumArtwork ==
    /\ ~alert /\ selection # 0
    /\ HasSelectedImage
    /\ LoadInBackground("immediate", images[selection])
    /\ startBusy
    /\ UNCHANGED <<window, browser, searching, previewing>>

\* addToQueue turns the progress indicator on before it looks for the image.
addToQueue ==
    /\ ~alert /\ selection # 0
    /\ IF HasSelectedImage
         THEN LoadInBackground("queue", images[selection]) /\ startBusy
         ELSE startBusyForNothing /\ UNCHANGED downloads
    /\ UNCHANGED <<window, browser, searching, previewing>>

\* The same two commands in the context menu of an image in the web view.
ChooseWebImage(kind) ==
    /\ ~alert
    /\ LoadInBackground(kind, WebItem)
    /\ startBusy
    /\ UNCHANGED <<window, browser, searching, previewing>>

Load_DropsFailure(j) ==  \* mutant: the thread ends without telling the main thread
    /\ j \in jobs /\ j.phase = "loading"
    /\ \E phase \in {"loaded", "lost"} :
           jobs' = (jobs \ {j}) \cup {[j EXCEPT !.phase = phase]}
    /\ UNCHANGED <<window, browser, searching, requests, previewing, busy>>

\* dataError: on a background thread; a failure is an error, a timeout or a status.
Load(j) ==
    /\ j \in jobs /\ j.phase = "loading"
    /\ \E phase \in {"loaded", "failed"} :
           jobs' = (jobs \ {j}) \cup {[j EXCEPT !.phase = phase]}
    /\ UNCHANGED <<window, browser, searching, requests, previewing, busy>>

-----------------------------------------------------------------------------
(***************************************************************************)
(* queueItemImageDataLoaded and immediateItemImageDataLoaded, as far as    *)
(* the window is concerned.  What they do with the image and with tracks   *)
(* as it is now is in EmbedQueue.                                          *)
(***************************************************************************)
ItemImageDataLoaded(j) ==
    /\ j \in jobs /\ j.phase = "loaded"
    /\ jobs' = jobs \ {j}
    /\ clearBusy
    /\ UNCHANGED <<window, browser, searching, requests, previewing>>

removeCurrentItemAndWarn_NoReload ==  \* mutant: the browser is not told
    IF HasSelectedImage
      THEN /\ images' = RemoveAt(images, selection)
           /\ UNCHANGED <<selection, shown, reloadPending>>
      ELSE UNCHANGED browser

(***************************************************************************)
(* removeCurrentItemAndWarn removes the image that is selected now.  With  *)
(* no selection its assertion fails, and beyond the list removeObjectAtIndex*)
(* raises: the handler ends there.                                         *)
(***************************************************************************)
removeCurrentItemAndWarn ==
    IF HasSelectedImage
      THEN /\ images' = RemoveAt(images, selection)
           /\ reloadPending' = TRUE
           /\ UNCHANGED <<selection, shown>>
      ELSE UNCHANGED browser

itemImageDataLoadFailed_StaysBusy(j) ==  \* mutant: only a success calls clearBusy
    /\ j \in jobs /\ j.phase = "failed"
    /\ jobs' = jobs \ {j}
    /\ IF j.item.source = "WebView" THEN UNCHANGED browser ELSE removeCurrentItemAndWarn
    /\ UNCHANGED <<window, searching, requests, previewing, busy>>

itemImageDataLoadFailed(j) ==
    /\ j \in jobs /\ j.phase = "failed"
    /\ jobs' = jobs \ {j}
    /\ clearBusy
    /\ IF j.item.source = "WebView" THEN UNCHANGED browser ELSE removeCurrentItemAndWarn
    /\ UNCHANGED <<window, searching, requests, previewing>>

\* The space bar: the panel asks for the selected item...
previewPanelItem ==
    /\ ~alert
    /\ HasSelectedImage
    /\ startBusy
    /\ previewing' = TRUE
    /\ UNCHANGED <<window, browser, searching, downloads>>

\* ...and then for its URL, which downloads it and posts SearchItemDidFinish.
previewItemURL ==
    /\ previewing
    /\ clearBusy
    /\ previewing' = FALSE
    /\ UNCHANGED <<window, browser, searching, downloads>>

Next ==
    \/ fetch
    \/ \E title \in Title \cup {NoTitle} : setAlbumTitle(title)
    \/ \E list \in TrackLists : delete(list)
    \/ doFindImages
    \/ AmazonAlert
    \/ AlertDismissed
    \/ \E i \in 0..shown : Select(i)
    \/ BrowserReloads
    \/ setAlbumArtwork
    \/ addToQueue
    \/ \E kind \in {"immediate", "queue"} : ChooseWebImage(kind)
    \/ \E j \in jobs : Load(j) \/ ItemImageDataLoaded(j) \/ itemImageDataLoadFailed(j)
    \/ previewPanelItem
    \/ previewItemURL

Spec == Init /\ [][Next]_vars

-----------------------------------------------------------------------------
(***************************************************************************)
(* The images in the list are results for the text in the search field: no *)
(* search that was still to come, no alert in the middle of one and no new *)
(* album mixes in results for another text.  The exception is an empty     *)
(* title, which findImages takes no notice of.                             *)
(***************************************************************************)
ImagesAreForTitle ==
    albumTitle # NoTitle => \A i \in DOMAIN images : images[i].title = albumTitle

(***************************************************************************)
(* The progress indicator does not run for nothing, whichever operations   *)
(* overlapped, after any handler but two: a fetch that fails, and an Add   *)
(* to Queue without an image.                                              *)
(***************************************************************************)
Idle == finds = 0 /\ ~alert /\ jobs = {} /\ ~previewing

IndicatorStops == isBusy /\ Idle => leaked

(***************************************************************************)
(* With no search and no reload to come, the browser displays the list as  *)
(* it is, and its selection is an image of the list: what the user clicks  *)
(* is what selectedImage answers with.                                     *)
(***************************************************************************)
BrowserShowsList ==
    finds = 0 /\ ~alert /\ ~reloadPending
        => shown = Len(images) /\ selection \in {0} \cup DOMAIN images
===============================================================================
