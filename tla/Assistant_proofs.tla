--------------------------- MODULE Assistant_proofs ---------------------------
(***************************************************************************)
(* Theorems about the window and the queue together: the queue of the      *)
(* application is the one of EmbedQueue, so that what is proved there      *)
(* holds here, and covers go where they were listed.                       *)
(***************************************************************************)
EXTENDS Sequences, Assistant, EmbedQueue_proofs, FiniteSetTheorems

(***************************************************************************)
(* What the window may do to its track list.                               *)
(***************************************************************************)
LEMMA WindowKeepsLists ==
    ASSUME tracks \in TrackLists, WindowStep
    PROVE  tracks' \in TrackLists
<1>1. CASE Window!fetch
  BY <1>1 DEF Window!fetch, Window!FetchFails, Window!FetchSucceeds, Window!window, Lists
<1>2. ASSUME NEW title, Window!setAlbumTitle(title) PROVE tracks' \in TrackLists
  BY <1>2 DEF Window!setAlbumTitle
<1>3. ASSUME NEW list \in Lists, Window!delete(list) PROVE tracks' \in TrackLists
  BY <1>3 DEF Window!delete, Lists
<1>4. CASE Window!doFindImages \/ Window!AmazonAlert \/ Window!AlertDismissed
  BY <1>4 DEF Window!doFindImages, Window!AmazonAlert, Window!AlertDismissed, Window!window
<1>5. ASSUME NEW i, Window!Select(i) PROVE tracks' \in TrackLists
  BY <1>5 DEF Window!Select, Window!window
<1>6. CASE Window!BrowserReloads \/ Window!previewPanelItem \/ Window!previewItemURL
  BY <1>6 DEF Window!BrowserReloads, Window!previewPanelItem, Window!previewItemURL,
              Window!window
<1> QED
  BY <1>1, <1>2, <1>3, <1>4, <1>5, <1>6 DEF WindowStep, WindowActs

(***************************************************************************)
(* The requests leave the list as it is, from the click to the arrival.    *)
(***************************************************************************)
LEMMA RequestsKeepList ==
    ASSUME NEW j, \/ ImageChosen \/ DownloadEnds(j) \/ ImageFails(j)
                  \/ QueuedImageArrives(j) \/ ImmediateImageArrives(j)
    PROVE  tracks' = tracks
<1>1. CASE ImageChosen
  BY <1>1 DEF ImageChosen, Window!setAlbumArtwork, Window!addToQueue,
              Window!ChooseWebImage, Window!window
<1>2. CASE DownloadEnds(j) \/ ImageFails(j)
  BY <1>2 DEF DownloadEnds, ImageFails, Window!Load, Window!itemImageDataLoadFailed,
              Window!window
<1>3. CASE QueuedImageArrives(j) \/ ImmediateImageArrives(j)
  BY <1>3 DEF QueuedImageArrives, ImmediateImageArrives, Window!ItemImageDataLoaded,
              Window!window
<1> QED
  BY <1>1, <1>2, <1>3

LEMMA ListStep ==
    ASSUME tracks \in TrackLists, [AssistantNext]_assistantVars
    PROVE  tracks' \in TrackLists
<1>1. CASE WindowStep
  BY <1>1, WindowKeepsLists
<1>2. ASSUME NEW j \in jobs, \/ ImageChosen \/ DownloadEnds(j) \/ ImageFails(j)
                     \/ QueuedImageArrives(j) \/ ImmediateImageArrives(j)
      PROVE  tracks' \in TrackLists
  BY <1>2, RequestsKeepList
<1>3. CASE ImageChosen
  BY <1>3, RequestsKeepList
<1>4. CASE ProcessQueueClicked \/ TimerFires \/ GroupsRemoved \/ SaveErrorDismissed \/ Relaunch
  BY <1>4 DEF ProcessQueueClicked, TimerFires, GroupsRemoved, SaveErrorDismissed, Relaunch,
              butBusy, windowVars
<1>5. CASE ProcessEnds
  BY <1>5, ListAssumption DEF ProcessEnds, WindowIsNew
<1>6. CASE UNCHANGED assistantVars
  BY <1>6 DEF assistantVars, windowVars, butBusy
<1> QED
  BY <1>1, <1>2, <1>3, <1>4, <1>5, <1>6 DEF AssistantNext

(***************************************************************************)
(* The lists that reach the queue are those the window can have.           *)
(***************************************************************************)
THEOREM WindowListsTracks == AssistantSpec => [](tracks \in TrackLists)
<1>1. AssistantInit => tracks \in TrackLists
  BY ListAssumption DEF AssistantInit, Window!Init
<1>2. tracks \in TrackLists /\ [AssistantNext]_assistantVars => (tracks \in TrackLists)'
  BY ListStep
<1> QED
  BY <1>1, <1>2, PTL DEF AssistantSpec

-----------------------------------------------------------------------------
(***************************************************************************)
(* The window's theorems.  They are about a window alone; the lemmas they  *)
(* rest on are about one step of it, and the application takes such steps. *)
(***************************************************************************)
W == INSTANCE AssistantSession_proofs WITH TrackLists <- Lists

LEMMA WindowParameters == W!ListsAssumption /\ W!TitleAssumption /\ W!BoundsAssumption
BY WindowAssumption
   DEF Window!ListsAssumption, Window!TitleAssumption, Window!BoundsAssumption,
       W!ListsAssumption, W!TitleAssumption, W!BoundsAssumption,
       Window!IsFiniteSet, W!IsFiniteSet

\* The window the theorems are about is the one of the application.
LEMMA SameWindow ==
    /\ Window!vars = W!vars
    /\ Window!Next => W!Next
    /\ Window!TypeOK <=> W!TypeOK
    /\ Window!IndicatorStops <=> W!IndicatorStops
    /\ Window!ImagesAreForTitle <=> W!ImagesAreForTitle
    /\ Window!BrowserShowsList <=> W!BrowserShowsList
<1>1. Window!vars = W!vars
  BY DEF Window!vars, Window!window, Window!browser, Window!searching, Window!downloads,
         Window!busy, W!vars, W!window, W!browser, W!searching, W!downloads, W!busy
<1>2. Window!Next => W!Next
  BY DEF Window!Item, Window!Job, Window!WebItem, Window!Idle, Window!window,
         Window!browser, Window!searching, Window!downloads, Window!busy, Window!vars,
         Window!startBusy, Window!clearBusy, Window!startBusyForNothing, Window!findImages,
         Window!setAlbumTitle, Window!FetchFails, Window!FetchSucceeds, Window!fetch,
         Window!delete, Window!Results, Window!Sorted, Window!Sortings, Window!reloadData,
         Window!FindingEnds, Window!doFindImages, Window!AmazonAlert,
         Window!AlertDismissed, Window!Select, Window!BrowserReloads,
         Window!HasSelectedImage, Window!LoadInBackground, Window!setAlbumArtwork,
         Window!addToQueue, Window!ChooseWebImage, Window!Load, Window!ItemImageDataLoaded,
         Window!removeCurrentItemAndWarn, Window!itemImageDataLoadFailed,
         Window!previewPanelItem, Window!previewItemURL, Window!SetToSeqs, Window!RemoveAt,
         Window!Bijection, Window!Injection, Window!Surjection, Window!IsInjective,
         Window!IsFiniteSet, Window!Cardinality, Window!Next, W!Item, W!Job, W!WebItem,
         W!Idle, W!window, W!browser, W!searching, W!downloads, W!busy, W!vars,
         W!startBusy, W!clearBusy, W!startBusyForNothing, W!findImages, W!setAlbumTitle,
         W!FetchFails, W!FetchSucceeds, W!fetch, W!delete, W!Results, W!Sorted, W!Sortings,
         W!reloadData, W!FindingEnds, W!doFindImages, W!AmazonAlert, W!AlertDismissed,
         W!Select, W!BrowserReloads, W!HasSelectedImage, W!LoadInBackground,
         W!setAlbumArtwork, W!addToQueue, W!ChooseWebImage, W!Load, W!ItemImageDataLoaded,
         W!removeCurrentItemAndWarn, W!itemImageDataLoadFailed, W!previewPanelItem,
         W!previewItemURL, W!SetToSeqs, W!RemoveAt, W!Bijection, W!Injection, W!Surjection,
         W!IsInjective, W!IsFiniteSet, W!Cardinality, W!Next
<1>3. Window!TypeOK <=> W!TypeOK
  BY DEF Window!TypeOK, W!TypeOK, Window!Item, W!Item, Window!Job, W!Job
<1>4. Window!IndicatorStops <=> W!IndicatorStops
  BY DEF Window!IndicatorStops, W!IndicatorStops, Window!Idle, W!Idle
<1>5. Window!ImagesAreForTitle <=> W!ImagesAreForTitle
  BY DEF Window!ImagesAreForTitle, W!ImagesAreForTitle
<1>6. Window!BrowserShowsList <=> W!BrowserShowsList
  BY DEF Window!BrowserShowsList, W!BrowserShowsList
<1> QED
  BY <1>1, <1>2, <1>3, <1>4, <1>5, <1>6

(***************************************************************************)
(* The inductive invariant: beside the window's types, what it promises.   *)
(***************************************************************************)
WindowIsSound ==
    /\ ApplicationIndicatorStops
    /\ Window!ImagesAreForTitle
    /\ Window!BrowserShowsList

WindowInv == Window!TypeOK /\ WindowIsSound

\* A step of the window alone.
LEMMA WindowStepIsSound ==
    ASSUME WindowInv, [Window!Next]_(Window!vars) PROVE WindowInv'
<1>0. (Window!vars = W!vars)'
  BY SameWindow, PTL
<1>1. /\ W!TypeOK /\ W!IndicatorStops /\ W!ImagesAreForTitle /\ W!BrowserShowsList
      /\ [W!Next]_(W!vars)
  <2>1. W!TypeOK /\ W!IndicatorStops /\ W!ImagesAreForTitle /\ W!BrowserShowsList
    BY SameWindow DEF WindowInv, WindowIsSound, ApplicationIndicatorStops
  <2>2. CASE Window!Next
    BY <2>1, <2>2, SameWindow
  <2>3. CASE UNCHANGED Window!vars
    BY <1>0, <2>1, <2>3, SameWindow
  <2> QED
    BY <2>2, <2>3
<1>2. W!TypeOK'
  BY <1>1, WindowParameters, W!SessionTypeStep
<1>3. W!IndicatorStops'
  BY <1>1, WindowParameters, W!IndicatorStep
<1>4. W!ImagesAreForTitle'
  BY <1>1, WindowParameters, W!ResultsStep
<1>5. W!BrowserShowsList'
  BY <1>1, WindowParameters, W!BrowserStep
<1>6. /\ (Window!TypeOK <=> W!TypeOK)'
      /\ (Window!IndicatorStops <=> W!IndicatorStops)'
      /\ (Window!ImagesAreForTitle <=> W!ImagesAreForTitle)'
      /\ (Window!BrowserShowsList <=> W!BrowserShowsList)'
  BY SameWindow, PTL
<1> QED
  BY <1>2, <1>3, <1>4, <1>5, <1>6 DEF WindowInv, WindowIsSound, ApplicationIndicatorStops

\* The queue's handlers turn the indicator off and touch nothing else.
LEMMA QueueLeavesWindowSound ==
    ASSUME WindowInv, UNCHANGED butBusy, Window!clearBusy PROVE WindowInv'
BY DEF WindowInv, WindowIsSound, ApplicationIndicatorStops, butBusy, Window!clearBusy,
       Window!TypeOK,
       Window!IndicatorStops, Window!Idle, Window!ImagesAreForTitle, Window!BrowserShowsList

\* A window that nothing was done with yet.
LEMMA NewWindowIsSound ==
    /\ Window!Init => WindowInv
    /\ WindowIsNew => WindowInv'
<1>1. /\ <<>> \in Seq(Window!Item) /\ Len(<<>>) = 0 /\ DOMAIN <<>> = {}
      /\ 0 \in 0..MaxFinds /\ 0 \in 0..MaxRequests /\ 0 \in Nat
  <2>1. MaxFinds \in Nat /\ MaxRequests \in Nat
    BY WindowAssumption DEF Window!BoundsAssumption
  <2> QED
    BY <2>1
<1>2. ASSUME Window!Init PROVE WindowInv
  <2>1. {reloadPending, alert, previewing, isBusy, leaked} \subseteq BOOLEAN
    BY <1>2, Zenon DEF Window!Init
  <2> QED
    BY <1>1, <1>2, <2>1
       DEF Window!Init, WindowInv, WindowIsSound, ApplicationIndicatorStops, Window!TypeOK,
           Window!IndicatorStops,
           Window!ImagesAreForTitle, Window!BrowserShowsList
<1>3. ASSUME WindowIsNew PROVE WindowInv'
  <2>1. {reloadPending', alert', previewing', isBusy', leaked'} \subseteq BOOLEAN
    BY <1>3, Zenon DEF WindowIsNew
  <2> QED
    BY <1>1, <1>3, <2>1
       DEF WindowIsNew, WindowInv, WindowIsSound, ApplicationIndicatorStops, Window!TypeOK,
           Window!IndicatorStops,
           Window!ImagesAreForTitle, Window!BrowserShowsList
<1> QED
  BY <1>2, <1>3

\* Every step of the application is one of these for the window.
LEMMA WindowSeesStep ==
    ASSUME AssistantNext
    PROVE  \/ [Window!Next]_(Window!vars)
           \/ UNCHANGED butBusy /\ Window!clearBusy
           \/ WindowIsNew
<1>0. ASSUME UNCHANGED windowVars PROVE UNCHANGED Window!vars
  BY <1>0 DEF windowVars, butBusy, busy, Window!vars, Window!window, Window!browser,
              Window!searching, Window!downloads, Window!busy
<1>1. CASE WindowStep
  BY <1>1 DEF WindowStep, WindowActs, Window!Next
<1>2. CASE ImageChosen
  BY <1>2 DEF ImageChosen, Window!Next
<1>3. ASSUME NEW j \in jobs, DownloadEnds(j) \/ ImageFails(j)
      PROVE  Window!Next
  BY <1>3 DEF DownloadEnds, ImageFails, Window!Next
<1>4. ASSUME NEW j \in jobs, QueuedImageArrives(j) \/ ImmediateImageArrives(j)
      PROVE  Window!Next
  BY <1>4 DEF QueuedImageArrives, ImmediateImageArrives, Window!Next
<1>5. CASE ProcessQueueClicked
  <2>1. UNCHANGED butBusy /\ (UNCHANGED busy \/ Window!clearBusy)
    BY <1>5 DEF ProcessQueueClicked
  <2>2. CASE UNCHANGED busy
    BY <1>0, <2>1, <2>2 DEF windowVars
  <2> QED
    BY <2>1, <2>2
<1>6. CASE TimerFires
  BY <1>6 DEF TimerFires
<1>7. CASE GroupsRemoved \/ SaveErrorDismissed \/ Relaunch
  BY <1>0, <1>7 DEF GroupsRemoved, SaveErrorDismissed, Relaunch
<1>8. CASE ProcessEnds
  BY <1>8 DEF ProcessEnds
<1> QED
  BY <1>1, <1>2, <1>3, <1>4, <1>5, <1>6, <1>7, <1>8 DEF AssistantNext

\* Every step of the application keeps the window's invariant.
THEOREM WindowKeepsItsInvariant == AssistantSpec => []WindowInv
<1>1. AssistantInit => WindowInv
  BY NewWindowIsSound DEF AssistantInit
<1>2. WindowInv /\ [AssistantNext]_assistantVars => WindowInv'
  <2> SUFFICES ASSUME WindowInv, [AssistantNext]_assistantVars PROVE WindowInv'
    OBVIOUS
  <2>1. CASE AssistantNext
    BY <2>1, WindowSeesStep, WindowStepIsSound, QueueLeavesWindowSound, NewWindowIsSound
  <2>2. CASE UNCHANGED assistantVars
    <3>1. UNCHANGED Window!vars
      BY <2>2 DEF assistantVars, windowVars, butBusy, busy, Window!vars, Window!window,
                  Window!browser, Window!searching, Window!downloads, Window!busy
    <3> QED
      BY <3>1, WindowStepIsSound
  <2> QED
    BY <2>1, <2>2
<1> QED
  BY <1>1, <1>2, PTL DEF AssistantSpec

(***************************************************************************)
(* The window keeps its promises in the application, for any number of     *)
(* albums, searches and downloads, while the queue is processed between    *)
(* its steps and the process ends and starts again: the indicator stops,   *)
(* the images are for the text in the search field, and the browser shows  *)
(* the list.                                                               *)
(***************************************************************************)
THEOREM WindowIsSoundInApplication ==
    AssistantSpec => [](/\ ApplicationIndicatorStops
                        /\ Window!ImagesAreForTitle
                        /\ Window!BrowserShowsList)
<1>1. WindowInv => /\ ApplicationIndicatorStops
                   /\ Window!ImagesAreForTitle
                   /\ Window!BrowserShowsList
  BY DEF WindowInv, WindowIsSound
<1> QED
  BY <1>1, WindowKeepsItsInvariant, PTL

-----------------------------------------------------------------------------
(***************************************************************************)
(* What the downloads bring.  A request keeps its number to itself, so an  *)
(* arrival that takes its own image leaves the others theirs.              *)
(***************************************************************************)
DataInv ==
    /\ data \in [1..MaxRequests -> Image \cup {NoImage}]
    /\ \A j \in jobs : j.n <= requests
    /\ \A j, k \in jobs : j.n = k.n => j = k
    /\ \A j \in jobs : j.phase = "loaded" => data[j.n] \in Image

\* Requests that go, or stay as they are.
LEMMA DataStays ==
    ASSUME DataInv, data' = data, requests' = requests, jobs' \subseteq jobs PROVE DataInv'
BY DEF DataInv

LEMMA DownloadBringsData ==
    ASSUME DataInv, Window!TypeOK, NEW j \in jobs, DownloadEnds(j) PROVE DataInv'
<1>1. PICK phase \in {"loaded", "failed"} :
          jobs' = (jobs \ {j}) \cup {[j EXCEPT !.phase = phase]}
  BY DEF DownloadEnds, Window!Load
<1> DEFINE k == [j EXCEPT !.phase = phase]
<1>2. /\ k.n = j.n /\ k.phase = phase /\ j.n \in 1..MaxRequests
      /\ phase = "loaded" => [j EXCEPT !.phase = "loaded"] \in jobs'
  BY <1>1 DEF Window!TypeOK, Window!Job
<1>3. requests' = requests
  BY DEF DownloadEnds, Window!Load
<1>4. \/ data' = data /\ phase = "failed"
      \/ \E image \in Image : data' = [data EXCEPT ![j.n] = image]
  BY <1>2 DEF DownloadEnds
<1> HIDE DEF k
<1>5. data' \in [1..MaxRequests -> Image \cup {NoImage}]
  BY <1>4 DEF DataInv
<1>6. ASSUME NEW i \in jobs' PROVE i.n <= requests'
  BY <1>1, <1>2, <1>3, <1>6 DEF DataInv, k
<1>7. ASSUME NEW i \in jobs', NEW h \in jobs', i.n = h.n PROVE i = h
  <2>1. \A x \in jobs \ {j} : x.n # j.n
    BY DEF DataInv
  <2>2. (i \in jobs \ {j} \/ i = k) /\ (h \in jobs \ {j} \/ h = k)
    BY <1>1 DEF k
  <2> QED
    BY <1>2, <1>7, <2>1, <2>2 DEF DataInv
<1>8. ASSUME NEW i \in jobs', i.phase = "loaded" PROVE data'[i.n] \in Image
  <2>1. CASE i = k
    BY <1>2, <1>4, <1>8, <2>1 DEF DataInv
  <2>2. CASE i # k
    <3>1. i \in jobs /\ i # j
      BY <1>1, <2>2 DEF k
    <3>2. i.n # j.n /\ data[i.n] \in Image /\ i.n \in 1..MaxRequests
      BY <1>8, <3>1 DEF DataInv, Window!TypeOK, Window!Job
    <3> QED
      BY <1>4, <3>2 DEF DataInv
  <2> QED
    BY <2>1, <2>2
<1> QED
  BY <1>5, <1>6, <1>7, <1>8 DEF DataInv

LEMMA ArrivalTakesData ==
    ASSUME DataInv, Window!TypeOK, NEW j \in jobs,
           QueuedImageArrives(j) \/ ImmediateImageArrives(j)
    PROVE  DataInv'
<1>1. /\ jobs' = jobs \ {j} /\ requests' = requests
      /\ data' = [data EXCEPT ![j.n] = NoImage]
  BY DEF QueuedImageArrives, ImmediateImageArrives, HandedOver, Window!ItemImageDataLoaded
<1>2. \A i \in jobs' : i \in jobs /\ i.n # j.n /\ i.n \in 1..MaxRequests
  BY <1>1 DEF DataInv, Window!TypeOK, Window!Job
<1>3. data' \in [1..MaxRequests -> Image \cup {NoImage}]
  BY <1>1 DEF DataInv
<1>4. \A i \in jobs' : data'[i.n] = data[i.n]
  BY <1>1, <1>2 DEF DataInv
<1> QED
  BY <1>1, <1>2, <1>3, <1>4 DEF DataInv

\* A new request has a number no request had.
LEMMA RequestHasNoData ==
    ASSUME DataInv, Window!TypeOK, ImageChosen PROVE DataInv'
<1>1. data' = data
  BY DEF ImageChosen
<1>2. CASE jobs' = jobs /\ requests' = requests
  BY <1>1, <1>2, DataStays
<1>3. ASSUME NEW kind, NEW item, Window!LoadInBackground(kind, item) PROVE DataInv'
  <2> DEFINE k == [n |-> requests + 1, kind |-> kind, item |-> item, phase |-> "loading"]
  <2>1. jobs' = jobs \cup {k} /\ requests' = requests + 1
    BY <1>3 DEF Window!LoadInBackground
  <2>2. k.n = requests + 1 /\ k.phase # "loaded"
    OBVIOUS
  <2> HIDE DEF k
  <2>3. requests \in Nat
    <3>1. requests \in 0..MaxRequests /\ MaxRequests \in Nat
      BY WindowAssumption DEF Window!TypeOK, Window!BoundsAssumption
    <3> QED
      BY ONLY <3>1
  <2>4. \A j \in jobs : j.n \in Nat /\ j.n <= requests
    <3>1. \A j \in jobs : j.n \in 1..MaxRequests
      BY DEF Window!TypeOK, Window!Job
    <3>2. MaxRequests \in Nat
      BY WindowAssumption DEF Window!BoundsAssumption
    <3>3. \A j \in jobs : j.n \in Nat
      BY ONLY <3>1, <3>2
    <3> QED
      BY <3>3 DEF DataInv
  <2>5. \A j \in jobs' : j.n <= requests'
    BY <2>1, <2>2, <2>3, <2>4
  <2>6. \A j \in jobs : j.n # k.n
    BY <2>2, <2>3, <2>4
  <2>7. \A i, j \in jobs' : i.n = j.n => i = j
    BY <2>1, <2>6 DEF DataInv
  <2> QED
    BY <1>1, <2>1, <2>2, <2>5, <2>7 DEF DataInv
<1> QED
  BY <1>2, <1>3 DEF ImageChosen, Window!setAlbumArtwork, Window!addToQueue,
                    Window!ChooseWebImage, Window!downloads

LEMMA DataStep ==
    ASSUME DataInv, Window!TypeOK, [AssistantNext]_assistantVars PROVE DataInv'
<1>1. CASE WindowStep
  <2>1. jobs' = jobs /\ requests' = requests
    BY <1>1 DEF WindowStep, WindowActs, Window!fetch, Window!FetchFails, Window!FetchSucceeds,
                Window!setAlbumTitle, Window!delete, Window!doFindImages, Window!AmazonAlert,
                Window!AlertDismissed, Window!Select, Window!BrowserReloads,
                Window!previewPanelItem, Window!previewItemURL, Window!downloads
  <2> QED
    BY <1>1, <2>1, DataStays DEF WindowStep
<1>2. CASE ImageChosen
  BY <1>2, RequestHasNoData
<1>3. ASSUME NEW j \in jobs, DownloadEnds(j) PROVE DataInv'
  BY <1>3, DownloadBringsData
<1>4. ASSUME NEW j \in jobs, ImageFails(j) PROVE DataInv'
  BY <1>4, DataStays DEF ImageFails, Window!itemImageDataLoadFailed
<1>5. ASSUME NEW j \in jobs, QueuedImageArrives(j) \/ ImmediateImageArrives(j) PROVE DataInv'
  BY <1>5, ArrivalTakesData
<1>6. CASE ProcessQueueClicked \/ TimerFires \/ GroupsRemoved \/ SaveErrorDismissed \/ Relaunch
  <2>1. jobs' = jobs /\ requests' = requests /\ data' = data
    BY <1>6 DEF ProcessQueueClicked, TimerFires, GroupsRemoved, SaveErrorDismissed, Relaunch,
                windowVars, butBusy
  <2> QED
    BY <2>1, DataStays
<1>7. CASE ProcessEnds
  BY <1>7 DEF ProcessEnds, WindowIsNew, NoData, DataInv
<1>8. CASE UNCHANGED assistantVars
  BY <1>8, DataStays DEF assistantVars, windowVars, butBusy
<1> QED
  BY <1>1, <1>2, <1>3, <1>4, <1>5, <1>6, <1>7, <1>8 DEF AssistantNext

(***************************************************************************)
(* The call to the main thread for a request that was loaded brings an     *)
(* image, and for each request its own.                                    *)
(***************************************************************************)
THEOREM DataInvariant == AssistantSpec => []DataInv
<1>1. AssistantInit => DataInv
  BY DEF AssistantInit, Window!Init, NoData, DataInv
<1>2. DataInv /\ WindowInv /\ [AssistantNext]_assistantVars => DataInv'
  BY DataStep DEF WindowInv
<1> QED
  BY <1>1, <1>2, WindowKeepsItsInvariant, PTL DEF AssistantSpec

-----------------------------------------------------------------------------
(***************************************************************************)
(* A step of the application is a step of the queue or leaves it alone.    *)
(***************************************************************************)
LEMMA QueueStep ==
    ASSUME tracks \in TrackLists, DataInv, [AssistantNext]_assistantVars
    PROVE  [Next]_vars
<1>1. CASE WindowStep \/ ImageChosen
  BY <1>1 DEF WindowStep, ImageChosen
<1>2. ASSUME NEW j, DownloadEnds(j) \/ ImageFails(j) PROVE [Next]_vars
  BY <1>2 DEF DownloadEnds, ImageFails
<1>3. ASSUME NEW j \in jobs, QueuedImageArrives(j) \/ ImmediateImageArrives(j)
      PROVE  [Next]_vars
  <2>1. data[j.n] \in Image
    BY <1>3 DEF QueuedImageArrives, ImmediateImageArrives, Window!ItemImageDataLoaded, DataInv
  <2>2. \/ queueItemImageDataLoaded(tracks, data[j.n])
        \/ immediateItemImageDataLoaded(tracks, data[j.n])
    BY <1>3 DEF QueuedImageArrives, ImmediateImageArrives
  <2> QED
    BY <2>1, <2>2 DEF Next
<1>4. CASE ProcessQueueClicked \/ TimerFires
  BY <1>4 DEF ProcessQueueClicked, TimerFires, processQueue, Next
<1>5. CASE GroupsRemoved \/ SaveErrorDismissed \/ ProcessEnds \/ Relaunch
  BY <1>5 DEF GroupsRemoved, SaveErrorDismissed, ProcessEnds, Relaunch, Next
<1>6. CASE UNCHANGED assistantVars
  BY <1>6 DEF assistantVars
<1> QED
  BY <1>1, <1>2, <1>3, <1>4, <1>5, <1>6 DEF AssistantNext

(***************************************************************************)
(* The application implements the queue: neither the window nor an alert   *)
(* makes the queue do what it could not do alone.                          *)
(***************************************************************************)
THEOREM AssistantImplementsQueue == AssistantSpec => Spec
<1>1. AssistantInit => Init
  BY DEF AssistantInit
<1>2. tracks \in TrackLists /\ DataInv /\ [AssistantNext]_assistantVars => [Next]_vars
  BY QueueStep
<1> QED
  BY <1>1, <1>2, WindowListsTracks, DataInvariant, PTL DEF AssistantSpec, Spec

(***************************************************************************)
(* The application implements the abstract queue too: what its user sees,  *)
(* through albums fetched meanwhile, alerts and restarts, is a set of jobs *)
(* written behind to a durable copy.                                       *)
(***************************************************************************)
THEOREM AssistantImplementsDurableQueue == AssistantSpec => Queue!Spec
BY AssistantImplementsQueue, CodeImplementsDurableQueue, PTL

(***************************************************************************)
(* The invariants of the queue hold in the application: however window and *)
(* queue interleave, no stored group whose covers are missing is dropped,  *)
(* a group that is over comes back in no life of the process and after its *)
(* end only from the file, what the file holds can be embedded, and a      *)
(* processing queue has its timer.                                         *)
(***************************************************************************)
THEOREM QueueIsSoundInApplication ==
    AssistantSpec => [](/\ StoredGroupsAreAccountedFor
                        /\ OverGroupsReturnOnlyFromStore
                        /\ StoredGroupsCanBeEmbedded
                        /\ ProcessingIsScheduled)
BY AssistantImplementsQueue, QueueIsAccountedFor, TimersAreSound, PTL

(***************************************************************************)
(* On a disk that does not fail, only malformed groups and removals keep   *)
(* the file from what the window shows.                                    *)
(***************************************************************************)
THEOREM OnlyMalformedGroupsBlockSaves ==
    ASSUME DiskMayFail = FALSE
    PROVE  AssistantSpec => []UnsavedOnlyBehindMalformed
BY AssistantImplementsQueue, SoundDiskLosesNothingElse, PTL

-----------------------------------------------------------------------------
(***************************************************************************)
(* An arriving image that finds tracks, or a nil list, makes a group that  *)
(* carries it for the tracks listed now and was not in the context; a save *)
(* that works writes it, and only a group made before stops it.            *)
(***************************************************************************)
LEMMA ArrivalIsKept ==
    ASSUME DurabilityInv, tracks # {}, NEW image \in Image,
           queueItemImageDataLoaded(tracks, image)
    PROVE  \E g \in context' \ context :
              /\ g.tracks = ListedTracks
              /\ g.image = image
              /\ \/ g \in store'
                 \/ tracks = NoTracks
                 \/ DiskMayFail
                 \/ \E bad \in context : ~WellFormed(bad)
<1> DEFINE g == makeTrackGroup(tracks, image)
<1>1. context' = context \cup {g} /\ save /\ g.id = lastId + 1 /\ lastId \in Nat
  <2>1. lastId \in Nat
    <3>1. lastId \in 0..MaxGroups
      BY DEF DurabilityInv, TypeOK
    <3> QED
      BY ONLY <3>1, BoundAssumption
  <2> QED
    BY <2>1 DEF queueItemImageDataLoaded, makeTrackGroup
<1>2. g \notin context
  <2>1. \A h \in context : h.id <= lastId
    BY DEF DurabilityInv, IdsHandedOut
  <2> HIDE DEF g
  <2> QED
    BY <1>1, <2>1
<1>3. g.tracks = ListedTracks /\ g.image = image
  BY DEF makeTrackGroup, ListedTracks
<1>4. tracks = NoTracks \/ WellFormed(g)
  BY ImageAssumption DEF WellFormed, makeTrackGroup
<1>5. \/ store' = context' \/ DiskMayFail
      \/ \E bad \in context' : ~WellFormed(bad)
  BY <1>1, DiskAssumption, SaveFailsOnlyForMalformed
<1> HIDE DEF g
<1> QED
  BY <1>1, <1>2, <1>3, <1>4, <1>5

\* The requests go when their image arrives or fails, or with the process, and not before.
LEMMA RequestsGoWhenAnswered ==
    ASSUME [AssistantNext]_assistantVars, running',
           NEW j \in jobs, \A k \in jobs' : k.n # j.n, j.kind = "queue", j.phase # "failed",
           Window!TypeOK
    PROVE  QueuedImageArrives(j)
<1>0. ASSUME j \in jobs' PROVE FALSE
  BY <1>0
<1>1. CASE WindowStep
  <2>1. jobs' = jobs
    BY <1>1 DEF WindowStep, WindowActs, Window!fetch, Window!FetchFails, Window!FetchSucceeds,
                Window!setAlbumTitle, Window!delete, Window!doFindImages, Window!AmazonAlert,
                Window!AlertDismissed, Window!Select, Window!BrowserReloads,
                Window!previewPanelItem, Window!previewItemURL, Window!downloads
  <2> QED
    BY <1>0, <2>1
<1>2. CASE ImageChosen
  <2>1. jobs \subseteq jobs'
    BY <1>2 DEF ImageChosen, Window!setAlbumArtwork, Window!addToQueue,
                Window!ChooseWebImage, Window!LoadInBackground, Window!downloads
  <2> QED
    BY <1>0, <2>1
<1>3. ASSUME NEW i \in jobs, DownloadEnds(i) PROVE FALSE
  <2>1. PICK phase \in {"loaded", "failed"} :
            jobs' = (jobs \ {i}) \cup {[i EXCEPT !.phase = phase]}
    BY <1>3 DEF DownloadEnds, Window!Load
  <2>2. [i EXCEPT !.phase = phase].n = i.n
    BY DEF Window!TypeOK, Window!Job
  <2> QED
    BY <1>0, <2>1, <2>2
<1>4. ASSUME NEW i \in jobs, ImageFails(i) PROVE FALSE
  BY <1>0, <1>4 DEF ImageFails, Window!itemImageDataLoadFailed
<1>5. ASSUME NEW i \in jobs, QueuedImageArrives(i) PROVE QueuedImageArrives(j)
  <2>1. jobs' = jobs \ {i}
    BY <1>5 DEF QueuedImageArrives, Window!ItemImageDataLoaded
  <2> QED
    BY <1>0, <1>5, <2>1
<1>6. ASSUME NEW i \in jobs, ImmediateImageArrives(i) PROVE FALSE
  BY <1>0, <1>6 DEF ImmediateImageArrives, Window!ItemImageDataLoaded
<1>7. CASE ProcessQueueClicked \/ TimerFires \/ GroupsRemoved \/ SaveErrorDismissed \/ Relaunch
  <2>1. jobs' = jobs
    BY <1>7 DEF ProcessQueueClicked, TimerFires, GroupsRemoved, SaveErrorDismissed, Relaunch,
                windowVars, butBusy
  <2> QED
    BY <1>0, <2>1
<1>8. CASE ProcessEnds
  BY <1>8 DEF ProcessEnds, Terminate, CrashWhileEmbedding, MemoryLost
<1>9. CASE UNCHANGED assistantVars
  BY <1>0, <1>9 DEF assistantVars, windowVars, butBusy
<1> QED
  BY <1>1, <1>2, <1>3, <1>4, <1>5, <1>6, <1>7, <1>8, <1>9 DEF AssistantNext

(***************************************************************************)
(* For any number of requests, images and track lists and any order of the *)
(* answers: the image that arrives for the queue, unless the list is       *)
(* empty, is the image of a new group of it, and in the file at once       *)
(* unless the list is nil, the disk fails or a malformed group was there.  *)
(***************************************************************************)
THEOREM NoQueuedImageIsLost == AssistantSpec => QueuedImagesAreKept
<1> DEFINE Kept ==
      running' => \A j \in jobs :
          j.kind = "queue" /\ j.phase # "failed" /\ (\A k \in jobs' : k.n # j.n) /\ tracks # {}
            => \E g \in context' \ context :
                  /\ g.tracks = ListedTracks
                  /\ g.image = data[j.n]
                  /\ \/ g \in store'
                     \/ tracks = NoTracks
                     \/ DiskMayFail
                     \/ \E bad \in context : ~WellFormed(bad)
<1>1. DurabilityInv /\ WindowInv /\ DataInv /\ [AssistantNext]_assistantVars => Kept
  <2> SUFFICES ASSUME DurabilityInv, WindowInv, DataInv,
                      [AssistantNext]_assistantVars, running',
                      NEW j \in jobs, j.kind = "queue", j.phase # "failed",
                      \A k \in jobs' : k.n # j.n, tracks # {}
               PROVE  \E g \in context' \ context :
                        /\ g.tracks = ListedTracks
                        /\ g.image = data[j.n]
                        /\ \/ g \in store'
                           \/ tracks = NoTracks
                           \/ DiskMayFail
                           \/ \E bad \in context : ~WellFormed(bad)
    OBVIOUS
  <2>1. QueuedImageArrives(j)
    BY RequestsGoWhenAnswered DEF WindowInv
  <2>2. queueItemImageDataLoaded(tracks, data[j.n]) /\ data[j.n] \in Image
    BY <2>1 DEF QueuedImageArrives, Window!ItemImageDataLoaded, DataInv
  <2> QED
    BY <2>2, ArrivalIsKept
<1>2. AssistantSpec => []DurabilityInv
  BY AssistantImplementsQueue, DurabilityInvariant, PTL
<1> HIDE DEF Kept
<1>3. DurabilityInv /\ WindowInv /\ DataInv /\ [AssistantNext]_assistantVars
      => [Kept]_assistantVars
  BY <1>1
<1>4. AssistantSpec => [][Kept]_assistantVars
  BY <1>2, <1>3, DataInvariant, WindowKeepsItsInvariant, PTL DEF AssistantSpec
<1> QED
  BY <1>4 DEF Kept, QueuedImagesAreKept

-----------------------------------------------------------------------------
(***************************************************************************)
(* The bound MaxGroups keeps the user from asking for more; it never stops *)
(* an image that was asked for.  The invariant counts the requests for the *)
(* queue with the groups there were.                                       *)
(***************************************************************************)
QueueJobs == {j \in jobs : j.kind = "queue"}

RoomInv ==
    /\ IsFiniteSet(jobs)
    /\ lastId \in Nat
    /\ lastId + Cardinality(QueueJobs) <= MaxGroups

\* Fewer requests for the queue, and no new group.
LEMMA RoomStays ==
    ASSUME RoomInv, lastId' = lastId, jobs' \subseteq jobs PROVE RoomInv'
<1>1. IsFiniteSet(jobs') /\ IsFiniteSet(QueueJobs)
  <2>1. QueueJobs \subseteq jobs
    BY DEF QueueJobs
  <2> QED
    BY <2>1, FS_Subset DEF RoomInv
<1>2. Cardinality(QueueJobs') <= Cardinality(QueueJobs) /\ IsFiniteSet(QueueJobs')
  <2>1. QueueJobs' \subseteq QueueJobs
    BY DEF QueueJobs
  <2> QED
    BY <1>1, <2>1, FS_Subset
<1>3. Cardinality(QueueJobs) \in Nat /\ Cardinality(QueueJobs') \in Nat
  BY <1>1, <1>2, FS_CardinalityType
<1> DEFINE q == Cardinality(QueueJobs)
           r == Cardinality(QueueJobs')
<1>4. q \in Nat /\ r \in Nat /\ r <= q /\ lastId \in Nat /\ lastId + q <= MaxGroups
  BY <1>2, <1>3 DEF RoomInv
<1> HIDE DEF q, r
<1>5. lastId + r <= MaxGroups
  BY <1>4, BoundAssumption
<1> QED
  BY <1>1, <1>4, <1>5 DEF RoomInv, r

\* The end of a download changes the phase of a request and leaves its kind.
LEMMA DownloadKeepsRoom ==
    ASSUME RoomInv, Window!TypeOK, NEW j \in jobs, DownloadEnds(j), lastId' = lastId
    PROVE  RoomInv'
<1>1. PICK phase \in {"loaded", "failed"} :
          jobs' = (jobs \ {j}) \cup {[j EXCEPT !.phase = phase]}
  BY DEF DownloadEnds, Window!Load
<1> DEFINE k == [j EXCEPT !.phase = phase]
<1>2. k.kind = j.kind
  BY DEF Window!TypeOK, Window!Job
<1> HIDE DEF k
<1>3. IsFiniteSet(jobs) /\ IsFiniteSet(QueueJobs) /\ IsFiniteSet(QueueJobs \ {j})
      /\ Cardinality(QueueJobs) \in Nat
  <2>1. QueueJobs \subseteq jobs
    BY DEF QueueJobs
  <2>2. IsFiniteSet(QueueJobs)
    BY <2>1, FS_Subset DEF RoomInv
  <2> QED
    BY <2>2, FS_RemoveElement, FS_CardinalityType DEF RoomInv
<1>4. IsFiniteSet(jobs')
  <2>1. IsFiniteSet(jobs \ {j})
    BY <1>3, FS_RemoveElement
  <2> QED
    BY <1>1, <2>1, FS_AddElement DEF k
<1>5. /\ IsFiniteSet(QueueJobs') /\ Cardinality(QueueJobs') \in Nat
      /\ Cardinality(QueueJobs') <= Cardinality(QueueJobs)
  <2>1. CASE j.kind = "queue"
    <3>1. j \in QueueJobs /\ QueueJobs' = (QueueJobs \ {j}) \cup {k}
      BY <1>1, <1>2, <2>1 DEF QueueJobs, k
    <3>2. Cardinality(QueueJobs \ {j}) = Cardinality(QueueJobs) - 1
      BY <1>3, <3>1, FS_RemoveElement
    <3>3. /\ IsFiniteSet(QueueJobs')
          /\ \/ Cardinality(QueueJobs') = Cardinality(QueueJobs \ {j})
             \/ Cardinality(QueueJobs') = Cardinality(QueueJobs \ {j}) + 1
      BY <1>3, <3>1, FS_AddElement
    <3>4. Cardinality(QueueJobs') \in Nat
      BY <3>3, FS_CardinalityType
    <3> QED
      BY <1>3, <3>2, <3>3, <3>4
  <2>2. CASE j.kind # "queue"
    <3>1. QueueJobs' = QueueJobs
      BY <1>1, <1>2, <2>2 DEF QueueJobs, k
    <3>2. QueueJobs' = QueueJobs => Cardinality(QueueJobs') = Cardinality(QueueJobs)
      OBVIOUS
    <3> QED
      BY <1>3, <3>1, <3>2
  <2> QED
    BY <2>1, <2>2
<1> DEFINE q == Cardinality(QueueJobs)
           r == Cardinality(QueueJobs')
<1>6. q \in Nat /\ r \in Nat /\ r <= q /\ lastId \in Nat /\ lastId + q <= MaxGroups
  BY <1>3, <1>5 DEF RoomInv
<1> HIDE DEF q, r
<1>7. lastId + r <= MaxGroups
  BY <1>6, BoundAssumption
<1> QED
  BY <1>4, <1>6, <1>7 DEF RoomInv, r

\* An arrival takes one place of its request.
LEMMA ArrivalKeepsRoom ==
    ASSUME RoomInv, NEW j \in jobs, QueuedImageArrives(j) PROVE RoomInv'
<1>1. jobs' = jobs \ {j} /\ j.kind = "queue" /\ lastId' = lastId + 1
  BY DEF QueuedImageArrives, Window!ItemImageDataLoaded, queueItemImageDataLoaded
<1>2. j \in QueueJobs /\ QueueJobs' = QueueJobs \ {j}
  BY <1>1 DEF QueueJobs
<1>3. IsFiniteSet(jobs') /\ IsFiniteSet(QueueJobs)
  <2>1. QueueJobs \subseteq jobs /\ jobs' \subseteq jobs
    BY <1>1 DEF QueueJobs
  <2> QED
    BY <2>1, FS_Subset DEF RoomInv
<1>4. Cardinality(QueueJobs') = Cardinality(QueueJobs) - 1
  BY <1>2, <1>3, FS_RemoveElement
<1> DEFINE q == Cardinality(QueueJobs)
           r == Cardinality(QueueJobs')
<1>5. q \in Nat /\ r = q - 1 /\ lastId \in Nat /\ lastId + q <= MaxGroups
  BY <1>3, <1>4, FS_CardinalityType DEF RoomInv
<1> HIDE DEF q, r
<1>6. lastId + 1 \in Nat /\ (lastId + 1) + r <= MaxGroups
  BY <1>5, BoundAssumption
<1> QED
  BY <1>1, <1>3, <1>6 DEF RoomInv, r

LEMMA RoomStep ==
    ASSUME RoomInv, Window!TypeOK, [AssistantNext]_assistantVars PROVE RoomInv'
<1>1. CASE WindowStep
  <2>1. jobs' = jobs
    BY <1>1 DEF WindowStep, WindowActs, Window!fetch, Window!FetchFails, Window!FetchSucceeds,
                Window!setAlbumTitle, Window!delete, Window!doFindImages, Window!AmazonAlert,
                Window!AlertDismissed, Window!Select, Window!BrowserReloads,
                Window!previewPanelItem, Window!previewItemURL, Window!downloads
  <2>2. lastId' = lastId
    BY <1>1 DEF WindowStep, vars, history
  <2> QED
    BY <2>1, <2>2, RoomStays
<1>2. CASE ImageChosen
  <2>1. \/ jobs' = jobs
        \/ \E k : jobs' = jobs \cup {k}
    BY <1>2 DEF ImageChosen, Window!setAlbumArtwork, Window!addToQueue,
                Window!ChooseWebImage, Window!LoadInBackground, Window!downloads
  <2>2. IsFiniteSet(jobs')
    BY <2>1, FS_AddElement DEF RoomInv
  <2>3. lastId' = lastId /\ lastId + ToInsert(jobs') <= MaxGroups
    BY <1>2 DEF ImageChosen, vars, history
  <2>4. ToInsert(jobs') = Cardinality(QueueJobs')
    BY DEF ToInsert, QueueJobs
  <2> QED
    BY <2>2, <2>3, <2>4 DEF RoomInv
<1>3. ASSUME NEW j \in jobs, DownloadEnds(j) PROVE RoomInv'
  BY <1>3, DownloadKeepsRoom DEF DownloadEnds, vars, history
<1>4. ASSUME NEW j \in jobs, QueuedImageArrives(j) PROVE RoomInv'
  BY <1>4, ArrivalKeepsRoom
<1>5. ASSUME NEW j \in jobs, ImageFails(j) \/ ImmediateImageArrives(j) PROVE RoomInv'
  <2>1. jobs' \subseteq jobs
    BY <1>5 DEF ImageFails, ImmediateImageArrives, Window!itemImageDataLoadFailed,
                Window!ItemImageDataLoaded
  <2>2. lastId' = lastId
    BY <1>5 DEF ImageFails, ImmediateImageArrives, immediateItemImageDataLoaded, vars, history
  <2> QED
    BY <2>1, <2>2, RoomStays
<1>6. CASE ProcessQueueClicked \/ TimerFires \/ GroupsRemoved \/ SaveErrorDismissed \/ Relaunch
  <2>1. jobs' = jobs
    BY <1>6 DEF ProcessQueueClicked, TimerFires, GroupsRemoved, SaveErrorDismissed, Relaunch,
                windowVars, butBusy
  <2>2. lastId' = lastId
    BY <1>6 DEF ProcessQueueClicked, TimerFires, GroupsRemoved, SaveErrorDismissed, Relaunch,
                StartQueue, StopQueue,
                processOneQueueEntry, EndProcessing, EmbedGroup, removeSelectedTrackGroups,
                groupsControllerRemoves, ErrorDismissed, Launch, history
  <2> QED
    BY <2>1, <2>2, RoomStays
<1>7. CASE ProcessEnds
  <2>1. jobs' = {} /\ lastId' = lastId
    BY <1>7 DEF ProcessEnds, WindowIsNew, Terminate, CrashWhileEmbedding, MemoryLost, history
  <2> QED
    BY <2>1, RoomStays
<1>8. CASE UNCHANGED assistantVars
  <2>1. jobs' = jobs /\ lastId' = lastId
    BY <1>8 DEF assistantVars, windowVars, butBusy, vars, history
  <2> QED
    BY <2>1, RoomStays
<1> QED
  BY <1>1, <1>2, <1>3, <1>4, <1>5, <1>6, <1>7, <1>8 DEF AssistantNext

(***************************************************************************)
(* Whenever a request for the queue is under way, the queue's handler can  *)
(* take its image: that every request is answered does not hinge on the    *)
(* bound.                                                                  *)
(***************************************************************************)
THEOREM NoArrivalIsStopped ==
    AssistantSpec => [](\A j \in jobs : j.kind = "queue" => lastId < MaxGroups)
<1>1. AssistantInit => RoomInv
  <2> SUFFICES ASSUME AssistantInit PROVE RoomInv
    OBVIOUS
  <2>1. jobs = {} /\ lastId = 0
    BY DEF AssistantInit, Init, Window!Init
  <2>2. QueueJobs = {}
    BY <2>1 DEF QueueJobs
  <2>3. Cardinality(QueueJobs) = 0 /\ IsFiniteSet(jobs)
    BY <2>1, <2>2, FS_EmptySet
  <2> QED
    BY <2>1, <2>3, BoundAssumption DEF RoomInv
<1>2. RoomInv /\ WindowInv /\ [AssistantNext]_assistantVars => RoomInv'
  BY RoomStep DEF WindowInv
<1>3. RoomInv => \A j \in jobs : j.kind = "queue" => lastId < MaxGroups
  <2> SUFFICES ASSUME RoomInv, NEW j \in jobs, j.kind = "queue" PROVE lastId < MaxGroups
    OBVIOUS
  <2>1. IsFiniteSet(QueueJobs)
    <3>1. QueueJobs \subseteq jobs
      BY DEF QueueJobs
    <3> QED
      BY <3>1, FS_Subset DEF RoomInv
  <2>2. QueueJobs # {}
    BY DEF QueueJobs
  <2>3. Cardinality(QueueJobs) \in Nat /\ Cardinality(QueueJobs) # 0
    BY <2>1, <2>2, FS_CardinalityType, FS_EmptySet
  <2> DEFINE q == Cardinality(QueueJobs)
  <2>4. q \in Nat /\ q # 0 /\ lastId \in Nat /\ lastId + q <= MaxGroups
    BY <2>3 DEF RoomInv
  <2> HIDE DEF q
  <2> QED
    BY <2>4, BoundAssumption
<1> QED
  BY <1>1, <1>2, <1>3, WindowKeepsItsInvariant, PTL DEF AssistantSpec

-----------------------------------------------------------------------------
(***************************************************************************)
(* The inductive invariant behind the covers: a group, in the context or   *)
(* in the file, names tracks that were listed when its image arrived.  It  *)
(* is what survives a restart, of which the window knows nothing.          *)
(***************************************************************************)
WasListed(g) == g.image # NoImage => \A t \in g.tracks : <<t, g.image>> \in listed

GroupsWereListed == \A g \in context \cup store : WasListed(g)

CoverInv == CoversWereListed /\ GroupsWereListed

(***************************************************************************)
(* A run of the update operation gives covers that were listed to the      *)
(* tracks it reached, and leaves the others.                               *)
(***************************************************************************)
LEMMA EmbeddingGivesListedCovers ==
    ASSUME CoversWereListed, NEW done, NEW image,
           art' = EmbedArtwork(art, done, image),
           listed \subseteq listed',
           \A t \in done : <<t, image>> \in listed'
    PROVE  CoversWereListed'
BY DEF CoversWereListed, EmbedArtwork

(***************************************************************************)
(* No new group, and none that was not in the context or the file.         *)
(***************************************************************************)
LEMMA OldGroupsWereListed ==
    ASSUME GroupsWereListed, listed' = listed,
           context' \subseteq context \cup store, store' \subseteq context \cup store
    PROVE  GroupsWereListed'
BY DEF GroupsWereListed, WasListed

(***************************************************************************)
(* An image arrives for the queue: its group names the listed tracks.      *)
(***************************************************************************)
LEMMA ArrivalWasListed ==
    ASSUME CoverInv, NEW image, queueItemImageDataLoaded(tracks, image),
           listed' = listed \cup (ListedTracks \X {image})
    PROVE  CoverInv'
<1> DEFINE g == makeTrackGroup(tracks, image)
<1>1. /\ context' = context \cup {g} /\ art' = art
      /\ store' \subseteq context' \cup store
  BY SaveWritesAllOrNothing DEF queueItemImageDataLoaded
<1>2. listed \subseteq listed'
  OBVIOUS
<1>3. g.image # NoImage => \A t \in g.tracks : <<t, g.image>> \in listed'
  <2>1. g.tracks \subseteq ListedTracks /\ g.image \in {image, NoImage}
    BY DEF makeTrackGroup, ListedTracks
  <2> QED
    BY <2>1
<1>4. CoversWereListed'
  BY <1>1, <1>2 DEF CoverInv, CoversWereListed
<1>5. GroupsWereListed'
  BY <1>1, <1>2, <1>3 DEF CoverInv, GroupsWereListed, WasListed
<1> QED
  BY <1>4, <1>5 DEF CoverInv

(***************************************************************************)
(* A timer fires: only the tracks of a group get its image.                *)
(***************************************************************************)
LEMMA ProcessingGivesListedCovers ==
    ASSUME CoverInv, listed' = listed, processOneQueueEntry
    PROVE  CoverInv'
<1>1. CASE EndProcessing
  BY <1>1, OldGroupsWereListed
     DEF EndProcessing, history, CoverInv, CoversWereListed
<1>2. ASSUME NEW g \in context, NEW outcome \in Outcomes(g.tracks, g.image),
             EmbedGroup(g, outcome)
      PROVE  CoverInv'
  <2>1. /\ art' = EmbedArtwork(art, outcome.done, g.image)
        /\ context' \subseteq context /\ store' \subseteq context \cup store
    BY <1>2, SaveWritesAllOrNothing DEF EmbedGroup, EntryDone, EntryFailed
  <2>2. outcome.done \subseteq g.tracks /\ (g.image = NoImage => outcome.done = {})
    BY OutcomesSound DEF Outcomes, ReachesScript
  <2>3. \A t \in outcome.done : <<t, g.image>> \in listed'
    BY <2>2 DEF CoverInv, GroupsWereListed, WasListed
  <2> QED
    BY <2>1, <2>3, EmbeddingGivesListedCovers, OldGroupsWereListed DEF CoverInv
<1> QED
  BY <1>1, <1>2 DEF processOneQueueEntry

(***************************************************************************)
(* The process dies in the middle of an operation, or is quit.             *)
(***************************************************************************)
LEMMA EndLeavesListedCovers ==
    ASSUME CoverInv, ProcessEnds PROVE CoverInv'
<1>1. listed' = listed /\ context' = {} /\ store' = store
  BY DEF ProcessEnds, Terminate, CrashWhileEmbedding, MemoryLost
<1>2. GroupsWereListed'
  BY <1>1, OldGroupsWereListed DEF CoverInv
<1>3. CASE Terminate
  BY <1>1, <1>2, <1>3 DEF Terminate, CoverInv, CoversWereListed
<1>4. ASSUME NEW g \in context, NEW done \in SUBSET g.tracks, CrashWhileEmbedding(g, done)
      PROVE  CoverInv'
  <2>1. art' = EmbedArtwork(art, done, g.image) /\ g.image # NoImage
    BY <1>4 DEF CrashWhileEmbedding, ReachesScript
  <2>2. \A t \in done : <<t, g.image>> \in listed'
    BY <1>1, <2>1 DEF CoverInv, GroupsWereListed, WasListed
  <2> QED
    BY <1>1, <1>2, <2>1, <2>2, EmbeddingGivesListedCovers DEF CoverInv
<1> QED
  BY <1>3, <1>4 DEF ProcessEnds

(***************************************************************************)
(* Every step of the application keeps the invariant.                      *)
(***************************************************************************)
LEMMA CoverStep ==
    ASSUME CoverInv, [AssistantNext]_assistantVars PROVE CoverInv'
<1>1. ASSUME UNCHANGED <<art, context, store, listed>> PROVE CoverInv'
  BY <1>1 DEF CoverInv, CoversWereListed, GroupsWereListed, WasListed
<1>2. CASE WindowStep \/ ImageChosen
  BY <1>1, <1>2 DEF WindowStep, ImageChosen, vars, memory
<1>3. ASSUME NEW j, DownloadEnds(j) \/ ImageFails(j) PROVE CoverInv'
  BY <1>1, <1>3 DEF DownloadEnds, ImageFails, vars, memory
<1>4. ASSUME NEW j, QueuedImageArrives(j) PROVE CoverInv'
  BY <1>4, ArrivalWasListed DEF QueuedImageArrives, HandedOver
<1>5. ASSUME NEW j, ImmediateImageArrives(j) PROVE CoverInv'
  <2> DEFINE image == data[j.n]
  <2>1. /\ immediateItemImageDataLoaded(tracks, image)
        /\ listed' = listed \cup (ListedTracks \X {image})
    BY <1>5 DEF ImmediateImageArrives, HandedOver
  <2>2. PICK outcome \in Outcomes(ListedTracks, image) :
            art' = EmbedArtwork(art, outcome.done, image)
    BY <2>1 DEF immediateItemImageDataLoaded, ListedTracks
  <2>3. outcome.done \subseteq ListedTracks /\ listed' = listed \cup (ListedTracks \X {image})
    BY <2>1, OutcomesSound
  <2>4. CoversWereListed'
    <3>1. \A t \in outcome.done : <<t, image>> \in listed'
      BY <2>3
    <3> QED
      BY <2>2, <2>3, <3>1, EmbeddingGivesListedCovers DEF CoverInv
  <2>5. context' = context /\ store' = store
    BY <2>1 DEF immediateItemImageDataLoaded, memory
  <2>6. GroupsWereListed'
    BY <2>3, <2>5 DEF CoverInv, GroupsWereListed, WasListed
  <2> QED
    BY <2>4, <2>6 DEF CoverInv
<1>6. CASE ProcessQueueClicked
  BY <1>1, <1>6 DEF ProcessQueueClicked, StartQueue, StopQueue
<1>7. CASE TimerFires
  BY <1>7, ProcessingGivesListedCovers DEF TimerFires
<1>8. CASE GroupsRemoved
  <2>1. /\ art' = art /\ listed' = listed
        /\ context' \subseteq context /\ store' \subseteq context \cup store
    BY <1>8, SaveWritesAllOrNothing
       DEF GroupsRemoved, removeSelectedTrackGroups, groupsControllerRemoves
  <2> QED
    BY <2>1, OldGroupsWereListed DEF CoverInv, CoversWereListed
<1>9. CASE ProcessEnds
  BY <1>9, EndLeavesListedCovers
<1>10. CASE Relaunch
  <2>1. art' = art /\ listed' = listed /\ context' = store /\ store' = store
    BY <1>10 DEF Relaunch, Launch
  <2> QED
    BY <2>1, OldGroupsWereListed DEF CoverInv, CoversWereListed
<1>11. CASE SaveErrorDismissed
  BY <1>1, <1>11 DEF SaveErrorDismissed, ErrorDismissed
<1>12. CASE UNCHANGED assistantVars
  BY <1>1, <1>12 DEF assistantVars, vars, memory
<1> QED
  BY <1>2, <1>3, <1>4, <1>5, <1>6, <1>7, <1>8, <1>9, <1>10, <1>11, <1>12 DEF AssistantNext

(***************************************************************************)
(* However long a group waited, through whatever restarts, failures and    *)
(* repetitions: its image only goes to tracks it was listed with.          *)
(***************************************************************************)
THEOREM CoversGoWhereListed == AssistantSpec => []CoversWereListed
<1>1. AssistantInit => CoverInv
  BY DEF AssistantInit, Init, CoverInv, CoversWereListed, GroupsWereListed
<1>2. CoverInv /\ [AssistantNext]_assistantVars => CoverInv'
  BY CoverStep
<1>3. CoverInv => CoversWereListed
  BY DEF CoverInv
<1> QED
  BY <1>1, <1>2, <1>3, PTL DEF AssistantSpec
===============================================================================
