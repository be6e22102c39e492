------------------------------- MODULE Assistant -------------------------------
(***************************************************************************)
(* The application: the main window and the queue in one process and on    *)
(* one main thread.                                                        *)
(*                                                                         *)
(* An image that arrives for a request of the window meets the track list  *)
(* of that moment and becomes a group of the queue, or is embedded.  While *)
(* a search shows an alert, or a failed save its error, the nested loop    *)
(* delivers images, but neither timers nor clicks: the queue stands still. *)
(* The queue's handlers turn the window's progress indicator off.  Only    *)
(* the SQLite file and iTunes survive the end of the process; the window   *)
(* starts again from nothing.                                              *)
(***************************************************************************)
EXTENDS EmbedQueue

CONSTANTS Title, NoTitle, TitleOf, AmazonAreas, GoogleAreas, MaxFinds, MaxRequests

VARIABLES tracks, albumTitle, images, selection, shown, reloadPending, finds, alert,
          jobs, previewing, isBusy, requests, leaked,
          data,         \* the image the download of each request brought
          listed        \* history: which track was listed when which image arrived

\* An image may arrive before anything was fetched.
ASSUME ListAssumption == NoTracks \in TrackLists

Lists == TrackLists \ {NoTracks}

Window == INSTANCE AssistantSession WITH TrackLists <- Lists

ASSUME WindowAssumption ==
    /\ Window!ListsAssumption
    /\ Window!TitleAssumption
    /\ Window!BoundsAssumption

busy == <<isBusy, leaked>>
butBusy == <<tracks, albumTitle, images, selection, shown, reloadPending, finds, alert,
             jobs, previewing, requests>>
windowVars == <<butBusy, busy>>
assistantVars == <<vars, windowVars, data, listed>>

NoData == [n \in 1..MaxRequests |-> NoImage]

AssistantInit == Init /\ Window!Init /\ data = NoData /\ listed = {}

-----------------------------------------------------------------------------
\* The user's clicks and the timers of the searches.  The alert of a search goes after
\* the error that came up on top of it.
WindowActs ==
    /\ ~presentingError
    /\ \/ Window!fetch
       \/ \E title \in Title \cup {NoTitle} : Window!setAlbumTitle(title)
       \/ Window!doFindImages
       \/ Window!AmazonAlert
       \/ Window!AlertDismissed
       \/ \E i \in 0..shown : Window!Select(i)
       \/ Window!previewPanelItem

\* What the window does without the queue; the rest of it in any loop.
WindowStep ==
    /\ running
    /\ \/ WindowActs
       \/ \E list \in Lists : Window!delete(list)
       \/ Window!BrowserReloads
       \/ Window!previewItemURL
    /\ UNCHANGED <<vars, data, listed>>

\* Groups that requests under way may still insert.
ToInsert(js) == Cardinality({j \in js : j.kind = "queue"})

\* Add Immediately and Add to Queue.
ImageChosen ==
    /\ running /\ ~presentingError
    /\ \/ Window!setAlbumArtwork
       \/ Window!addToQueue
       \/ \E kind \in {"immediate", "queue"} : Window!ChooseWebImage(kind)
    /\ lastId + ToInsert(jobs') <= MaxGroups
    /\ UNCHANGED <<vars, data, listed>>

\* The image is in the call to the main thread.
DownloadEnds(j) ==
    /\ Window!Load(j)
    /\ IF [j EXCEPT !.phase = "loaded"] \in jobs'
         THEN \E image \in Image : data' = [data EXCEPT ![j.n] = image]
         ELSE UNCHANGED data
    /\ UNCHANGED <<vars, listed>>

ImageFails(j) == Window!itemImageDataLoadFailed(j) /\ UNCHANGED <<vars, data, listed>>

ListedTracks == IF tracks = NoTracks THEN {} ELSE tracks

(***************************************************************************)
(* The call is over.  History: the tracks listed now get the image, or a   *)
(* group of the queue will give it to them.                                *)
(***************************************************************************)
HandedOver(j) ==
    /\ data' = [data EXCEPT ![j.n] = NoImage]
    /\ listed' = listed \cup (ListedTracks \X {data[j.n]})

QueuedImageArrives_Embeds(j) ==  \* mutant: handed to the handler of the other command
    /\ j.kind = "queue"
    /\ Window!ItemImageDataLoaded(j)
    /\ immediateItemImageDataLoaded(tracks, data[j.n])
    /\ HandedOver(j)

\* An image arrives that was asked for with Add to Queue,...
QueuedImageArrives(j) ==
    /\ j.kind = "queue"
    /\ Window!ItemImageDataLoaded(j)
    /\ queueItemImageDataLoaded(tracks, data[j.n])
    /\ HandedOver(j)

\* ...or with Add Immediately.
ImmediateImageArrives(j) ==
    /\ j.kind = "immediate"
    /\ Window!ItemImageDataLoaded(j)
    /\ immediateItemImageDataLoaded(tracks, data[j.n])
    /\ HandedOver(j)

\* The queue's handlers leave of the window all but the indicator alone.
ProcessQueueClicked ==
    /\ ~alert
    /\ \/ StartQueue /\ UNCHANGED busy
       \/ StopQueue /\ Window!clearBusy
    /\ UNCHANGED <<butBusy, data, listed>>

TimerFires_ListedTracks ==  \* mutant: the listed tracks, as for Add Immediately, not the group's
    /\ ~alert
    /\ \E g \in context : \E outcome \in Outcomes(ListedTracks, g.image) : EmbedGroup(g, outcome)
    /\ Window!clearBusy
    /\ UNCHANGED <<butBusy, data, listed>>

TimerFires_LeavesBusy ==  \* mutant: the handler shows that it works and forgets to say it ended
    /\ ~alert
    /\ processOneQueueEntry
    /\ isBusy' = TRUE /\ leaked' = FALSE
    /\ UNCHANGED <<butBusy, data, listed>>

\* Outside any alert.  Every way through the handler ends in clearBusy.
TimerFires ==
    /\ ~alert
    /\ processOneQueueEntry
    /\ Window!clearBusy
    /\ UNCHANGED <<butBusy, data, listed>>

GroupsRemoved ==
    /\ \/ ~alert /\ \E groups \in SUBSET context : removeSelectedTrackGroups(groups)
       \/ groupsControllerRemoves
    /\ UNCHANGED <<windowVars, data, listed>>

SaveErrorDismissed == ErrorDismissed /\ UNCHANGED <<windowVars, data, listed>>

\* The next process begins with a window like the first one's.
WindowIsNew ==
    /\ tracks' = NoTracks /\ albumTitle' = NoTitle
    /\ images' = <<>> /\ selection' = 0 /\ shown' = 0 /\ reloadPending' = FALSE
    /\ finds' = 0 /\ alert' = FALSE
    /\ jobs' = {} /\ requests' = 0
    /\ previewing' = FALSE
    /\ isBusy' = FALSE /\ leaked' = FALSE
    /\ data' = NoData

\* The end of the process, also in the middle of an alert or a download.
ProcessEnds ==
    /\ \/ Terminate
       \/ ~alert /\ \E g \in context : \E done \in SUBSET g.tracks : CrashWhileEmbedding(g, done)
    /\ WindowIsNew
    /\ UNCHANGED listed

Relaunch == Launch /\ UNCHANGED <<windowVars, data, listed>>

AssistantNext ==
    \/ WindowStep
    \/ ImageChosen
    \/ \E j \in jobs : \/ DownloadEnds(j) \/ ImageFails(j)
                      \/ QueuedImageArrives(j) \/ ImmediateImageArrives(j)
    \/ ProcessQueueClicked
    \/ TimerFires
    \/ GroupsRemoved
    \/ SaveErrorDismissed
    \/ ProcessEnds
    \/ Relaunch

AssistantSpec == AssistantInit /\ [][AssistantNext]_assistantVars

\* What a request still needs: the end of its download, or the main thread.
DownloadStep(n) ==
    \E j \in jobs : /\ j.n = n
                    /\ \/ DownloadEnds(j) \/ ImageFails(j)
                       \/ QueuedImageArrives(j) \/ ImmediateImageArrives(j)

(***************************************************************************)
(* A download ends, with an answer or its timeout, and the main thread     *)
(* works off what was sent to it, in the loop of an alert too.  Timers     *)
(* fire in the order in which they are due, and a loop that runs again and *)
(* again outside the alerts, those of a search and those of a failed save, *)
(* comes to each.  No timer fires in an alert, and nothing makes the user  *)
(* dismiss one.                                                            *)
(***************************************************************************)
AssistantFairSpec ==
    /\ AssistantSpec
    /\ \A n \in 1..MaxRequests : WF_assistantVars(DownloadStep(n))
    /\ SF_assistantVars(TimerFires)

-----------------------------------------------------------------------------
(***************************************************************************)
(* No track ever carries an image it was not listed with when the image    *)
(* arrived: neither a group that is processed after the list changed,      *)
(* after a restart or a second time, nor an operation that failed half-way *)
(* gives an image to another album.                                        *)
(***************************************************************************)
CoversWereListed ==
    \A t \in Track : art[t] # NoArt => <<t, art[t]>> \in listed

(***************************************************************************)
(* An image asked for with Add to Queue is lost between the thread that    *)
(* brings it and the queue in one case only, an empty track list, whose    *)
(* exception comes before the group has its image.  Otherwise, while the   *)
(* process lives, its request only goes when the download failed, or when  *)
(* a group the queue did not have carries this very image for the tracks   *)
(* listed by then; and that group is in the file before anything else      *)
(* happens, unless it has no title, from a nil list, the disk fails, or a  *)
(* malformed group that was there before makes every save fail.            *)
(***************************************************************************)
QueuedImagesAreKept ==
    [][running' => \A j \in jobs :
          j.kind = "queue" /\ j.phase # "failed" /\ (\A k \in jobs' : k.n # j.n) /\ tracks # {}
            => \E g \in context' \ context :
                  /\ g.tracks = ListedTracks
                  /\ g.image = data[j.n]
                  /\ \/ g \in store'
                     \/ tracks = NoTracks
                     \/ DiskMayFail
                     \/ \E bad \in context : ~WellFormed(bad)]_assistantVars

(***************************************************************************)
(* The queue, its alerts and the ends of the process do not make the       *)
(* indicator run for nothing: whatever timers, clicks and errors come      *)
(* between searches and downloads, it stays on only for something to come, *)
(* or where the window alone leaves it on.                                 *)
(***************************************************************************)
ApplicationIndicatorStops == Window!IndicatorStops

(***************************************************************************)
(* Every image the user asks for is answered: it becomes a group, is       *)
(* embedded or its failure is handled, or the process ends; a running      *)
(* queue, a search and an alert that stays delay it and no more.           *)
(***************************************************************************)
RequestsAreAnswered ==
    \A n \in 1..MaxRequests : (\E j \in jobs : j.n = n) ~> (\A j \in jobs : j.n # n)

(***************************************************************************)
(* Processing comes to an end (the queue runs empty, an operation fails,   *)
(* the user stops it) if no alert, of a search or of a failed save, stays  *)
(* for ever: searches, the arriving images, as many as MaxGroups allows,   *)
(* and clicks between the timers do not keep it alive.                     *)
(***************************************************************************)
ProcessingEnds ==
    []<>(~alert /\ ~presentingError) => (isQueueProcessing ~> ~isQueueProcessing)
===============================================================================
