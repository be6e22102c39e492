------------------------------ MODULE EmbedQueue ------------------------------
(***************************************************************************)
(* The queue of album covers: AppDelegate's queue methods, DataStore and   *)
(* TrackGroup.                                                             *)
(*                                                                         *)
(* A track group is a managed object.  context  is what the managed object *)
(* context holds (what the user sees, counts and processes),  store  what  *)
(* the SQLite file holds; -save copies the one to the other as a whole or  *)
(* not at all.  Everything here runs on the main thread, so a handler is   *)
(* one step; only the death of the process can come in the middle of one.  *)
(* The timer that runs processOneQueueEntry 0.1 seconds later is the       *)
(* number  scheduled  of calls that are still to come.                     *)
(*                                                                         *)
(* A save that fails shows its error in an application-modal alert.  Until *)
(* the user dismisses it no timer fires and no click reaches the queue;    *)
(* what other threads send to the main thread is delivered all the same.   *)
(***************************************************************************)
EXTENDS Naturals, FiniteSets, UpdateOperation

CONSTANTS
    TrackLists,     \* what the window's track list may be when an image arrives
    NoTracks,       \* nil: the application has not fetched a track list yet
    DiskMayFail,    \* the SQLite file may refuse a save
    MaxGroups,      \* bound: track groups ever inserted
    MaxScheduled    \* bound: calls of processOneQueueEntry waiting at once

ASSUME TrackListAssumption ==
    \A list \in TrackLists : list = NoTracks \/ list \subseteq Track

ASSUME DiskAssumption == DiskMayFail \in BOOLEAN

ASSUME BoundAssumption == MaxGroups \in Nat /\ MaxScheduled \in Nat

VARIABLES
    running,            \* the process is alive
    context,            \* track groups in the managed object context
    store,              \* track groups in the SQLite file
    removing,           \* groups groupsController will remove in the next turn of the run loop
    lastId,             \* the groups' object ids are handed out in order
    isQueueProcessing,
    scheduled,          \* calls of processOneQueueEntry still to come
    processButton,      \* the title the button shows
    presentingError,    \* the error of a save that failed is on the screen
    art,                \* the artwork of the tracks in iTunes
    embedded,           \* history: groups whose update operation completed
    discarded,          \* history: groups the user removed
    overHere            \* history: groups completed or removed in this life of the process

memory == <<context, removing, isQueueProcessing, scheduled, processButton,
            presentingError, overHere>>
history == <<lastId, embedded, discarded>>
vars == <<running, memory, store, art, history>>

Group == [id : 1..MaxGroups, tracks : SUBSET Track,
          image : Image \cup {NoImage}, titled : BOOLEAN]

\* The managed object model: title and imageData are not optional.
WellFormed(g) == g.titled /\ g.image # NoImage

TypeOK ==
    /\ running \in BOOLEAN
    /\ context \subseteq Group
    /\ store \subseteq Group
    /\ removing \subseteq Group
    /\ lastId \in 0..MaxGroups
    /\ isQueueProcessing \in BOOLEAN
    /\ scheduled \in 0..MaxScheduled
    /\ processButton \in {"Process Queue", "Stop"}
    /\ presentingError \in BOOLEAN
    /\ art \in [Track -> Artwork]
    /\ embedded \subseteq Group
    /\ discarded \subseteq Group
    /\ overHere \subseteq Group

Init ==
    /\ running = TRUE
    /\ context = {}
    /\ store = {}
    /\ removing = {}
    /\ lastId = 0
    /\ isQueueProcessing = FALSE
    /\ scheduled = 0
    /\ processButton = "Process Queue"
    /\ presentingError = FALSE
    /\ art = [t \in Track |-> NoArt]
    /\ embedded = {}
    /\ discarded = {}
    /\ overHere = {}

-----------------------------------------------------------------------------
(***************************************************************************)
(* [dataStore save]: Core Data validates the groups and writes the context *)
(* as a whole or, with one group that is malformed, nothing.  A failure is *)
(* presented; alerts on top of each other are gone when the last is.       *)
(***************************************************************************)
save ==
    \/ /\ \A g \in context' : WellFormed(g)
       /\ store' = context'
       /\ UNCHANGED presentingError
    \/ /\ DiskMayFail \/ \E g \in context' : ~WellFormed(g)
       /\ presentingError' = TRUE
       /\ UNCHANGED store

ErrorDismissed ==
    /\ running /\ presentingError
    /\ presentingError' = FALSE
    /\ UNCHANGED <<running, context, removing, isQueueProcessing, scheduled,
                   processButton, overHere, store, art, history>>

makeTrackGroup_SearchTitle(tracks, image) ==  \* mutant: title and image before the tracks
    [id     |-> lastId + 1,
     tracks |-> IF tracks = NoTracks THEN {} ELSE tracks,
     image  |-> image,
     titled |-> TRUE]

(***************************************************************************)
(* The group makeTrackGroupWithImageData leaves in the context.  With no   *)
(* track in the list, objectAtIndex:0 raises after the group was inserted  *)
(* and before it got a title and an image; with a nil list the title stays *)
(* nil and the image is set.                                               *)
(***************************************************************************)
makeTrackGroup(tracks, image) ==
    [id     |-> lastId + 1,
     tracks |-> IF tracks = NoTracks THEN {} ELSE tracks,
     image  |-> IF tracks = {} THEN NoImage ELSE image,
     titled |-> tracks \notin {NoTracks, {}}]

queueItemImageDataLoaded_Unsaved(tracks, image) ==  \* mutant: no save after the insertion
    /\ running
    /\ lastId < MaxGroups
    /\ context' = context \cup {makeTrackGroup(tracks, image)}
    /\ lastId' = lastId + 1
    /\ UNCHANGED <<running, removing, isQueueProcessing, scheduled,
                   processButton, presentingError, overHere, store, art,
                   embedded, discarded>>

\* An image arrived for the queue.  The exception for {} skips the save.
queueItemImageDataLoaded(tracks, image) ==
    /\ running
    /\ lastId < MaxGroups
    /\ context' = context \cup {makeTrackGroup(tracks, image)}
    /\ lastId' = lastId + 1
    /\ IF tracks = {} THEN UNCHANGED <<store, presentingError>> ELSE save
    /\ UNCHANGED <<running, removing, isQueueProcessing, scheduled,
                   processButton, overHere, art, embedded, discarded>>

(***************************************************************************)
(* The user clicks the toggle button below the queue, which is enabled     *)
(* while there are groups.  The click itself toggles the title.            *)
(***************************************************************************)
Toggled(title) == IF title = "Stop" THEN "Process Queue" ELSE "Stop"

StopQueue ==
    /\ running /\ ~presentingError /\ context # {}
    /\ isQueueProcessing
    /\ isQueueProcessing' = FALSE
    /\ processButton' = "Stop"
    /\ UNCHANGED <<running, context, removing, scheduled, presentingError, overHere,
                   store, art, history>>

StartQueue_NotScheduled ==  \* mutant: the first call is not scheduled
    /\ running /\ ~presentingError /\ context # {}
    /\ ~isQueueProcessing
    /\ isQueueProcessing' = TRUE
    /\ processButton' = Toggled(processButton)
    /\ UNCHANGED <<running, context, removing, scheduled, presentingError, overHere,
                   store, art, history>>

StartQueue ==
    /\ running /\ ~presentingError /\ context # {}
    /\ ~isQueueProcessing
    /\ scheduled < MaxScheduled
    /\ isQueueProcessing' = TRUE
    /\ scheduled' = scheduled + 1
    /\ processButton' = Toggled(processButton)
    /\ UNCHANGED <<running, context, removing, presentingError, overHere,
                   store, art, history>>

processQueue == StopQueue \/ StartQueue

-----------------------------------------------------------------------------
EndProcessing_KeepsTitle ==  \* mutant: the button is not set back
    /\ running /\ ~presentingError /\ scheduled > 0
    /\ ~isQueueProcessing \/ context = {}
    /\ isQueueProcessing' = FALSE
    /\ scheduled' = scheduled - 1
    /\ UNCHANGED <<running, context, removing, processButton, presentingError,
                   overHere, store, art, history>>

(***************************************************************************)
(* processOneQueueEntry: the timer fired.                                  *)
(***************************************************************************)
EndProcessing ==
    /\ running /\ ~presentingError /\ scheduled > 0
    /\ ~isQueueProcessing \/ context = {}
    /\ isQueueProcessing' = FALSE
    /\ processButton' = "Process Queue"
    /\ scheduled' = scheduled - 1
    /\ UNCHANGED <<running, context, removing, presentingError, overHere,
                   store, art, history>>

\* History: the group's tracks, at least one, all carry its image.
Carried(g, artwork) == g.tracks # {} /\ AllCarry(artwork, g.tracks, g.image)

EntryDone_KeepsGroup(g) ==  \* mutant: deleteObject is forgotten
    /\ embedded' = embedded \cup {done \in {g} : Carried(done, art')}
    /\ overHere' = overHere \cup {g}
    /\ UNCHANGED <<context, isQueueProcessing>>
    /\ save

(***************************************************************************)
(* The rest of processOneQueueEntry, after the update operation.  A group  *)
(* that is done is deleted and the deletion saved; a failure stops the     *)
(* processing and leaves the group.  Either way the call that ran is       *)
(* followed by one more: it is asked for after the error of a save that    *)
(* failed was dismissed, and counted at once, for none fires before that.  *)
(***************************************************************************)
EntryDone(g) ==
    /\ context' = context \ {g}
    /\ embedded' = embedded \cup {done \in {g} : Carried(done, art')}
    /\ overHere' = overHere \cup {g}
    /\ save
    /\ UNCHANGED isQueueProcessing

EntryFailed_DeletesGroup(g) ==  \* mutant: the group is deleted all the same
    /\ isQueueProcessing' = FALSE
    /\ context' = context \ {g}
    /\ save
    /\ UNCHANGED <<embedded, overHere>>

EntryFailed_Continues(g) ==  \* mutant: the failure does not stop the queue
    UNCHANGED <<isQueueProcessing, context, store, presentingError, embedded, overHere>>

EntryFailed(g) ==
    /\ isQueueProcessing' = FALSE
    /\ UNCHANGED <<context, store, presentingError, embedded, overHere>>

Rescheduled_Twice == scheduled' = scheduled - 1 + 2  \* mutant: a call for success, and one more

Rescheduled == scheduled' = scheduled - 1 + 1

\* The fetch for the first group asks for no order, so any group may come.
EmbedGroup(g, outcome) ==
    /\ running /\ ~presentingError /\ scheduled > 0
    /\ isQueueProcessing
    /\ g \in context
    /\ art' = EmbedArtwork(art, outcome.done, g.image)
    /\ IF outcome.didComplete THEN EntryDone(g) ELSE EntryFailed(g)
    /\ Rescheduled
    /\ UNCHANGED <<running, removing, processButton, lastId, discarded>>

processOneQueueEntry ==
    \/ EndProcessing
    \/ \E g \in context : \E outcome \in Outcomes(g.tracks, g.image) :
           EmbedGroup(g, outcome)

(***************************************************************************)
(* "Add Immediately": an arrived image is embedded in the listed tracks    *)
(* without the queue.  It can set artwork a queued group set, or will set. *)
(***************************************************************************)
immediateItemImageDataLoaded(tracks, image) ==
    /\ running
    /\ \E outcome \in Outcomes(IF tracks = NoTracks THEN {} ELSE tracks, image) :
           art' = EmbedArtwork(art, outcome.done, image)
    /\ UNCHANGED <<running, memory, store, history>>

(***************************************************************************)
(* The user removes the selected groups.  groupsController's remove: only  *)
(* takes effect in the next turn of the run loop, so the save that follows *)
(* it in the handler still sees them.                                      *)
(***************************************************************************)
removeSelectedTrackGroups(selection) ==
    /\ running /\ ~presentingError
    /\ selection # {}
    /\ selection \subseteq context
    /\ removing' = removing \cup selection
    /\ UNCHANGED context
    /\ save
    /\ UNCHANGED <<running, isQueueProcessing, scheduled, processButton, overHere,
                   art, history>>

\* AppKit: the removal remove: asked for.
groupsControllerRemoves ==
    /\ running /\ removing # {}
    /\ context' = context \ removing
    /\ discarded' = discarded \cup (context \cap removing)
    /\ overHere' = overHere \cup (context \cap removing)
    /\ removing' = {}
    /\ UNCHANGED <<running, isQueueProcessing, scheduled, processButton,
                   presentingError, store, art, lastId, embedded>>

-----------------------------------------------------------------------------
(***************************************************************************)
(* The process ends: the user or iTunes quits it, or it crashes.  Nothing  *)
(* is saved on the way out.                                                *)
(***************************************************************************)
MemoryLost ==
    /\ running' = FALSE
    /\ context' = {}
    /\ removing' = {}
    /\ isQueueProcessing' = FALSE
    /\ scheduled' = 0
    /\ processButton' = "Process Queue"
    /\ presentingError' = FALSE
    /\ overHere' = {}
    /\ UNCHANGED <<store, history>>

Terminate == running /\ MemoryLost /\ UNCHANGED art

\* The crash comes inside processOneQueueEntry, before the deletion is saved.
CrashWhileEmbedding(g, done) ==
    /\ running /\ ~presentingError /\ scheduled > 0 /\ isQueueProcessing
    /\ ReachesScript(g.tracks, g.image)
    /\ art' = EmbedArtwork(art, done, g.image)
    /\ MemoryLost

\* awakeFromNib: the new context reads the groups the store has.
Launch ==
    /\ ~running
    /\ running' = TRUE
    /\ context' = store
    /\ UNCHANGED <<removing, isQueueProcessing, scheduled, processButton,
                   presentingError, overHere, store, art, history>>

Next ==
    \/ \E tracks \in TrackLists, image \in Image :
           \/ queueItemImageDataLoaded(tracks, image)
           \/ immediateItemImageDataLoaded(tracks, image)
    \/ ErrorDismissed
    \/ processQueue
    \/ processOneQueueEntry
    \/ \E selection \in SUBSET context : removeSelectedTrackGroups(selection)
    \/ groupsControllerRemoves
    \/ Terminate
    \/ \E g \in context : \E done \in SUBSET g.tracks : CrashWhileEmbedding(g, done)
    \/ Launch

Spec == Init /\ [][Next]_vars

-----------------------------------------------------------------------------
(***************************************************************************)
(* A group on disk that the running application does not show is over: its *)
(* tracks all got its image, or the user removed it.  No order of adding,  *)
(* processing, removing, failing to save and crashing makes                *)
(* processOneQueueEntry or the save drop a group whose covers are missing. *)
(***************************************************************************)
StoredGroupsAreAccountedFor ==
    running => store \subseteq context \cup embedded \cup discarded

(***************************************************************************)
(* The same seen from the disk: a save that writes a smaller queue writes  *)
(* it only without groups that are over by then.                           *)
(***************************************************************************)
GroupsLeaveStoreOnlyWhenOver ==
    [][store \ store' \subseteq embedded' \cup discarded']_vars

(***************************************************************************)
(* Within one life of the process a group whose operation completed, or    *)
(* that was removed, never comes back to the queue: its covers are not     *)
(* embedded twice, whatever saves fail.  After a quit or a crash a group   *)
(* that is over can only be one whose deletion never reached the file:     *)
(* its covers are embedded once more.                                      *)
(***************************************************************************)
OverGroupsReturnOnlyFromStore ==
    /\ context \cap overHere = {}
    /\ context \cap (embedded \cup discarded) \subseteq store

(***************************************************************************)
(* What the application reads back after a restart can be processed: the   *)
(* half-made groups of makeTrackGroupWithImageData and the groups made     *)
(* from a nil track list never reach the disk.                             *)
(***************************************************************************)
StoredGroupsCanBeEmbedded ==
    \A g \in store : g.titled /\ ReachesScript(g.tracks, g.image)

(***************************************************************************)
(* isQueueProcessing is never left on with nobody to turn it off: a call   *)
(* of processOneQueueEntry is always still to come.  Otherwise the next    *)
(* click on the button would stop a processing that does not run.          *)
(***************************************************************************)
ProcessingIsScheduled == isQueueProcessing => scheduled >= 1

(***************************************************************************)
(* Once the last scheduled call has run, the button offers to process the  *)
(* queue again, whatever clicks came between the timers.                   *)
(***************************************************************************)
IdleButtonProcesses == scheduled = 0 => processButton = "Process Queue"

(***************************************************************************)
(* On a disk that does not fail, a change of the queue is missing from it  *)
(* for two reasons only: a malformed group made in this life of the        *)
(* process, which may be gone again by now, made a save fail; or the       *)
(* change is the removal of groups, which remove: carries out after the    *)
(* save.  A restart clears the first reason away.                          *)
(***************************************************************************)
UnsavedOnlyBehindMalformed ==
    running => \/ \E g \in context \cup overHere : ~WellFormed(g)
               \/ context \subseteq store /\ store \ context \subseteq discarded

(***************************************************************************)
(* The queue as its users may think of it: a set of jobs, written behind   *)
(* to a durable copy.  While the process is down they are those on disk.   *)
(***************************************************************************)
Queue == INSTANCE DurableQueue
           WITH Job <- Group,
                queue <- IF running THEN context ELSE store,
                durable <- store,
                finished <- embedded,
                cancelled <- discarded

(***************************************************************************)
(* Every step of the code, crashes in the middle of an operation included, *)
(* is a step of the durable queue or changes nothing of it.                *)
(***************************************************************************)
ImplementsDurableQueue == Queue!Spec
===============================================================================
