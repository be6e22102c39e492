-------------------------- MODULE EmbedQueue_proofs --------------------------
(***************************************************************************)
(* Theorems about EmbedQueue for every set of tracks, images and track     *)
(* lists, every bound and both kinds of disk.                              *)
(***************************************************************************)
EXTENDS EmbedQueue, TLAPS

(***************************************************************************)
(* An operation that reports completion has reached every track, and there *)
(* was one; any operation only touches tracks of its list.                 *)
(***************************************************************************)
LEMMA OutcomesSound ==
    ASSUME NEW tracks, NEW image, NEW outcome \in Outcomes(tracks, image)
    PROVE  /\ outcome.didComplete \in BOOLEAN
           /\ outcome.done \subseteq tracks
           /\ outcome.didComplete => outcome.done = tracks /\ tracks # {} /\ image # NoImage
<1>1. CASE ReachesScript(tracks, image)
  BY <1>1 DEF Outcomes, ReachesScript
<1>2. CASE ~ReachesScript(tracks, image)
  BY <1>2 DEF Outcomes
<1> QED
  BY <1>1, <1>2

(***************************************************************************)
(* Embedding keeps the artwork of iTunes well typed.                       *)
(***************************************************************************)
LEMMA EmbedArtworkType ==
    ASSUME NEW artwork \in [Track -> Artwork], NEW done, NEW image \in Image
    PROVE  EmbedArtwork(artwork, done, image) \in [Track -> Artwork]
BY DEF EmbedArtwork, Artwork

(***************************************************************************)
(* So does "Add Immediately".                                              *)
(***************************************************************************)
LEMMA ImmediateArtworkType ==
    ASSUME NEW tracks, NEW image \in Image, TypeOK,
           immediateItemImageDataLoaded(tracks, image)
    PROVE  art' \in [Track -> Artwork]
<1>1. PICK done : art' = EmbedArtwork(art, done, image)
  BY DEF immediateItemImageDataLoaded
<1> QED
  BY <1>1, EmbedArtworkType DEF TypeOK

(***************************************************************************)
(* Once every track of a group has been reached, they all carry its image. *)
(***************************************************************************)
LEMMA EmbeddedCarries ==
    ASSUME NEW artwork, NEW g \in Group, g.tracks # {}
    PROVE  Carried(g, EmbedArtwork(artwork, g.tracks, g.image))
BY DEF Carried, AllCarry, EmbedArtwork, Group

(***************************************************************************)
(* A queued group whose operation completes has tracks, all reached.       *)
(***************************************************************************)
LEMMA CompletionReachesAll ==
    ASSUME TypeOK, NEW g \in context,
           NEW outcome \in Outcomes(g.tracks, g.image), outcome.didComplete
    PROVE  g \in Group /\ g.tracks # {} /\ outcome.done = g.tracks
<1>1. g \in Group
  BY DEF TypeOK
<1>2. g.tracks # {} /\ outcome.done = g.tracks
  BY OutcomesSound
<1> QED
  BY <1>1, <1>2

(***************************************************************************)
(* The group an arriving image makes is a group with the next id.          *)
(***************************************************************************)
LEMMA NewGroup ==
    ASSUME TypeOK, lastId < MaxGroups,
           NEW tracks \in TrackLists, NEW image \in Image
    PROVE  /\ makeTrackGroup(tracks, image) \in Group
           /\ makeTrackGroup(tracks, image).id = lastId + 1
           /\ WellFormed(makeTrackGroup(tracks, image))
                => /\ makeTrackGroup(tracks, image).tracks # {}
                   /\ makeTrackGroup(tracks, image).image # NoImage
<1> DEFINE g == makeTrackGroup(tracks, image)
<1>0. lastId \in 0..MaxGroups
  BY DEF TypeOK
<1>1. lastId + 1 \in 1..MaxGroups
  BY <1>0, BoundAssumption
<1>2. (IF tracks = NoTracks THEN {} ELSE tracks) \in SUBSET Track
  BY TrackListAssumption
<1>3. g \in Group
  BY <1>1, <1>2 DEF makeTrackGroup, Group
<1>4. WellFormed(g) => g.tracks # {} /\ g.image # NoImage
  BY DEF WellFormed, makeTrackGroup
<1> QED
  BY <1>3, <1>4 DEF makeTrackGroup

(***************************************************************************)
(* A save writes the whole context or leaves the disk alone.               *)
(***************************************************************************)
LEMMA SaveWritesAllOrNothing ==
    ASSUME save
    PROVE  /\ store' = context' \/ store' = store
           /\ store' # store => \A g \in context' : WellFormed(g)
           /\ presentingError' = presentingError \/ presentingError' = TRUE
BY DEF save

(***************************************************************************)
(* Zero is within every bound.                                             *)
(***************************************************************************)
LEMMA ZeroInBounds == 0 \in 0..MaxGroups /\ 0 \in 0..MaxScheduled
BY BoundAssumption

-----------------------------------------------------------------------------
(***************************************************************************)
(* Type correctness of every handler of the queue.                         *)
(***************************************************************************)
THEOREM TypeCorrect == Spec => []TypeOK
<1>1. Init => TypeOK
  BY ZeroInBounds DEF Init, TypeOK, Artwork
<1>2. TypeOK /\ [Next]_vars => TypeOK'
  <2> SUFFICES ASSUME TypeOK, [Next]_vars PROVE TypeOK'
    OBVIOUS
  <2>0. lastId \in 0..MaxGroups /\ scheduled \in 0..MaxScheduled
    BY DEF TypeOK
  <2> USE DEF TypeOK
  <2>1. ASSUME NEW tracks \in TrackLists, NEW image \in Image,
               queueItemImageDataLoaded(tracks, image)
        PROVE  TypeOK'
    <3>1. makeTrackGroup(tracks, image) \in Group
      BY <2>1, NewGroup DEF queueItemImageDataLoaded
    <3>2. context' \subseteq Group
      BY <2>1, <3>1 DEF queueItemImageDataLoaded
    <3>3. store' \subseteq Group
      BY <2>1, <3>2, SaveWritesAllOrNothing DEF queueItemImageDataLoaded
    <3>4. lastId' \in 0..MaxGroups
      <4>1. lastId + 1 \in 0..MaxGroups
        BY ONLY <2>0, <2>1, BoundAssumption DEF queueItemImageDataLoaded
      <4> QED
        BY <2>1, <4>1 DEF queueItemImageDataLoaded
    <3>5. presentingError' \in BOOLEAN
      BY <2>1, SaveWritesAllOrNothing DEF queueItemImageDataLoaded
    <3> QED
      BY <2>1, <3>2, <3>3, <3>4, <3>5 DEF queueItemImageDataLoaded
  <2>2. CASE StopQueue
    BY <2>2 DEF StopQueue, history
  <2>3. CASE StartQueue
    <3>1. scheduled + 1 \in 0..MaxScheduled
      BY ONLY <2>0, <2>3, BoundAssumption DEF StartQueue
    <3> QED
      BY <2>3, <3>1 DEF StartQueue, Toggled, history
  <2>4. CASE EndProcessing
    <3>0. scheduled > 0
      BY <2>4 DEF EndProcessing
    <3>1. scheduled - 1 \in 0..MaxScheduled
      BY ONLY <2>0, <3>0, BoundAssumption
    <3> QED
      BY <2>4, <3>1 DEF EndProcessing, history
  <2>5. ASSUME NEW g \in context, NEW outcome \in Outcomes(g.tracks, g.image),
               EmbedGroup(g, outcome)
        PROVE  TypeOK'
    <3>1. outcome.didComplete \in BOOLEAN /\ outcome.done \subseteq g.tracks
      BY OutcomesSound
    <3>2. art' \in [Track -> Artwork]
      <4>1. CASE g.image \in Image
        BY <2>5, <4>1, EmbedArtworkType DEF EmbedGroup, EntryDone, EntryFailed
      <4>2. CASE g.image = NoImage
        BY <2>5, <4>2 DEF EmbedGroup, EntryDone, EntryFailed, EmbedArtwork, Outcomes, ReachesScript
      <4> QED
        BY <4>1, <4>2 DEF Group
    <3>0. scheduled' = scheduled
      BY ONLY <2>0, <2>5, BoundAssumption DEF EmbedGroup, Rescheduled
    <3>3. CASE outcome.didComplete
      BY <2>5, <3>0, <3>2, <3>3, SaveWritesAllOrNothing DEF EmbedGroup, EntryDone, EntryFailed
    <3>4. CASE ~outcome.didComplete
      BY <2>5, <3>0, <3>2, <3>4 DEF EmbedGroup, EntryDone, EntryFailed
    <3> QED
      BY <3>3, <3>4
  <2>6. ASSUME NEW selection \in SUBSET context,
               removeSelectedTrackGroups(selection)
        PROVE  TypeOK'
    BY <2>6, SaveWritesAllOrNothing DEF removeSelectedTrackGroups, history
  <2>7. CASE groupsControllerRemoves
    BY <2>7 DEF groupsControllerRemoves
  <2>8. CASE Terminate
    BY <2>8, ZeroInBounds DEF Terminate, MemoryLost, history
  <2>9. ASSUME NEW g \in context, NEW done \in SUBSET g.tracks,
               CrashWhileEmbedding(g, done)
        PROVE  TypeOK'
    <3>1. g.image \in Image
      BY <2>9 DEF CrashWhileEmbedding, ReachesScript, Group
    <3>2. art' \in [Track -> Artwork]
      BY <2>9, <3>1, EmbedArtworkType DEF CrashWhileEmbedding
    <3> QED
      BY <2>9, <3>2, ZeroInBounds DEF CrashWhileEmbedding, MemoryLost, history
  <2>10. CASE Launch
    BY <2>10 DEF Launch, history
  <2>11. ASSUME NEW tracks, NEW image \in Image,
                immediateItemImageDataLoaded(tracks, image)
         PROVE  TypeOK'
    <3>1. art' \in [Track -> Artwork]
      BY <2>11, ImmediateArtworkType
    <3> QED
      BY <2>11, <3>1 DEF immediateItemImageDataLoaded, memory, history
  <2>12. CASE ErrorDismissed
    BY <2>12 DEF ErrorDismissed, history
  <2>13. CASE UNCHANGED vars
    BY <2>13 DEF vars, memory, history
  <2> QED
    BY <2>1, <2>2, <2>3, <2>4, <2>5, <2>6, <2>7, <2>8, <2>9, <2>10, <2>11, <2>12, <2>13
       DEF Next, processQueue, processOneQueueEntry
<1> QED
  BY <1>1, <1>2, PTL DEF Spec

-----------------------------------------------------------------------------
(***************************************************************************)
(* The scheduled calls and the button.                                     *)
(***************************************************************************)
TimerInv == TypeOK /\ ProcessingIsScheduled /\ IdleButtonProcesses

(***************************************************************************)
(* Whatever the user clicks between two timers, a processing queue always  *)
(* has a call of processOneQueueEntry still to come, and when none is to   *)
(* come the button offers to process the queue.                            *)
(***************************************************************************)
THEOREM TimersAreSound == Spec => [](ProcessingIsScheduled /\ IdleButtonProcesses)
<1>1. Init => ProcessingIsScheduled /\ IdleButtonProcesses
  BY DEF Init, ProcessingIsScheduled, IdleButtonProcesses
<1>2. TypeOK /\ ProcessingIsScheduled /\ IdleButtonProcesses /\ [Next]_vars
        => (ProcessingIsScheduled /\ IdleButtonProcesses)'
  <2> SUFFICES ASSUME TypeOK, ProcessingIsScheduled, IdleButtonProcesses, [Next]_vars
               PROVE  (ProcessingIsScheduled /\ IdleButtonProcesses)'
    OBVIOUS
  <2>0. scheduled \in Nat
    <3>1. scheduled \in 0..MaxScheduled
      BY DEF TypeOK
    <3> QED
      BY ONLY <3>1, BoundAssumption
  <2> USE DEF ProcessingIsScheduled, IdleButtonProcesses
  <2>1. ASSUME NEW tracks, NEW image, queueItemImageDataLoaded(tracks, image)
        PROVE  (ProcessingIsScheduled /\ IdleButtonProcesses)'
    BY <2>1 DEF queueItemImageDataLoaded
  <2>2. CASE StopQueue
    <3>1. isQueueProcessing /\ ~isQueueProcessing' /\ scheduled' = scheduled
      BY <2>2 DEF StopQueue
    <3>2. scheduled' # 0
      BY ONLY <2>0, <3>1, ProcessingIsScheduled DEF ProcessingIsScheduled
    <3> QED
      BY <3>1, <3>2
  <2>3. CASE StartQueue
    <3>1. scheduled' = scheduled + 1
      BY <2>3 DEF StartQueue
    <3>2. scheduled' >= 1 /\ scheduled' # 0
      BY ONLY <2>0, <3>1
    <3> QED
      BY <3>2
  <2>4. CASE EndProcessing
    BY <2>0, <2>4 DEF EndProcessing
  <2>5. ASSUME NEW g, NEW outcome, EmbedGroup(g, outcome)
        PROVE  (ProcessingIsScheduled /\ IdleButtonProcesses)'
    <3>1. scheduled' >= 1 /\ scheduled' # 0
      <4>1. scheduled > 0 /\ scheduled' = scheduled - 1 + 1
        BY <2>5 DEF EmbedGroup, Rescheduled
      <4> QED
        BY ONLY <2>0, <4>1
    <3> QED
      BY <3>1
  <2>6. ASSUME NEW selection, removeSelectedTrackGroups(selection)
        PROVE  (ProcessingIsScheduled /\ IdleButtonProcesses)'
    BY <2>6 DEF removeSelectedTrackGroups
  <2>7. CASE groupsControllerRemoves
    BY <2>7 DEF groupsControllerRemoves
  <2>8. CASE Terminate
    BY <2>8 DEF Terminate, MemoryLost
  <2>9. ASSUME NEW g, NEW done, CrashWhileEmbedding(g, done)
        PROVE  (ProcessingIsScheduled /\ IdleButtonProcesses)'
    BY <2>9 DEF CrashWhileEmbedding, MemoryLost
  <2>10. CASE Launch
    BY <2>10 DEF Launch
  <2>11. CASE ErrorDismissed
    BY <2>11 DEF ErrorDismissed
  <2>12. CASE UNCHANGED memory
    BY <2>12 DEF memory
  <2> QED
    BY <2>1, <2>2, <2>3, <2>4, <2>5, <2>6, <2>7, <2>8, <2>9, <2>10, <2>11, <2>12
       DEF Next, processQueue, processOneQueueEntry, immediateItemImageDataLoaded, vars
<1> QED
  BY <1>1, <1>2, TypeCorrect, PTL DEF Spec

\* Once the timers have run, the button of an idle queue offers to process it, because the end of processing sets it Off.
THEOREM IdleButtonIsRight == Spec => []IdleButtonProcesses
  BY TimersAreSound, PTL

-----------------------------------------------------------------------------
(***************************************************************************)
(* The inductive invariant behind the durability of the queue.  Three      *)
(* facts make it inductive: ids are handed out once, so an arriving image  *)
(* never brings back a group that is over; a group that passes validation  *)
(* has tracks, so what a save writes can be embedded; and a launch, which  *)
(* does bring groups back from the file, begins a life in which none is    *)
(* over yet.                                                               *)
(***************************************************************************)
IdsHandedOut ==
    \A g \in context \cup store \cup embedded \cup discarded \cup overHere : g.id <= lastId

NothingOverYet == ~running => overHere = {}

ValidGroupsHaveTracks ==
    \A g \in context : WellFormed(g) => ReachesScript(g.tracks, g.image)

DurabilityInv ==
    /\ TypeOK
    /\ IdsHandedOut
    /\ NothingOverYet
    /\ ValidGroupsHaveTracks
    /\ StoredGroupsAreAccountedFor
    /\ OverGroupsReturnOnlyFromStore
    /\ StoredGroupsCanBeEmbedded

USE DEF StoredGroupsAreAccountedFor, OverGroupsReturnOnlyFromStore

(***************************************************************************)
(* A step that neither inserts a group nor ends one: the context stays and *)
(* the save, if there is one, writes all of it.                            *)
(***************************************************************************)
LEMMA SavedContext ==
    ASSUME DurabilityInv, store' = store \/ store' = context,
           store' # store => \A g \in context : WellFormed(g),
           running' = running,
           UNCHANGED <<context, embedded, discarded, overHere, lastId>>
    PROVE  /\ IdsHandedOut'
           /\ NothingOverYet'
           /\ ValidGroupsHaveTracks'
           /\ StoredGroupsAreAccountedFor'
           /\ OverGroupsReturnOnlyFromStore'
           /\ StoredGroupsCanBeEmbedded'
<1> USE DEF DurabilityInv
<1>1. IdsHandedOut'
  BY DEF IdsHandedOut
<1>2. ValidGroupsHaveTracks'
  BY DEF ValidGroupsHaveTracks
<1>3. StoredGroupsAreAccountedFor'
  OBVIOUS
<1>4. OverGroupsReturnOnlyFromStore'
  OBVIOUS
<1>5. StoredGroupsCanBeEmbedded'
  BY DEF StoredGroupsCanBeEmbedded, ValidGroupsHaveTracks, WellFormed
<1>6. NothingOverYet'
  BY DEF NothingOverYet
<1> QED
  BY <1>1, <1>2, <1>3, <1>4, <1>5, <1>6

DurabilityParts ==
    /\ IdsHandedOut
    /\ NothingOverYet
    /\ ValidGroupsHaveTracks
    /\ StoredGroupsAreAccountedFor
    /\ OverGroupsReturnOnlyFromStore
    /\ StoredGroupsCanBeEmbedded

(***************************************************************************)
(* An arriving image: the new group has an id no group had before.         *)
(***************************************************************************)
LEMMA ArrivalKeepsDurability ==
    ASSUME DurabilityInv, NEW tracks \in TrackLists, NEW image \in Image,
           queueItemImageDataLoaded(tracks, image)
    PROVE  DurabilityParts'
<1> DEFINE g == makeTrackGroup(tracks, image)
<1> USE DEF DurabilityInv
<1>1. /\ running /\ running' /\ lastId < MaxGroups
      /\ context' = context \cup {g}
      /\ lastId' = lastId + 1
      /\ UNCHANGED <<embedded, discarded, overHere>>
  BY DEF queueItemImageDataLoaded
<1>2. /\ g \in Group
      /\ g.id = lastId + 1
      /\ WellFormed(g) => g.tracks # {} /\ g.image # NoImage
  BY <1>1, NewGroup
<1>3. /\ store' = context' \/ store' = store
      /\ store' # store => \A h \in context' : WellFormed(h)
  BY <1>1, SaveWritesAllOrNothing DEF queueItemImageDataLoaded
<1>4. lastId \in Nat
  <2>1. lastId \in 0..MaxGroups
    BY DEF TypeOK
  <2> QED
    BY ONLY <2>1, BoundAssumption
<1>5. \A h \in context \cup store \cup embedded \cup discarded \cup overHere :
          h.id \in Nat /\ h.id <= lastId
  <2>1. \A h \in Group : h.id \in Nat
    BY BoundAssumption DEF Group
  <2> QED
    BY <2>1 DEF TypeOK, IdsHandedOut
<1>6. g \notin context \cup store \cup embedded \cup discarded \cup overHere
  BY <1>2, <1>4, <1>5
<1>7. IdsHandedOut'
  <2>1. lastId + 1 <= lastId'
    BY <1>1, <1>4
  <2>2. ASSUME NEW h \in (context \cup store \cup embedded \cup discarded \cup overHere)'
        PROVE  h.id <= lastId'
    <3>1. CASE h = g
      BY <1>2, <2>1, <3>1
    <3>2. CASE h # g
      <4>1. h \in context \cup store \cup embedded \cup discarded \cup overHere
        BY <1>1, <1>3, <3>2
      <4>2. h.id \in Nat /\ h.id <= lastId
        BY <1>5, <4>1
      <4> QED
        BY <4>2, <1>1, <1>4
    <3> QED
      BY <3>1, <3>2
  <2> QED
    BY <2>2 DEF IdsHandedOut
<1>8. ValidGroupsHaveTracks'
  BY <1>1, <1>2 DEF ValidGroupsHaveTracks, ReachesScript, WellFormed
<1>9. StoredGroupsAreAccountedFor'
  BY <1>1, <1>3
<1>10. OverGroupsReturnOnlyFromStore'
  BY <1>1, <1>3, <1>6
<1>11. StoredGroupsCanBeEmbedded'
  BY <1>3, <1>8 DEF StoredGroupsCanBeEmbedded, ValidGroupsHaveTracks, WellFormed
<1>12. NothingOverYet'
  BY <1>1 DEF NothingOverYet
<1> QED
  BY <1>7, <1>8, <1>9, <1>10, <1>11, <1>12 DEF DurabilityParts

(***************************************************************************)
(* Processing an entry: the deleted group carries its image on every track *)
(* by then; a failed operation deletes nothing.                            *)
(***************************************************************************)
LEMMA EmbeddingKeepsDurability ==
    ASSUME DurabilityInv, NEW g \in context,
           NEW outcome \in Outcomes(g.tracks, g.image), EmbedGroup(g, outcome)
    PROVE  DurabilityParts'
<1> USE DEF DurabilityInv
<1>1. outcome.didComplete \in BOOLEAN
  BY OutcomesSound
<1>2. CASE outcome.didComplete
  <2>1. g \in Group /\ g.tracks # {} /\ outcome.done = g.tracks
    BY <1>2, CompletionReachesAll DEF DurabilityInv
  <2>2. Carried(g, art')
    BY <2>1, EmbeddedCarries DEF EmbedGroup, EntryDone, EntryFailed
  <2>3. /\ running' = running
        /\ context' = context \ {g}
        /\ embedded' = embedded \cup {g}
        /\ overHere' = overHere \cup {g}
        /\ UNCHANGED <<lastId, discarded>>
        /\ running
    BY <1>2, <2>2 DEF EmbedGroup, EntryDone, EntryFailed
  <2>4. /\ store' = context' \/ store' = store
        /\ store' # store => \A h \in context' : WellFormed(h)
    BY <1>2, SaveWritesAllOrNothing DEF EmbedGroup, EntryDone, EntryFailed
  <2>5. IdsHandedOut'
    BY <2>3, <2>4 DEF IdsHandedOut
  <2>6. ValidGroupsHaveTracks'
    BY <2>3 DEF ValidGroupsHaveTracks
  <2>7. StoredGroupsAreAccountedFor'
    BY <2>3, <2>4
  <2>8. OverGroupsReturnOnlyFromStore'
    BY <2>3, <2>4
  <2>9. StoredGroupsCanBeEmbedded'
    BY <2>4, <2>6 DEF StoredGroupsCanBeEmbedded, ValidGroupsHaveTracks, WellFormed
  <2>10. NothingOverYet'
    BY <2>3 DEF NothingOverYet
  <2> QED
    BY <2>5, <2>6, <2>7, <2>8, <2>9, <2>10 DEF DurabilityParts
<1>3. CASE ~outcome.didComplete
  <2>1. running' = running /\ UNCHANGED <<context, store, embedded, discarded, overHere, lastId>>
    BY <1>3 DEF EmbedGroup, EntryDone, EntryFailed
  <2> QED
    BY <2>1, SavedContext DEF DurabilityParts
<1> QED
  BY <1>1, <1>2, <1>3

(***************************************************************************)
(* The inductive invariant holds in every reachable state.                 *)
(***************************************************************************)
THEOREM DurabilityInvariant == Spec => []DurabilityInv
<1>1. Init => DurabilityParts
  BY DEF Init, DurabilityParts, IdsHandedOut, NothingOverYet, ValidGroupsHaveTracks,
         StoredGroupsCanBeEmbedded
<1>2. DurabilityInv /\ [Next]_vars => DurabilityParts'
  <2> SUFFICES ASSUME DurabilityInv, [Next]_vars PROVE DurabilityParts'
    OBVIOUS
  <2>1. ASSUME NEW tracks \in TrackLists, NEW image \in Image,
               queueItemImageDataLoaded(tracks, image)
        PROVE  DurabilityParts'
    BY <2>1, ArrivalKeepsDurability
  <2>2. CASE processQueue \/ EndProcessing \/ ErrorDismissed
    <3>1. running' = running /\ UNCHANGED <<context, store, embedded, discarded, overHere, lastId>>
      BY <2>2 DEF processQueue, StopQueue, StartQueue, EndProcessing, ErrorDismissed, history
    <3> QED
      BY <3>1, SavedContext DEF DurabilityParts
  <2>3. ASSUME NEW g \in context, NEW outcome \in Outcomes(g.tracks, g.image),
               EmbedGroup(g, outcome)
        PROVE  DurabilityParts'
    BY <2>3, EmbeddingKeepsDurability
  <2>4. ASSUME NEW selection \in SUBSET context,
               removeSelectedTrackGroups(selection)
        PROVE  DurabilityParts'
    <3>1. running' = running /\ UNCHANGED <<context, embedded, discarded, overHere, lastId>>
      BY <2>4 DEF removeSelectedTrackGroups, history
    <3>2. /\ store' = store \/ store' = context
          /\ store' # store => \A g \in context : WellFormed(g)
      BY <2>4, <3>1, SaveWritesAllOrNothing DEF removeSelectedTrackGroups
    <3> QED
      BY <3>1, <3>2, SavedContext DEF DurabilityParts
  <2>5. CASE groupsControllerRemoves
    <3>1. /\ running' = running
          /\ context' = context \ removing
          /\ discarded' = discarded \cup (context \cap removing)
          /\ overHere' = overHere \cup (context \cap removing)
          /\ running
          /\ UNCHANGED <<store, lastId, embedded>>
      BY <2>5 DEF groupsControllerRemoves
    <3> QED
      BY <3>1 DEF DurabilityInv, DurabilityParts, IdsHandedOut, NothingOverYet,
                  ValidGroupsHaveTracks, StoredGroupsCanBeEmbedded
  <2>6. ASSUME MemoryLost PROVE DurabilityParts'
    BY <2>6 DEF MemoryLost, history, DurabilityInv, DurabilityParts, IdsHandedOut, NothingOverYet,
                ValidGroupsHaveTracks, StoredGroupsCanBeEmbedded
  <2>7. CASE Launch
    BY <2>7 DEF Launch, history, DurabilityInv, DurabilityParts, IdsHandedOut, NothingOverYet,
                ValidGroupsHaveTracks, StoredGroupsCanBeEmbedded
  <2>8. CASE UNCHANGED <<running, memory, store, history>>
    BY <2>8, SavedContext DEF memory, history, DurabilityParts
  <2> QED
    BY <2>1, <2>2, <2>3, <2>4, <2>5, <2>6, <2>7, <2>8
       DEF Next, processOneQueueEntry, Terminate, CrashWhileEmbedding,
           immediateItemImageDataLoaded, vars
<1>3. DurabilityInv <=> TypeOK /\ DurabilityParts
  BY DEF DurabilityInv, DurabilityParts
<1> QED
  BY <1>1, <1>2, <1>3, TypeCorrect, PTL DEF Spec

(***************************************************************************)
(* No order of adding, processing, removing, failing saves and crashes     *)
(* drops a stored group whose covers are missing; a group that is over     *)
(* comes back in no life of the process, and after its end only from the   *)
(* disk; and what the disk holds can be embedded.                          *)
(***************************************************************************)
THEOREM QueueIsAccountedFor ==
    Spec => [](/\ StoredGroupsAreAccountedFor
               /\ OverGroupsReturnOnlyFromStore
               /\ StoredGroupsCanBeEmbedded)
<1>1. DurabilityInv => /\ StoredGroupsAreAccountedFor
                       /\ OverGroupsReturnOnlyFromStore
                       /\ StoredGroupsCanBeEmbedded
  BY DEF DurabilityInv
<1> QED
  BY <1>1, DurabilityInvariant, PTL

\* A group completed or removed in this life of the process is not in the queue again; one
\* that was over before it is there only if the file still has it.
THEOREM FinishedGroupsStayAway == Spec => []OverGroupsReturnOnlyFromStore
  BY QueueIsAccountedFor, PTL

\* Every group in the file has tracks, a title and an image: what was half made never gets there.
THEOREM OnlySoundGroupsAreStored == Spec => []StoredGroupsCanBeEmbedded
  BY QueueIsAccountedFor, PTL

(***************************************************************************)
(* A step that writes a smaller queue to the disk leaves out only groups   *)
(* whose tracks all carry the image by then, or that the user removed.     *)
(***************************************************************************)
THEOREM StoreLosesOnlyWhatIsOver == Spec => GroupsLeaveStoreOnlyWhenOver
<1>1. DurabilityInv /\ [Next]_vars => store \ store' \subseteq embedded' \cup discarded'
  <2> SUFFICES ASSUME DurabilityInv, [Next]_vars
               PROVE  store \ store' \subseteq embedded' \cup discarded'
    OBVIOUS
  <2> USE DEF DurabilityInv
  <2>1. ASSUME NEW tracks, NEW image, queueItemImageDataLoaded(tracks, image)
        PROVE  store \ store' \subseteq embedded' \cup discarded'
    <3>1. /\ running /\ context \subseteq context' /\ UNCHANGED <<embedded, discarded>>
          /\ store' = store \/ store' = context'
      BY <2>1, SaveWritesAllOrNothing DEF queueItemImageDataLoaded
    <3> QED
      BY <3>1
  <2>2. ASSUME NEW g \in context, NEW outcome \in Outcomes(g.tracks, g.image),
               EmbedGroup(g, outcome)
        PROVE  store \ store' \subseteq embedded' \cup discarded'
    <3>1. running /\ discarded' = discarded
      BY <2>2 DEF EmbedGroup
    <3>2. CASE outcome.didComplete
      <4>1. g \in Group /\ g.tracks # {} /\ outcome.done = g.tracks
        BY <3>2, CompletionReachesAll DEF DurabilityInv
      <4>2. Carried(g, art')
        BY <2>2, <4>1, EmbeddedCarries DEF EmbedGroup
      <4>3. context' = context \ {g} /\ embedded' = embedded \cup {g}
        BY <2>2, <3>2, <4>2 DEF EmbedGroup, EntryDone
      <4>4. store' = store \/ store' = context'
        BY <2>2, <3>2, SaveWritesAllOrNothing DEF EmbedGroup, EntryDone
      <4> QED
        BY <3>1, <4>3, <4>4
    <3>3. CASE ~outcome.didComplete
      BY <2>2, <3>3 DEF EmbedGroup, EntryFailed
    <3> QED
      BY <3>2, <3>3
  <2>3. ASSUME NEW selection, removeSelectedTrackGroups(selection)
        PROVE  store \ store' \subseteq embedded' \cup discarded'
    <3>1. /\ running /\ UNCHANGED <<context, embedded, discarded>>
          /\ store' = store \/ store' = context
      BY <2>3, SaveWritesAllOrNothing DEF removeSelectedTrackGroups, history
    <3> QED
      BY <3>1
  <2>4. CASE \/ processQueue \/ EndProcessing \/ ErrorDismissed
             \/ groupsControllerRemoves \/ Launch
    <3>1. store' = store
      BY <2>4 DEF processQueue, StopQueue, StartQueue, EndProcessing, ErrorDismissed,
                  groupsControllerRemoves, Launch
    <3> QED
      BY <3>1
  <2>5. CASE MemoryLost \/ UNCHANGED store
    BY <2>5 DEF MemoryLost
  <2> QED
    BY <2>1, <2>2, <2>3, <2>4, <2>5
       DEF Next, processOneQueueEntry, Terminate, CrashWhileEmbedding,
           immediateItemImageDataLoaded, vars
<1> QED
  BY <1>1, DurabilityInvariant, PTL DEF Spec, GroupsLeaveStoreOnlyWhenOver

-----------------------------------------------------------------------------
(***************************************************************************)
(* A disk that does not fail.  What a save then writes is decided by the   *)
(* context alone, and a malformed group is the one thing that keeps it     *)
(* from being written: the property is inductive as it stands.             *)
(***************************************************************************)
LEMMA SaveFailsOnlyForMalformed ==
    ASSUME DiskMayFail = FALSE, save
    PROVE  store' = context' \/ \E g \in context' : ~WellFormed(g)
BY DEF save

(***************************************************************************)
(* On a disk that does not fail, the queue and the file differ for two     *)
(* reasons only, in any number of groups and any order of handlers: a      *)
(* malformed group, or the removal that comes after its save.              *)
(***************************************************************************)
THEOREM SoundDiskLosesNothingElse ==
    ASSUME DiskMayFail = FALSE
    PROVE  Spec => []UnsavedOnlyBehindMalformed
<1>1. Init => UnsavedOnlyBehindMalformed
  BY DEF Init, UnsavedOnlyBehindMalformed
<1>2. UnsavedOnlyBehindMalformed /\ [Next]_vars => UnsavedOnlyBehindMalformed'
  <2> SUFFICES ASSUME UnsavedOnlyBehindMalformed, [Next]_vars PROVE UnsavedOnlyBehindMalformed'
    OBVIOUS
  <2> USE DEF UnsavedOnlyBehindMalformed
  <2>1. ASSUME NEW tracks \in TrackLists, NEW image \in Image,
               queueItemImageDataLoaded(tracks, image)
        PROVE  UnsavedOnlyBehindMalformed'
    <3> DEFINE g == makeTrackGroup(tracks, image)
    <3>1. /\ running /\ running' /\ context' = context \cup {g}
          /\ UNCHANGED <<discarded, overHere>>
      BY <2>1 DEF queueItemImageDataLoaded
    <3>2. CASE tracks = {}
      <4>1. ~WellFormed(g)
        BY <3>2 DEF makeTrackGroup, WellFormed
      <4> QED
        BY <3>1, <4>1
    <3>3. CASE tracks # {}
      <4>1. store' = context' \/ \E h \in context' : ~WellFormed(h)
        BY <2>1, <3>3, SaveFailsOnlyForMalformed DEF queueItemImageDataLoaded
      <4> QED
        BY <3>1, <4>1
    <3> QED
      BY <3>2, <3>3
  <2>2. ASSUME NEW g \in context, NEW outcome \in Outcomes(g.tracks, g.image),
               EmbedGroup(g, outcome)
        PROVE  UnsavedOnlyBehindMalformed'
    <3>1. CASE outcome.didComplete
      <4>1. /\ running' = running /\ context' = context \ {g} /\ discarded' = discarded
            /\ store' = context' \/ \E h \in context' : ~WellFormed(h)
        BY <2>2, <3>1, SaveFailsOnlyForMalformed
           DEF EmbedGroup, EntryDone
      <4> QED
        BY <4>1
    <3>2. CASE ~outcome.didComplete
      BY <2>2, <3>2 DEF EmbedGroup, EntryFailed
    <3> QED
      BY <3>1, <3>2
  <2>3. ASSUME NEW selection, removeSelectedTrackGroups(selection)
        PROVE  UnsavedOnlyBehindMalformed'
    <3>1. /\ running' = running /\ UNCHANGED <<context, discarded, overHere>>
          /\ store' = context' \/ \E h \in context' : ~WellFormed(h)
      BY <2>3, SaveFailsOnlyForMalformed
         DEF removeSelectedTrackGroups, history
    <3> QED
      BY <3>1
  <2>4. CASE groupsControllerRemoves
    BY <2>4 DEF groupsControllerRemoves
  <2>5. ASSUME MemoryLost PROVE UnsavedOnlyBehindMalformed'
    BY <2>5 DEF MemoryLost
  <2>6. CASE Launch
    BY <2>6 DEF Launch, history
  <2>7. ASSUME UNCHANGED <<running, context, store, discarded, overHere>> PROVE UnsavedOnlyBehindMalformed'
    BY <2>7
  <2>8. CASE processQueue \/ EndProcessing \/ ErrorDismissed
    BY <2>7, <2>8 DEF processQueue, StopQueue, StartQueue, EndProcessing, ErrorDismissed, history
  <2> QED
    BY <2>1, <2>2, <2>3, <2>4, <2>5, <2>6, <2>7, <2>8
       DEF Next, processOneQueueEntry, Terminate, CrashWhileEmbedding,
           immediateItemImageDataLoaded, vars, memory, history
<1> QED
  BY <1>1, <1>2, PTL DEF Spec

-----------------------------------------------------------------------------
(***************************************************************************)
(* Refinement.  The mapping of the variables is the one of  Queue.         *)
(***************************************************************************)
QueueVars == <<IF running THEN context ELSE store, store, embedded, discarded, art>>

(***************************************************************************)
(* An arriving image submits a job nobody knew.                            *)
(***************************************************************************)
LEMMA ArrivalSubmits ==
    ASSUME DurabilityInv, NEW tracks \in TrackLists, NEW image \in Image,
           queueItemImageDataLoaded(tracks, image)
    PROVE  Queue!Next
<1> DEFINE g == makeTrackGroup(tracks, image)
<1>1. /\ running /\ running' /\ lastId < MaxGroups
      /\ context' = context \cup {g}
      /\ UNCHANGED <<embedded, discarded, art>>
  BY DEF queueItemImageDataLoaded
<1>2. store' = context' \/ store' = store
  BY <1>1, SaveWritesAllOrNothing DEF queueItemImageDataLoaded
<1>3. g \in Group /\ g.id = lastId + 1
  BY <1>1, NewGroup DEF DurabilityInv
<1>4. lastId \in Nat
  <2>1. lastId \in 0..MaxGroups
    BY DEF DurabilityInv, TypeOK
  <2> QED
    BY ONLY <2>1, BoundAssumption
<1>5. \A h \in context \cup store \cup embedded \cup discarded :
          h.id \in Nat /\ h.id <= lastId
  <2>1. \A h \in Group : h.id \in Nat
    BY BoundAssumption DEF Group
  <2> QED
    BY <2>1 DEF DurabilityInv, TypeOK, IdsHandedOut
<1>6. g \notin context \cup store \cup embedded \cup discarded
  BY <1>3, <1>4, <1>5
<1>7. Queue!Submit(g)
  BY <1>1, <1>2, <1>6 DEF Queue!Submit, Queue!Known, Queue!WriteBehind
<1> QED
  BY <1>3, <1>7 DEF Queue!Next

(***************************************************************************)
(* A processed entry is finished, or attempted.                            *)
(***************************************************************************)
LEMMA EmbeddingFinishesOrAttempts ==
    ASSUME DurabilityInv, NEW g \in context,
           NEW outcome \in Outcomes(g.tracks, g.image), EmbedGroup(g, outcome)
    PROVE  Queue!Next
<1>1. running /\ running'
  BY DEF EmbedGroup, EntryDone, EntryFailed
<1>2. outcome.didComplete \in BOOLEAN /\ outcome.done \subseteq g.tracks
  BY OutcomesSound
<1>3. Queue!Embed(g, outcome.done)
  BY DEF EmbedGroup, EntryDone, EntryFailed, EmbedArtwork, Queue!Embed
<1>4. CASE outcome.didComplete
  <2>1. g \in Group /\ g.tracks # {} /\ outcome.done = g.tracks
    BY <1>4, CompletionReachesAll DEF DurabilityInv
  <2>2. Carried(g, art')
    BY <2>1, EmbeddedCarries DEF EmbedGroup, EntryDone, EntryFailed
  <2>3. /\ context' = context \ {g}
        /\ embedded' = embedded \cup {g}
        /\ discarded' = discarded
    BY <1>4, <2>2 DEF EmbedGroup, EntryDone, EntryFailed
  <2>4. store' = context' \/ store' = store
    BY <1>4, SaveWritesAllOrNothing DEF EmbedGroup, EntryDone, EntryFailed
  <2>5. Queue!Finish(g)
    BY <1>1, <1>3, <2>1, <2>3, <2>4 DEF Queue!Finish, Queue!WriteBehind
  <2> QED
    BY <1>1, <2>5 DEF Queue!Next
<1>5. CASE ~outcome.didComplete
  <2>1. UNCHANGED <<running, context, store, embedded, discarded>>
    BY <1>5 DEF EmbedGroup, EntryDone, EntryFailed
  <2>2. Queue!Attempt(g, outcome.done)
    BY <1>1, <1>2, <1>3, <2>1 DEF Queue!Attempt, Queue!jobVars
  <2> QED
    BY <1>1, <1>2, <2>2 DEF Queue!Next
<1> QED
  BY <1>2, <1>4, <1>5

(***************************************************************************)
(* The queue of the code is a durable, write-behind job queue that repeats *)
(* work rather than losing it: every handler, the deferred removal and a   *)
(* crash in the middle of an operation are steps of DurableQueue.          *)
(***************************************************************************)
THEOREM CodeImplementsDurableQueue == Spec => Queue!Spec
<1>1. Init => Queue!Init
  BY DEF Init, Queue!Init
<1>2. DurabilityInv /\ [Next]_vars => [Queue!Next]_QueueVars
  <2> SUFFICES ASSUME DurabilityInv, [Next]_vars PROVE [Queue!Next]_QueueVars
    OBVIOUS
  <2>1. ASSUME NEW tracks \in TrackLists, NEW image \in Image,
               queueItemImageDataLoaded(tracks, image)
        PROVE  Queue!Next
    BY <2>1, ArrivalSubmits
  <2>2. CASE processQueue \/ EndProcessing \/ ErrorDismissed
    <3>1. UNCHANGED <<running, context, store, embedded, discarded, art>>
      BY <2>2 DEF processQueue, StopQueue, StartQueue, EndProcessing, ErrorDismissed, history
    <3> QED
      BY <3>1 DEF QueueVars
  <2>3. ASSUME NEW g \in context, NEW outcome \in Outcomes(g.tracks, g.image),
               EmbedGroup(g, outcome)
        PROVE  Queue!Next
    BY <2>3, EmbeddingFinishesOrAttempts
  <2>4. ASSUME NEW selection \in SUBSET context,
               removeSelectedTrackGroups(selection)
        PROVE  [Queue!Next]_QueueVars
    <3>1. running /\ running' /\ UNCHANGED <<context, embedded, discarded, art>>
      BY <2>4 DEF removeSelectedTrackGroups, history
    <3>2. store' = context \/ store' = store
      BY <2>4, <3>1, SaveWritesAllOrNothing DEF removeSelectedTrackGroups
    <3>3. CASE store' = store
      BY <3>1, <3>3 DEF QueueVars
    <3>4. CASE store' = context
      BY <3>1, <3>4 DEF Queue!Next, Queue!Flush
    <3> QED
      BY <3>2, <3>3, <3>4
  <2>5. CASE groupsControllerRemoves
    <3> DEFINE js == context \cap removing
    <3>1. /\ running /\ running'
          /\ context' = context \ js
          /\ discarded' = discarded \cup js
          /\ UNCHANGED <<store, embedded, art>>
      BY <2>5 DEF groupsControllerRemoves
    <3>2. Queue!Cancel(js)
      BY <3>1 DEF Queue!Cancel, Queue!WriteBehind
    <3> QED
      BY <3>1, <3>2 DEF Queue!Next
  <2>6. CASE Terminate
    <3>1. Queue!Restart
      BY <2>6 DEF Terminate, MemoryLost, history, Queue!Restart
    <3> QED
      BY <3>1 DEF Queue!Next
  <2>7. ASSUME NEW g \in context, NEW done \in SUBSET g.tracks,
               CrashWhileEmbedding(g, done)
        PROVE  Queue!Next
    <3>1. running /\ ~running' /\ UNCHANGED <<store, embedded, discarded>>
      BY <2>7 DEF CrashWhileEmbedding, MemoryLost, history
    <3>2. Queue!Embed(g, done)
      BY <2>7 DEF CrashWhileEmbedding, EmbedArtwork, Queue!Embed
    <3>3. Queue!Restart
      BY <3>1, <3>2 DEF Queue!Restart
    <3> QED
      BY <3>3 DEF Queue!Next
  <2>8. CASE Launch
    <3>1. /\ ~running /\ running' /\ context' = store
          /\ UNCHANGED <<store, embedded, discarded, art>>
      BY <2>8 DEF Launch, history
    <3> QED
      BY <3>1 DEF QueueVars
  <2>9. ASSUME NEW tracks, NEW image \in Image,
               immediateItemImageDataLoaded(tracks, image)
        PROVE  Queue!Next
    <3>1. art' \in [Track -> Image \cup {NoArt}]
      BY <2>9, ImmediateArtworkType DEF DurabilityInv, Artwork
    <3>2. UNCHANGED <<running, context, store, embedded, discarded>>
      BY <2>9 DEF immediateItemImageDataLoaded, memory, history
    <3> QED
      BY <3>1, <3>2 DEF Queue!Next, Queue!SetElsewhere, Queue!jobVars
  <2>10. CASE UNCHANGED vars
    BY <2>10 DEF vars, memory, history, QueueVars
  <2> QED
    BY <2>1, <2>2, <2>3, <2>4, <2>5, <2>6, <2>7, <2>8, <2>9, <2>10
       DEF Next, processOneQueueEntry
<1>3. [Queue!Next]_QueueVars => [Queue!Next]_(Queue!vars)
  BY DEF QueueVars, Queue!vars
<1> QED
  BY <1>1, <1>2, <1>3, DurabilityInvariant, PTL DEF Spec, Queue!Spec
===============================================================================
