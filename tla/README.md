# Album Artwork Assistant: TLA+ models and proofs

Album Artwork Assistant is a Mac OS X application (Objective-C, 2008-2011). It
asks iTunes for the selected albums, searches Google and Amazon for cover
images, lets the user choose one in an image browser or a web view, and embeds
it in the tracks through an AppleScript, at once or through a queue kept in a
Core Data store. It signs its requests to Amazon with a small C library for
HMAC-SHA-2. This directory models the parts that have interesting state,
model-checks them with TLC and proves their main properties with TLAPS.

    tlc -workers 2 -config EmbedQueueSafety.cfg MCEmbedQueue
    tlapm EmbedQueue_proofs.tla

`PROJECT.json` lists the runs, maps every definition to the source lines it
models, and names for every checked property a mutation of the model that
breaks it. Inside the modules those mutations are the definitions named
`X_Something` and marked `mutant`; no specification uses them.

## 1. Inventory

Paths are relative to the repository.

| Component | Source | State | Operations |
|---|---|---|---|
| iTunes selection query | `src/fetch-selection-info.applescript`, `AppDelegate.m:218` | the script's lists | list the tracks of the selected albums |
| Main window session | `src/AppDelegate.m`, `src/ImageSearchItem.m` | `tracks`, `albumTitle`, `images`, `isImageSelected`, `isBusy`, delayed calls, background threads | Get Albums, edit the search text, delete tracks, search, select, Add Immediately, Add to Queue, image arrived, image failed |
| Quick Look preview and image data | `src/QuickLookImageBrowserView.m`, `src/ImageSearchItem.m:116-165` | `imageData` and `fileUrl` of each item, temporary files, the panel's item | preview, download on the main thread or on a background one |
| Queue | `src/AppDelegate.m:440-572`, `src/DataStore.m`, `src/TrackGroup.m` | managed object context, SQLite file, `isQueueProcessing`, timers, button | insert, process, stop, remove, save, quit, launch |
| Update operation | `src/UpdateOperation.m`, `src/embed-artwork.applescript` | `didComplete`, a temporary file, artwork in iTunes | `main` |
| Script installation | `src/AppDelegate.m:126-210` | script file, two defaults of other programs, one-time override | install, configure the shortcut |
| Termination with iTunes | `src/AppDelegate.m:658, 743` | two defaults | hear a quit, launch |
| Web view | `src/AppDelegate.m:760-871` | highlighted element and its style, the page | hover, context menu, popups, load |
| Status line | `src/AppDelegate.m:685-693` | `isBusy`, `statusMessage` | `startBusy:`, `clearBusy`; shared by all the above |
| Signed Amazon request | `src/SignedAwsSearchRequest.m` | none | build and sign a URL |
| HMAC-SHA-2 library | `src-external/hmac` | contexts of a hash and of a keyed hash | init, update, final, reinit, four algorithms |
| Vendored | `src-external`, `sparkle` | - | crash reporter, updater, toolboxes |

How they interact. Everything runs on the main thread but the two download
methods (`loadImmediateItemImageData:`, `loadQueueItemImageData:`), which run on
threads of their own and hand their result over with `dd_invokeOnMainThread`.
Both meet the preview in `ImageSearchItem -dataError:`, which keeps what it
downloaded in the item.
The handlers communicate through `AppDelegate`'s variables: the image that
arrives meets the `tracks` of that moment, the failure meets the selection of
that moment, and one `isBusy` flag serves them all. Searches and queue entries
run from timers of 0.1 seconds. An `NSAlert` in the middle of a search runs a
nested run loop, in which downloads, and neither clicks nor timers, are
delivered; so does the error of a save that failed (`presentError:`). Both ways to embed go through `UpdateOperation`, and the queue talks
to the file through `-save` alone, which writes the whole context or nothing.
The installation asks the user to quit iTunes, which the handler that listens to
iTunes takes as a reason to end the application, unless the override is set.

What makes it hard: a result that arrives after the state it was asked for has
changed; a crash between the script and the save; a save that fails because of
an unrelated half-made object; a removal that AppKit postpones; timers nobody
cancels; a nested loop; two downloads of one image; files that share a name; a
page that changes under the pointer; steps of an installation that fail one by
one; pieces of a message that end anywhere in a block. `PROJECT.json` lists these
hazards at their lines with the properties that cover them.

What makes each part correct, in the words of its properties:

* queue: a stored group leaves the file only when its tracks carry its image or
  the user removed it; a processing queue always has a next call; processing
  ends; the whole implements an abstract durable queue;
* session: images shown are for the title; the indicator stops; the selection
  is one of the images; every requested image is answered;
* update operation: `didComplete` implies every track carries the image;
* selection query: the tracks the selection's container has of the selected
  albums, each once, the albums in the order of the selection; the loop implements a single question;
* installation and termination: what is confirmed is there; doing as asked does
  not end the application, unless an earlier quit of iTunes comes in between; an
  override spares one quit;
* preview: what is previewed is what is embedded, as far as names and downloads
  allow it;
* web view: the highlight is taken back and the styles are given back;
* status line: its text is true, with two exceptions in the code's terms;
* window and queue together: no cover reaches a track it was not listed with; no
  image asked for is lost between the two, unless no track is listed; the queue
  breaks nothing of the window;
* HMAC library: the code of a message does not depend on the pieces it came in,
  nor on what the context was used for before.

## 2. Modules

| Module | What it is |
|---|---|
| `UpdateOperation` | what one run of `-main` may do to the artwork and which `didComplete` follows; no variables |
| `DurableQueue` | abstract: a set of jobs, written behind to a durable copy, each done at least once unless cancelled |
| `EmbedQueue` | the queue as coded; refines `DurableQueue` |
| `AssistantSession` | the main window, from Get Albums to the arrival of the image |
| `Assistant` | `AssistantSession` and `EmbedQueue` composed: one process, one main thread, one track list, one indicator |
| `AlbumQuery` | abstract: one question about the selected tracks, one answer or an error |
| `SelectionQuery` | the script's loop over the selection; refines `AlbumQuery` |
| `ScriptInstall` | the installation, and the termination with iTunes |
| `StatusDelegate` | the indicator and the status line, shared by the next three |
| `PreviewCache` | image data, temporary files, the preview panel, background downloads |
| `HoverHighlight` | the highlight in the web view |
| `ImageViews` | `PreviewCache` and `HoverHighlight` composed: one main thread, one status line |
| `Sha2` | contexts of the hash functions: buffering and padding, and what FIPS 180-2 defines |
| `HmacSha2` | contexts of the keyed functions over `Sha2`, and what RFC 2104 defines |
| `MC...` | instances of these for TLC, and what documents and assertions say of the program |
| `..._proofs` | theorems, one module for each of the eight that have them |

### EmbedQueue

`context` is the managed object context, `store` the SQLite file. A group is a
record `[id, tracks, image, titled]`; its image data is a model value and its
title only matters as present or not, because the object model requires both.
`scheduled` counts the calls of `processOneQueueEntry` that
`performSelector:afterDelay:` still owes, and `processButton` is the title the
toggle button shows. `presentingError` says that the error of a failed save is
displayed. `art` is iTunes. Three history variables remember which groups are
over: `embedded` and `discarded` for good and why, `overHere` those whose
operation completed, or that were removed, in this life of the process; no guard
reads them.

| Action | Code |
|---|---|
| `queueItemImageDataLoaded` | 471, with `makeTrackGroupWithImageData:` 491 and `-save`. For an empty list the exception at 499 leaves a group with no title, image and save; for a nil list the title is nil |
| `immediateItemImageDataLoaded` | 80 |
| `StopQueue`, `StartQueue` | 523. AppKit toggles the button on a click; stopping then sets it Off by hand |
| `EndProcessing`, `EmbedGroup` | 537: the two ways through `processOneQueueEntry` |
| `ErrorDismissed` | `DataStore.m:91`: `presentError:` returns |
| `removeSelectedTrackGroups`, `groupsControllerRemoves` | 559; AppKit documents that `remove:` takes effect in the next turn of the run loop |
| `Terminate`, `CrashWhileEmbedding`, `Launch` | 672, the death of the process inside `[uo main]`, 611. Nothing is saved on the way out: `applicationShouldTerminate:` is commented out |

`save` writes the context, or leaves the file and presents the error when a group
is malformed or the disk refuses. While the alert is up its loop delivers images
and postponed removals, whose saves may fail again and present on top, and
neither timers nor clicks. What a handler still does after its save is a call of
`processOneQueueEntry` to come or the launch of iTunes; the call is counted at
once, since it cannot fire before the alert is gone. The fetch of the "first" group has
no sort descriptor: any group may come. `didComplete = FALSE` with every track
done is possible (an Apple event that timed out was executed nevertheless).

### AssistantSession

`images` is the list of results; `shown` and `selection` are what the browser
has, which follows the list only through `reloadData`. `finds` counts the
delayed `doFindImages:` calls, `alert` says that one is inside `runModal`.
`jobs` are downloads: loading on their thread, then loaded or failed and on
their way to the main thread. `leaked` is history: it is set by the two early returns that leave the indicator on (33 and 454) and reset by whatever next
touches the indicator. `MCWrongAlbum` adds the history `asked`, the list an image
was chosen for.

| Action | Code |
|---|---|
| `fetch` (`FetchFails`, `FetchSucceeds`) | 30, 218; also sent by the script command after 0.2 s |
| `setAlbumTitle` | 43, with `findImages:` 90 |
| `delete` | 435 |
| `doFindImages`, `AmazonAlert`, `AlertDismissed` | 251, split where `runModal` (355) lets other handlers run |
| `Select`, `BrowserReloads` | the browser: 704-720, `reloadData` sent by 396 |
| `setAlbumArtwork`, `addToQueue`, `ChooseWebImage` | 50, 442, 825 |
| `Load` | `ImageSearchItem.m:116` on a background thread |
| `ItemImageDataLoaded`, `itemImageDataLoadFailed` | 471 and 80 as far as the window goes, 482 with 410 |
| `previewPanelItem`, `previewItemURL` | `QuickLookImageBrowserView.m:54`, `ImageSearchItem.m:160` |

Which images a site returns, and whether a page of results fails, is any subset
of `AmazonAreas` and `GoogleAreas`. `sortUsingSelector:` is any permutation that
`areaCompare:` finds sorted. `selectedImage` answers nil for an index beyond the
list and raises for an empty list (`count - 1` is the largest unsigned number);
both end the command. What the browser does with its selection on a reload is
not documented: it may keep it or drop it when it is still in range. The sheet of
a failed Amazon request only blocks clicks, and is left out, so the model does a
little more than the program. "Delete" may take effect inside an alert, since
AppKit postpones `remove:`. Delayed calls are not delivered inside `runModal`, results of
downloads are.

### Assistant

The composition extends `EmbedQueue` and takes the window as an instance; a step
of both is a conjunction of their actions.

| Action | Code |
|---|---|
| `WindowStep`, `ImageChosen`, `DownloadEnds`, `ImageFails` | the window's handlers that leave the queue alone |
| `QueuedImageArrives`, `ImmediateImageArrives` | `ItemImageDataLoaded` of the window and 471 or 80 of the queue, with `tracks` as it is now |
| `ProcessQueueClicked`, `TimerFires` | 523 and 537, which turn the indicator off; neither happens inside `runModal` or the error of a save, whose loops run no timers of the default mode and let no click through |
| `GroupsRemoved` | 559; the removal AppKit postponed may come inside an alert or after it |
| `SaveErrorDismissed` | `ErrorDismissed` of the queue; an alert of a search below it goes after it |
| `ProcessEnds`, `Relaunch` | quit and crash, inside an alert too; the next window starts from nothing, the queue from the file |

`data` is what the download of each request brought, the argument of the call to
the main thread. `listed` is history: which track was listed when which image
arrived. A request
for the queue is only made while its group is within `MaxGroups`
(`ToInsert`), so that no image on its way is stopped by that bound. What was
being downloaded when the process ended is gone, as in the program.

### SelectionQuery

One step is one pass of the loop (`LoopPass`), which looks an album up
(`ListAlbum`, 15-34) or not (`SkipTrack`), then `Return` (40). `Fail` is an Apple
event that iTunes does not answer. The lookup `tracks of mycontainer whose album
is myalbum` gives tracks of any class in the order of the container, of which
nothing is known. Assumed: iTunes and the selection stay as they are while the
script runs, and a selection lies in one container, the one the window shows
(the script itself reads the container of each selected track).

`AlbumQuery` knows no loop: its caller asks, and is given a complete list in the
order of the selection or an error. The mapping takes the list for the answer
once the script has returned, and for nothing before, so that every pass is a
stutter.

### ScriptInstall

The installation is one handler, split into the steps at which it may fail or
the process may die; `phase` says which is next. Other programs start and quit
all the time; what the workspace tells of it waits in `notices` until the main
thread is between handlers or inside the loop of a presented error.

| Action | Code |
|---|---|
| `InstallationRefused`, `InstallationBegins` | 126-133 with `canInstalliTunesAppleScript` 158 |
| `RemoveInstalled`, `CopyScript`, `ErrorDismissed` | 167-183 and 135-139 |
| `AssignShortcut`, `ListInMenus` | 188-209: each reads the present state first; the result of a command is not looked at. `createiTunesShortcut` answers YES in any case, so that the alert after it (145) is unreachable |
| `applicationDidQuit` | 658-673: `QuitIgnored`, `QuitSpared`, `TerminatesWithItunes` |
| `applicationDidFinishLaunching`, `Exit`, `setTerminateWithItunes` | 743, the end of the process, the preferences window |

`commandFailed`, `asked`, `usedUp`, `warnings` and `spared` are history. `asked`
marks the iTunes process that ran when the user was told to quit it, whatever
notices of earlier ones still wait; the mark travels with the notice. `usedUp`
says that a quit of iTunes has used up the override since it was last asked for.

### StatusDelegate, PreviewCache, HoverHighlight, ImageViews

A request for a preview downloads on the main thread, synchronously:
`previewed` is the item it waits for, and `mainThreadIsFree` guards everything
else that happens there. Threads go from started to loading to answered;
between the first two they look whether the item has its data, and an answer
sets it whatever it is by then.

| Action | Code |
|---|---|
| `previewPanelItem` | `QuickLookImageBrowserView.m:54` |
| `PreviewFromFile`, `PreviewFromData`, `PreviewDownloads`, `PreviewArrives` | `ImageSearchItem.m:160`, with `fileUrl` 141 and `dataError:` 116 |
| `addToQueueWithoutImage` | `AppDelegate.m:444` and the return at 454, or the exception at 390: the indicator is on and no thread begins |
| `LoadInBackground`, `AnswerArrives` | `AppDelegate.m:442-458, 471-484` (and their twins of Add Immediately), as far as the status line goes |
| `dataErrorBegins`, `dataErrorEnds` | `ImageSearchItem.m:116` on a background thread |
| `mouseLeaves`, `mouseMovesOver` | `AppDelegate.m:796`, the two ways through it |
| `LoadPage`, `webViewClose` | 772, 843-862: a page that is loaded has new elements; one WebKit kept comes back as it was left |
| `PageSetsStyle` | a script of the page, which sets a whole attribute and does not copy a highlighted element |

An attribute is the page's part and the number of highlights appended to it, so
that a highlight saved as the original, or put on twice, is visible. Histories:
`answers` and `peak` (what downloads of an item brought, how many ran at once),
`of` in a file, `panelWaits` (the panel has not asked for the file of what it was
given), `leaked` (the indicator was turned on last for nothing), `pageStyle`,
`overridden`, `pageLeft` (a page came and the pointer has not moved since). Each
search result is an item of its
own, and nothing else removes the temporary files.

### Sha2, HmacSha2

A context is the C structure with its real sizes: `len`, `tot_len`, the buffer of
two blocks, the chaining value. `update` and `final` are translated once, with
the algorithm's sizes as parameter, since the four copies in `sha2.c` differ in
these alone; `sha224_update` and the others are the copies, with their own lines.
The rounds of a compression are not modelled: a chaining value is its initial
value and the bytes compressed since, and `Digest` any function of that. Bytes
nobody wrote are `Garbage`, `unsigned int` is counted modulo `UintLimit`, and the
length field is one word with zeros above, as in the code. `HmacSha2` lets a
caller use one context for one algorithm in any order of calls the header allows,
with any pieces, several messages and several keys, and ask for a code no longer
than the digest, which is the caller's obligation (`memcpy` would read on).
`KeyUsed` (136-147),
`hmac_init` (126-171), `hmac_update` (181-185) and `hmac_final` (187-197 of
`hmac_sha2.c`) take the hash functions as parameters.

## 3. Runs

| Run | Shows | Bounds |
|---|---|---|
| `queue_safety` | the type invariant, five invariants, one action property, and that every step is a step of `DurableQueue` or a stutter | two overlapping albums, the empty and the nil list; two images; two groups; two timers; failing disk and its alerts; crashes |
| `session_safety` | types and the three invariants of the window | two albums (one with an empty cleaned title), two titles, one image per site, two waiting searches, one request |
| `assistant_safety` | covers go where they were listed; what a sound disk may still be missing; an image asked for the queue becomes that of a group | two albums whose titles are empty when cleaned, the empty list, and nil; one image; two requests in a life of the process; two groups; one timer; crashes and restarts without bound |
| `assistant_liveness` | every request is answered; processing ends; the indicator stops while the queue works | one album, deleted tracks, nil; one request in a life of the process; two groups, of which one comes from an earlier life; one timer; one waiting search with its alert, and no site with results; alerts of failed saves |
| `selection_query` | what is listed, once, in which order; that each run of the script is a behaviour of `AlbumQuery` | all libraries of four tracks with two titles or none, two containers, a stream or not; all selections of up to three tracks |
| `script_install` | what is confirmed is there; quits asked for are spared, unless an earlier one uses the override up; no more are spared than asked for | three waiting notices, two warnings in a launch |
| `image_views` | previews, highlight and status line | two items of one file name, two versions of the data, one background thread and the main one; two images on a page, a page without; two styles |
| `hmac` | codes, contexts and copies are right | all four algorithms; pieces of 0, 9, 55 and 111 bytes up to 128 in a message; keys of 20, 64 and 131 bytes; codes of 28 bytes and of the 32 the application asks for |
| `added_not_stored` | violation: an image for an empty track list blocks all later saves | one image arriving for `{}` first |
| `deleted_still_stored` | violation: a removed group stays in the file | one album |
| `wrong_album` | violation: the image is combined with an album fetched later | two albums, one request |
| `nothing_selected` | violation: the assertion at 412 fails | one image per site |

Why these bounds are enough to be interesting. Two groups with overlapping
tracks show a cover overwritten by another group, a group that blocks another,
and a removal of one while the other is processed. Two waiting timers are what
a stop and a start within a tenth of a second produce; a third adds nothing new
to the guards, which only ask for more than none. Two titles and two waiting
searches show a search that runs for a later title, twice. Three notices are an
iTunes that quit before the user was asked, one after, and the other program
between them. Four tracks in two containers with two titles hold namesakes in
one container and in both. A background thread and the main one are enough for
two downloads of an item to overlap. The pieces of a message, alone or one after
the other, end just before, at and after the places where the padding needs a
second block (55/56, 111/112 bytes) and where a buffer is full, for either block
size; the keys are shorter than a block, as long as one, longer.
Bounds are constants (`MaxGroups`, `MaxScheduled`, `MaxFinds`, `MaxRequests`,
`MaxNotices`, `MaxWarnings`, `MaxThreads`, `MaxMessage`) and appear only in
guards; the theorems hold for all their values. `UintLimit` is 4096 in the run
and 2^32 in the program; no message of the run comes near either.

`assistant_safety` searches for nothing, since its albums have no title; searches
and their alerts are in `assistant_liveness`, which has no results to list and
claims only the indicator of the window, and, with every detail of the list of
images, in `session_safety`. That results and browser stay right beside the queue
is proved (`WindowIsSoundInApplication`). Two waiting timers are in `queue_safety`.

Symmetry is used where the properties treat the elements alike: items, data and
images in `image_views`, the two albums in `assistant_safety`. The properties of
both are invariants and one action property (`QueuedImagesAreKept`), which TLC
checks step by step; none of them is a liveness property. Deadlock is checked in every run but `selection_query`, whose
script ends.

Fairness is stated in `AssistantFairSpec` alone. A download ends by answer or
timeout and the main thread works off what is sent to it, also during an alert:
`WF` of each request's steps. A timer that is due fires when the loop runs in its
default mode: that an alert of a search or of a failed save disables it, again
and again, is why `TimerFires` has `SF`, and timers fire in the order they are
due, so that none is passed over for ever. Users owe nothing: not even dismissing
an alert, and so `ProcessingEnds` asks for processing to end only if none stays
(`[]<>(~alert /\ ~presentingError)`), while `RequestsAreAnswered` does not depend on it. Neither
`doFindImages:` nor a click is assumed to happen. The other modules state no
fairness: their properties are about what may not happen.

## 4. What the violations say

Each is a statement of the repository that the code does not keep; the texts
are quoted in `PROJECT.json`.

* The release notes promise a saved queue after every change. A group made
  while the list is empty makes each later save fail (`AppDelegate.m:499`), and
  a removal is saved before it takes effect (`AppDelegate.m:560`).
  `UnsavedOnlyBehindMalformed` shows that these are the only two ways on a disk
  that does not fail (an image that meets a nil list makes a malformed group too).
* The help says the listed tracks are modified and the current album queued:
  the code takes the list at arrival (`AppDelegate.m:373, 499`).
* An unavailable image: the code removes what is selected by then, or fails its
  own assertion (`AppDelegate.m:411-413`).

One more disagreement has no run of its own. The help (`Album Artwork Assistant
Help.html:33`) says that the program selects "all tracks that share the album
title with the track you selected in iTunes". The script asks the container of
the selected track only: of a selection in a playlist the tracks of the album that
are not in the playlist are not listed. `Expected`, and with it
`ListsSelectedAlbums` and `AlbumQuery`, state what the code does; for a selection
in the library the two agree.

What the other properties are careful not to say is worth reading too. A second
preview of the same file name shows in the first item's place
(`PreviewHoldsOwnImage`); an image that arrives for an empty list is lost
(`QueuedImagesAreKept`); a quit of iTunes the installation asked for ends the
application when an earlier quit, not yet heard of, has used the override up
(`AskedQuitIsSpared`), and an override nobody used spares an unrelated quit later
in the launch (`SparedAtMostAsOftenAsAsked`); Add to Queue without an image leaves
"downloading" in the status line, and a page that changes under a resting pointer
the hint (`StatusTextIsTrue`); two downloads of an item at once may bring two images,
one previewed and one embedded (`LoadsAgree`); a shortcut is confirmed although a
command failed (`ConfirmedShortcutWorks`); a page's change to an image under the
pointer is undone (`StyleGivenBack`); the indicator may be off while something is
still under way.

## 5. Proofs

`EmbedQueue_proofs` proves, for every set of tracks, images and track lists and
all bounds:

* `TypeCorrect`: the types. Lemmas say what `Outcomes`, `EmbedArtwork`,
  `makeTrackGroup` and `save` return.
* `TimersAreSound`: `ProcessingIsScheduled` and `IdleButtonProcesses`, inductive
  with the types.
* `DurabilityInvariant`, from which `QueueIsAccountedFor`,
  `FinishedGroupsStayAway` and `OnlySoundGroupsAreStored` follow. The stored
  groups being accounted for is not inductive alone: a saved context replaces
  the whole file, so one must know that whatever a save leaves out is over. The
  strengthening `DurabilityInv` adds that no id is handed out twice
  (`IdsHandedOut`), that well-formed groups have tracks
  (`ValidGroupsHaveTracks`), that a group that is over in this life of the process
  is not in the context and one of an earlier life only while it is in the file,
  and that while the process is down no group is over in this life
  (`NothingOverYet`); it needs no assumption on the disk.
* `StoreLosesOnlyWhatIsOver`: the action property, from the same invariant.
* `SoundDiskLosesNothingElse`: `UnsavedOnlyBehindMalformed`, assuming a disk that
  does not fail; inductive as it stands.
* `CodeImplementsDurableQueue`: initial states and steps map to those of
  `DurableQueue`, with the queue read from the file while the process is down.

`AssistantSession_proofs` proves `SessionTypeCorrect`, `IndicatorIsHonest`,
`ResultsMatchTitle` and `SelectionIsInList`. The lemmas show that searching
(`SetToSeqs`, concatenation), sorting (`Sortings`) and `RemoveAt` keep the
elements of the list inside any set that holds the old images and the images
for the title; `FindingKeepsElements` is used with all items for the types and
with the items of the title for `ResultsMatchTitle`.

`Assistant_proofs` proves that the application implements the queue
(`AssistantImplementsQueue`): its lists are those the queue expects
(`WindowListsTracks`), and each step is one of the queue or leaves the queue
alone. `QueueIsSoundInApplication`, `OnlyMalformedGroupsBlockSaves` and
`AssistantImplementsDurableQueue` are then theorems of the queue. Four more are
the application's own:

* `CoversGoWhereListed`. The covers alone are not inductive, since a group made
  long ago gives its image to tracks that are not listed any more; `CoverInv` adds
  that every group, in memory or in the file, names only tracks that were listed
  when its image arrived. That the file is in it is what carries the property
  across a restart.
* `WindowIsSoundInApplication`. The application does not implement
  `AssistantSession`, whose window never ends and whose indicator nobody else
  turns off, so the theorems of the window do not simply carry over. Its lemmas do:
  `Assistant_proofs` takes `AssistantSession_proofs` as an instance, `WindowInv` is
  the window's invariant, a step of the window keeps it by those lemmas
  (`WindowStepIsSound`), a step of the queue because turning the indicator off
  breaks nothing (`QueueLeavesWindowSound`), and a launch establishes it anew
  (`NewWindowIsSound`).
* `NoQueuedImageIsLost`: the action property `QueuedImagesAreKept`. A request whose
  download succeeded goes in one action only (`RequestsGoWhenAnswered`), and that
  action makes a group of its image and the listed tracks, unless there are none,
  and saves it (`ArrivalIsKept`). `DataInv` says that a loaded request has brought
  an image.
* `NoArrivalIsStopped`: the bound `MaxGroups` holds back requests and never an
  image on its way. `RoomInv` counts the requests for the queue that are under way
  with the groups there have been; without it the other theorems could hold
  because images were stopped at the door.

`SelectionQuery_proofs` proves the invariants for any number of tracks and
selections of any length. `QueryInv` says that the titles met so far are those
of the selected tracks behind `next`, that the list holds exactly their mates,
without repetition, and how it begins; a new album is disjoint from it because
two tracks of one container and one title are mates. `OrderInvariant` adds the
order of all albums (`AlbumsInOrder`): an album appended now is named by no
selected track behind the loop, while each album already listed is
(`ListingKeepsOrder`). With these `ScriptImplementsAlbumQuery` maps every step to
one of `AlbumQuery` or a stutter.

`ScriptInstall_proofs` proves all five. `InstallInv` relates each phase to what
the steps before it left; `OverrideInv` says that a set override stands for a
warning no quit has used yet; `AskedInv` says that, while a quit
the user was asked for is to come, the override is set unless a quit of iTunes
used it up.

`ImageViews_proofs` proves all six, and `PreviewShowsWhatIsEmbedded`: if file
names differ and no two downloads of an item overlap, what is previewed is the
only image the item ever answers with. `LoadsAgree` needs that answers given and
downloads running together never exceed the peak while an item has no data;
`StyleGivenBack` needs that the style saved is a plain one of the page
(`SavedStyleIsPlain`). The steps of each view are shown to keep its own
invariant, and to leave the other's alone; `StatusLineIsTrue` uses both.

`Sha2_proofs` proves that `update` keeps absorbing (`UpdateAbsorbs`: whatever the
buffer held and however long the piece is, the context has absorbed the data
before and the piece) and that `final` pads as FIPS 180-2 says (`FinalIsFIPS`),
both for every block size, by the arithmetic of blocks and lemmas on `memcpy`.
`HmacSha2_proofs` proves from these the invariant `HmacInv`, and with it
`HmacTypeCorrect`, `ContextsAreRight`, `CopiesAreRight` and `CodesAreRight`: for
all keys, pieces, orders of calls and sizes of codes up to the digest's, each code is the RFC 2104
code of its message.

Assumptions are those named in the modules: track lists consist of tracks (or
nil), the placeholders are not images, titles or bytes, bounds are naturals, a
site offers finitely many images, iTunes finitely many tracks; messages are
shorter than 2^29 bytes, so that their length in bits fits a word. The theorems
of `HmacSha2_proofs` name one more, `DigestBytes`: the compression ends in 64
bytes, of which a digest takes the first; it may be any function otherwise. TLC
evaluates those of the modules in every run.

Only model-checked: `ProcessingEnds` and `RequestsAreAnswered`, since liveness
under fairness is out of the prover's reach, and the violations. Every other
property the passing runs check is also proved.

## 6. Not modelled, and why

* Sorting and escaping the parameters of the signed request, its timestamp and
  Base64 (`SignedAwsSearchRequest.m`), and the XSLT that reads Amazon's answer:
  functions of strings without control of their own, over vendored code and
  external data. What they call that has state, the HMAC library, is modelled.
* The rounds of the SHA-2 compressions and the library's test programs: pure
  arithmetic on words, against which only test vectors say anything.
* Editing a group's title and the sort order in the drawer (plain bindings),
  `DataStore -cleanup` (nothing calls it), tabs, menu wording and the sheet of
  a failed Amazon request.
* Vendored code: NDAppleScriptObject, Google Toolbox, RegexKitLite, DDFoundation,
  the JSON framework, the crash reporter and Sparkle. Of what C and header lines
  the repository has, most are theirs; the application itself is Objective-C and
  AppleScript, and its state and control are in the modules above.
