----------------------------- MODULE PreviewCache -----------------------------
(***************************************************************************)
(* ImageSearchItem: the image data an item keeps once it is downloaded,    *)
(* and the temporary file Quick Look shows it from.                        *)
(*                                                                         *)
(* Two methods reach dataError: at the same time: previewItemURL on the    *)
(* main thread, which waits there for the download, and the two background *)
(* methods, which embed what it answers.  Each looks whether the item has  *)
(* its data before the download, and sets it afterwards.                   *)
(***************************************************************************)
EXTENDS Naturals, FiniteSets, FiniteSetsExt, StatusDelegate

CONSTANTS
    Item,           \* search results
    FileName,       \* FileName[i]: the last component of the item's URL
    Data, NoData,   \* what the sites may answer, at each download
    NoItem, NoFile,
    MaxThreads      \* bound: background downloads at once

ASSUME CacheAssumption ==
    /\ IsFiniteSet(Data)
    /\ NoData \notin Data
    /\ NoItem \notin Item
    /\ NoFile \notin {FileName[i] : i \in Item}
    /\ MaxThreads \in Nat

VARIABLES
    imageData,      \* of each item, or NoData
    fileUrl,        \* of each item, or NoFile
    files,          \* the temporary files: the data, and (history) whose it is
    threads,        \* background methods and what they are at
    panelItem,      \* what the preview panel was given last
    previewed,      \* the item whose download the main thread waits for, or NoItem
    answers,        \* history: what dataError: has answered for each item
    peak,           \* history: the most downloads of an item at once
    panelWaits,     \* history: the panel did not ask yet for the file of panelItem
    leaked          \* history: the indicator was turned on last by a handler with no work

cacheVars == <<imageData, fileUrl, files, threads, panelItem, previewed, answers, peak,
               panelWaits, leaked>>

TempFile == {FileName[i] : i \in Item}

Thread == [n : 1..MaxThreads, item : Item, phase : {"started", "loading", "answered"}]

CacheTypeOK ==
    /\ imageData \in [Item -> Data \cup {NoData}]
    /\ fileUrl \in [Item -> TempFile \cup {NoFile}]
    /\ files \in [TempFile -> [data : Data \cup {NoData}, of : Item \cup {NoItem}]]
    /\ threads \subseteq Thread
    /\ panelItem \in Item \cup {NoItem}
    /\ previewed \in Item \cup {NoItem}
    /\ answers \in [Item -> SUBSET Data]
    /\ peak \in [Item -> 0..(MaxThreads + 1)]

IndicatorTypeOK == panelWaits \in BOOLEAN /\ leaked \in BOOLEAN

CacheInit ==
    /\ imageData = [i \in Item |-> NoData]
    /\ fileUrl = [i \in Item |-> NoFile]
    /\ files = [f \in TempFile |-> [data |-> NoData, of |-> NoItem]]
    /\ threads = {}
    /\ panelItem = NoItem
    /\ previewed = NoItem
    /\ answers = [i \in Item |-> {}]
    /\ peak = [i \in Item |-> 0]
    /\ panelWaits = FALSE
    /\ leaked = FALSE

mainThreadIsFree_Always == TRUE  \* mutant: the request is not synchronous

\* The main thread handles nothing else while it waits for a preview.
mainThreadIsFree == previewed = NoItem

Loading(i) == {t \in threads : t.item = i /\ t.phase = "loading"}

\* The downloads of an item that are running, on any thread.
Running(i) == Cardinality(Loading(i)) + (IF previewed = i THEN 1 ELSE 0)

\* One more begins.
Downloads(i) == peak' = [peak EXCEPT ![i] = Max({@, Running(i) + 1})]

Answers(i, data) == answers' = [answers EXCEPT ![i] = @ \cup {data}]

KeepData(i, data) == imageData' = [imageData EXCEPT ![i] = data]

-----------------------------------------------------------------------------
\* The panel asks for the selected image.
previewPanelItem(i) ==
    /\ mainThreadIsFree
    /\ startBusy("loading_image")
    /\ leaked' = FALSE
    /\ panelItem' = i
    /\ panelWaits' = TRUE
    /\ UNCHANGED <<imageData, fileUrl, files, threads, previewed, answers, peak>>

writeToFile_UrlAnyway(i, data) ==  \* mutant: the file's URL is kept although it was not written
    /\ fileUrl' = [fileUrl EXCEPT ![i] = FileName[i]]
    /\ files' \in {files, [files EXCEPT ![FileName[i]] = [data |-> data, of |-> i]]}

\* The end of fileUrl: the file is written, over the one of that name, or cannot be.
writeToFile(i, data) ==
    \/ /\ files' = [files EXCEPT ![FileName[i]] = [data |-> data, of |-> i]]
       /\ fileUrl' = [fileUrl EXCEPT ![i] = FileName[i]]
    \/ UNCHANGED <<files, fileUrl>>

\* previewItemURL ends.
PreviewShown == clearBusy /\ panelWaits' = FALSE /\ leaked' = FALSE

\* previewItemURL, at any time after the panel got the item: the file is there,...
PreviewFromFile ==
    /\ mainThreadIsFree /\ panelItem # NoItem
    /\ fileUrl[panelItem] # NoFile
    /\ PreviewShown
    /\ UNCHANGED <<imageData, fileUrl, files, threads, panelItem, previewed, answers, peak>>

\* ...or the data is,...
PreviewFromData ==
    /\ mainThreadIsFree /\ panelItem # NoItem
    /\ fileUrl[panelItem] = NoFile /\ imageData[panelItem] # NoData
    /\ writeToFile(panelItem, imageData[panelItem])
    /\ PreviewShown
    /\ UNCHANGED <<imageData, threads, panelItem, previewed, answers, peak>>

\* ...or the main thread downloads it,...
PreviewDownloads ==
    /\ mainThreadIsFree /\ panelItem # NoItem
    /\ fileUrl[panelItem] = NoFile /\ imageData[panelItem] = NoData
    /\ previewed' = panelItem
    /\ Downloads(panelItem)
    /\ UNCHANGED <<statusLine, imageData, fileUrl, files, threads, panelItem, answers,
                   panelWaits, leaked>>

\* ...until it arrives or fails.
PreviewArrives ==
    /\ ~mainThreadIsFree
    /\ \/ \E data \in Data :
              /\ KeepData(previewed, data)
              /\ Answers(previewed, data)
              /\ writeToFile(previewed, data)
       \/ UNCHANGED <<imageData, answers, fileUrl, files>>
    /\ previewed' = NoItem
    /\ PreviewShown
    /\ UNCHANGED <<threads, panelItem, peak>>

-----------------------------------------------------------------------------
\* Add Immediately and Add to Queue: performSelectorInBackground.
LoadInBackground(i) ==
    /\ mainThreadIsFree
    /\ \E n \in 1..MaxThreads :
           /\ \A t \in threads : t.n # n
           /\ threads' = threads \cup {[n |-> n, item |-> i, phase |-> "started"]}
    /\ startBusy("downloading_image")
    /\ leaked' = FALSE
    /\ UNCHANGED <<imageData, fileUrl, files, panelItem, previewed, answers, peak, panelWaits>>

\* Add to Queue turns the indicator on before it looks for the image: none is
\* selected, or looking for one raises, and no thread begins.
addToQueueWithoutImage ==
    /\ mainThreadIsFree
    /\ startBusy("downloading_image")
    /\ leaked' = TRUE
    /\ UNCHANGED <<imageData, fileUrl, files, threads, panelItem, previewed, answers, peak,
                   panelWaits>>

Becomes(t, phase) == threads' = (threads \ {t}) \cup {[t EXCEPT !.phase = phase]}

dataErrorBegins_Always(t) ==  \* mutant: the item is asked for its data after the download only
    /\ t.phase = "started"
    /\ Downloads(t.item)
    /\ Becomes(t, "loading")
    /\ UNCHANGED <<statusLine, imageData, fileUrl, files, panelItem, previewed, answers,
                   panelWaits, leaked>>

\* dataError: on a background thread: the item has its data, or a download begins...
dataErrorBegins(t) ==
    /\ t.phase = "started"
    /\ IF imageData[t.item] # NoData
         THEN /\ Answers(t.item, imageData[t.item])
              /\ Becomes(t, "answered")
              /\ UNCHANGED peak
         ELSE /\ Downloads(t.item)
              /\ Becomes(t, "loading")
              /\ UNCHANGED answers
    /\ UNCHANGED <<statusLine, imageData, fileUrl, files, panelItem, previewed, panelWaits, leaked>>

\* ...and ends: with data, with an error, a timeout or another status than 200.
dataErrorEnds(t) ==
    /\ t.phase = "loading"
    /\ \/ \E data \in Data : KeepData(t.item, data) /\ Answers(t.item, data)
       \/ UNCHANGED <<imageData, answers>>
    /\ Becomes(t, "answered")
    /\ UNCHANGED <<statusLine, fileUrl, files, panelItem, previewed, peak, panelWaits, leaked>>

\* The main thread hears of it (what it does then is in AssistantSession).
AnswerArrives(t) ==
    /\ mainThreadIsFree
    /\ t.phase = "answered"
    /\ threads' = threads \ {t}
    /\ clearBusy
    /\ leaked' = FALSE
    /\ UNCHANGED <<imageData, fileUrl, files, panelItem, previewed, answers, peak, panelWaits>>

CacheNext ==
    \/ \E i \in Item : previewPanelItem(i) \/ LoadInBackground(i)
    \/ addToQueueWithoutImage
    \/ PreviewFromFile
    \/ PreviewFromData
    \/ PreviewDownloads
    \/ PreviewArrives
    \/ \E t \in threads : dataErrorBegins(t) \/ dataErrorEnds(t) \/ AnswerArrives(t)

-----------------------------------------------------------------------------
(***************************************************************************)
(* What an item answers with, to be previewed or embedded, is one image,   *)
(* as long as one download of it runs at a time.  Only downloads that      *)
(* overlap can bring as many images as there were at once, however many    *)
(* failed before.                                                          *)
(***************************************************************************)
LoadsAgree == \A i \in Item : Cardinality(answers[i]) <= peak[i]

(***************************************************************************)
(* The file an item is previewed from holds an image that dataError:       *)
(* answered for this item or for another previewed item of the same file   *)
(* name, whichever previews, downloads and failed writes came between.     *)
(***************************************************************************)
PreviewHoldsOwnImage ==
    \A i \in Item : fileUrl[i] # NoFile =>
        LET file == files[fileUrl[i]] IN
        /\ file.of \in Item
        /\ file.data \in answers[file.of]
        /\ fileUrl[file.of] = fileUrl[i] /\ FileName[file.of] = FileName[i]
===============================================================================
