--------------------------- MODULE ImageViews_proofs ---------------------------
(***************************************************************************)
(* Theorems about ImageViews, for any items, file names, pages and number  *)
(* of threads.                                                             *)
(***************************************************************************)
EXTENDS ImageViews, FiniteSetTheorems, TLAPS

LEMMA LargerOf ==
    ASSUME NEW a \in Nat, NEW b \in Nat
    PROVE  Max({a, b}) = IF a > b THEN a ELSE b
  <1>1. CASE a > b
    <2>1. \A x \in {a, b} : x = a <=> \A y \in {a, b} : x >= y
      BY <1>1
    <2> QED
      BY <1>1, <2>1 DEF Max
  <1>2. CASE ~(a > b)
    <2>1. \A x \in {a, b} : x = b <=> \A y \in {a, b} : x >= y
      BY <1>2
    <2> QED
      BY <1>2, <2>1 DEF Max
  <1> QED
    BY <1>1, <1>2

-----------------------------------------------------------------------------
(***************************************************************************)
(* The threads that load an item.                                          *)
(***************************************************************************)
ThreadsDiffer == \A t, u \in threads : t.n = u.n => t = u

ThreadsOK == threads \subseteq Thread /\ ThreadsDiffer

LEMMA ThreadsAreFew ==
    ASSUME ThreadsOK
    PROVE  IsFiniteSet(threads) /\ Cardinality(threads) \in Nat
           /\ Cardinality(threads) <= MaxThreads
  <1> DEFINE number == [t \in threads |-> t.n]
  <1>1. number \in Injection(threads, 1..MaxThreads)
    BY DEF ThreadsOK, ThreadsDiffer, Thread, Injection, IsInjective
  <1>2. IsFiniteSet(1..MaxThreads) /\ Cardinality(1..MaxThreads) = MaxThreads
    BY CacheAssumption, FS_Interval
  <1>3. IsFiniteSet(threads) /\ Cardinality(threads) <= Cardinality(1..MaxThreads)
    <2> HIDE DEF number
    <2> QED
      BY <1>1, <1>2, FS_Injection
  <1> QED
    BY <1>2, <1>3, FS_CardinalityType

LEMMA LoadingIsFinite ==
    ASSUME ThreadsOK, NEW i
    PROVE  /\ IsFiniteSet(Loading(i))
           /\ Cardinality(Loading(i)) \in Nat
           /\ Cardinality(Loading(i)) <= MaxThreads
           /\ Running(i) \in Nat
  <1>1. Loading(i) \in SUBSET threads
    BY DEF Loading
  <1>2. IsFiniteSet(Loading(i)) /\ Cardinality(Loading(i)) <= Cardinality(threads)
    BY <1>1, ThreadsAreFew, FS_Subset
  <1>3. Cardinality(Loading(i)) \in Nat
    BY <1>2, FS_CardinalityType
  <1>4. Cardinality(threads) \in Nat /\ Cardinality(threads) <= MaxThreads
    BY ThreadsAreFew
  <1> QED
    BY <1>2, <1>3, <1>4, CacheAssumption DEF Running

\* A thread goes on to another phase.
LEMMA ThreadGoesOn ==
    ASSUME ThreadsOK, NEW t \in threads,
           NEW phase \in {"started", "loading", "answered"}, Becomes(t, phase), t.phase # phase
    PROVE  /\ ThreadsOK'
           /\ \A i : Loading(i)' = IF t.item # i THEN Loading(i)
                                   ELSE IF phase = "loading"
                                     THEN Loading(i) \cup {[t EXCEPT !.phase = phase]}
                                     ELSE Loading(i) \ {t}
           /\ [t EXCEPT !.phase = phase] \notin threads
           /\ threads' # {}
  <1> DEFINE u == [t EXCEPT !.phase = phase]
  <1>1. t \in Thread /\ threads \subseteq Thread
    BY DEF ThreadsOK
  <1>2. u \in Thread /\ u.n = t.n /\ u.item = t.item /\ u.phase = phase
    BY <1>1 DEF Thread
  <1>3. threads' = (threads \ {t}) \cup {u}
    BY DEF Becomes
  <1>4. u \notin threads
    BY <1>2 DEF ThreadsOK, ThreadsDiffer
  <1> HIDE DEF u
  <1>5. ThreadsOK'
    BY <1>1, <1>2, <1>3 DEF ThreadsOK, ThreadsDiffer
  <1>6. ASSUME NEW i
        PROVE  Loading(i)' = IF t.item # i THEN Loading(i)
                             ELSE IF phase = "loading" THEN Loading(i) \cup {u}
                             ELSE Loading(i) \ {t}
    BY <1>2, <1>3 DEF Loading
  <1> QED
    BY <1>3, <1>4, <1>5, <1>6 DEF u

\* A thread begins, or its answer arrives: nothing more and nothing less is loading.
LEMMA ThreadComesOrGoes ==
    ASSUME ThreadsOK, NEW t,
           \/ t \in Thread /\ t.phase = "started" /\ (\A u \in threads : u.n # t.n)
              /\ threads' = threads \cup {t}
           \/ t \in threads /\ t.phase = "answered" /\ threads' = threads \ {t}
    PROVE  ThreadsOK' /\ \A i : Loading(i)' = Loading(i)
  BY DEF ThreadsOK, ThreadsDiffer, Loading

-----------------------------------------------------------------------------
(***************************************************************************)
(* What holds of each item and each file: as many downloads run as the     *)
(* peak says at most, and each of those that run beside the data could     *)
(* still bring one more answer.                                            *)
(***************************************************************************)
ItemInv(i) ==
    /\ Running(i) <= peak[i]
    /\ imageData[i] = NoData => answers[i] = {}
    /\ imageData[i] # NoData =>
           imageData[i] \in answers[i] /\ Cardinality(answers[i]) + Running(i) <= peak[i]

FileInv(i) ==
    fileUrl[i] # NoFile =>
        /\ fileUrl[i] = FileName[i]
        /\ files[fileUrl[i]].of \in Item
        /\ files[fileUrl[i]].data \in answers[files[fileUrl[i]].of]
        /\ fileUrl[files[fileUrl[i]].of] = fileUrl[i]
        /\ FileName[files[fileUrl[i]].of] = FileName[i]

CacheInv ==
    /\ StatusTypeOK
    /\ CacheTypeOK
    /\ ThreadsDiffer
    /\ \A i \in Item : ItemInv(i)
    /\ \A i \in Item : FileInv(i)

LEMMA AnswersAreFinite ==
    ASSUME CacheTypeOK, NEW i \in Item
    PROVE  IsFiniteSet(answers[i]) /\ Cardinality(answers[i]) \in Nat
  BY CacheAssumption, FS_Subset, FS_CardinalityType DEF CacheTypeOK

\* As long as no more downloads of it run, nothing changes for an item.
LEMMA ItemKept ==
    ASSUME ThreadsOK, CacheTypeOK, NEW i \in Item, ItemInv(i),
           Running(i)' \in Nat, Running(i)' <= Running(i), UNCHANGED <<imageData, answers, peak>>
    PROVE  ItemInv(i)'
  <1>1. Running(i) \in Nat /\ Running(i)' \in Nat
    BY LoadingIsFinite
  <1>2. peak[i] \in Nat /\ Cardinality(answers[i]) \in Nat
    BY CacheAssumption, AnswersAreFinite DEF CacheTypeOK
  <1> QED
    BY <1>1, <1>2 DEF ItemInv

\* Of an item without data, one more download may begin.
LEMMA ItemDownloads ==
    ASSUME ThreadsOK, CacheTypeOK, NEW i \in Item, ItemInv(i),
           NEW j \in Item, Downloads(j), imageData[j] = NoData,
           Running(i)' = Running(i) + (IF i = j THEN 1 ELSE 0),
           UNCHANGED <<imageData, answers>>
    PROVE  ItemInv(i)'
  <1>1. Running(i) \in Nat /\ peak[i] \in Nat
    BY LoadingIsFinite, CacheAssumption DEF CacheTypeOK
  <1>2. CASE i = j
    <2>1. peak'[i] = Max({peak[i], Running(i) + 1})
      BY <1>2 DEF Downloads, CacheTypeOK
    <2>2. peak'[i] = IF peak[i] > Running(i) + 1 THEN peak[i] ELSE Running(i) + 1
      BY <1>1, <2>1, LargerOf
    <2> QED
      BY <1>1, <1>2, <2>2 DEF ItemInv
  <1>3. CASE i # j
    <2>1. peak'[i] = peak[i] /\ Running(i)' = Running(i)
      BY <1>1, <1>3 DEF Downloads, CacheTypeOK
    <2> QED
      BY <2>1 DEF ItemInv
  <1> QED
    BY <1>2, <1>3

\* A download that ends with data makes room for its answer.
LEMMA ItemAnswers ==
    ASSUME ThreadsOK, CacheTypeOK, NEW i \in Item, ItemInv(i),
           NEW j \in Item, NEW data \in Data, KeepData(j, data), Answers(j, data),
           Running(i)' = Running(i) - (IF i = j THEN 1 ELSE 0),
           UNCHANGED peak
    PROVE  ItemInv(i)'
  <1>1. Running(i) \in Nat /\ peak[i] \in Nat
    BY LoadingIsFinite, CacheAssumption DEF CacheTypeOK
  <1>2. CASE i = j
    <2>1. imageData'[i] = data /\ answers'[i] = answers[i] \cup {data} /\ data # NoData
      BY <1>2, CacheAssumption DEF KeepData, Answers, CacheTypeOK
    <2>2. Cardinality(answers[i]) \in Nat /\ Cardinality(answers'[i]) \in Nat
          /\ Cardinality(answers'[i]) <= Cardinality(answers[i]) + 1
      <3>1. IsFiniteSet(answers[i]) /\ Cardinality(answers[i]) \in Nat
        BY AnswersAreFinite
      <3>2. Cardinality(answers[i] \cup {data}) =
                IF data \in answers[i] THEN Cardinality(answers[i]) ELSE Cardinality(answers[i]) + 1
        BY <3>1, FS_AddElement
      <3> QED
        BY <2>1, <3>1, <3>2
    <2>3. Cardinality(answers[i]) + Running(i) <= peak[i]
      <3>1. CASE imageData[i] = NoData
        <4>1. Cardinality(answers[i]) = 0
          BY <3>1, FS_EmptySet DEF ItemInv
        <4> QED
          BY <4>1, <1>1 DEF ItemInv
      <3> QED
        BY <3>1 DEF ItemInv
    <2>4. Cardinality(answers'[i]) + Running(i)' <= peak'[i] /\ Running(i)' <= peak'[i]
      <3>1. Running(i)' = Running(i) - 1 /\ peak'[i] = peak[i]
        BY <1>2
      <3> QED
        BY <1>1, <2>2, <2>3, <3>1
    <2> QED
      BY <2>1, <2>4 DEF ItemInv
  <1>3. CASE i # j
    <2>1. /\ Running(i)' = Running(i)
          /\ imageData'[i] = imageData[i] /\ answers'[i] = answers[i]
      BY <1>1, <1>3 DEF KeepData, Answers, CacheTypeOK
    <2> QED
      BY <2>1 DEF ItemInv
  <1> QED
    BY <1>2, <1>3

\* The data an item has is an answer already.
LEMMA ItemAnswersAgain ==
    ASSUME CacheTypeOK, NEW i \in Item, ItemInv(i),
           NEW j \in Item, ItemInv(j), imageData[j] # NoData, Answers(j, imageData[j])
    PROVE  answers'[i] = answers[i]
  BY DEF Answers, ItemInv, CacheTypeOK

\* While no file is written, more answers do no harm.
LEMMA FilesKept ==
    ASSUME CacheTypeOK, NEW i \in Item, FileInv(i),
           \A j \in Item : answers[j] \subseteq answers'[j],
           UNCHANGED <<files, fileUrl>>
    PROVE  FileInv(i)'
  BY DEF FileInv

\* A file is written over that of its namesakes.
LEMMA FilesWritten ==
    ASSUME CacheTypeOK, NEW i \in Item, \A k \in Item : FileInv(k),
           NEW j \in Item, NEW data, writeToFile(j, data), data \in answers'[j],
           \A k \in Item : answers[k] \subseteq answers'[k]
    PROVE  FileInv(i)'
  <1>1. CASE UNCHANGED <<files, fileUrl>>
    BY <1>1, FilesKept
  <1>2. CASE ~UNCHANGED <<files, fileUrl>>
    <2>1. /\ files' = [files EXCEPT ![FileName[j]] = [data |-> data, of |-> j]]
          /\ fileUrl' = [fileUrl EXCEPT ![j] = FileName[j]]
      BY <1>2 DEF writeToFile
    <2>2. FileName[j] \in TempFile /\ FileName[j] # NoFile
      BY CacheAssumption DEF TempFile
    <2>3. files'[FileName[j]] = [data |-> data, of |-> j] /\ fileUrl'[j] = FileName[j]
      BY <2>1, <2>2 DEF CacheTypeOK
    <2>4. \A f \in TempFile : f # FileName[j] => files'[f] = files[f]
      BY <2>1, <2>2 DEF CacheTypeOK
    <2>5. \A k \in Item : k # j => fileUrl'[k] = fileUrl[k]
      BY <2>1 DEF CacheTypeOK
    <2>6. CASE i = j
      BY <2>3, <2>6 DEF FileInv
    <2>7. CASE i # j /\ fileUrl[i] = FileName[j]
      BY <2>2, <2>3, <2>5, <2>7 DEF FileInv
    <2>8. CASE i # j /\ fileUrl[i] # NoFile /\ fileUrl[i] # FileName[j]
      <3>1. fileUrl[i] \in TempFile /\ files'[fileUrl[i]] = files[fileUrl[i]]
        BY <2>4, <2>8 DEF CacheTypeOK
      <3>2. files[fileUrl[i]].of # j
        BY <2>8 DEF FileInv
      <3> QED
        BY <2>5, <2>8, <3>1, <3>2 DEF FileInv
    <2> QED
      BY <2>5, <2>6, <2>7, <2>8 DEF FileInv
  <1> QED
    BY <1>1, <1>2

-----------------------------------------------------------------------------
(***************************************************************************)
(* One lemma for each step of the cache.                                   *)
(***************************************************************************)
\* The types but for peak, which the number of threads bounds.
PartTypesOK ==
    /\ imageData \in [Item -> Data \cup {NoData}]
    /\ fileUrl \in [Item -> TempFile \cup {NoFile}]
    /\ files \in [TempFile -> [data : Data \cup {NoData}, of : Item \cup {NoItem}]]
    /\ panelItem \in Item \cup {NoItem}
    /\ previewed \in Item \cup {NoItem}
    /\ answers \in [Item -> SUBSET Data]

LEMMA CacheTypeParts ==
    CacheTypeOK /\ ThreadsDiffer <=>
        PartTypesOK /\ ThreadsOK /\ peak \in [Item -> 0..(MaxThreads + 1)]
  BY DEF CacheTypeOK, PartTypesOK, ThreadsOK

LEMMA WritingKeepsTypes ==
    ASSUME PartTypesOK, NEW i \in Item, NEW data \in Data, writeToFile(i, data)
    PROVE  /\ fileUrl' \in [Item -> TempFile \cup {NoFile}]
           /\ files' \in [TempFile -> [data : Data \cup {NoData}, of : Item \cup {NoItem}]]
  <1>1. FileName[i] \in TempFile
    BY DEF TempFile
  <1> QED
    BY <1>1 DEF writeToFile, PartTypesOK

\* No step of the panel that finds the file, or only gets the item, disturbs anything.
LEMMA ClickKeeps ==
    ASSUME CacheInv,
           (\E i \in Item : previewPanelItem(i)) \/ PreviewFromFile
    PROVE  CacheInv'
  <1>1. /\ UNCHANGED <<imageData, fileUrl, files, threads, previewed, answers, peak>>
        /\ panelItem' \in Item \cup {NoItem} /\ StatusTypeOK'
    BY DEF CacheInv, previewPanelItem, PreviewFromFile, PreviewShown, startBusy, clearBusy, StatusTypeOK,
           CacheTypeOK, Message, cacheVars
  <1>2. CacheTypeOK'
    BY <1>1 DEF CacheInv, CacheTypeOK
  <1> QED
    BY <1>1, <1>2 DEF CacheInv, ThreadsDiffer, ItemInv, FileInv, Running, Loading

LEMMA PreviewFromDataKeeps == CacheInv /\ PreviewFromData => CacheInv'
  <1> SUFFICES ASSUME CacheInv, PreviewFromData PROVE CacheInv'
    OBVIOUS
  <1> DEFINE i == panelItem
  <1>1. /\ i \in Item /\ imageData[i] \in Data /\ writeToFile(i, imageData[i])
        /\ imageData[i] # NoData
        /\ UNCHANGED <<imageData, threads, panelItem, previewed, answers, peak>>
        /\ StatusTypeOK' /\ CacheTypeOK /\ PartTypesOK /\ ThreadsOK
    BY CacheTypeParts DEF CacheInv, PreviewFromData, PreviewShown, CacheTypeOK, clearBusy, StatusTypeOK, Message
  <1>2. CacheTypeOK'
    BY <1>1, WritingKeepsTypes DEF CacheTypeOK
  <1>3. imageData[i] \in answers'[i]
    BY <1>1 DEF CacheInv, ItemInv
  <1>4. \A k \in Item : FileInv(k)'
    BY <1>1, <1>3, FilesWritten DEF CacheInv
  <1>5. \A k \in Item : ItemInv(k)'
    BY <1>1 DEF CacheInv, ItemInv, Running, Loading
  <1> QED
    BY <1>1, <1>2, <1>4, <1>5 DEF CacheInv, ThreadsDiffer

\* The peak stays within the threads there are, the main thread included.
LEMMA PeakIsBounded ==
    ASSUME CacheTypeOK, NEW j \in Item, Downloads(j), Running(j) \in Nat,
           Running(j) + 1 <= MaxThreads + 1
    PROVE  peak' \in [Item -> 0..(MaxThreads + 1)]
  <1>1. peak[j] \in 0..(MaxThreads + 1) /\ MaxThreads \in Nat
    BY CacheAssumption DEF CacheTypeOK
  <1>2. Max({peak[j], Running(j) + 1}) \in 0..(MaxThreads + 1)
    BY <1>1, LargerOf
  <1> QED
    BY <1>2 DEF Downloads, CacheTypeOK

LEMMA PreviewDownloadsKeeps == CacheInv /\ PreviewDownloads => CacheInv'
  <1> SUFFICES ASSUME CacheInv, PreviewDownloads PROVE CacheInv'
    OBVIOUS
  <1> DEFINE j == panelItem
  <1>1. /\ j \in Item /\ imageData[j] = NoData /\ previewed = NoItem /\ previewed' = j
        /\ Downloads(j)
        /\ UNCHANGED <<statusLine, imageData, fileUrl, files, threads, panelItem, answers>>
        /\ CacheTypeOK /\ PartTypesOK /\ ThreadsOK
    BY CacheTypeParts DEF CacheInv, PreviewDownloads, CacheTypeOK, mainThreadIsFree
  <1>2. ASSUME NEW k \in Item
        PROVE  /\ Running(k)' = Running(k) + (IF k = j THEN 1 ELSE 0)
               /\ Running(k) = Cardinality(Loading(k))
    <2>1. previewed # k /\ (previewed' = k <=> k = j)
      BY <1>1, CacheAssumption
    <2>2. Loading(k)' = Loading(k) /\ Cardinality(Loading(k)) \in Nat
      BY <1>1, LoadingIsFinite DEF Loading
    <2> QED
      BY <2>1, <2>2 DEF Running
  <1>3. \A k \in Item : ItemInv(k)'
    BY <1>1, <1>2, ItemDownloads DEF CacheInv
  <1>4. peak' \in [Item -> 0..(MaxThreads + 1)]
    <2>1. Cardinality(Loading(j)) \in Nat /\ Cardinality(Loading(j)) <= MaxThreads
      BY <1>1, LoadingIsFinite
    <2>2. Running(j) \in Nat /\ Running(j) + 1 <= MaxThreads + 1
      BY <1>1, <1>2, <2>1, CacheAssumption
    <2> QED
      BY <1>1, <2>2, PeakIsBounded
  <1>5. CacheTypeOK'
    BY <1>1, <1>4 DEF CacheTypeOK
  <1> QED
    BY <1>1, <1>3, <1>5 DEF CacheInv, ThreadsDiffer, FileInv, StatusTypeOK, statusLine

LEMMA PreviewArrivesKeeps == CacheInv /\ PreviewArrives => CacheInv'
  <1> SUFFICES ASSUME CacheInv, PreviewArrives PROVE CacheInv'
    OBVIOUS
  <1> DEFINE j == previewed
  <1>1. /\ j \in Item /\ previewed' = NoItem /\ j # NoItem
        /\ UNCHANGED <<threads, panelItem, peak>>
        /\ StatusTypeOK' /\ CacheTypeOK /\ PartTypesOK /\ ThreadsOK
    BY CacheTypeParts, CacheAssumption
       DEF CacheInv, PreviewArrives, PreviewShown, CacheTypeOK, mainThreadIsFree, clearBusy,
           StatusTypeOK, Message
  <1>2. ASSUME NEW k \in Item
        PROVE  /\ Running(k)' = Running(k) - (IF k = j THEN 1 ELSE 0)
               /\ Running(k) \in Nat /\ Running(k)' \in Nat /\ Running(k)' <= Running(k)
    <2>1. previewed' # k /\ (previewed = k <=> k = j)
      BY <1>1, CacheAssumption
    <2>2. Loading(k)' = Loading(k) /\ Cardinality(Loading(k)) \in Nat
      BY <1>1, LoadingIsFinite DEF Loading
    <2> QED
      BY <2>1, <2>2 DEF Running
  <1>3. CASE UNCHANGED <<imageData, answers, fileUrl, files>>
    <2>1. \A k \in Item : ItemInv(k)'
      BY <1>1, <1>2, <1>3, ItemKept DEF CacheInv
    <2>2. CacheTypeOK'
      BY <1>1, <1>3 DEF CacheTypeOK
    <2> QED
      BY <1>1, <1>3, <2>1, <2>2 DEF CacheInv, ThreadsDiffer, FileInv
  <1>4. CASE \E data \in Data : KeepData(j, data) /\ Answers(j, data) /\ writeToFile(j, data)
    <2>1. PICK data \in Data : KeepData(j, data) /\ Answers(j, data) /\ writeToFile(j, data)
      BY <1>4
    <2>2. \A k \in Item : ItemInv(k)'
      BY <1>1, <1>2, <2>1, ItemAnswers DEF CacheInv
    <2>3. /\ answers' \in [Item -> SUBSET Data]
          /\ imageData' \in [Item -> Data \cup {NoData}]
          /\ data \in answers'[j]
          /\ \A k \in Item : answers[k] \subseteq answers'[k]
      BY <1>1, <2>1 DEF KeepData, Answers, PartTypesOK
    <2>4. \A k \in Item : FileInv(k)'
      BY <1>1, <2>1, <2>3, FilesWritten DEF CacheInv
    <2>5. CacheTypeOK'
      BY <1>1, <2>1, <2>3, WritingKeepsTypes DEF CacheTypeOK
    <2> QED
      BY <1>1, <2>2, <2>4, <2>5 DEF CacheInv, ThreadsDiffer
  <1> QED
    BY <1>3, <1>4 DEF PreviewArrives

\* Only the indicator is turned on when there is no image to queue.
LEMMA NoImageKeeps == CacheInv /\ addToQueueWithoutImage => CacheInv'
  <1> SUFFICES ASSUME CacheInv, addToQueueWithoutImage PROVE CacheInv'
    OBVIOUS
  <1>1. /\ UNCHANGED <<imageData, fileUrl, files, threads, panelItem, previewed, answers, peak>>
        /\ StatusTypeOK'
    BY DEF addToQueueWithoutImage, startBusy, StatusTypeOK, Message
  <1>2. CacheTypeOK'
    BY <1>1 DEF CacheInv, CacheTypeOK
  <1> QED
    BY <1>1, <1>2 DEF CacheInv, ThreadsDiffer, ItemInv, FileInv, Running, Loading

\* A background method begins, or its answer arrives.
LEMMA ThreadComesOrGoesKeeps ==
    ASSUME CacheInv,
           (\E i \in Item : LoadInBackground(i)) \/ (\E t \in threads : AnswerArrives(t))
    PROVE  CacheInv'
  <1>1. /\ UNCHANGED <<imageData, fileUrl, files, panelItem, previewed, answers, peak>>
        /\ StatusTypeOK' /\ ThreadsOK /\ CacheTypeOK
    BY CacheTypeParts
       DEF CacheInv, LoadInBackground, AnswerArrives, startBusy, clearBusy, StatusTypeOK, Message
  <1>2. ThreadsOK' /\ \A i : Loading(i)' = Loading(i)
    <2>1. CASE \E i \in Item : LoadInBackground(i)
      <3>1. PICK i \in Item, n \in 1..MaxThreads :
                /\ \A t \in threads : t.n # n
                /\ threads' = threads \cup {[n |-> n, item |-> i, phase |-> "started"]}
        BY <2>1 DEF LoadInBackground
      <3> DEFINE t == [n |-> n, item |-> i, phase |-> "started"]
      <3>2. t \in Thread /\ t.phase = "started" /\ t.n = n
        BY DEF Thread
      <3> HIDE DEF t
      <3>3. (\A u \in threads : u.n # t.n) /\ threads' = threads \cup {t}
        BY <3>1, <3>2 DEF t
      <3> QED
        BY <1>1, <3>2, <3>3, ThreadComesOrGoes
    <2>2. CASE \E t \in threads : AnswerArrives(t)
      BY <1>1, <2>2, ThreadComesOrGoes DEF AnswerArrives
    <2> QED
      BY <2>1, <2>2
  <1>3. \A i \in Item : ItemInv(i)'
    BY <1>1, <1>2 DEF CacheInv, ItemInv, Running
  <1>4. CacheTypeOK'
    BY <1>1, <1>2 DEF CacheTypeOK, ThreadsOK
  <1> QED
    BY <1>1, <1>2, <1>3, <1>4 DEF CacheInv, ThreadsOK, FileInv

LEMMA dataErrorBeginsKeeps ==
    ASSUME CacheInv, NEW t \in threads, dataErrorBegins(t)
    PROVE  CacheInv'
  <1> DEFINE j == t.item
  <1>1. /\ j \in Item /\ t.phase = "started"
        /\ UNCHANGED <<statusLine, imageData, fileUrl, files, panelItem, previewed>>
        /\ CacheTypeOK /\ PartTypesOK /\ ThreadsOK
    BY CacheTypeParts DEF CacheInv, dataErrorBegins, CacheTypeOK, Thread
  <1>2. CASE imageData[j] # NoData
    <2>1. /\ Answers(j, imageData[j]) /\ Becomes(t, "answered") /\ UNCHANGED peak
      BY <1>2 DEF dataErrorBegins
    <2>2. ThreadsOK' /\ \A k : Loading(k)' = Loading(k)
      <3>1. ThreadsOK' /\ \A k : Loading(k)' = IF j # k THEN Loading(k) ELSE Loading(k) \ {t}
        BY <1>1, <2>1, ThreadGoesOn
      <3>2. \A k : t \notin Loading(k)
        BY <1>1 DEF Loading
      <3> QED
        BY <3>1, <3>2
    <2>3. \A k \in Item : answers'[k] = answers[k]
      BY <1>1, <1>2, <2>1, ItemAnswersAgain DEF CacheInv
    <2>4. answers' \in [Item -> SUBSET Data]
      BY <1>1, <1>2, <2>1 DEF Answers, PartTypesOK
    <2>5. \A k \in Item : Running(k)' = Running(k)
      BY <1>1, <2>2 DEF Running
    <2>6. \A k \in Item : ItemInv(k)'
      BY <1>1, <2>1, <2>3, <2>5 DEF CacheInv, ItemInv
    <2>7. CacheTypeOK'
      BY <1>1, <2>1, <2>2, <2>4 DEF CacheTypeOK, ThreadsOK
    <2>8. \A k \in Item : FileInv(k)'
      BY <1>1, <2>3, FilesKept DEF CacheInv
    <2> QED
      BY <1>1, <2>2, <2>6, <2>7, <2>8 DEF CacheInv, ThreadsOK, StatusTypeOK, statusLine
  <1>3. CASE imageData[j] = NoData
    <2>1. Downloads(j) /\ Becomes(t, "loading") /\ UNCHANGED answers
      BY <1>3 DEF dataErrorBegins
    <2> DEFINE u == [t EXCEPT !.phase = "loading"]
    <2>2. /\ ThreadsOK' /\ u \notin threads
          /\ \A k : Loading(k)' = IF j # k THEN Loading(k) ELSE Loading(k) \cup {u}
      BY <1>1, <2>1, ThreadGoesOn
    <2> HIDE DEF u
    <2>3. ASSUME NEW k \in Item
          PROVE  Running(k)' = Running(k) + (IF k = j THEN 1 ELSE 0)
      <3>1. IsFiniteSet(Loading(k)) /\ Cardinality(Loading(k)) \in Nat /\ u \notin Loading(k)
        BY <1>1, <2>2, LoadingIsFinite DEF Loading
      <3>2. Cardinality(Loading(k) \cup {u}) = Cardinality(Loading(k)) + 1
        BY <3>1, FS_AddElement
      <3>3. Cardinality(Loading(k)') = Cardinality(Loading(k)) + (IF k = j THEN 1 ELSE 0)
        BY <2>2, <3>1, <3>2
      <3> QED
        BY <1>1, <3>1, <3>3 DEF Running
    <2>4. \A k \in Item : ItemInv(k)'
      BY <1>1, <1>3, <2>1, <2>3, ItemDownloads DEF CacheInv
    <2>5. Running(j) \in Nat /\ Running(j) + 1 <= MaxThreads + 1
      <3>1. IsFiniteSet(threads) /\ Cardinality(threads) \in Nat /\ Cardinality(threads) <= MaxThreads
        BY <1>1, ThreadsAreFew
      <3>2. Loading(j) \in SUBSET (threads \ {t})
        BY <1>1 DEF Loading
      <3>3. IsFiniteSet(threads \ {t}) /\ Cardinality(threads \ {t}) = Cardinality(threads) - 1
        BY <3>1, FS_RemoveElement
      <3>4. Cardinality(Loading(j)) <= Cardinality(threads \ {t})
        BY <3>2, <3>3, FS_Subset
      <3>5. Cardinality(Loading(j)) \in Nat
        BY <1>1, LoadingIsFinite
      <3> QED
        BY <3>1, <3>3, <3>4, <3>5, CacheAssumption DEF Running
    <2>6. peak' \in [Item -> 0..(MaxThreads + 1)]
      BY <1>1, <2>1, <2>5, PeakIsBounded
    <2>7. CacheTypeOK'
      BY <1>1, <2>1, <2>2, <2>6 DEF CacheTypeOK, ThreadsOK
    <2> QED
      BY <1>1, <2>1, <2>2, <2>4, <2>7 DEF CacheInv, ThreadsOK, FileInv, StatusTypeOK, statusLine
  <1> QED
    BY <1>2, <1>3

LEMMA dataErrorEndsKeeps ==
    ASSUME CacheInv, NEW t \in threads, dataErrorEnds(t)
    PROVE  CacheInv'
  <1> DEFINE j == t.item
  <1>1. /\ j \in Item /\ t.phase = "loading" /\ Becomes(t, "answered")
        /\ UNCHANGED <<statusLine, fileUrl, files, panelItem, previewed, peak>>
        /\ CacheTypeOK /\ PartTypesOK /\ ThreadsOK
    BY CacheTypeParts DEF CacheInv, dataErrorEnds, CacheTypeOK, Thread
  <1>2. ThreadsOK' /\ \A k : Loading(k)' = IF j # k THEN Loading(k) ELSE Loading(k) \ {t}
    BY <1>1, ThreadGoesOn
  <1>3. ASSUME NEW k \in Item
        PROVE  /\ Running(k)' = Running(k) - (IF k = j THEN 1 ELSE 0)
               /\ Running(k) \in Nat /\ Running(k)' \in Nat /\ Running(k)' <= Running(k)
    <2>1. IsFiniteSet(Loading(k)) /\ Cardinality(Loading(k)) \in Nat /\ (k = j => t \in Loading(k))
      BY <1>1, LoadingIsFinite DEF Loading
    <2>2. /\ Cardinality(Loading(k) \ {t}) =
                 IF t \in Loading(k) THEN Cardinality(Loading(k)) - 1 ELSE Cardinality(Loading(k))
          /\ Cardinality(Loading(k) \ {t}) \in Nat
      BY <2>1, FS_RemoveElement, FS_CardinalityType
    <2>3. /\ Cardinality(Loading(k)') = Cardinality(Loading(k)) - (IF k = j THEN 1 ELSE 0)
          /\ Cardinality(Loading(k)') \in Nat
      BY <1>2, <2>1, <2>2
    <2> QED
      BY <1>1, <2>1, <2>3 DEF Running
  <1>4. CASE UNCHANGED <<imageData, answers>>
    <2>1. \A k \in Item : ItemInv(k)'
      BY <1>1, <1>3, <1>4, ItemKept DEF CacheInv
    <2>2. CacheTypeOK'
      BY <1>1, <1>2, <1>4 DEF CacheTypeOK, ThreadsOK
    <2> QED
      BY <1>1, <1>2, <1>4, <2>1, <2>2 DEF CacheInv, ThreadsOK, FileInv, StatusTypeOK, statusLine
  <1>5. CASE \E data \in Data : KeepData(j, data) /\ Answers(j, data)
    <2>1. PICK data \in Data : KeepData(j, data) /\ Answers(j, data)
      BY <1>5
    <2>2. \A k \in Item : ItemInv(k)'
      BY <1>1, <1>3, <2>1, ItemAnswers DEF CacheInv
    <2>3. /\ answers' \in [Item -> SUBSET Data]
          /\ imageData' \in [Item -> Data \cup {NoData}]
          /\ \A k \in Item : answers[k] \subseteq answers'[k]
      BY <1>1, <2>1 DEF KeepData, Answers, PartTypesOK
    <2>4. \A k \in Item : FileInv(k)'
      BY <1>1, <2>3, FilesKept DEF CacheInv
    <2>5. CacheTypeOK'
      BY <1>1, <1>2, <2>3 DEF CacheTypeOK, ThreadsOK
    <2> QED
      BY <1>1, <1>2, <2>2, <2>4, <2>5 DEF CacheInv, ThreadsOK, StatusTypeOK, statusLine
  <1> QED
    BY <1>4, <1>5 DEF dataErrorEnds

LEMMA CacheStep == CacheInv /\ CacheNext => CacheInv'
  BY ClickKeeps, NoImageKeeps, PreviewFromDataKeeps, PreviewDownloadsKeeps, PreviewArrivesKeeps,
     ThreadComesOrGoesKeeps, dataErrorBeginsKeeps, dataErrorEndsKeeps DEF CacheNext

\* The history of the indicator is one of truth values.
LEMMA IndicatorStep == IndicatorTypeOK /\ CacheNext => IndicatorTypeOK'
  <1> USE DEF IndicatorTypeOK
  <1>1. ASSUME IndicatorTypeOK,
               \E i \in Item : previewPanelItem(i) \/ LoadInBackground(i)
        PROVE  IndicatorTypeOK'
    BY <1>1 DEF previewPanelItem, LoadInBackground
  <1>2. IndicatorTypeOK /\ addToQueueWithoutImage => IndicatorTypeOK'
    BY DEF addToQueueWithoutImage
  <1>3. PreviewShown => IndicatorTypeOK'
    BY DEF PreviewShown
  <1>4. IndicatorTypeOK /\ PreviewDownloads => IndicatorTypeOK'
    BY DEF PreviewDownloads
  <1>5. ASSUME IndicatorTypeOK,
               NEW t \in threads, dataErrorBegins(t) \/ dataErrorEnds(t) \/ AnswerArrives(t)
        PROVE  IndicatorTypeOK'
    BY <1>5 DEF dataErrorBegins, dataErrorEnds, AnswerArrives
  <1> QED
    BY <1>1, <1>2, <1>3, <1>4, <1>5 DEF CacheNext, PreviewFromFile, PreviewFromData, PreviewArrives

-----------------------------------------------------------------------------
(***************************************************************************)
(* The highlight.  The saved style is never a highlighted one, and is that *)
(* of the page unless the page changed it.                                 *)
(***************************************************************************)
SavedStyleIsPlain ==
    highlightedElement \in Img =>
        /\ highlightedElementOriginalStyle.highlights = 0
        /\ highlightedElement \notin overridden =>
               highlightedElementOriginalStyle = Plain(pageStyle[highlightedElement])

HoverInv == HoverTypeOK /\ SavedStyleIsPlain /\ OnlyHoveredIsMarked /\ StyleGivenBack

LEMMA PlainStyles ==
    ASSUME NEW s \in Style
    PROVE  Plain(s) \in Attribute /\ Plain(s).highlights = 0 /\ Plain(s).own = s
  BY DEF Plain, Attribute

LEMMA Highlighting ==
    ASSUME NEW a \in Attribute
    PROVE  Highlighted(a) \in Attribute /\ Highlighted(a).highlights = a.highlights + 1
  BY DEF Highlighted, Attribute

\* Once the style is given back nothing is highlighted, and only the page's changes are lost.
LEMMA Restoring ==
    ASSUME HoverInv
    PROVE  /\ StylesRestored \in [Img -> Attribute]
           /\ \A e \in Img : StylesRestored[e].highlights = 0
           /\ \A e \in Img : e \notin overridden => StylesRestored[e] = Plain(pageStyle[e])
           /\ \A e \in Img : e # highlightedElement => StylesRestored[e] = style[e]
  <1>1. /\ style \in [Img -> Attribute] /\ highlightedElementOriginalStyle \in Attribute
        /\ \A e \in Img : style[e].highlights \in Nat
    BY DEF HoverInv, HoverTypeOK, Attribute
  <1>2. CASE highlightedElement \in Img
    <2>1. StylesRestored = [style EXCEPT ![highlightedElement] = highlightedElementOriginalStyle]
      BY <1>2 DEF StylesRestored
    <2>2. StylesRestored \in [Img -> Attribute]
          /\ StylesRestored[highlightedElement] = highlightedElementOriginalStyle
          /\ \A e \in Img : e # highlightedElement => StylesRestored[e] = style[e]
      BY <1>1, <1>2, <2>1
    <2> QED
      BY <1>1, <1>2, <2>2 DEF HoverInv, SavedStyleIsPlain, OnlyHoveredIsMarked, StyleGivenBack
  <1>3. CASE highlightedElement \notin Img
    <2>1. StylesRestored = style
      BY <1>3 DEF StylesRestored
    <2> QED
      BY <1>1, <1>3, <2>1 DEF HoverInv, OnlyHoveredIsMarked, StyleGivenBack
  <1> QED
    BY <1>2, <1>3

LEMMA mouseLeavesKeeps == HoverInv /\ mouseLeaves => HoverInv'
  <1> SUFFICES ASSUME HoverInv, mouseLeaves PROVE HoverInv'
    OBVIOUS
  <1>1. /\ style' = StylesRestored /\ highlightedElement' = NoElement
        /\ highlightedElementOriginalStyle' = Plain(NoStyle)
        /\ UNCHANGED <<page, pageStyle, overridden>> /\ NoElement \notin Img
        /\ pageLeft' = FALSE
    BY HoverAssumption DEF mouseLeaves
  <1>2. HoverTypeOK'
    BY <1>1, Restoring, PlainStyles, HoverAssumption DEF HoverInv, HoverTypeOK
  <1> QED
    BY <1>1, <1>2, Restoring DEF HoverInv, SavedStyleIsPlain, OnlyHoveredIsMarked, StyleGivenBack

LEMMA mouseMovesOverKeeps ==
    ASSUME HoverInv, NEW img \in Img, mouseMovesOver(img)
    PROVE  HoverInv'
  <1>1. /\ img # highlightedElement /\ highlightedElement' = img
        /\ highlightedElementOriginalStyle' = style[img]
        /\ style' = [StylesRestored EXCEPT ![img] = Highlighted(style[img])]
        /\ UNCHANGED <<page, pageStyle, overridden>>
        /\ pageLeft' = FALSE
    BY DEF mouseMovesOver
  <1>2. style[img] \in Attribute /\ style[img] = StylesRestored[img] /\ style[img].highlights = 0
        /\ (img \notin overridden => style[img] = Plain(pageStyle[img]))
    BY <1>1, Restoring DEF HoverInv, HoverTypeOK
  <1>3. Highlighted(style[img]) \in Attribute /\ Highlighted(style[img]).highlights = 1
    BY <1>2, Highlighting
  <1>4. /\ style' \in [Img -> Attribute]
        /\ style'[img] = Highlighted(style[img])
        /\ \A e \in Img : e # img => style'[e] = StylesRestored[e]
    BY <1>1, <1>3, Restoring
  <1>5. HoverTypeOK'
    BY <1>1, <1>2, <1>4 DEF HoverInv, HoverTypeOK
  <1>6. SavedStyleIsPlain'
    BY <1>1, <1>2 DEF SavedStyleIsPlain
  <1>7. OnlyHoveredIsMarked'
    BY <1>1, <1>3, <1>4, Restoring DEF OnlyHoveredIsMarked
  <1>8. StyleGivenBack'
    BY <1>1, <1>4, Restoring DEF StyleGivenBack
  <1> QED
    BY <1>5, <1>6, <1>7, <1>8 DEF HoverInv

LEMMA PageSetsStyleKeeps ==
    ASSUME HoverInv, NEW img \in Img, NEW s \in Style, PageSetsStyle(img, s)
    PROVE  HoverInv'
  <1>1. /\ style' = [style EXCEPT ![img] = Plain(s)]
        /\ pageStyle' = [pageStyle EXCEPT ![img] = s]
        /\ overridden' = IF img = highlightedElement THEN overridden \cup {img}
                                                     ELSE overridden \ {img}
        /\ UNCHANGED <<page, highlightedElement, highlightedElementOriginalStyle, pageLeft>>
    BY DEF PageSetsStyle
  <1>2. Plain(s) \in Attribute /\ Plain(s).highlights = 0
    BY PlainStyles
  <1>3. /\ style' \in [Img -> Attribute] /\ style'[img] = Plain(s)
        /\ pageStyle' \in [Img -> Style] /\ pageStyle'[img] = s
        /\ \A e \in Img : e # img => style'[e] = style[e] /\ pageStyle'[e] = pageStyle[e]
    BY <1>1, <1>2 DEF HoverInv, HoverTypeOK
  <1>4. HoverTypeOK'
    BY <1>1, <1>3 DEF HoverInv, HoverTypeOK
  <1>5. SavedStyleIsPlain'
    BY <1>1, <1>3 DEF HoverInv, SavedStyleIsPlain
  <1>6. OnlyHoveredIsMarked'
    BY <1>1, <1>2, <1>3 DEF HoverInv, OnlyHoveredIsMarked
  <1>7. StyleGivenBack'
    BY <1>1, <1>3 DEF HoverInv, StyleGivenBack
  <1> QED
    BY <1>4, <1>5, <1>6, <1>7 DEF HoverInv

LEMMA LoadPageKeeps ==
    ASSUME HoverInv, NEW p \in Page, LoadPage(p)
    PROVE  HoverInv'
  <1>1. /\ page' = p
        /\ style' = [e \in Img |-> IF PageOf[e] = p THEN Plain(NoStyle) ELSE style[e]]
        /\ pageStyle' = [e \in Img |-> IF PageOf[e] = p THEN NoStyle ELSE pageStyle[e]]
        /\ overridden' = {e \in overridden : PageOf[e] # p}
        /\ highlightedElement' =
               IF highlightedElement \in Img /\ PageOf[highlightedElement] = p
                 THEN GoneElement ELSE highlightedElement
        /\ UNCHANGED highlightedElementOriginalStyle
        /\ pageLeft' = TRUE
    BY DEF LoadPage
  <1>2. Plain(NoStyle) \in Attribute /\ Plain(NoStyle).highlights = 0
    BY PlainStyles, HoverAssumption
  <1>3. HoverTypeOK'
    BY <1>1, <1>2, HoverAssumption DEF HoverInv, HoverTypeOK
  <1>4. SavedStyleIsPlain'
    BY <1>1, HoverAssumption DEF HoverInv, HoverTypeOK, SavedStyleIsPlain
  <1>5. OnlyHoveredIsMarked'
    <2> SUFFICES ASSUME NEW e \in Img
                 PROVE  style'[e].highlights <= IF e = highlightedElement' THEN 1 ELSE 0
      BY DEF OnlyHoveredIsMarked
    <2>1. CASE PageOf[e] = p
      BY <1>1, <1>2, <2>1
    <2>2. CASE PageOf[e] # p
      <3>1. style'[e] = style[e] /\ (e = highlightedElement' <=> e = highlightedElement)
        BY <1>1, <2>2, HoverAssumption
      <3> QED
        BY <3>1 DEF HoverInv, OnlyHoveredIsMarked
    <2> QED
      BY <2>1, <2>2
  <1>6. StyleGivenBack'
    BY <1>1, HoverAssumption DEF HoverInv, StyleGivenBack
  <1> QED
    BY <1>3, <1>4, <1>5, <1>6 DEF HoverInv

LEMMA HoverKept == HoverInv /\ UNCHANGED hoverVars => HoverInv'
  BY DEF HoverInv, hoverVars, HoverTypeOK, SavedStyleIsPlain, OnlyHoveredIsMarked, StyleGivenBack

LEMMA webViewCloseKeeps ==
    ASSUME HoverInv, NEW p \in Page, webViewClose(p)
    PROVE  HoverInv'
  BY DEF webViewClose, HoverInv, HoverTypeOK, SavedStyleIsPlain, OnlyHoveredIsMarked,
         StyleGivenBack

LEMMA HoverStep == HoverInv /\ HoverNext => HoverInv'
  BY mouseLeavesKeeps, mouseMovesOverKeeps, PageSetsStyleKeeps, LoadPageKeeps,
     webViewCloseKeeps DEF HoverNext

-----------------------------------------------------------------------------
(***************************************************************************)
(* The two together.                                                       *)
(***************************************************************************)
ViewsInv == CacheInv /\ IndicatorTypeOK /\ HoverInv

LEMMA CacheKept == CacheInv /\ UNCHANGED cacheVars /\ StatusTypeOK' => CacheInv'
  <1> SUFFICES ASSUME CacheInv, UNCHANGED cacheVars, StatusTypeOK' PROVE CacheInv'
    OBVIOUS
  <1>1. UNCHANGED <<imageData, fileUrl, files, threads, panelItem, previewed, answers, peak>>
    BY DEF cacheVars
  <1>2. CacheTypeOK' /\ ThreadsDiffer'
    BY <1>1 DEF CacheInv, CacheTypeOK, ThreadsDiffer
  <1>3. \A i \in Item : ItemInv(i)' /\ FileInv(i)'
    BY <1>1 DEF CacheInv, ItemInv, FileInv, Running, Loading
  <1> QED
    BY <1>2, <1>3 DEF CacheInv

LEMMA StatusOfHover == StatusTypeOK /\ HoverNext => StatusTypeOK'
  BY DEF StatusTypeOK, HoverNext, mouseLeaves, mouseMovesOver, PageSetsStyle, LoadPage,
         webViewClose, setStatusMessage, statusLine, Message

LEMMA StatusStarts == isBusy = FALSE /\ statusMessage = "" => StatusTypeOK
  <1>1. isBusy = FALSE => isBusy \in BOOLEAN
    OBVIOUS
  <1>2. statusMessage = "" => statusMessage \in Message
    BY DEF Message
  <1> QED
    BY <1>1, <1>2 DEF StatusTypeOK

LEMMA CacheStarts == CacheInit /\ StatusTypeOK => CacheInv
  <1> SUFFICES ASSUME CacheInit, StatusTypeOK PROVE CacheInv
    OBVIOUS
  <1>1. threads = {} /\ previewed = NoItem
    BY DEF CacheInit
  <1>2. ThreadsDiffer
    BY <1>1 DEF ThreadsDiffer
  <1>3. CacheTypeOK
    <2>1. /\ imageData \in [Item -> Data \cup {NoData}]
          /\ fileUrl \in [Item -> TempFile \cup {NoFile}]
          /\ files \in [TempFile -> [data : Data \cup {NoData}, of : Item \cup {NoItem}]]
          /\ threads \subseteq Thread
          /\ panelItem \in Item \cup {NoItem}
          /\ previewed \in Item \cup {NoItem}
          /\ answers \in [Item -> SUBSET Data]
      BY DEF CacheInit
    <2>2. peak \in [Item -> 0..(MaxThreads + 1)]
      BY CacheAssumption DEF CacheInit
    <2> QED
      BY <2>1, <2>2 DEF CacheTypeOK
  <1>4. \A i \in Item : Running(i) = 0
    <2> SUFFICES ASSUME NEW i \in Item PROVE Running(i) = 0
      OBVIOUS
    <2>1. Loading(i) = {} /\ previewed # i
      BY <1>1, CacheAssumption DEF Loading
    <2> QED
      BY <2>1, FS_EmptySet DEF Running
  <1>5. \A i \in Item : ItemInv(i) /\ FileInv(i)
    BY <1>4 DEF CacheInit, ItemInv, FileInv
  <1> QED
    BY <1>2, <1>3, <1>5 DEF CacheInv

LEMMA HoverStarts == HoverInit => HoverInv
  <1>1. HoverInit => pageLeft \in BOOLEAN
    BY DEF HoverInit
  <1>2. HoverInit => HoverTypeOK
    BY <1>1, PlainStyles, HoverAssumption DEF HoverInit, HoverTypeOK
  <1>3. HoverInit => SavedStyleIsPlain /\ OnlyHoveredIsMarked /\ StyleGivenBack
    BY PlainStyles, HoverAssumption
       DEF HoverInit, SavedStyleIsPlain, OnlyHoveredIsMarked, StyleGivenBack
  <1> QED
    BY <1>2, <1>3 DEF HoverInv

LEMMA ViewsInvariant == Spec => []ViewsInv
  <1>1. Init => ViewsInv
    <2>1. CacheInit => IndicatorTypeOK
      BY DEF CacheInit, IndicatorTypeOK
    <2> QED
      BY <2>1, StatusStarts, CacheStarts, HoverStarts DEF Init, ViewsInv
  <1>2. ViewsInv /\ [Next]_vars => ViewsInv'
    <2> SUFFICES ASSUME ViewsInv, [Next]_vars PROVE ViewsInv'
      OBVIOUS
    <2>1. CASE CacheNext /\ UNCHANGED hoverVars
      BY <2>1, CacheStep, IndicatorStep, HoverKept DEF ViewsInv
    <2>2. CASE mainThreadIsFree /\ HoverNext /\ UNCHANGED cacheVars
      <3>1. StatusTypeOK'
        BY <2>2, StatusOfHover DEF ViewsInv, CacheInv
      <3>2. IndicatorTypeOK'
        BY <2>2 DEF ViewsInv, IndicatorTypeOK, cacheVars
      <3> QED
        BY <2>2, <3>1, <3>2, CacheKept, HoverStep DEF ViewsInv
    <2>3. CASE UNCHANGED vars
      <3>1. UNCHANGED cacheVars /\ UNCHANGED hoverVars /\ StatusTypeOK'
        BY <2>3 DEF vars, statusLine, StatusTypeOK, ViewsInv, CacheInv
      <3>2. IndicatorTypeOK'
        BY <3>1 DEF ViewsInv, IndicatorTypeOK, cacheVars
      <3> QED
        BY <3>1, <3>2, CacheKept, HoverKept DEF ViewsInv
    <2> QED
      BY <2>1, <2>2, <2>3 DEF Next
  <1> QED
    BY <1>1, <1>2, PTL DEF Spec

(***************************************************************************)
(* The variables of both views and of the status line keep their types: a  *)
(* thread of the pool or the main one is all that downloads an item.       *)
(***************************************************************************)
THEOREM ViewsTypeCorrect == Spec => []TypeOK
  <1>1. ViewsInv => TypeOK
    BY DEF ViewsInv, CacheInv, HoverInv, TypeOK
  <1> QED
    BY <1>1, ViewsInvariant, PTL

(***************************************************************************)
(* dataError: gives an item no more different images than downloads of it  *)
(* ran at once, on any number of threads, whichever of them failed.        *)
(***************************************************************************)
THEOREM DownloadsAgree == Spec => []LoadsAgree
  <1>1. ViewsInv => LoadsAgree
    <2> SUFFICES ASSUME ViewsInv, NEW i \in Item
                 PROVE  Cardinality(answers[i]) <= peak[i]
      BY DEF LoadsAgree
    <2>1. /\ Running(i) \in Nat /\ Cardinality(answers[i]) \in Nat /\ peak[i] \in Nat
      BY AnswersAreFinite, LoadingIsFinite, CacheTypeParts, CacheAssumption
         DEF ViewsInv, CacheInv, CacheTypeOK
    <2>2. CASE imageData[i] = NoData
      BY <2>1, <2>2, FS_EmptySet DEF ViewsInv, CacheInv, ItemInv
    <2>3. CASE imageData[i] # NoData
      BY <2>1, <2>3 DEF ViewsInv, CacheInv, ItemInv
    <2> QED
      BY <2>2, <2>3
  <1> QED
    BY <1>1, ViewsInvariant, PTL

(***************************************************************************)
(* The temporary file of a previewed item is its own or that of an item of *)
(* the same file name, and holds an image of the item that wrote it.       *)
(***************************************************************************)
THEOREM PreviewsAreOwn == Spec => []PreviewHoldsOwnImage
  <1>1. ViewsInv => PreviewHoldsOwnImage
    BY DEF ViewsInv, CacheInv, FileInv, PreviewHoldsOwnImage
  <1> QED
    BY <1>1, ViewsInvariant, PTL

(***************************************************************************)
(* If no two items share the last component of their URLs and no two       *)
(* downloads of an item overlap, what Quick Look shows of it is all that   *)
(* is ever embedded of it.                                                 *)
(***************************************************************************)
PreviewedIsEmbedded ==
    \A i \in Item :
        fileUrl[i] # NoFile /\ peak[i] <= 1 => answers[i] = {files[fileUrl[i]].data}

THEOREM PreviewShowsWhatIsEmbedded ==
    ASSUME \A i, j \in Item : FileName[i] = FileName[j] => i = j
    PROVE  Spec => []PreviewedIsEmbedded
  <1>1. ViewsInv /\ LoadsAgree => PreviewedIsEmbedded
    <2> SUFFICES ASSUME ViewsInv, LoadsAgree, NEW i \in Item, fileUrl[i] # NoFile, peak[i] <= 1
                 PROVE  answers[i] = {files[fileUrl[i]].data}
      BY DEF PreviewedIsEmbedded
    <2>1. files[fileUrl[i]].of = i /\ files[fileUrl[i]].data \in answers[i]
      BY DEF ViewsInv, CacheInv, FileInv
    <2>2. IsFiniteSet(answers[i]) /\ Cardinality(answers[i]) \in Nat /\ peak[i] \in Nat
          /\ Cardinality(answers[i]) <= 1
      BY AnswersAreFinite, CacheAssumption DEF ViewsInv, CacheInv, CacheTypeOK, LoadsAgree
    <2>3. Cardinality(answers[i]) # 0
      BY <2>1, <2>2, FS_EmptySet
    <2>4. Cardinality(answers[i]) = 1
      BY <2>2, <2>3
    <2>5. PICK x : answers[i] = {x}
      BY <2>2, <2>4, FS_Singleton
    <2> QED
      BY <2>1, <2>5
  <1> QED
    BY <1>1, ViewsInvariant, DownloadsAgree, PTL

(***************************************************************************)
(* The highlight is on the image under the pointer only, on any page.      *)
(***************************************************************************)
THEOREM HighlightIsTakenBack == Spec => []OnlyHoveredIsMarked
  <1>1. ViewsInv => OnlyHoveredIsMarked
    BY DEF ViewsInv, HoverInv
  <1> QED
    BY <1>1, ViewsInvariant, PTL

\* The pages keep their styles, but for those they set under the highlight.
THEOREM StylesAreGivenBack == Spec => []StyleGivenBack
  <1>1. ViewsInv => StyleGivenBack
    BY DEF ViewsInv, HoverInv
  <1> QED
    BY <1>1, ViewsInvariant, PTL

-----------------------------------------------------------------------------
(***************************************************************************)
(* The status line tells the truth: inductive as it stands, with the types *)
(* of the handlers' arguments.                                             *)
(***************************************************************************)
LEMMA StatusOfCache == CacheInv /\ StatusTextIsTrue /\ CacheNext /\ UNCHANGED hoverVars
                       => StatusTextIsTrue'
  <1> SUFFICES ASSUME CacheInv, StatusTextIsTrue, CacheNext, UNCHANGED hoverVars
               PROVE  StatusTextIsTrue'
    OBVIOUS
  <1>1. UNCHANGED <<highlightedElement, pageLeft, page>>
    BY DEF hoverVars
  <1>2. CASE clearBusy
    BY <1>2 DEF clearBusy, StatusTextIsTrue
  <1>3. ASSUME NEW i \in Item, previewPanelItem(i) PROVE StatusTextIsTrue'
    BY <1>3 DEF previewPanelItem, startBusy, StatusTextIsTrue
  <1>4. ASSUME NEW i \in Item, LoadInBackground(i) PROVE StatusTextIsTrue'
    BY <1>4 DEF LoadInBackground, startBusy, StatusTextIsTrue
  <1>5. CASE addToQueueWithoutImage
    BY <1>5 DEF addToQueueWithoutImage, startBusy, StatusTextIsTrue
  <1>6. CASE PreviewDownloads
    BY <1>1, <1>6 DEF PreviewDownloads, statusLine, StatusTextIsTrue
  <1>7. ASSUME NEW t \in threads, dataErrorBegins(t) \/ dataErrorEnds(t) PROVE StatusTextIsTrue'
    <2>1. threads' # {} /\ UNCHANGED <<statusLine, panelWaits>>
      BY <1>7 DEF dataErrorBegins, dataErrorEnds, Becomes
    <2> QED
      BY <1>1, <2>1 DEF statusLine, StatusTextIsTrue
  <1> QED
    BY <1>2, <1>3, <1>4, <1>5, <1>6, <1>7
       DEF CacheNext, PreviewFromFile, PreviewFromData, PreviewArrives, PreviewShown,
           AnswerArrives

LEMMA StatusOfPointer == StatusTextIsTrue /\ HoverTypeOK /\ HoverNext /\ UNCHANGED cacheVars
                         => StatusTextIsTrue'
  <1> SUFFICES ASSUME StatusTextIsTrue, HoverTypeOK, HoverNext, UNCHANGED cacheVars
               PROVE  StatusTextIsTrue'
    OBVIOUS
  <1>1. UNCHANGED <<threads, panelWaits, leaked>>
    BY DEF cacheVars
  <1>2. CASE mouseLeaves
    BY <1>2 DEF mouseLeaves, setStatusMessage, StatusTextIsTrue
  <1>3. ASSUME NEW img \in Img, mouseMovesOver(img) PROVE StatusTextIsTrue'
    <2>1. img # NoElement /\ img \in Img /\ PageOf[img] = page
      BY <1>3, HoverAssumption DEF mouseMovesOver
    <2> QED
      BY <1>3, <2>1 DEF mouseMovesOver, setStatusMessage, StatusTextIsTrue
  <1>4. ASSUME UNCHANGED statusLine, pageLeft' = TRUE,
               highlightedElement # NoElement => highlightedElement' # NoElement
        PROVE  StatusTextIsTrue'
    BY <1>1, <1>4 DEF statusLine, StatusTextIsTrue
  <1>5. ASSUME NEW p \in Page, LoadPage(p) PROVE StatusTextIsTrue'
    <2>1. /\ UNCHANGED statusLine /\ pageLeft' = TRUE
          /\ highlightedElement # NoElement => highlightedElement' # NoElement
      BY <1>5, HoverAssumption DEF LoadPage
    <2> QED
      BY <1>4, <2>1
  <1>6. ASSUME NEW p \in Page, webViewClose(p) PROVE StatusTextIsTrue'
    BY <1>4, <1>6 DEF webViewClose
  <1>7. ASSUME NEW img \in Img, NEW s \in Style, PageSetsStyle(img, s) PROVE StatusTextIsTrue'
    BY <1>1, <1>7 DEF PageSetsStyle, statusLine, StatusTextIsTrue
  <1> QED
    BY <1>2, <1>3, <1>5, <1>6, <1>7 DEF HoverNext

(***************************************************************************)
(* The hint is displayed only for an image that is highlighted, or whose   *)
(* page changed under a pointer that has not moved since; the texts of     *)
(* work only for work, but for what Add to Queue without an image leaves.  *)
(***************************************************************************)
THEOREM StatusLineIsTrue == Spec => []StatusTextIsTrue
  <1>1. Init => StatusTextIsTrue
    BY DEF Init, StatusTextIsTrue
  <1>2. ViewsInv /\ StatusTextIsTrue /\ [Next]_vars => StatusTextIsTrue'
    <2>1. StatusTextIsTrue /\ UNCHANGED vars => StatusTextIsTrue'
      BY DEF vars, statusLine, cacheVars, hoverVars, StatusTextIsTrue
    <2> QED
      BY <2>1, StatusOfCache, StatusOfPointer DEF Next, ViewsInv, HoverInv
  <1> QED
    BY <1>1, <1>2, ViewsInvariant, PTL DEF Spec
=============================================================================
