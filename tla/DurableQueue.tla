----------------------------- MODULE DurableQueue -----------------------------
(***************************************************************************)
(* What the queue of Album Artwork Assistant promises, without saying how: *)
(* a set of jobs ("give these tracks this image"), kept in memory and      *)
(* written behind to a durable copy, always as a whole.                    *)
(*                                                                         *)
(*  - A job leaves the durable copy only after all of its tracks got its   *)
(*    image, or after the user cancelled it.                               *)
(*  - A restart falls back to the durable copy and to nothing else.        *)
(*  - Work is repeated rather than lost: a job may be done again after a   *)
(*    restart, and an interrupted job leaves some of its tracks done.      *)
(***************************************************************************)
CONSTANTS
    Track, Image, NoArt,
    Job             \* records with at least the fields tracks and image

VARIABLES
    queue,          \* the jobs the user sees
    durable,        \* the jobs that survive a restart
    finished,       \* history: jobs whose tracks all got their image
    cancelled,      \* history: jobs the user took out of the queue
    art             \* the artwork of every track

jobVars == <<queue, durable, finished, cancelled>>
vars == <<queue, durable, finished, cancelled, art>>

Init ==
    /\ queue = {}
    /\ durable = {}
    /\ finished = {}
    /\ cancelled = {}
    /\ art = [t \in Track |-> NoArt]

Known == queue \cup durable \cup finished \cup cancelled

(***************************************************************************)
(* The durable copy follows the new queue now, or stays behind.            *)
(***************************************************************************)
WriteBehind == durable' \in {durable, queue'}

Embed(j, done) == art' = [t \in Track |-> IF t \in done THEN j.image ELSE art[t]]

Submit(j) ==
    /\ j \notin Known
    /\ queue' = queue \cup {j}
    /\ WriteBehind
    /\ UNCHANGED <<finished, cancelled, art>>

\* Some of a job's tracks are done; the job stays.
Attempt(j, done) ==
    /\ j \in queue
    /\ done \subseteq j.tracks
    /\ Embed(j, done)
    /\ UNCHANGED jobVars

Finish(j) ==
    /\ j \in queue
    /\ j.tracks # {}
    /\ Embed(j, j.tracks)
    /\ queue' = queue \ {j}
    /\ finished' = finished \cup {j}
    /\ WriteBehind
    /\ UNCHANGED cancelled

Cancel(js) ==
    /\ js \subseteq queue
    /\ queue' = queue \ js
    /\ cancelled' = cancelled \cup js
    /\ WriteBehind
    /\ UNCHANGED <<finished, art>>

\* Artwork that is set without the queue.
SetElsewhere ==
    /\ art' \in [Track -> Image \cup {NoArt}]
    /\ UNCHANGED jobVars

Flush ==
    /\ durable' = queue
    /\ UNCHANGED <<queue, finished, cancelled, art>>

\* The process ends, possibly in the middle of a job.
Restart ==
    /\ queue' = durable
    /\ \/ UNCHANGED art
       \/ \E j \in queue : \E done \in SUBSET j.tracks : Embed(j, done)
    /\ UNCHANGED <<durable, finished, cancelled>>

Next ==
    \/ \E j \in queue : \E done \in SUBSET j.tracks : Attempt(j, done)
    \/ \E j \in queue : Finish(j)
    \/ \E js \in SUBSET queue : Cancel(js)
    \/ SetElsewhere
    \/ Flush
    \/ Restart
    \/ \E j \in Job : Submit(j)

Spec == Init /\ [][Next]_vars

===============================================================================
