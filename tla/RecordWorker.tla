---------------------------- MODULE RecordWorker ----------------------------
(***************************************************************************)
(* The recording worker: it saves frames as numbered pictures in a directory  *)
(* of their own for each session, and has ffmpeg compose them into a video    *)
(* when it is stopped.                                                       *)
(*                                                                         *)
(* One half-hour bucket is modelled: within it the n-th part of a name is     *)
(* the number n.  A picture is its number, a video the directory it was made  *)
(* from and the numbers of its pictures; a metadata line is the arrival time  *)
(* of the telemetry it pairs with the frame.                                 *)
(***************************************************************************)
EXTENDS WorkerThreads, FiniteSets

CONSTANTS
    FrameEvery,  \* one frame in FrameEvery is saved: 2 in the code
    MetaEvery    \* one in MetaEvery leaves a metadata line: 15 in the code

ASSUME RecordAssumption == {FrameEvery, MetaEvery} \subseteq Nat \ {0}

VARIABLES
    frameDirs,   \* frameDirs[n]: the pictures saved in the n-th directory
    videos,      \* videos[n]: the video file of part n
    meta,        \* record_meta.jsonl
    rec,         \* the worker's members
    ffmpeg       \* QProcess::execute("ffmpeg") is under way

recordVars == <<frameDirs, videos, meta, rec, ffmpeg>>

Stopped == [running |-> FALSE, count |-> 0, seq |-> 0, dir |-> 0, video |-> 0]

RecordInit ==
    /\ frameDirs = <<>> /\ videos = <<>> /\ meta = <<>>
    /\ rec = Stopped /\ ffmpeg = FALSE

Request == Head(queue["rec"])
Served == Finished("rec") /\ UNCHANGED quit

\* Mutated form: the first name is taken whether the file is there or not.
FirstName(files) == 1

\* The first part number whose file is not there.
FreeName(files) == CHOOSE n \in 1..(Len(files) + 1) : n \notin DOMAIN files

\* The directory is made at once, the video file only by ffmpeg.
RecordStart ==
    /\ Running("rec") /\ Request.op = "start"
    /\ frameDirs' = Append(frameDirs, {})
    /\ rec' = [running |-> TRUE, count |-> 0, seq |-> 0, dir |-> Len(frameDirs) + 1,
               video |-> FreeName(videos)]
    /\ Served /\ UNCHANGED <<videos, meta, ffmpeg, faults>>

\* A picture that cannot be saved is skipped in silence, and so is a line.
Enqueue ==
    /\ Running("rec") /\ Request.op = "frame"
    /\ Fault \/ UNCHANGED faults
    /\ IF ~rec.running THEN UNCHANGED <<rec, frameDirs, meta>> ELSE
         LET count == rec.count + 1
             kept == Request.image /\ count % FrameEvery = 0
             seq == rec.seq + (IF kept THEN 1 ELSE 0)
             line == count % MetaEvery = 0
             picture == frameDirs' = [frameDirs EXCEPT ![rec.dir] = @ \cup {seq}]
         IN /\ rec' = [rec EXCEPT !.count = count, !.seq = seq]
            /\ IF kept THEN picture \/ (faults' > faults /\ UNCHANGED frameDirs)
                       ELSE UNCHANGED frameDirs
            /\ IF line THEN meta' = Append(meta, Request.at) \/ (faults' > faults /\ UNCHANGED meta)
                       ELSE UNCHANGED meta
    /\ Served /\ UNCHANGED <<videos, ffmpeg>>

\* What ffmpeg reads of a directory: frame_%06d.jpg ends at the first gap.
Readable(pictures) ==
    LET first == CHOOSE n \in pictures : \A k \in pictures : n <= k
    IN {n \in pictures : \A k \in first..n : k \in pictures}

\* Mutated form: a video is never written over.
WrittenAnew(frames) == Append(videos, [dir |-> rec.dir, frames |-> frames])

\* The session's video file, with these pictures in it; ffmpeg -y replaces it.
Written(frames) ==
    LET video == [dir |-> rec.dir, frames |-> frames]
    IN IF rec.video \in DOMAIN videos THEN [videos EXCEPT ![rec.video] = video]
                                     ELSE Append(videos, video)

\* The members keep their values: a second stop composes the same video again.
RecordStop ==
    /\ Running("rec") /\ Request.op = "stop" /\ ~ffmpeg
    /\ rec' = [rec EXCEPT !.running = FALSE]
    /\ IF rec.dir > 0 /\ rec.seq > 1
         THEN /\ ffmpeg' = TRUE /\ Begun("rec") /\ UNCHANGED <<queue, quit>>
              /\ \/ frameDirs[rec.dir] # {} /\ videos' = Written({})
                 \/ UNCHANGED videos
         ELSE Served /\ UNCHANGED <<ffmpeg, videos>>
    /\ UNCHANGED <<frameDirs, meta, faults>>

\* ffmpeg ends well, or fails and leaves what there is.
Compose ==
    /\ ffmpeg
    /\ \/ /\ frameDirs[rec.dir] # {} /\ videos' = Written(Readable(frameDirs[rec.dir]))
          /\ UNCHANGED faults
       \/ Fault /\ UNCHANGED videos
       \/ frameDirs[rec.dir] = {} /\ UNCHANGED <<videos, faults>>
    /\ ffmpeg' = FALSE
    /\ Served /\ UNCHANGED <<frameDirs, meta, rec>>

RecordStep == RecordStart \/ Enqueue \/ RecordStop \/ Compose
=============================================================================
