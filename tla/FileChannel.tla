----------------------------- MODULE FileChannel -----------------------------
(***************************************************************************)
(* The requests of an authenticated files channel (daemon.rs, the          *)
(* FilesInput and FilesChannelClosed arms): binary uploads, the tasks that *)
(* stream a file to the device, and the watchers that push appended lines. *)
(*                                                                         *)
(* The maps of the loop are keyed by device and not by channel: a device   *)
(* that reconnects has a new channel, numbered by its generation, while    *)
(* the close event of the old one may still be in the queue.               *)
(***************************************************************************)
EXTENDS Integers, Sequences, FiniteSets

CONSTANTS
    FileDevices,  \* mobile devices
    Requests,     \* request and subscription ids that a device uses
    MaxActive,    \* MAX_ACTIVE_UPLOADS_PER_DEVICE
    MaxUpload,    \* MAX_STREAM_UPLOAD_BYTES, in chunks
    MaxRead,      \* MAX_READ_STREAM_SIZE, in chunks
    Workloads,    \* bound: which requests a behaviour makes
    MaxGen,       \* bound: channels a device opens
    MaxTmp,       \* bound: temporary files that are created
    MaxTasks,     \* bound: streams, and watchers, that are spawned
    MaxSize,      \* bound: length of the file that is streamed
    MaxSent       \* bound: chunks that a device sends of one upload

ASSUME FileChannelAssumption ==
    /\ IsFiniteSet(FileDevices) /\ IsFiniteSet(Requests)
    /\ MaxActive \in Nat /\ MaxUpload \in Nat /\ MaxRead \in Nat
    /\ Workloads \subseteq SUBSET {"upload", "download", "read", "watch"}
    /\ MaxGen \in Nat /\ MaxTmp \in Nat /\ MaxTasks \in Nat
    /\ MaxSize \in Nat /\ MaxSent \in Nat

VARIABLES
    uses,       \* the workload
    link,       \* state of the channel of each generation
    uploads,    \* files_binary_uploads
    tmp,        \* temporary files on disk: the chunks in each
    dest,       \* the file that uploads end in, with what was sent for it
    sent,       \* chunks sent under a key since its last upload_start
    forgotten,  \* temporary files whose entry was lost without a removal
    tasks,      \* spawned streams: off + pos is the place in the file
    cancels,    \* files_download_cancels: the stream whose handle is kept
    size, cuts, \* length of the streamed file, how often it was truncated
    watchers,   \* files_watchers
    running     \* watcher tasks that run

uploadVars == <<uploads, tmp, dest, sent, forgotten>>
streamVars == <<tasks, cancels>>
watchVars == <<watchers, running>>
fileVars == <<size, cuts>>
vars == <<uses, link, uploadVars, streamVars, fileVars, watchVars>>

Gens == 1 .. MaxGen
Tmps == 1 .. MaxTmp
TaskIds == 1 .. MaxTasks
UploadKeys == FileDevices \X Requests
NoUpload == [tmp |-> 0, size |-> 0, written |-> 0]
NoDest == [content |-> <<>>, of |-> 0]
NoFile == <<0>>
NoTask == [kind |-> "none", dev |-> "none", gen |-> 0, pc |-> "none",
           off |-> 0, want |-> 0, pos |-> 0, cuts |-> 0, cancelled |-> FALSE]

\* A stream that did not send its end frame: what it had sent is of no account.
Over(pc) == [NoTask EXCEPT !.pc = pc]

\* "silent": the device is gone, the host has not noticed
\* "closed": the close event is in the queue;  "gone": it was handled
LinkStates == {"unused", "open", "silent", "closed", "gone"}

\* "ended": the end frame was sent;  "failed": an error was reported
\* "stopped": cancelled, or the channel did not take a frame
Running == {"spawned", "started", "blocked"}
TaskStates == Running \cup {"none", "ended", "failed", "stopped"}

Active(d) == {k \in UploadKeys : k[1] = d /\ uploads[k] # NoUpload}

\* The name of a temporary file is new: it holds the time and the process.
FreeTmp == {t \in Tmps : tmp[t] = NoFile /\ \A s \in Tmps : tmp[s] = NoFile => t <= s}

TypeOK ==
    /\ uses \in Workloads
    /\ link \in [FileDevices -> [Gens -> LinkStates]]
    /\ uploads \in [UploadKeys ->
                      [tmp : Tmps \cup {0}, size : 0 .. MaxUpload, written : 0 .. MaxUpload]]
    /\ tmp \in [Tmps -> Seq(0 .. MaxSent)]
    /\ dest.of \in 0 .. MaxSent /\ dest.content \in Seq(1 .. MaxSent)
    /\ sent \in [UploadKeys -> 0 .. MaxSent]
    /\ forgotten \subseteq Tmps
    /\ \A t \in TaskIds :
          /\ tasks[t].pc \in TaskStates
          /\ tasks[t].want \in 0 .. MaxSize /\ tasks[t].pos \in 0 .. MaxSize
    /\ cancels \in [FileDevices -> TaskIds \cup {0}]
    /\ size \in 0 .. MaxSize /\ cuts \in 0 .. 1
    /\ watchers \in [UploadKeys -> TaskIds \cup {0}]
    /\ running \subseteq TaskIds

Init ==
    /\ uses \in Workloads
    /\ link = [d \in FileDevices |-> [g \in Gens |-> "unused"]]
    /\ uploads = [k \in UploadKeys |-> NoUpload]
    /\ tmp = [t \in Tmps |-> NoFile]
    /\ dest = NoDest
    /\ sent = [k \in UploadKeys |-> 0]
    /\ forgotten = {}
    /\ tasks = [t \in TaskIds |-> NoTask]
    /\ cancels = [d \in FileDevices |-> 0]
    /\ size \in (IF uses \cap {"download", "read"} = {} THEN {0} ELSE 0 .. MaxSize)
    /\ cuts = 0
    /\ watchers = [k \in UploadKeys |-> 0]
    /\ running = {}

-----------------------------------------------------------------------------
(* The channel of a device                                                 *)

Opens(d, g) ==
    /\ link[d][g] = "unused" /\ (g > 1 => link[d][g - 1] # "unused")
    /\ link' = [link EXCEPT ![d] = [h \in Gens |->
                   IF h = g THEN "open"
                   ELSE IF link[d][h] = "open" THEN "silent" ELSE link[d][h]]]
    /\ UNCHANGED <<uses, uploadVars, streamVars, fileVars, watchVars>>

FallsSilent(d, g) ==
    /\ link[d][g] = "open"
    /\ link' = [link EXCEPT ![d][g] = "silent"]
    /\ UNCHANGED <<uses, uploadVars, streamVars, fileVars, watchVars>>

Closes(d, g) ==
    /\ link[d][g] \in {"open", "silent"}
    /\ link' = [link EXCEPT ![d][g] = "closed"]
    /\ UNCHANGED <<uses, uploadVars, streamVars, fileVars, watchVars>>

\* A request handled now was sent over g while it was open.
From(d, g, what) == what \in uses /\ link[d][g] \in {"open", "silent", "closed"}

-----------------------------------------------------------------------------
(* Uploads                                                                 *)

\* The entries of ks leave the map and their temporary files are deleted.
Discard(ks) ==
    /\ tmp' = [t \in Tmps |-> IF \E k \in ks : uploads[k].tmp = t THEN NoFile ELSE tmp[t]]
    /\ uploads' = [k \in UploadKeys |-> IF k \in ks THEN NoUpload ELSE uploads[k]]

Untouched == UNCHANGED <<uses, link, streamVars, fileVars, watchVars>>

\* Too many uploads, no or too large a size, a path that is refused: an error
\* reply, and an upload that runs under the key goes on.  The count comes
\* first: it includes an upload under the same key.
UploadStart(d, g, r, n) ==
    /\ From(d, g, "upload")
    /\ Cardinality(Active(d)) < MaxActive
    /\ n <= MaxUpload
    /\ \E t \in FreeTmp :
          /\ uploads' = [uploads EXCEPT ![<<d, r>>] = [tmp |-> t, size |-> n, written |-> 0]]
          /\ tmp' = [tmp EXCEPT ![t] = <<>>]
          /\ forgotten' = forgotten \cup ({uploads[<<d, r>>].tmp} \ {0})
    /\ sent' = [sent EXCEPT ![<<d, r>>] = 0]
    /\ UNCHANGED dest /\ Untouched

Counted(d, r) ==
    /\ sent[<<d, r>>] < MaxSent
    /\ sent' = [sent EXCEPT ![<<d, r>>] = @ + 1]
    /\ UNCHANGED <<dest, forgotten>> /\ Untouched

ChunkTooLarge(d, g, r) ==
    /\ From(d, g, "upload") /\ uploads[<<d, r>>] # NoUpload
    /\ Discard({<<d, r>>})
    /\ Counted(d, r)

\* The limit of the host, or the declared size.
ChunkExceeds(d, g, r) ==
    LET u == uploads[<<d, r>>] IN
    /\ From(d, g, "upload") /\ u # NoUpload
    /\ u.written + 1 > MaxUpload \/ u.written + 1 > u.size
    /\ Discard({<<d, r>>})
    /\ Counted(d, r)

\* Mutant: a chunk that could not be written is only reported.
ChunkWriteFailsGoesOn(d, g, r) ==
    LET u == uploads[<<d, r>>] IN
    /\ From(d, g, "upload") /\ u # NoUpload /\ u.written + 1 <= u.size
    /\ UNCHANGED <<uploads, tmp>>
    /\ Counted(d, r)

ChunkWriteFails(d, g, r) ==
    LET u == uploads[<<d, r>>] IN
    /\ From(d, g, "upload") /\ u # NoUpload /\ u.written + 1 <= u.size
    /\ Discard({<<d, r>>})
    /\ Counted(d, r)

ChunkWritten(d, g, r) ==
    LET u == uploads[<<d, r>>] IN
    /\ From(d, g, "upload") /\ u # NoUpload
    /\ u.written + 1 <= MaxUpload /\ u.written + 1 <= u.size
    /\ tmp' = [tmp EXCEPT ![u.tmp] = Append(@, sent[<<d, r>>] + 1)]
    /\ uploads' = [uploads EXCEPT ![<<d, r>>].written = @ + 1]
    /\ Counted(d, r)

ChunkUnknown(d, g, r) ==
    /\ From(d, g, "upload") /\ uploads[<<d, r>>] = NoUpload
    /\ UNCHANGED <<uploadVars>> /\ Untouched

\* The rename replaces the destination.  Nothing compares written with size.
UploadEnd(d, g, r) ==
    LET u == uploads[<<d, r>>] IN
    /\ From(d, g, "upload") /\ u # NoUpload
    /\ Discard({<<d, r>>})
    /\ dest' = [content |-> tmp[u.tmp], of |-> sent[<<d, r>>]]
    /\ UNCHANGED <<sent, forgotten>> /\ Untouched

UploadEndFails(d, g, r) ==
    /\ From(d, g, "upload") /\ uploads[<<d, r>>] # NoUpload
    /\ Discard({<<d, r>>})
    /\ UNCHANGED <<dest, sent, forgotten>> /\ Untouched

UploadCancel(d, g, r) == UploadEndFails(d, g, r)

\* FILES_MESSAGE_TIMEOUT_SECS since the last chunk.
UploadExpires(k) ==
    /\ uploads[k] # NoUpload
    /\ Discard({k})
    /\ UNCHANGED <<dest, sent, forgotten>> /\ Untouched

-----------------------------------------------------------------------------
(* Streams to the device                                                   *)

Aside == UNCHANGED <<uses, link, uploadVars, watchVars>>

\* A frame is sent, is refused, or waits for room in the buffer.
Sending(t) ==
    LET l == link[tasks[t].dev][tasks[t].gen] IN
    IF l = "open" THEN {"started", "stopped"}
    ELSE IF l = "silent" THEN {"started", "blocked"} ELSE {"stopped"}

Spawn(d, g, t, what) ==
    /\ From(d, g, what) /\ tasks[t] = NoTask /\ (t > 1 => tasks[t - 1] # NoTask)
    /\ tasks' = [tasks EXCEPT ![t] =
                   [NoTask EXCEPT !.kind = what, !.dev = d, !.gen = g, !.pc = "spawned"]]
    /\ UNCHANGED fileVars /\ Aside

\* The handle of an earlier download of the device is dropped, which does not
\* cancel it.
DownloadStream(d, g, t) ==
    /\ Spawn(d, g, t, "download")
    /\ cancels' = [cancels EXCEPT ![d] = t]

ReadFileStream(d, g, t) ==
    /\ Spawn(d, g, t, "read")
    /\ UNCHANGED cancels

\* The path is refused, or is no file.
TaskRefused(t) ==
    /\ tasks[t].pc = "spawned"
    /\ tasks' = [tasks EXCEPT ![t] = Over("failed")]
    /\ UNCHANGED <<cancels, fileVars>> /\ Aside

Least(a, b) == IF a < b THEN a ELSE b

\* What a read of limit bytes from offset promises of a file of n bytes.
WillRead(offset, limit, n) ==
    LET end == Least(offset + limit, n) IN IF end > offset THEN end - offset ELSE 0

Start(t, offset, n) ==
    /\ tasks[t].pc = "spawned"
    /\ \E pc \in Sending(t) :
          tasks' = [tasks EXCEPT ![t] =
             IF pc = "stopped" THEN Over(pc)
             ELSE [@ EXCEPT !.pc = pc, !.off = offset, !.want = n, !.cuts = cuts]]
    /\ UNCHANGED <<cancels, fileVars>> /\ Aside

DownloadStarts(t) == tasks[t].kind = "download" /\ Start(t, 0, size)

ReadStarts(t) ==
    /\ tasks[t].kind = "read"
    /\ \E offset \in 0 .. MaxSize, limit \in 0 .. MaxRead :
          Start(t, offset, WillRead(offset, limit, size))

\* The end of the file, or of what a read promised.
AtEnd(t) ==
    \/ tasks[t].off + tasks[t].pos >= size
    \/ tasks[t].kind = "read" /\ tasks[t].pos >= tasks[t].want

SendsChunk(t) ==
    /\ tasks[t].pc = "started" /\ ~tasks[t].cancelled /\ ~AtEnd(t)
    /\ \E pc \in Sending(t) :
          tasks' = [tasks EXCEPT ![t] =
             IF pc = "stopped" THEN Over(pc)
             ELSE [@ EXCEPT !.pc = pc, !.pos = tasks[t].pos + IF pc = "started" THEN 1 ELSE 0]]
    /\ UNCHANGED <<cancels, fileVars>> /\ Aside

StreamEnds(t) ==
    /\ tasks[t].pc = "started" /\ ~tasks[t].cancelled /\ AtEnd(t)
    /\ tasks' = [tasks EXCEPT ![t].pc = "ended"]
    /\ UNCHANGED <<cancels, fileVars>> /\ Aside

ReadFails(t) ==
    /\ tasks[t].pc = "started" /\ ~tasks[t].cancelled
    /\ tasks' = [tasks EXCEPT ![t] = Over("failed")]
    /\ UNCHANGED <<cancels, fileVars>> /\ Aside

StreamCancelled(t) ==
    /\ tasks[t].pc = "started" /\ tasks[t].cancelled
    /\ tasks' = [tasks EXCEPT ![t] = Over("stopped")]
    /\ UNCHANGED <<cancels, fileVars>> /\ Aside

\* Mutant: a send is given up only when the channel is closed.
SendNeverTimesOut(t) ==
    /\ tasks[t].pc = "blocked"
    /\ link[tasks[t].dev][tasks[t].gen] \in {"closed", "gone"}
    /\ tasks' = [tasks EXCEPT ![t] = Over("stopped")]
    /\ UNCHANGED <<cancels, fileVars>> /\ Aside

\* DOWNLOAD_SEND_TIMEOUT
SendTimesOut(t) ==
    /\ tasks[t].pc = "blocked"
    /\ tasks' = [tasks EXCEPT ![t] = Over("stopped")]
    /\ UNCHANGED <<cancels, fileVars>> /\ Aside

TaskStep(t) ==
    \/ TaskRefused(t) \/ DownloadStarts(t) \/ ReadStarts(t) \/ SendsChunk(t)
    \/ StreamEnds(t) \/ ReadFails(t) \/ StreamCancelled(t) \/ SendTimesOut(t)

\* Other programs write the file.
Grows ==
    /\ uses \cap {"download", "read"} # {} /\ size < MaxSize
    /\ size' = size + 1
    /\ UNCHANGED <<cuts, streamVars>> /\ Aside

Truncated ==
    /\ uses \cap {"download", "read"} # {} /\ cuts = 0
    /\ size' = 0 /\ cuts' = 1
    /\ UNCHANGED streamVars /\ Aside

-----------------------------------------------------------------------------
(* Watchers                                                                *)

Reaped == [k \in UploadKeys |-> IF watchers[k] \in running THEN watchers[k] ELSE 0]

Apart == UNCHANGED <<uses, link, uploadVars, streamVars, fileVars>>

WatchFile(d, g, r) ==
    /\ From(d, g, "watch")
    /\ \E w \in TaskIds \ running :
          /\ \A v \in TaskIds \ running : w <= v
          /\ watchers' = [Reaped EXCEPT ![<<d, r>>] = w]
          /\ running' = (running \ {Reaped[<<d, r>>]}) \cup {w}
    /\ Apart

\* No subscription id, or a path that is refused.
WatchRefused(d, g) ==
    /\ From(d, g, "watch")
    /\ watchers' = Reaped
    /\ UNCHANGED running /\ Apart

UnwatchFile(d, g, r) ==
    /\ From(d, g, "watch")
    /\ running' = running \ {watchers[<<d, r>>]}
    /\ watchers' = [watchers EXCEPT ![<<d, r>>] = 0]
    /\ Apart

\* Nothing appended for idle_ms, or the channel does not take a frame.
WatcherStops(w) ==
    /\ w \in running
    /\ running' = running \ {w}
    /\ UNCHANGED watchers /\ Apart

-----------------------------------------------------------------------------
(* FilesChannelClosed and restarts                                         *)

\* Mutant: the uploads are left to their expiry.
FilesChannelClosedHalf(d, g) ==
    /\ link[d][g] = "closed"
    /\ link' = [link EXCEPT ![d][g] = "gone"]
    /\ tasks' = [t \in TaskIds |->
                   IF t = cancels[d] THEN [tasks[t] EXCEPT !.cancelled = TRUE] ELSE tasks[t]]
    /\ cancels' = [cancels EXCEPT ![d] = 0]
    /\ running' = running \ {watchers[<<d, r>>] : r \in Requests}
    /\ watchers' = [k \in UploadKeys |-> IF k[1] = d THEN 0 ELSE watchers[k]]
    /\ UNCHANGED <<uses, uploadVars, fileVars>>

FilesChannelClosed(d, g) ==
    /\ link[d][g] = "closed"
    /\ link' = [link EXCEPT ![d][g] = "gone"]
    /\ tasks' = [t \in TaskIds |->
                   IF t = cancels[d] THEN [tasks[t] EXCEPT !.cancelled = TRUE] ELSE tasks[t]]
    /\ cancels' = [cancels EXCEPT ![d] = 0]
    /\ running' = running \ {watchers[<<d, r>>] : r \in Requests}
    /\ watchers' = [k \in UploadKeys |-> IF k[1] = d THEN 0 ELSE watchers[k]]
    /\ Discard(Active(d))
    /\ UNCHANGED <<uses, dest, sent, forgotten, fileVars>>

\* The maps and tasks are lost, what is on disk stays.
Restarts ==
    /\ \E d \in FileDevices : link[d][1] \notin {"unused", "gone"}
    /\ link' = [d \in FileDevices |-> [g \in Gens |->
                   IF link[d][g] = "unused" THEN "unused" ELSE "gone"]]
    /\ forgotten' = forgotten \cup ({uploads[k].tmp : k \in UploadKeys} \ {0})
    /\ uploads' = [k \in UploadKeys |-> NoUpload]
    /\ tasks' = [t \in TaskIds |->
                   IF tasks[t].pc \in Running THEN Over("stopped") ELSE tasks[t]]
    /\ cancels' = [d \in FileDevices |-> 0]
    /\ watchers' = [k \in UploadKeys |-> 0] /\ running' = {}
    /\ UNCHANGED <<uses, tmp, dest, sent, fileVars>>

Next ==
    \/ \E d \in FileDevices, g \in Gens :
          \/ Opens(d, g) \/ FallsSilent(d, g) \/ Closes(d, g) \/ FilesChannelClosed(d, g)
          \/ WatchRefused(d, g)
          \/ \E t \in TaskIds : DownloadStream(d, g, t) \/ ReadFileStream(d, g, t)
          \/ \E r \in Requests :
                \/ \E n \in 0 .. MaxUpload + 1 : UploadStart(d, g, r, n)
                \/ ChunkTooLarge(d, g, r) \/ ChunkExceeds(d, g, r) \/ ChunkWriteFails(d, g, r)
                \/ ChunkWritten(d, g, r) \/ ChunkUnknown(d, g, r)
                \/ UploadEnd(d, g, r) \/ UploadEndFails(d, g, r) \/ UploadCancel(d, g, r)
                \/ WatchFile(d, g, r) \/ UnwatchFile(d, g, r)
    \/ \E k \in UploadKeys : UploadExpires(k)
    \/ \E t \in TaskIds : TaskStep(t) \/ WatcherStops(t)
    \/ Grows \/ Truncated \/ Restarts

\* The executor runs every spawned task on.
Fairness == \A t \in TaskIds : WF_vars(TaskStep(t))

Spec == Init /\ [][Next]_vars /\ Fairness

-----------------------------------------------------------------------------
(* Properties                                                              *)

\* A file that upload_end put in place holds every chunk that was sent since
\* the upload_start of its key, in order: a chunk that is refused, an expiry
\* or a close in between ends the upload (daemon.rs 1812-1927).
UploadWhole == dest.content = [i \in 1 .. dest.of |-> i]

\* Every error path of an upload deletes its temporary file: one on disk that
\* no entry names was replaced by an upload_start under the same key, or the
\* host went down (daemon.rs 1197-1206, 1627-1642, 1824-1945).
TempFilesOwned ==
    \A t \in Tmps \ forgotten :
        tmp[t] # NoFile => \E k \in UploadKeys : uploads[k].tmp = t

\* Uploads arrive whole or not at all, and leave nothing behind
\* (daemon.rs 1763-1945).
UploadsSound == UploadWhole /\ TempFilesOwned

\* Once the close of every channel of a device was handled, nothing of it
\* remains: no upload, no watcher, no cancel handle (daemon.rs 1608-1643).
ClosedLeavesNothing ==
    \A d \in FileDevices :
        (\A g \in Gens : link[d][g] \in {"unused", "gone"}) =>
            /\ Active(d) = {} /\ cancels[d] = 0
            /\ \A r \in Requests : watchers[<<d, r>>] = 0

\* A watcher that runs is the one that files_watchers names for its
\* subscription, so that unwatch_file and a close end it (daemon.rs 2263-2413).
WatchersTracked ==
    \A w \in running : Cardinality({k \in UploadKeys : watchers[k] = w}) = 1

\* A stream that ends with its end frame has sent what its start frame
\* promised, unless the file was truncated meanwhile; a read sends no more
\* than that (daemon.rs 2074-2127, 2182-2259).
StreamComplete ==
    \A t \in TaskIds :
        /\ tasks[t].pc = "ended" /\ tasks[t].cuts = cuts =>
              tasks[t].pos >= tasks[t].want
        /\ tasks[t].kind = "read" => tasks[t].pos <= tasks[t].want

\* What the maps of the daemon say of streams and watchers is so: nothing runs
\* that they do not name, nothing outlives its channels, and an end frame is
\* kept (daemon.rs 1608-1643, 2074-2413).
ChannelSound == TypeOK /\ ClosedLeavesNothing /\ WatchersTracked /\ StreamComplete

\* Every stream ends, also one whose handle was replaced and whose device no
\* longer takes frames (daemon.rs 1974-1976, 2103-2116; daemon/files.rs 244-257).
StreamsEnd == \A t \in TaskIds : tasks[t].pc \in Running ~> tasks[t].pc \notin Running

=============================================================================
