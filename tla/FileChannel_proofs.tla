------------------------- MODULE FileChannel_proofs -------------------------
(***************************************************************************)
(* Proofs about FileChannel, for any number of devices, requests, channels *)
(* and tasks, and with uploads, streams and watchers at the same time.     *)
(***************************************************************************)
EXTENDS FileChannel, FiniteSetTheorems, SequenceTheorems, TLAPS

\* The first n chunks of an upload, in order.
Chunks(n) == [i \in 1 .. n |-> i]

UploadRecords == [tmp : Tmps \cup {0}, size : 0 .. MaxUpload, written : 0 .. MaxUpload]

\* What the upload actions keep of the types.
UploadTypes ==
    /\ uploads \in [UploadKeys -> UploadRecords]
    /\ tmp \in [Tmps -> Seq(0 .. MaxSent)]
    /\ sent \in [UploadKeys -> 0 .. MaxSent]
    /\ forgotten \subseteq Tmps
    /\ dest.of \in 0 .. MaxSent /\ dest.content \in Seq(1 .. MaxSent)

\* An upload under way has a temporary file of its own, that holds what was sent.
Uploading ==
    /\ \A k \in UploadKeys :
          /\ uploads[k].tmp = 0 <=> uploads[k] = NoUpload
          /\ uploads[k].tmp # 0 => tmp[uploads[k].tmp] = Chunks(sent[k])
    /\ \A k, l \in UploadKeys :
          (uploads[k].tmp # 0 /\ uploads[k].tmp = uploads[l].tmp) => k = l

UploadInv == UploadTypes /\ Uploading /\ UploadWhole /\ TempFilesOwned

\* A stream, with what it promised.
TaskRecords ==
    [kind : {"none", "download", "read"}, dev : FileDevices \cup {"none"}, gen : Gens \cup {0},
     pc : TaskStates, off : 0 .. MaxSize, want : 0 .. MaxSize, pos : 0 .. MaxSize, cuts : 0 .. 1,
     cancelled : BOOLEAN]

\* What was promised is in the file, unless it was truncated; nothing is sent
\* before the start, and a read sends no more than it promised.
Streaming(t) ==
    /\ tasks[t].pc = "spawned" => tasks[t].pos = 0 /\ tasks[t].want = 0
    /\ tasks[t].cuts <= cuts
    /\ (tasks[t].pc \in {"started", "blocked"} /\ tasks[t].cuts = cuts) =>
           tasks[t].want = 0 \/ tasks[t].off + tasks[t].want <= size
    /\ (tasks[t].pc = "ended" /\ tasks[t].cuts = cuts) => tasks[t].pos >= tasks[t].want
    /\ tasks[t].kind = "read" => tasks[t].pos <= tasks[t].want

StreamInv ==
    /\ tasks \in [TaskIds -> TaskRecords]
    /\ size \in 0 .. MaxSize /\ cuts \in 0 .. 1
    /\ \A t \in TaskIds : Streaming(t)

\* A watcher that runs has one entry.
WatchInv ==
    /\ watchers \in [UploadKeys -> TaskIds \cup {0}] /\ running \subseteq TaskIds
    /\ \A w \in running : \E k \in UploadKeys :
          watchers[k] = w /\ \A l \in UploadKeys : watchers[l] = w => l = k

\* The channels and the handles kept for them.
LinkInv ==
    /\ uses \in Workloads /\ link \in [FileDevices -> [Gens -> LinkStates]]
    /\ cancels \in [FileDevices -> TaskIds \cup {0}]
    /\ ClosedLeavesNothing

\* The inductive invariant.
FileInv == UploadInv /\ StreamInv /\ WatchInv /\ LinkInv

-----------------------------------------------------------------------------
(* Uploads                                                                 *)

\* One more chunk, appended.
LEMMA ChunksGrow ==
  ASSUME NEW n \in Nat
  PROVE  /\ \A m \in Nat : n <= m => Chunks(n) \in Seq(0 .. m) /\ Chunks(n) \in Seq(1 .. m)
         /\ Append(Chunks(n), n + 1) = Chunks(n + 1)
         /\ Chunks(n) # NoFile
<1>1. ASSUME NEW m \in Nat, n <= m
      PROVE  Chunks(n) \in Seq(0 .. m) /\ Chunks(n) \in Seq(1 .. m)
  <2>1. Chunks(n) \in [1 .. n -> 0 .. m] /\ Chunks(n) \in [1 .. n -> 1 .. m]
    BY <1>1 DEF Chunks
  <2> QED
    BY <2>1, SeqDef
<1>2. Chunks(n) \in Seq(Nat)
  <2>1. Chunks(n) \in [1 .. n -> Nat]
    BY DEF Chunks
  <2> QED
    BY <2>1, SeqDef
<1>3. Len(Chunks(n)) = n
  BY <1>2 DEF Chunks
<1>4. Append(Chunks(n), n + 1) = Chunks(n + 1)
  <2> DEFINE q == Append(Chunks(n), n + 1)
  <2>1. q \in Seq(Nat) /\ Len(q) = n + 1
        /\ (\A i \in 1 .. n : q[i] = Chunks(n)[i]) /\ q[n + 1] = n + 1
    BY <1>2, <1>3, AppendProperties
  <2> HIDE DEF q
  <2>2. \A i \in 1 .. n + 1 : q[i] = i
    BY <2>1 DEF Chunks
  <2>3. q = [i \in 1 .. n + 1 |-> q[i]]
    BY <2>1
  <2> QED
    BY <2>2, <2>3 DEF Chunks, q
<1>5. Chunks(n) # NoFile
  <2>1. CASE n = 0
    BY <2>1, <1>3 DEF NoFile
  <2>2. CASE n # 0
    <3>1. Chunks(n)[1] = 1
      BY <2>2 DEF Chunks
    <3> QED
      BY <3>1 DEF NoFile
  <2> QED
    BY <2>1, <2>2
<1> QED
  BY <1>1, <1>4, <1>5

\* What the types say of the entry of an upload.
LEMMA UploadFacts ==
  ASSUME UploadInv, NEW k \in UploadKeys
  PROVE  /\ uploads[k] \in UploadRecords /\ uploads[k].tmp \in Tmps \cup {0}
         /\ uploads[k].size \in 0 .. MaxUpload /\ uploads[k].written \in 0 .. MaxUpload
         /\ sent[k] \in 0 .. MaxSent /\ sent[k] \in Nat
         /\ NoUpload \in UploadRecords /\ NoUpload.tmp = 0
         /\ NoFile \in Seq(0 .. MaxSent) /\ 0 \notin Tmps
<1>1. uploads[k] \in UploadRecords /\ sent[k] \in 0 .. MaxSent
  BY DEF UploadInv, UploadTypes
<1>2. uploads[k].tmp \in Tmps \cup {0} /\ uploads[k].size \in 0 .. MaxUpload /\ uploads[k].written \in 0 .. MaxUpload
  BY <1>1 DEF UploadRecords
<1>3. NoUpload \in UploadRecords /\ NoUpload.tmp = 0
  BY FileChannelAssumption DEF NoUpload, UploadRecords
<1>4. NoFile \in Seq(0 .. MaxSent)
  BY FileChannelAssumption DEF NoFile
<1> QED
  BY <1>1, <1>2, <1>3, <1>4, FileChannelAssumption DEF Tmps

\* Uploads that end, in whichever way: the others keep their files.
LEMMA DiscardKeeps ==
  ASSUME UploadInv, NEW ks \in SUBSET UploadKeys, Discard(ks), UNCHANGED forgotten,
         sent' \in [UploadKeys -> 0 .. MaxSent],
         \A k \in UploadKeys \ ks : sent'[k] = sent[k],
         UploadWhole', dest'.of \in 0 .. MaxSent, dest'.content \in Seq(1 .. MaxSent)
  PROVE  UploadInv'
<1>0. UploadTypes /\ Uploading /\ TempFilesOwned
  BY DEF UploadInv
<1>1. \A k \in UploadKeys : uploads[k].tmp \in Tmps \cup {0} /\ NoUpload \in UploadRecords
          /\ NoUpload.tmp = 0 /\ NoFile \in Seq(0 .. MaxSent) /\ 0 \notin Tmps
  BY UploadFacts
<1>2. /\ \A k \in ks : uploads'[k] = NoUpload
      /\ \A k \in UploadKeys \ ks : uploads'[k] = uploads[k]
      /\ \A t \in Tmps : (\A k \in ks : uploads[k].tmp # t) => tmp'[t] = tmp[t]
      /\ \A t \in Tmps : (\E k \in ks : uploads[k].tmp = t) => tmp'[t] = NoFile
  BY DEF Discard
<1>3. UploadTypes'
  <2>1. uploads' \in [UploadKeys -> UploadRecords]
    BY <1>0, <1>1 DEF Discard, UploadTypes
  <2>2. tmp' \in [Tmps -> Seq(0 .. MaxSent)]
    <3>1. CASE UploadKeys = {}
      BY <1>0, <3>1 DEF Discard, UploadTypes
    <3>2. CASE UploadKeys # {}
      BY <1>0, <1>1, <3>2 DEF Discard, UploadTypes
    <3> QED
      BY <3>1, <3>2
  <2> QED
    BY <1>0, <2>1, <2>2 DEF UploadTypes, UploadRecords, Tmps
<1>4. Uploading'
  <2>1. ASSUME NEW k \in UploadKeys
        PROVE  /\ uploads'[k].tmp = 0 <=> uploads'[k] = NoUpload
               /\ uploads'[k].tmp # 0 => tmp'[uploads'[k].tmp] = Chunks(sent'[k])
    <3>1. CASE k \in ks
      BY <1>1, <1>2, <3>1
    <3>2. CASE k \notin ks
      <4>1. uploads'[k] = uploads[k] /\ sent'[k] = sent[k]
        BY <1>2, <3>2
      <4>2. uploads[k].tmp # 0 => tmp'[uploads[k].tmp] = tmp[uploads[k].tmp]
        BY <1>0, <1>1, <1>2, <3>2 DEF Uploading
      <4> QED
        BY <1>0, <4>1, <4>2 DEF Uploading
    <3> QED
      BY <3>1, <3>2
  <2>2. ASSUME NEW k \in UploadKeys, NEW l \in UploadKeys,
               uploads'[k].tmp # 0, uploads'[k].tmp = uploads'[l].tmp
        PROVE  k = l
    <3>1. k \notin ks /\ l \notin ks
      BY <1>1, <1>2, <2>2
    <3> QED
      BY <1>0, <1>2, <2>2, <3>1 DEF Uploading
  <2> QED
    BY <2>1, <2>2 DEF Uploading, Chunks, UploadKeys
<1>5. TempFilesOwned'
  <2> SUFFICES ASSUME NEW t \in Tmps \ forgotten, tmp'[t] # NoFile
               PROVE  \E k \in UploadKeys : uploads'[k].tmp = t
    BY DEF TempFilesOwned, Tmps
  <2>1. tmp[t] # NoFile /\ \A k \in ks : uploads[k].tmp # t
    BY <1>2
  <2>2. PICK k \in UploadKeys : uploads[k].tmp = t
    BY <1>0, <2>1 DEF TempFilesOwned
  <2> QED
    BY <1>2, <2>1, <2>2
<1> QED
  BY <1>3, <1>4, <1>5 DEF UploadInv

\* A new upload, also one that takes the key of another.
LEMMA UploadStartStep ==
  ASSUME UploadInv, NEW d \in FileDevices, NEW g \in Gens, NEW r \in Requests, NEW n \in Nat,
         UploadStart(d, g, r, n)
  PROVE  UploadInv'
<1> DEFINE k0 == <<d, r>>
<1>0. UploadTypes /\ Uploading /\ UploadWhole /\ TempFilesOwned
  BY DEF UploadInv
<1>1. k0 \in UploadKeys
  BY DEF UploadKeys
<1>2. PICK t \in FreeTmp :
          /\ uploads' = [uploads EXCEPT ![k0] = [tmp |-> t, size |-> n, written |-> 0]]
          /\ tmp' = [tmp EXCEPT ![t] = <<>>]
          /\ forgotten' = forgotten \cup ({uploads[k0].tmp} \ {0})
  BY DEF UploadStart
<1>3. t \in Tmps /\ tmp[t] = NoFile
  BY DEF FreeTmp
<1> DEFINE u == [tmp |-> t, size |-> n, written |-> 0]
<1>4. u \in UploadRecords /\ u.tmp = t /\ t # 0
  <2>1. n \in 0 .. MaxUpload /\ 0 \in 0 .. MaxUpload
    BY FileChannelAssumption DEF UploadStart
  <2> QED
    BY <1>3, <2>1, FileChannelAssumption DEF UploadRecords, Tmps
<1>5. sent' = [sent EXCEPT ![k0] = 0] /\ dest' = dest
  BY DEF UploadStart
<1>6. uploads' = [uploads EXCEPT ![k0] = u]
  BY <1>2
<1>7. \A k \in UploadKeys : /\ uploads[k].tmp \in Tmps \cup {0} /\ uploads[k] \in UploadRecords
                            /\ sent[k] \in Nat /\ NoUpload.tmp = 0
  BY UploadFacts
<1> HIDE DEF u, k0
<1>8. /\ uploads'[k0] = u /\ \A k \in UploadKeys : k # k0 => uploads'[k] = uploads[k] /\ sent'[k] = sent[k]
      /\ sent'[k0] = 0 /\ tmp'[t] = <<>> /\ \A s \in Tmps : s # t => tmp'[s] = tmp[s]
  BY <1>0, <1>1, <1>2, <1>3, <1>5, <1>6 DEF UploadTypes
<1>9. UploadTypes'
  <2>1. uploads' \in [UploadKeys -> UploadRecords] /\ sent' \in [UploadKeys -> 0 .. MaxSent]
    BY <1>0, <1>1, <1>4, <1>5, <1>6, FileChannelAssumption DEF UploadTypes
  <2>2. tmp' \in [Tmps -> Seq(0 .. MaxSent)]
    BY <1>0, <1>2, <1>3 DEF UploadTypes
  <2>3. forgotten' \subseteq Tmps
    BY <1>0, <1>1, <1>2, <1>7 DEF UploadTypes
  <2> QED
    BY <1>0, <1>5, <2>1, <2>2, <2>3 DEF UploadTypes, UploadRecords, Tmps
<1>10. \A k \in UploadKeys : uploads[k].tmp # t
  <2> SUFFICES ASSUME NEW k \in UploadKeys, uploads[k].tmp = t PROVE FALSE
    OBVIOUS
  <2>1. tmp[t] = Chunks(sent[k]) /\ sent[k] \in Nat
    BY <1>0, <1>4, <1>7 DEF Uploading
  <2> QED
    BY <1>3, <2>1, ChunksGrow
<1>11. Uploading'
  <2>1. ASSUME NEW k \in UploadKeys
        PROVE  /\ uploads'[k].tmp = 0 <=> uploads'[k] = NoUpload
               /\ uploads'[k].tmp # 0 => tmp'[uploads'[k].tmp] = Chunks(sent'[k])
    <3>1. CASE k = k0
      <4>1. Chunks(0) = <<>>
        BY DEF Chunks
      <4> QED
        BY <1>4, <1>7, <1>8, <3>1, <4>1
    <3>2. CASE k # k0
      BY <1>0, <1>7, <1>8, <1>10, <3>2 DEF Uploading
    <3> QED
      BY <3>1, <3>2
  <2>2. ASSUME NEW k \in UploadKeys, NEW l \in UploadKeys,
               uploads'[k].tmp # 0, uploads'[k].tmp = uploads'[l].tmp
        PROVE  k = l
    BY <1>0, <1>4, <1>8, <1>10, <2>2 DEF Uploading
  <2> QED
    BY <2>1, <2>2 DEF Uploading, Chunks, UploadKeys
<1>12. TempFilesOwned'
  <2> SUFFICES ASSUME NEW s \in Tmps \ forgotten', tmp'[s] # NoFile
               PROVE  \E k \in UploadKeys : uploads'[k].tmp = s
    BY DEF TempFilesOwned, Tmps
  <2>1. CASE s = t
    BY <1>1, <1>4, <1>8, <2>1
  <2>2. CASE s # t
    <3>1. PICK k \in UploadKeys : uploads[k].tmp = s
      BY <1>0, <1>2, <1>8, <2>2 DEF TempFilesOwned
    <3>2. k # k0
      BY <1>2, <3>1, FileChannelAssumption DEF Tmps
    <3> QED
      BY <1>8, <3>1, <3>2
  <2> QED
    BY <2>1, <2>2
<1>13. UploadWhole'
  BY <1>0, <1>5 DEF UploadWhole
<1> QED
  BY <1>9, <1>11, <1>12, <1>13 DEF UploadInv

\* A chunk is appended.
LEMMA ChunkWrittenStep ==
  ASSUME UploadInv, NEW d \in FileDevices, NEW g \in Gens, NEW r \in Requests, ChunkWritten(d, g, r)
  PROVE  UploadInv'
<1> DEFINE k0 == <<d, r>>
           t == uploads[k0].tmp
           n == sent[k0]
<1>0. UploadTypes /\ Uploading /\ UploadWhole /\ TempFilesOwned
  BY DEF UploadInv
<1>1. k0 \in UploadKeys
  BY DEF UploadKeys
<1>2. /\ uploads[k0] \in UploadRecords /\ uploads[k0] # NoUpload /\ n \in 0 .. MaxSent
      /\ uploads[k0].written \in 0 .. MaxUpload
  BY <1>1, UploadFacts DEF ChunkWritten
<1>3. t \in Tmps /\ t # 0 /\ tmp[t] = Chunks(n)
  BY <1>0, <1>1, <1>2, UploadFacts DEF Uploading
<1> DEFINE u == [uploads[k0] EXCEPT !.written = uploads[k0].written + 1]
<1>4. uploads' = [uploads EXCEPT ![k0] = u]
  BY <1>0, <1>1 DEF ChunkWritten, UploadTypes
<1>5. u \in UploadRecords /\ u.tmp = t
  <2>1. uploads[k0].written + 1 \in 0 .. MaxUpload
    BY <1>2, FileChannelAssumption DEF ChunkWritten
  <2> QED
    BY <1>2, <2>1 DEF UploadRecords
<1>6. tmp' = [tmp EXCEPT ![t] = Append(tmp[t], n + 1)]
  BY <1>0, <1>3 DEF ChunkWritten, UploadTypes
<1>7. /\ sent' = [sent EXCEPT ![k0] = n + 1] /\ n + 1 \in 0 .. MaxSent /\ n \in Nat
      /\ UNCHANGED <<dest, forgotten>>
  BY <1>0, <1>1, <1>2, FileChannelAssumption DEF ChunkWritten, Counted, UploadTypes
<1>8. Append(tmp[t], n + 1) = Chunks(n + 1) /\ Chunks(n + 1) \in Seq(0 .. MaxSent)
  <2>1. n + 1 \in Nat /\ n + 1 <= MaxSent
    BY <1>7, FileChannelAssumption
  <2> QED
    BY <1>3, <1>7, <2>1, ChunksGrow, FileChannelAssumption
<1> DEFINE m == n + 1
<1>9. /\ tmp' = [tmp EXCEPT ![t] = Chunks(m)] /\ sent' = [sent EXCEPT ![k0] = m]
      /\ m \in 0 .. MaxSent /\ Chunks(m) \in Seq(0 .. MaxSent)
  BY <1>6, <1>7, <1>8
<1> HIDE DEF u, t, m, k0
<1>10. UploadTypes'
  <2>1. uploads' \in [UploadKeys -> UploadRecords] /\ sent' \in [UploadKeys -> 0 .. MaxSent]
        /\ tmp' \in [Tmps -> Seq(0 .. MaxSent)]
    BY <1>0, <1>1, <1>3, <1>4, <1>5, <1>9 DEF UploadTypes
  <2> QED
    BY <1>0, <1>7, <2>1 DEF UploadTypes, UploadRecords, Tmps
<1>11. /\ uploads'[k0] = u /\ \A k \in UploadKeys : k # k0 => uploads'[k] = uploads[k] /\ sent'[k] = sent[k]
       /\ sent'[k0] = m /\ tmp'[t] = Chunks(m) /\ \A s \in Tmps : s # t => tmp'[s] = tmp[s]
  BY <1>0, <1>1, <1>3, <1>4, <1>9 DEF UploadTypes
<1>12. \A k \in UploadKeys : uploads'[k].tmp = uploads[k].tmp
  BY <1>5, <1>11 DEF t
<1>13. \A k \in UploadKeys : uploads[k].tmp \in Tmps \cup {0} /\ NoUpload.tmp = 0
  BY UploadFacts
<1>14. Uploading'
  <2>1. ASSUME NEW k \in UploadKeys
        PROVE  /\ uploads'[k].tmp = 0 <=> uploads'[k] = NoUpload
               /\ uploads'[k].tmp # 0 => tmp'[uploads'[k].tmp] = Chunks(sent'[k])
    <3>1. CASE k = k0
      BY <1>3, <1>5, <1>11, <1>13, <3>1
    <3>2. CASE k # k0
      <4>1. uploads[k].tmp = t => uploads[k].tmp = 0
        BY <1>0, <1>1, <1>3, <3>2 DEF Uploading, t
      <4> QED
        BY <1>0, <1>3, <1>11, <1>13, <3>2, <4>1 DEF Uploading
    <3> QED
      BY <3>1, <3>2
  <2>2. ASSUME NEW k \in UploadKeys, NEW l \in UploadKeys,
               uploads'[k].tmp # 0, uploads'[k].tmp = uploads'[l].tmp
        PROVE  k = l
    BY <1>0, <1>12, <2>2 DEF Uploading
  <2> QED
    BY <2>1, <2>2 DEF Uploading, Chunks, UploadKeys
<1>15. TempFilesOwned'
  <2> SUFFICES ASSUME NEW s \in Tmps \ forgotten, tmp'[s] # NoFile
               PROVE  \E k \in UploadKeys : uploads'[k].tmp = s
    BY <1>7 DEF TempFilesOwned, Tmps
  <2>1. CASE s = t
    BY <1>1, <1>5, <1>11, <2>1
  <2>2. CASE s # t
    BY <1>0, <1>11, <1>12, <2>2 DEF TempFilesOwned
  <2> QED
    BY <2>1, <2>2
<1>16. UploadWhole'
  BY <1>0, <1>7 DEF UploadWhole
<1> QED
  BY <1>10, <1>14, <1>15, <1>16 DEF UploadInv

\* Every way in which an upload ends: at its end, on an error, by its expiry, by
\* a cancel and with its channel.
LEMMA UploadEndsStep ==
  ASSUME UploadInv,
         \/ \E d \in FileDevices, g \in Gens, r \in Requests :
               \/ ChunkTooLarge(d, g, r) \/ ChunkExceeds(d, g, r) \/ ChunkWriteFails(d, g, r)
               \/ UploadEnd(d, g, r) \/ UploadEndFails(d, g, r) \/ UploadCancel(d, g, r)
         \/ \E k \in UploadKeys : UploadExpires(k)
         \/ \E d \in FileDevices, g \in Gens : FilesChannelClosed(d, g)
  PROVE  UploadInv'
<1>0. UploadTypes /\ Uploading /\ UploadWhole
  BY DEF UploadInv
<1>1. ASSUME NEW ks \in SUBSET UploadKeys, Discard(ks), UNCHANGED <<dest, sent, forgotten>>
      PROVE  UploadInv'
  <2>1. UploadWhole'
    BY <1>0, <1>1 DEF UploadWhole
  <2> QED
    BY <1>0, <1>1, <2>1, DiscardKeeps DEF UploadTypes
<1>2. ASSUME NEW d \in FileDevices, NEW r \in Requests, Discard({<<d, r>>}), Counted(d, r)
      PROVE  UploadInv'
  <2> DEFINE k0 == <<d, r>>
  <2>1. k0 \in UploadKeys
    BY DEF UploadKeys
  <2>2. sent[k0] + 1 \in 0 .. MaxSent
    BY <1>2, <2>1, UploadFacts, FileChannelAssumption DEF Counted
  <2>3. sent' = [sent EXCEPT ![k0] = sent[k0] + 1] /\ UNCHANGED <<dest, forgotten>>
    BY <1>0, <1>2, <2>1 DEF Counted, UploadTypes
  <2> HIDE DEF k0
  <2>4. sent' \in [UploadKeys -> 0 .. MaxSent] /\ \A k \in UploadKeys \ {k0} : sent'[k] = sent[k]
    BY <1>0, <2>1, <2>2, <2>3 DEF UploadTypes
  <2>5. UploadWhole'
    BY <1>0, <2>3 DEF UploadWhole
  <2> QED
    BY <1>0, <1>2, <2>1, <2>3, <2>4, <2>5, DiscardKeeps DEF UploadTypes, k0
<1>3. ASSUME NEW d \in FileDevices, NEW g \in Gens, NEW r \in Requests, UploadEnd(d, g, r)
      PROVE  UploadInv'
  <2> DEFINE k0 == <<d, r>>
  <2>1. k0 \in UploadKeys
    BY DEF UploadKeys
  <2>2. /\ Discard({k0}) /\ UNCHANGED <<sent, forgotten>> /\ uploads[k0] # NoUpload
        /\ dest' = [content |-> tmp[uploads[k0].tmp], of |-> sent[k0]]
    BY <1>3 DEF UploadEnd
  <2>3. tmp[uploads[k0].tmp] = Chunks(sent[k0]) /\ sent[k0] \in Nat /\ sent[k0] \in 0 .. MaxSent
    BY <1>0, <2>1, <2>2, UploadFacts DEF Uploading
  <2> HIDE DEF k0
  <2>4. dest'.content = Chunks(sent[k0]) /\ dest'.of = sent[k0]
    BY <2>2, <2>3
  <2>5. dest'.of \in 0 .. MaxSent /\ dest'.content \in Seq(1 .. MaxSent)
    <3>1. sent[k0] <= MaxSent /\ MaxSent \in Nat
      BY <2>3, FileChannelAssumption
    <3>2. Chunks(sent[k0]) \in Seq(1 .. MaxSent)
      BY <2>3, <3>1, ChunksGrow
    <3> QED
      BY <2>3, <2>4, <3>2
  <2>6. UploadWhole'
    BY <2>4 DEF UploadWhole, Chunks
  <2> QED
    BY <1>0, <2>1, <2>2, <2>5, <2>6, DiscardKeeps DEF UploadTypes
<1>4. ASSUME NEW d \in FileDevices, NEW g \in Gens, NEW r \in Requests,
             ChunkTooLarge(d, g, r) \/ ChunkExceeds(d, g, r) \/ ChunkWriteFails(d, g, r)
      PROVE  UploadInv'
  BY <1>2, <1>4 DEF ChunkTooLarge, ChunkExceeds, ChunkWriteFails
<1>5. ASSUME NEW d \in FileDevices, NEW g \in Gens, NEW r \in Requests,
             UploadEndFails(d, g, r) \/ UploadCancel(d, g, r)
      PROVE  UploadInv'
  <2>1. {<<d, r>>} \in SUBSET UploadKeys
    BY DEF UploadKeys
  <2> QED
    BY <1>1, <1>5, <2>1 DEF UploadEndFails, UploadCancel
<1>6. ASSUME NEW k \in UploadKeys, UploadExpires(k) PROVE UploadInv'
  BY <1>1, <1>6 DEF UploadExpires
<1>7. ASSUME NEW d \in FileDevices, NEW g \in Gens, FilesChannelClosed(d, g) PROVE UploadInv'
  BY <1>1, <1>7 DEF FilesChannelClosed, Active
<1> QED
  BY <1>3, <1>4, <1>5, <1>6, <1>7

\* A restart loses the entries, and leaves their files.
LEMMA UploadRestartStep ==
  ASSUME UploadInv, Restarts
  PROVE  UploadInv'
<1>0. UploadTypes /\ Uploading /\ UploadWhole /\ TempFilesOwned
  BY DEF UploadInv
<1>1. /\ forgotten' = forgotten \cup ({uploads[k].tmp : k \in UploadKeys} \ {0})
      /\ uploads' = [k \in UploadKeys |-> NoUpload] /\ UNCHANGED <<tmp, dest, sent>>
  BY DEF Restarts
<1>2. \A k \in UploadKeys : uploads[k].tmp \in Tmps \cup {0}
  BY UploadFacts
<1>3. NoUpload \in UploadRecords /\ NoUpload.tmp = 0
  BY FileChannelAssumption DEF NoUpload, UploadRecords
<1>4. UploadTypes'
  <2>1. uploads' \in [UploadKeys -> UploadRecords] /\ forgotten' \subseteq Tmps
    BY <1>0, <1>1, <1>2, <1>3 DEF UploadTypes
  <2> QED
    BY <1>0, <1>1, <2>1 DEF UploadTypes, UploadRecords, Tmps
<1>5. Uploading'
  BY <1>1, <1>3 DEF Uploading
<1>6. TempFilesOwned'
  <2> SUFFICES ASSUME NEW t \in Tmps \ forgotten', tmp[t] # NoFile PROVE FALSE
    BY <1>1 DEF TempFilesOwned, Tmps
  <2>1. PICK k \in UploadKeys : uploads[k].tmp = t
    BY <1>0, <1>1 DEF TempFilesOwned
  <2>2. t # 0
    BY FileChannelAssumption DEF Tmps
  <2> QED
    BY <1>1, <2>1, <2>2
<1>7. UploadWhole'
  BY <1>0, <1>1 DEF UploadWhole
<1> QED
  BY <1>4, <1>5, <1>6, <1>7 DEF UploadInv

-----------------------------------------------------------------------------
(* Streams                                                                 *)

\* A place for a stream that is not used.
LEMMA NoTaskFacts ==
  /\ NoTask \in TaskRecords /\ NoTask.want = 0 /\ NoTask.pos = 0 /\ NoTask.cuts = 0
  /\ NoTask.kind = "none" /\ NoTask.pc = "none"
<1>1. 0 \in 0 .. MaxSize /\ 0 \in 0 .. 1
  BY FileChannelAssumption
<1>2. "none" \in TaskStates /\ FALSE \in BOOLEAN
  BY DEF TaskStates
<1> QED
  BY <1>1, <1>2 DEF NoTask, TaskRecords

\* A stream that is over promises nothing any more.
LEMMA OverFacts ==
  ASSUME NEW pc \in TaskStates
  PROVE  /\ Over(pc) \in TaskRecords /\ Over(pc).pc = pc /\ Over(pc).want = 0 /\ Over(pc).pos = 0
         /\ Over(pc).cuts = 0 /\ Over(pc).kind = "none"
<1> DEFINE n == NoTask
<1>1. Over(pc) = [n EXCEPT !.pc = pc]
  BY DEF Over
<1>2. n \in TaskRecords /\ n.want = 0 /\ n.pos = 0 /\ n.cuts = 0 /\ n.kind = "none"
  BY NoTaskFacts
<1> HIDE DEF n
<1> QED
  BY <1>1, <1>2 DEF TaskRecords

\* The fields of a stream.
LEMMA TaskFacts ==
  ASSUME NEW q \in TaskRecords
  PROVE  /\ q.kind \in {"none", "download", "read"} /\ q.pc \in TaskStates
         /\ q.off \in 0 .. MaxSize /\ q.want \in 0 .. MaxSize /\ q.pos \in 0 .. MaxSize
         /\ q.off \in Nat /\ q.want \in Nat /\ q.pos \in Nat /\ q.cuts \in 0 .. 1 /\ q.cuts \in Nat
<1>1. /\ q.kind \in {"none", "download", "read"} /\ q.pc \in TaskStates
      /\ q.off \in 0 .. MaxSize /\ q.want \in 0 .. MaxSize /\ q.pos \in 0 .. MaxSize /\ q.cuts \in 0 .. 1
  BY DEF TaskRecords
<1> QED
  BY <1>1, FileChannelAssumption

\* A step that changes one stream.
LEMMA OneTask ==
  ASSUME StreamInv, NEW t \in TaskIds, NEW q \in TaskRecords, tasks' = [tasks EXCEPT ![t] = q],
         UNCHANGED fileVars, Streaming(t)'
  PROVE  StreamInv'
<1>1. tasks' \in [TaskIds -> TaskRecords] /\ \A s \in TaskIds : s # t => tasks'[s] = tasks[s]
  BY DEF StreamInv
<1>2. \A s \in TaskIds : s # t => Streaming(s)'
  BY <1>1 DEF StreamInv, Streaming, fileVars
<1> QED
  BY <1>1, <1>2 DEF StreamInv, fileVars, TaskIds, TaskRecords

\* A stream stops without its end frame.
LEMMA TaskOver ==
  ASSUME StreamInv, NEW t \in TaskIds, NEW pc \in {"failed", "stopped"},
         tasks' = [tasks EXCEPT ![t] = Over(pc)], UNCHANGED fileVars
  PROVE  StreamInv'
<1>1. pc \in TaskStates
  BY DEF TaskStates
<1>2. tasks'[t] = Over(pc)
  BY DEF StreamInv
<1>3. cuts' \in 0 .. 1
  BY DEF StreamInv, fileVars
<1>4. Streaming(t)'
  BY <1>1, <1>2, <1>3, OverFacts DEF Streaming
<1> QED
  BY <1>1, <1>4, OverFacts, OneTask

\* The request that spawns a stream.
LEMMA SpawnStep ==
  ASSUME StreamInv, NEW d \in FileDevices, NEW g \in Gens, NEW t \in TaskIds,
         NEW what \in {"download", "read"}, Spawn(d, g, t, what)
  PROVE  StreamInv'
<1> DEFINE q == [NoTask EXCEPT !.kind = what, !.dev = d, !.gen = g, !.pc = "spawned"]
<1>1. /\ q \in TaskRecords /\ q.pc = "spawned" /\ q.pos = 0 /\ q.want = 0 /\ q.cuts = 0 /\ q.kind = what
  <2> DEFINE n == NoTask
  <2>1. n \in TaskRecords /\ n.want = 0 /\ n.pos = 0 /\ n.cuts = 0
    BY NoTaskFacts
  <2>2. q = [n EXCEPT !.kind = what, !.dev = d, !.gen = g, !.pc = "spawned"]
    OBVIOUS
  <2>3. "spawned" \in TaskStates
    BY DEF TaskStates, Running
  <2> HIDE DEF n, q
  <2> QED
    BY <2>1, <2>2, <2>3 DEF TaskRecords
<1>2. tasks' = [tasks EXCEPT ![t] = q] /\ UNCHANGED fileVars
  BY DEF Spawn
<1> HIDE DEF q
<1>3. tasks'[t] = q /\ cuts' \in 0 .. 1
  BY <1>2 DEF StreamInv, fileVars
<1>4. Streaming(t)'
  BY <1>1, <1>3 DEF Streaming
<1> QED
  BY <1>1, <1>2, <1>4, OneTask

\* The start frame, with its promise.
LEMMA StartStep ==
  ASSUME StreamInv, NEW t \in TaskIds, NEW offset \in 0 .. MaxSize, NEW n \in 0 .. MaxSize,
         n = 0 \/ offset + n <= size, Start(t, offset, n)
  PROVE  StreamInv'
<1>0. tasks \in [TaskIds -> TaskRecords] /\ tasks[t] \in TaskRecords /\ Streaming(t) /\ cuts \in 0 .. 1
      /\ size \in 0 .. MaxSize
  BY DEF StreamInv
<1>1. PICK pc \in Sending(t) :
          tasks' = [tasks EXCEPT ![t] =
             IF pc = "stopped" THEN Over(pc)
             ELSE [@ EXCEPT !.pc = pc, !.off = offset, !.want = n, !.cuts = cuts]]
  BY DEF Start
<1>2. UNCHANGED fileVars /\ tasks[t].pc = "spawned" /\ pc \in {"started", "stopped", "blocked"}
  BY DEF Start, Sending
<1>3. CASE pc = "stopped"
  BY <1>1, <1>2, <1>3, TaskOver
<1>4. CASE pc # "stopped"
  <2> DEFINE q == [tasks[t] EXCEPT !.pc = pc, !.off = offset, !.want = n, !.cuts = cuts]
  <2>1. tasks' = [tasks EXCEPT ![t] = q]
    BY <1>0, <1>1, <1>4
  <2>2. /\ q \in TaskRecords /\ q.pc = pc /\ q.off = offset /\ q.want = n /\ q.cuts = cuts
        /\ q.pos = tasks[t].pos /\ q.kind = tasks[t].kind
    BY <1>0, <1>2 DEF TaskRecords, TaskStates, Running
  <2> HIDE DEF q
  <2>3. tasks'[t] = q /\ cuts' = cuts /\ size' = size
    BY <1>0, <1>2, <2>1 DEF fileVars
  <2>4. tasks[t].pos = 0
    BY <1>0, <1>2 DEF Streaming
  <2>5. Streaming(t)'
    BY <1>0, <1>2, <1>4, <2>2, <2>3, <2>4 DEF Streaming
  <2> QED
    BY <1>2, <2>1, <2>2, <2>5, OneTask
<1> QED
  BY <1>3, <1>4

\* What a read promises is in the file.
LEMMA WillReadFits ==
  ASSUME NEW offset \in Nat, NEW limit \in Nat, NEW n \in 0 .. MaxSize
  PROVE  /\ WillRead(offset, limit, n) \in 0 .. MaxSize
         /\ WillRead(offset, limit, n) = 0 \/ offset + WillRead(offset, limit, n) <= n
BY FileChannelAssumption DEF WillRead, Least

\* A chunk is sent, or waits.
LEMMA SendsChunkStep ==
  ASSUME StreamInv, NEW t \in TaskIds, SendsChunk(t)
  PROVE  StreamInv'
<1>0. /\ tasks \in [TaskIds -> TaskRecords] /\ tasks[t] \in TaskRecords /\ Streaming(t)
      /\ cuts \in 0 .. 1 /\ size \in 0 .. MaxSize
  BY DEF StreamInv
<1>1. PICK pc \in Sending(t) :
          tasks' = [tasks EXCEPT ![t] =
             IF pc = "stopped" THEN Over(pc)
             ELSE [@ EXCEPT !.pc = pc, !.pos = tasks[t].pos + IF pc = "started" THEN 1 ELSE 0]]
  BY DEF SendsChunk
<1>2. /\ UNCHANGED fileVars /\ tasks[t].pc = "started" /\ pc \in {"started", "stopped", "blocked"}
      /\ ~AtEnd(t)
  BY DEF SendsChunk, Sending
<1>3. CASE pc = "stopped"
  BY <1>1, <1>2, <1>3, TaskOver
<1>4. CASE pc # "stopped"
  <2> DEFINE p == tasks[t].pos + IF pc = "started" THEN 1 ELSE 0
             q == [tasks[t] EXCEPT !.pc = pc, !.pos = p]
  <2>1. tasks' = [tasks EXCEPT ![t] = q]
    BY <1>0, <1>1, <1>4
  <2>2. p \in 0 .. MaxSize /\ p \in Nat /\ (tasks[t].kind = "read" => p <= tasks[t].want)
    BY <1>0, <1>2, TaskFacts, FileChannelAssumption DEF AtEnd, Streaming
  <2> HIDE DEF p
  <2>3. /\ q \in TaskRecords /\ q.pc = pc /\ q.off = tasks[t].off /\ q.want = tasks[t].want
        /\ q.cuts = tasks[t].cuts /\ q.pos = p /\ q.kind = tasks[t].kind
    BY <1>0, <1>2, <2>2 DEF TaskRecords, TaskStates, Running
  <2> HIDE DEF q
  <2>4. tasks'[t] = q /\ cuts' = cuts /\ size' = size
    BY <1>0, <1>2, <2>1 DEF fileVars
  <2>5. Streaming(t)'
    BY <1>0, <1>2, <1>4, <2>2, <2>3, <2>4 DEF Streaming
  <2> QED
    BY <1>2, <2>1, <2>3, <2>5, OneTask
<1> QED
  BY <1>3, <1>4

\* The end frame: all that was promised has been sent.
LEMMA StreamEndsStep ==
  ASSUME StreamInv, NEW t \in TaskIds, StreamEnds(t)
  PROVE  StreamInv'
<1> DEFINE q == [tasks[t] EXCEPT !.pc = "ended"]
<1>0. /\ tasks \in [TaskIds -> TaskRecords] /\ tasks[t] \in TaskRecords /\ Streaming(t)
      /\ cuts \in 0 .. 1 /\ size \in 0 .. MaxSize
  BY DEF StreamInv
<1>1. tasks' = [tasks EXCEPT ![t] = q] /\ UNCHANGED fileVars /\ tasks[t].pc = "started" /\ AtEnd(t)
  BY <1>0 DEF StreamEnds
<1>2. /\ q \in TaskRecords /\ q.pc = "ended" /\ q.off = tasks[t].off /\ q.want = tasks[t].want
      /\ q.cuts = tasks[t].cuts /\ q.pos = tasks[t].pos /\ q.kind = tasks[t].kind
  BY <1>0 DEF TaskRecords, TaskStates
<1> HIDE DEF q
<1>3. tasks'[t] = q /\ cuts' = cuts /\ size' = size
  BY <1>0, <1>1 DEF fileVars
<1>4. tasks[t].cuts = cuts => tasks[t].pos >= tasks[t].want
  BY <1>0, <1>1, TaskFacts, FileChannelAssumption DEF Streaming, AtEnd
<1>5. Streaming(t)'
  BY <1>0, <1>2, <1>3, <1>4 DEF Streaming
<1> QED
  BY <1>1, <1>2, <1>5, OneTask

\* Every step of a stream.
LEMMA TaskStepKeeps ==
  ASSUME StreamInv, NEW t \in TaskIds, TaskStep(t)
  PROVE  StreamInv'
<1>0. size \in 0 .. MaxSize
  BY DEF StreamInv
<1>1. CASE DownloadStarts(t)
  <2>1. Start(t, 0, size) /\ 0 \in 0 .. MaxSize /\ 0 + size <= size
    BY <1>0, <1>1, FileChannelAssumption DEF DownloadStarts
  <2> QED
    BY <1>0, <2>1, StartStep
<1>2. CASE ReadStarts(t)
  <2>1. PICK offset \in 0 .. MaxSize, limit \in 0 .. MaxRead :
            Start(t, offset, WillRead(offset, limit, size))
    BY <1>2 DEF ReadStarts
  <2>2. offset \in Nat /\ limit \in Nat
    BY FileChannelAssumption
  <2> QED
    BY <1>0, <2>1, <2>2, WillReadFits, StartStep
<1>3. CASE TaskRefused(t) \/ ReadFails(t) \/ StreamCancelled(t) \/ SendTimesOut(t)
  BY <1>3, TaskOver DEF TaskRefused, ReadFails, StreamCancelled, SendTimesOut
<1> QED
  BY <1>1, <1>2, <1>3, SendsChunkStep, StreamEndsStep DEF TaskStep

\* Other programs write the file, or truncate it.
LEMMA FileStep ==
  ASSUME StreamInv, Grows \/ Truncated
  PROVE  StreamInv'
<1>0. /\ \A t \in TaskIds : tasks[t] \in TaskRecords /\ Streaming(t)
      /\ cuts \in 0 .. 1 /\ size \in 0 .. MaxSize
  BY DEF StreamInv
<1>1. /\ tasks' = tasks /\ size' \in 0 .. MaxSize /\ cuts' \in 0 .. 1
      /\ (cuts' = cuts /\ size <= size') \/ cuts' > cuts
  BY <1>0, FileChannelAssumption DEF Grows, Truncated, streamVars
<1>2. ASSUME NEW t \in TaskIds PROVE Streaming(t)'
  BY <1>0, <1>1, TaskFacts, FileChannelAssumption DEF Streaming
<1> QED
  BY <1>1, <1>2 DEF StreamInv, TaskIds, TaskRecords

\* The cancel of a stream, or its end with the host, disturbs no promise.
LEMMA TasksCut ==
  ASSUME StreamInv, UNCHANGED fileVars, NEW hit \in SUBSET TaskIds,
         \/ tasks' = [t \in TaskIds |-> IF t \in hit THEN [tasks[t] EXCEPT !.cancelled = TRUE] ELSE tasks[t]]
         \/ tasks' = [t \in TaskIds |-> IF t \in hit THEN Over("stopped") ELSE tasks[t]]
  PROVE  StreamInv'
<1>0. /\ \A t \in TaskIds : tasks[t] \in TaskRecords /\ Streaming(t)
      /\ cuts \in 0 .. 1 /\ size \in 0 .. MaxSize
  BY DEF StreamInv
<1>1. UNCHANGED <<size, cuts>>
  BY DEF fileVars
<1>2. ASSUME NEW t \in TaskIds PROVE tasks'[t] \in TaskRecords /\ Streaming(t)'
  <2>1. CASE tasks'[t] = tasks[t]
    BY <1>0, <1>1, <2>1 DEF Streaming
  <2>2. CASE tasks'[t] = [tasks[t] EXCEPT !.cancelled = TRUE]
    <3> DEFINE q == [tasks[t] EXCEPT !.cancelled = TRUE]
    <3>1. /\ q \in TaskRecords /\ q.pc = tasks[t].pc /\ q.off = tasks[t].off /\ q.want = tasks[t].want
          /\ q.cuts = tasks[t].cuts /\ q.pos = tasks[t].pos /\ q.kind = tasks[t].kind
      BY <1>0 DEF TaskRecords
    <3> HIDE DEF q
    <3>2. tasks'[t] = q
      BY <2>2 DEF q
    <3> QED
      BY <1>0, <1>1, <3>1, <3>2 DEF Streaming
  <2>3. CASE tasks'[t] = Over("stopped")
    <3>1. "stopped" \in TaskStates
      BY DEF TaskStates
    <3> QED
      BY <1>0, <1>1, <2>3, <3>1, OverFacts DEF Streaming
  <2> QED
    BY <2>1, <2>2, <2>3
<1>3. tasks' \in [TaskIds -> TaskRecords]
  BY <1>2
<1> QED
  BY <1>0, <1>1, <1>2, <1>3 DEF StreamInv, TaskIds, TaskRecords

-----------------------------------------------------------------------------
(* Watchers                                                                *)

\* Watchers that stop, with or without their entry, and entries of watchers that
\* have stopped.
LEMMA WatchersGo ==
  ASSUME WatchInv, running' \subseteq running, watchers' \in [UploadKeys -> TaskIds \cup {0}],
         \A k \in UploadKeys : watchers'[k] \in {watchers[k], 0},
         \A k \in UploadKeys : watchers[k] \in running' => watchers'[k] = watchers[k]
  PROVE  WatchInv'
<1>1. ASSUME NEW w \in running'
      PROVE  \E k \in UploadKeys : watchers'[k] = w /\ \A l \in UploadKeys : watchers'[l] = w => l = k
  <2>1. w \in running /\ w # 0
    BY FileChannelAssumption DEF WatchInv, TaskIds
  <2>2. PICK k \in UploadKeys : watchers[k] = w /\ \A l \in UploadKeys : watchers[l] = w => l = k
    BY <2>1 DEF WatchInv
  <2>3. watchers'[k] = w
    BY <1>1, <2>2
  <2>4. \A l \in UploadKeys : watchers'[l] = w => l = k
    BY <2>1, <2>2
  <2> QED
    BY <2>3, <2>4
<1> QED
  BY <1>1 DEF WatchInv, TaskIds, UploadKeys

\* A new watcher: the entries of those that stopped are reaped first, so that
\* none of them names it.
LEMMA WatchFileStep ==
  ASSUME WatchInv, NEW d \in FileDevices, NEW g \in Gens, NEW r \in Requests, WatchFile(d, g, r)
  PROVE  WatchInv'
<1> DEFINE k0 == <<d, r>>
<1>0. /\ watchers \in [UploadKeys -> TaskIds \cup {0}] /\ running \subseteq TaskIds /\ k0 \in UploadKeys
      /\ 0 \notin TaskIds
  BY FileChannelAssumption DEF WatchInv, UploadKeys, TaskIds
<1>1. PICK w \in TaskIds \ running :
          /\ watchers' = [Reaped EXCEPT ![k0] = w]
          /\ running' = (running \ {Reaped[k0]}) \cup {w}
  BY DEF WatchFile
<1>2. /\ Reaped \in [UploadKeys -> TaskIds \cup {0}]
      /\ \A k \in UploadKeys : Reaped[k] = IF watchers[k] \in running THEN watchers[k] ELSE 0
  BY <1>0 DEF Reaped
<1> HIDE DEF k0
<1>3. /\ watchers' \in [UploadKeys -> TaskIds \cup {0}] /\ watchers'[k0] = w
      /\ \A k \in UploadKeys : k # k0 => watchers'[k] = Reaped[k]
  BY <1>0, <1>1, <1>2
<1>4. running' \subseteq TaskIds
  BY <1>0, <1>1
<1>5. ASSUME NEW v \in running'
      PROVE  \E k \in UploadKeys : watchers'[k] = v /\ \A l \in UploadKeys : watchers'[l] = v => l = k
  <2>1. CASE v = w
    <3>1. \A l \in UploadKeys : watchers'[l] = v => l = k0
      BY <1>0, <1>1, <1>2, <1>3, <2>1
    <3> QED
      BY <1>0, <1>3, <2>1, <3>1
  <2>2. CASE v # w
    <3>1. v \in running /\ v # Reaped[k0] /\ v # 0
      BY <1>0, <1>1, <1>5, <2>2
    <3>2. PICK k \in UploadKeys : watchers[k] = v /\ \A l \in UploadKeys : watchers[l] = v => l = k
      BY <3>1 DEF WatchInv
    <3>3. k # k0 /\ watchers'[k] = v
      BY <1>0, <1>2, <1>3, <3>1, <3>2
    <3>4. \A l \in UploadKeys : watchers'[l] = v => l = k
      BY <1>2, <1>3, <2>2, <3>1, <3>2
    <3> QED
      BY <3>3, <3>4
  <2> QED
    BY <2>1, <2>2
<1> QED
  BY <1>3, <1>4, <1>5 DEF WatchInv, TaskIds, UploadKeys

\* The other steps of watchers.
LEMMA WatchersStep ==
  ASSUME WatchInv,
         \/ \E d \in FileDevices, g \in Gens : WatchRefused(d, g)
         \/ \E d \in FileDevices, g \in Gens, r \in Requests : UnwatchFile(d, g, r)
         \/ \E w \in TaskIds : WatcherStops(w)
         \/ \E d \in FileDevices, g \in Gens : FilesChannelClosed(d, g)
         \/ Restarts
         \/ UNCHANGED watchVars
  PROVE  WatchInv'
<1>0. watchers \in [UploadKeys -> TaskIds \cup {0}]
  BY DEF WatchInv
<1>1. ASSUME NEW d \in FileDevices, NEW g \in Gens, WatchRefused(d, g) PROVE WatchInv'
  <2>1. watchers' = Reaped /\ running' = running
    BY <1>1 DEF WatchRefused
  <2>2. /\ watchers' \in [UploadKeys -> TaskIds \cup {0}]
        /\ \A k \in UploadKeys : watchers'[k] = IF watchers[k] \in running THEN watchers[k] ELSE 0
    BY <1>0, <2>1 DEF Reaped
  <2> QED
    BY <2>1, <2>2, WatchersGo
<1>2. ASSUME NEW d \in FileDevices, NEW g \in Gens, NEW r \in Requests, UnwatchFile(d, g, r)
      PROVE  WatchInv'
  <2> DEFINE k0 == <<d, r>>
  <2>1. k0 \in UploadKeys /\ watchers' = [watchers EXCEPT ![k0] = 0] /\ running' = running \ {watchers[k0]}
    BY <1>2 DEF UnwatchFile, UploadKeys
  <2> HIDE DEF k0
  <2> QED
    BY <1>0, <2>1, WatchersGo
<1>3. ASSUME NEW w \in TaskIds, WatcherStops(w) PROVE WatchInv'
  BY <1>0, <1>3, WatchersGo DEF WatcherStops
<1>4. ASSUME NEW d \in FileDevices, NEW g \in Gens, FilesChannelClosed(d, g) PROVE WatchInv'
  <2>1. /\ running' = running \ {watchers[<<d, r>>] : r \in Requests}
        /\ watchers' = [k \in UploadKeys |-> IF k[1] = d THEN 0 ELSE watchers[k]]
    BY <1>4 DEF FilesChannelClosed
  <2>2. \A k \in UploadKeys : k[2] \in Requests /\ k = <<k[1], k[2]>>
    BY DEF UploadKeys
  <2>3. \A k \in UploadKeys : k[1] = d => watchers[k] \notin running'
    BY <2>1, <2>2
  <2> QED
    BY <1>0, <2>1, <2>3, WatchersGo
<1>5. CASE Restarts
  BY <1>5 DEF Restarts, WatchInv
<1>6. CASE UNCHANGED watchVars
  BY <1>0, <1>6, WatchersGo DEF watchVars
<1> QED
  BY <1>1, <1>2, <1>3, <1>4, <1>5, <1>6

\* A watcher with one entry, counted.
LEMMA WatchersCounted == WatchInv => WatchersTracked
<1> SUFFICES ASSUME WatchInv, NEW w \in running
             PROVE  Cardinality({k \in UploadKeys : watchers[k] = w}) = 1
  BY DEF WatchersTracked
<1>1. PICK k \in UploadKeys : watchers[k] = w /\ \A l \in UploadKeys : watchers[l] = w => l = k
  BY DEF WatchInv
<1>2. {l \in UploadKeys : watchers[l] = w} = {k}
  BY <1>1
<1> QED
  BY <1>2, FS_Singleton

-----------------------------------------------------------------------------
(* The channels                                                            *)

\* What a device leaves behind is gone once its channels are: a step that
\* touches only devices with a channel, or that clears.
LEMMA LinkKeeps ==
  ASSUME LinkInv, UNCHANGED uses, link' \in [FileDevices -> [Gens -> LinkStates]],
         cancels' \in [FileDevices -> TaskIds \cup {0}],
         \A e \in FileDevices : (\A g \in Gens : link'[e][g] \in {"unused", "gone"}) =>
             \/ /\ \A g \in Gens : link[e][g] \in {"unused", "gone"}
                /\ \A r \in Requests : /\ uploads'[<<e, r>>] \in {uploads[<<e, r>>], NoUpload}
                                       /\ watchers'[<<e, r>>] \in {watchers[<<e, r>>], 0}
                /\ cancels'[e] \in {cancels[e], 0}
             \/ /\ cancels'[e] = 0
                /\ \A r \in Requests : uploads'[<<e, r>>] = NoUpload /\ watchers'[<<e, r>>] = 0
  PROVE  LinkInv'
<1>0. \A k \in UploadKeys : k[2] \in Requests /\ k = <<k[1], k[2]>>
  BY DEF UploadKeys
<1>1. ASSUME NEW e \in FileDevices, \A g \in Gens : link'[e][g] \in {"unused", "gone"}
      PROVE  /\ \A r \in Requests : uploads'[<<e, r>>] = NoUpload /\ watchers'[<<e, r>>] = 0
             /\ cancels'[e] = 0
  <2>1. CASE \A g \in Gens : link[e][g] \in {"unused", "gone"}
    <3>1. Active(e) = {} /\ cancels[e] = 0 /\ \A r \in Requests : watchers[<<e, r>>] = 0
      BY <2>1 DEF LinkInv, ClosedLeavesNothing
    <3>2. \A r \in Requests : uploads[<<e, r>>] = NoUpload
      BY <3>1 DEF Active, UploadKeys
    <3> QED
      BY <1>1, <3>1, <3>2
  <2>2. CASE ~(\A g \in Gens : link[e][g] \in {"unused", "gone"})
    BY <1>1, <2>2
  <2> QED
    BY <2>1, <2>2
<1>2. ASSUME NEW e \in FileDevices, \A g \in Gens : link'[e][g] \in {"unused", "gone"}
      PROVE  Active(e)' = {}
  BY <1>0, <1>1, <1>2 DEF Active
<1>3. ClosedLeavesNothing'
  BY <1>1, <1>2 DEF ClosedLeavesNothing, Gens
<1> QED
  BY <1>3 DEF LinkInv, Gens, TaskIds

\* A step that leaves the channels alone, and adds something only for a device
\* with a channel.
LEMMA RequestKeeps ==
  ASSUME LinkInv, UNCHANGED <<uses, link>>, cancels' \in [FileDevices -> TaskIds \cup {0}],
         NEW d \in FileDevices, NEW g \in Gens, link[d][g] \in {"open", "silent", "closed"},
         \A e \in FileDevices : e # d =>
             /\ cancels'[e] = cancels[e]
             /\ \A r \in Requests : /\ uploads'[<<e, r>>] = uploads[<<e, r>>]
                                    /\ watchers'[<<e, r>>] \in {watchers[<<e, r>>], 0}
  PROVE  LinkInv'
<1>1. link' \in [FileDevices -> [Gens -> LinkStates]]
  BY DEF LinkInv
<1>2. link[d][g] \notin {"unused", "gone"}
  OBVIOUS
<1> QED
  BY <1>1, <1>2, LinkKeeps

\* A channel opens, falls silent or closes.
LEMMA ChannelStep ==
  ASSUME LinkInv, NEW d \in FileDevices, NEW g \in Gens,
         Opens(d, g) \/ FallsSilent(d, g) \/ Closes(d, g)
  PROVE  LinkInv'
<1>0. link \in [FileDevices -> [Gens -> LinkStates]] /\ cancels \in [FileDevices -> TaskIds \cup {0}]
  BY DEF LinkInv
<1>1. UNCHANGED <<uses, uploads, cancels, watchers>>
  BY DEF Opens, FallsSilent, Closes, uploadVars, streamVars, watchVars
<1>2. /\ link' \in [FileDevices -> [Gens -> LinkStates]] /\ link'[d][g] \in {"open", "silent", "closed"}
      /\ \A e \in FileDevices : e # d => link'[e] = link[e]
  <2>1. CASE Opens(d, g)
    BY <1>0, <2>1 DEF Opens, LinkStates
  <2>2. CASE FallsSilent(d, g)
    BY <1>0, <2>2 DEF FallsSilent, LinkStates
  <2>3. CASE Closes(d, g)
    BY <1>0, <2>3 DEF Closes, LinkStates
  <2> QED
    BY <2>1, <2>2, <2>3
<1>3. link'[d][g] \notin {"unused", "gone"}
  BY <1>2
<1>4. \A e \in FileDevices : (\A h \in Gens : link'[e][h] \in {"unused", "gone"}) => link'[e] = link[e]
  BY <1>2, <1>3
<1> QED
  BY <1>0, <1>1, <1>2, <1>4, LinkKeeps

\* A request that a device sent over one of its channels.
LEMMA RequestStep ==
  ASSUME LinkInv, UploadInv, WatchInv, NEW d \in FileDevices, NEW g \in Gens,
         \/ WatchRefused(d, g)
         \/ \E t \in TaskIds : DownloadStream(d, g, t) \/ ReadFileStream(d, g, t)
         \/ \E r \in Requests :
               \/ \E n \in 0 .. MaxUpload + 1 : UploadStart(d, g, r, n)
               \/ ChunkTooLarge(d, g, r) \/ ChunkExceeds(d, g, r) \/ ChunkWriteFails(d, g, r)
               \/ ChunkWritten(d, g, r) \/ ChunkUnknown(d, g, r)
               \/ UploadEnd(d, g, r) \/ UploadEndFails(d, g, r) \/ UploadCancel(d, g, r)
               \/ WatchFile(d, g, r) \/ UnwatchFile(d, g, r)
  PROVE  LinkInv'
<1> USE DEF uploadVars, streamVars, watchVars
<1>0. cancels \in [FileDevices -> TaskIds \cup {0}] /\ uploads \in [UploadKeys -> UploadRecords]
      /\ watchers \in [UploadKeys -> TaskIds \cup {0}]
  BY DEF LinkInv, UploadInv, UploadTypes, WatchInv
<1>1. \A e \in FileDevices, r \in Requests : <<e, r>> \in UploadKeys
  BY DEF UploadKeys
<1>2. CASE WatchRefused(d, g)
  <2>1. \A k \in UploadKeys : watchers'[k] \in {watchers[k], 0}
    BY <1>2 DEF WatchRefused, Reaped
  <2>2. UNCHANGED <<uses, link, uploads, cancels>> /\ link[d][g] \in {"open", "silent", "closed"}
    BY <1>2 DEF WatchRefused, Apart, From
  <2> QED
    BY <1>0, <1>1, <2>1, <2>2, RequestKeeps
<1>3. ASSUME NEW t \in TaskIds, DownloadStream(d, g, t) \/ ReadFileStream(d, g, t) PROVE LinkInv'
  <2>1. UNCHANGED <<uses, link, uploads, watchers>> /\ link[d][g] \in {"open", "silent", "closed"}
    BY <1>3 DEF DownloadStream, ReadFileStream, Spawn, Aside, From
  <2>2. /\ cancels' \in [FileDevices -> TaskIds \cup {0}]
        /\ \A e \in FileDevices : e # d => cancels'[e] = cancels[e]
    BY <1>0, <1>3 DEF DownloadStream, ReadFileStream
  <2> QED
    BY <2>1, <2>2, RequestKeeps
<1>4. ASSUME NEW r \in Requests,
             \/ \E n \in 0 .. MaxUpload + 1 : UploadStart(d, g, r, n)
             \/ ChunkTooLarge(d, g, r) \/ ChunkExceeds(d, g, r) \/ ChunkWriteFails(d, g, r)
             \/ ChunkWritten(d, g, r) \/ ChunkUnknown(d, g, r)
             \/ UploadEnd(d, g, r) \/ UploadEndFails(d, g, r) \/ UploadCancel(d, g, r)
      PROVE  LinkInv'
  <2>1. UNCHANGED <<uses, link, cancels, watchers>> /\ link[d][g] \in {"open", "silent", "closed"}
    BY <1>4 DEF UploadStart, ChunkTooLarge, ChunkExceeds, ChunkWriteFails, ChunkWritten, ChunkUnknown,
       UploadEnd, UploadEndFails, UploadCancel, Counted, Untouched, From
  <2>2. ASSUME NEW k \in UploadKeys, k # <<d, r>> PROVE uploads'[k] = uploads[k]
    <3>1. CASE Discard({<<d, r>>})
      BY <2>2, <3>1 DEF Discard
    <3>2. CASE \E n \in 0 .. MaxUpload + 1 : UploadStart(d, g, r, n)
      BY <1>0, <2>2, <3>2 DEF UploadStart
    <3>3. CASE ChunkWritten(d, g, r)
      BY <1>0, <2>2, <3>3 DEF ChunkWritten
    <3>4. CASE ChunkUnknown(d, g, r)
      BY <3>4 DEF ChunkUnknown
    <3> QED
      BY <1>4, <3>1, <3>2, <3>3, <3>4 DEF ChunkTooLarge, ChunkExceeds, ChunkWriteFails, UploadEnd,
         UploadEndFails, UploadCancel
  <2>3. \A e \in FileDevices, q \in Requests : e # d => uploads'[<<e, q>>] = uploads[<<e, q>>]
    BY <1>1, <2>2
  <2> QED
    BY <1>0, <2>1, <2>3, RequestKeeps
<1>5. ASSUME NEW r \in Requests, WatchFile(d, g, r) \/ UnwatchFile(d, g, r) PROVE LinkInv'
  <2>1. UNCHANGED <<uses, link, cancels, uploads>> /\ link[d][g] \in {"open", "silent", "closed"}
    BY <1>5 DEF WatchFile, UnwatchFile, Apart, From
  <2>2. ASSUME NEW k \in UploadKeys, k # <<d, r>> PROVE watchers'[k] \in {watchers[k], 0}
    <3>1. CASE WatchFile(d, g, r)
      BY <1>0, <2>2, <3>1 DEF WatchFile, Reaped
    <3>2. CASE UnwatchFile(d, g, r)
      BY <1>0, <2>2, <3>2 DEF UnwatchFile
    <3> QED
      BY <1>5, <3>1, <3>2
  <2>3. \A e \in FileDevices, q \in Requests : e # d => watchers'[<<e, q>>] \in {watchers[<<e, q>>], 0}
    BY <1>1, <2>2
  <2> QED
    BY <1>0, <2>1, <2>3, RequestKeeps
<1> QED
  BY <1>2, <1>3, <1>4, <1>5

\* The close of a channel, handled, and a restart.
LEMMA ClosedStep ==
  ASSUME LinkInv, UploadInv, WatchInv,
         Restarts \/ \E d \in FileDevices, g \in Gens : FilesChannelClosed(d, g)
  PROVE  LinkInv'
<1>0. /\ link \in [FileDevices -> [Gens -> LinkStates]] /\ cancels \in [FileDevices -> TaskIds \cup {0}]
      /\ uploads \in [UploadKeys -> UploadRecords] /\ watchers \in [UploadKeys -> TaskIds \cup {0}]
  BY DEF LinkInv, UploadInv, UploadTypes, WatchInv
<1>1. \A e \in FileDevices, r \in Requests : <<e, r>> \in UploadKeys /\ <<e, r>>[1] = e
  BY DEF UploadKeys
<1>2. CASE Restarts
  <2>1. /\ UNCHANGED uses /\ link' \in [FileDevices -> [Gens -> LinkStates]]
        /\ cancels' \in [FileDevices -> TaskIds \cup {0}]
        /\ \A e \in FileDevices : cancels'[e] = 0
        /\ \A k \in UploadKeys : uploads'[k] = NoUpload /\ watchers'[k] = 0
    BY <1>0, <1>2 DEF Restarts, LinkStates
  <2> QED
    BY <1>1, <2>1, LinkKeeps
<1>3. ASSUME NEW d \in FileDevices, NEW g \in Gens, FilesChannelClosed(d, g) PROVE LinkInv'
  <2>1. /\ UNCHANGED uses /\ link' \in [FileDevices -> [Gens -> LinkStates]]
        /\ \A e \in FileDevices : e # d => link'[e] = link[e]
        /\ cancels' \in [FileDevices -> TaskIds \cup {0}] /\ cancels'[d] = 0
        /\ \A e \in FileDevices : e # d => cancels'[e] = cancels[e]
    BY <1>0, <1>3 DEF FilesChannelClosed, LinkStates
  <2>2. \A k \in UploadKeys : watchers'[k] = IF k[1] = d THEN 0 ELSE watchers[k]
    BY <1>3 DEF FilesChannelClosed
  <2>3. \A k \in UploadKeys : uploads'[k] = IF k[1] = d THEN NoUpload ELSE uploads[k]
    BY <1>3 DEF FilesChannelClosed, Discard, Active
  <2>4. \A e \in FileDevices, r \in Requests :
            /\ e = d => uploads'[<<e, r>>] = NoUpload /\ watchers'[<<e, r>>] = 0
            /\ e # d => uploads'[<<e, r>>] = uploads[<<e, r>>] /\ watchers'[<<e, r>>] = watchers[<<e, r>>]
    BY <1>1, <2>2, <2>3
  <2>5. ASSUME NEW e \in FileDevices, \A h \in Gens : link'[e][h] \in {"unused", "gone"}
        PROVE  \/ /\ \A h \in Gens : link[e][h] \in {"unused", "gone"}
                  /\ \A r \in Requests : /\ uploads'[<<e, r>>] \in {uploads[<<e, r>>], NoUpload}
                                         /\ watchers'[<<e, r>>] \in {watchers[<<e, r>>], 0}
                  /\ cancels'[e] \in {cancels[e], 0}
               \/ /\ cancels'[e] = 0
                  /\ \A r \in Requests : uploads'[<<e, r>>] = NoUpload /\ watchers'[<<e, r>>] = 0
    <3>1. CASE e = d
      BY <2>1, <2>4, <3>1
    <3>2. CASE e # d
      BY <2>1, <2>4, <2>5, <3>2
    <3> QED
      BY <3>1, <3>2
  <2> QED
    BY <2>1, <2>5, LinkKeeps
<1> QED
  BY <1>2, <1>3

\* Expiries, the steps of the tasks and of other programs.
LEMMA AsideStep ==
  ASSUME LinkInv, UploadInv,
         \/ \E k \in UploadKeys : UploadExpires(k)
         \/ \E t \in TaskIds : TaskStep(t) \/ WatcherStops(t)
         \/ Grows \/ Truncated \/ UNCHANGED vars
  PROVE  LinkInv'
<1> USE DEF uploadVars, streamVars, watchVars
<1>0. /\ link \in [FileDevices -> [Gens -> LinkStates]] /\ cancels \in [FileDevices -> TaskIds \cup {0}]
      /\ uploads \in [UploadKeys -> UploadRecords]
  BY DEF LinkInv, UploadInv, UploadTypes
<1>1. \A e \in FileDevices, r \in Requests : <<e, r>> \in UploadKeys
  BY DEF UploadKeys
<1>2. UNCHANGED <<uses, link, cancels, watchers>>
  BY DEF UploadExpires, Untouched, TaskStep, TaskRefused, DownloadStarts, ReadStarts, Start, SendsChunk,
     StreamEnds, ReadFails, StreamCancelled, SendTimesOut, Aside, WatcherStops, Apart, Grows, Truncated, vars
<1>3. ASSUME NEW k \in UploadKeys PROVE uploads'[k] \in {uploads[k], NoUpload}
  <2>1. CASE \E l \in UploadKeys : UploadExpires(l)
    BY <2>1 DEF UploadExpires, Discard
  <2>2. CASE UNCHANGED uploads
    BY <2>2
  <2>3. ASSUME \/ \E t \in TaskIds : TaskStep(t) \/ WatcherStops(t)
               \/ Grows \/ Truncated \/ UNCHANGED vars
        PROVE  UNCHANGED uploads
    BY <2>3 DEF TaskStep, TaskRefused, DownloadStarts, ReadStarts, Start, SendsChunk,
       StreamEnds, ReadFails, StreamCancelled, SendTimesOut, Aside, WatcherStops, Apart, Grows, Truncated, vars
  <2> QED
    BY <2>1, <2>2, <2>3
<1> QED
  BY <1>0, <1>1, <1>2, <1>3, LinkKeeps

-----------------------------------------------------------------------------
(* The theorems                                                            *)

\* At the start there is nothing.
LEMMA FileInit == Init => FileInv
<1> SUFFICES ASSUME Init PROVE FileInv
  OBVIOUS
<1>1. UploadInv
  <2>1. NoUpload \in UploadRecords /\ NoUpload.tmp = 0
    BY FileChannelAssumption DEF NoUpload, UploadRecords
  <2>2. dest.content = <<>> /\ dest.of = 0
    BY DEF Init, NoDest
  <2>3. UploadTypes
    BY <2>1, <2>2, FileChannelAssumption DEF Init, UploadTypes, NoFile
  <2>4. Uploading /\ TempFilesOwned
    BY <2>1 DEF Init, Uploading, TempFilesOwned
  <2>5. UploadWhole
    BY <2>2 DEF UploadWhole
  <2> QED
    BY <2>3, <2>4, <2>5 DEF UploadInv
<1>2. StreamInv
  <2>1. tasks \in [TaskIds -> TaskRecords] /\ \A t \in TaskIds : tasks[t] = NoTask
    BY NoTaskFacts DEF Init
  <2>2. size \in 0 .. MaxSize /\ cuts = 0
    BY FileChannelAssumption DEF Init
  <2> QED
    BY <2>1, <2>2, NoTaskFacts DEF StreamInv, Streaming
<1>3. WatchInv
  BY DEF Init, WatchInv
<1>4. LinkInv
  <2>1. ClosedLeavesNothing
    BY DEF Init, ClosedLeavesNothing, Active, UploadKeys
  <2> QED
    BY <2>1 DEF Init, LinkInv, LinkStates
<1> QED
  BY <1>1, <1>2, <1>3, <1>4 DEF FileInv

\* Uploads leave the rest alone ...
LEMMA UploadFrame ==
  ASSUME NEW d, NEW g, NEW r, NEW n,
         \/ UploadStart(d, g, r, n)
         \/ ChunkTooLarge(d, g, r) \/ ChunkExceeds(d, g, r) \/ ChunkWriteFails(d, g, r)
         \/ ChunkWritten(d, g, r) \/ ChunkUnknown(d, g, r)
         \/ UploadEnd(d, g, r) \/ UploadEndFails(d, g, r) \/ UploadCancel(d, g, r)
         \/ UploadExpires(<<d, r>>)
  PROVE  Untouched
<1>1. CASE ChunkTooLarge(d, g, r) \/ ChunkExceeds(d, g, r) \/ ChunkWriteFails(d, g, r) \/ ChunkWritten(d, g, r)
  BY <1>1, Zenon DEF ChunkTooLarge, ChunkExceeds, ChunkWriteFails, ChunkWritten, Counted
<1>2. CASE UploadStart(d, g, r, n) \/ ChunkUnknown(d, g, r) \/ UploadEnd(d, g, r)
  BY <1>2, Zenon DEF UploadStart, ChunkUnknown, UploadEnd
<1>3. CASE UploadEndFails(d, g, r) \/ UploadCancel(d, g, r) \/ UploadExpires(<<d, r>>)
  BY <1>3, Zenon DEF UploadEndFails, UploadCancel, UploadExpires
<1> QED
  BY <1>1, <1>2, <1>3

\* ... and so do streams and the file they read ...
LEMMA StreamFrame ==
  ASSUME NEW d, NEW g, NEW t,
         \/ DownloadStream(d, g, t) \/ ReadFileStream(d, g, t) \/ TaskStep(t) \/ Grows \/ Truncated
  PROVE  Aside
<1>1. CASE DownloadStream(d, g, t) \/ ReadFileStream(d, g, t)
  BY <1>1, Zenon DEF DownloadStream, ReadFileStream, Spawn
<1>2. CASE TaskRefused(t) \/ ReadFails(t) \/ StreamCancelled(t) \/ SendTimesOut(t) \/ StreamEnds(t)
  BY <1>2, Zenon DEF TaskRefused, ReadFails, StreamCancelled, SendTimesOut, StreamEnds
<1>3. CASE DownloadStarts(t) \/ ReadStarts(t) \/ SendsChunk(t)
  BY <1>3, Zenon DEF DownloadStarts, ReadStarts, Start, SendsChunk
<1>4. CASE Grows \/ Truncated
  BY <1>4, Zenon DEF Grows, Truncated
<1> QED
  BY <1>1, <1>2, <1>3, <1>4 DEF TaskStep

\* ... and watchers ...
LEMMA WatchFrame ==
  ASSUME NEW d, NEW g, NEW r, NEW w,
         WatchRefused(d, g) \/ WatchFile(d, g, r) \/ UnwatchFile(d, g, r) \/ WatcherStops(w)
  PROVE  Apart
BY Zenon DEF WatchRefused, WatchFile, UnwatchFile, WatcherStops

\* ... and channels.
LEMMA ChannelFrame ==
  ASSUME NEW d, NEW g, Opens(d, g) \/ FallsSilent(d, g) \/ Closes(d, g)
  PROVE  UNCHANGED <<uses, uploadVars, streamVars, fileVars, watchVars>>
BY Zenon DEF Opens, FallsSilent, Closes

\* The uploads, whatever happens.
LEMMA UploadNext == FileInv /\ [Next]_vars => UploadInv'
<1> USE DEF uploadVars, streamVars, watchVars, fileVars
<1> SUFFICES ASSUME FileInv, [Next]_vars PROVE UploadInv'
  OBVIOUS
<1>0. UploadInv
  BY DEF FileInv
<1>1. CASE UNCHANGED uploadVars
  BY <1>0, <1>1 DEF UploadInv, UploadTypes, Uploading, UploadWhole, TempFilesOwned
<1>2. ASSUME NEW d \in FileDevices, NEW g \in Gens, NEW r \in Requests, NEW n \in 0 .. MaxUpload + 1,
             UploadStart(d, g, r, n)
      PROVE  UploadInv'
  <2>1. n \in Nat
    BY FileChannelAssumption
  <2> QED
    BY <1>0, <1>2, <2>1, UploadStartStep
<1>3. ASSUME \/ \E d \in FileDevices, g \in Gens :
                   \/ Opens(d, g) \/ FallsSilent(d, g) \/ Closes(d, g) \/ WatchRefused(d, g)
                   \/ \E t \in TaskIds : DownloadStream(d, g, t) \/ ReadFileStream(d, g, t)
                   \/ \E r \in Requests : ChunkUnknown(d, g, r) \/ WatchFile(d, g, r) \/ UnwatchFile(d, g, r)
             \/ \E t \in TaskIds : TaskStep(t) \/ WatcherStops(t)
             \/ Grows \/ Truncated \/ UNCHANGED vars
      PROVE  UNCHANGED uploadVars
  BY <1>3, ChannelFrame, WatchFrame, StreamFrame DEF ChunkUnknown, Aside, Apart, vars
<1> QED
  BY <1>0, <1>1, <1>2, <1>3, ChunkWrittenStep, UploadEndsStep, UploadRestartStep DEF Next

\* The streams.
LEMMA StreamNext == FileInv /\ [Next]_vars => StreamInv'
<1> USE DEF streamVars, watchVars
<1> SUFFICES ASSUME FileInv, [Next]_vars PROVE StreamInv'
  OBVIOUS
<1>0. StreamInv /\ LinkInv
  BY DEF FileInv
<1>1. CASE UNCHANGED <<tasks, fileVars>>
  BY <1>0, <1>1 DEF StreamInv, Streaming, fileVars
<1>2. ASSUME NEW d \in FileDevices, NEW g \in Gens, NEW t \in TaskIds,
             DownloadStream(d, g, t) \/ ReadFileStream(d, g, t)
      PROVE  StreamInv'
  BY <1>0, <1>2, SpawnStep DEF DownloadStream, ReadFileStream
<1>3. ASSUME NEW d \in FileDevices, NEW g \in Gens, FilesChannelClosed(d, g) PROVE StreamInv'
  <2> DEFINE hit == {t \in TaskIds : t = cancels[d]}
  <2>1. tasks' = [t \in TaskIds |-> IF t \in hit THEN [tasks[t] EXCEPT !.cancelled = TRUE] ELSE tasks[t]]
    BY <1>3 DEF FilesChannelClosed
  <2>2. hit \in SUBSET TaskIds /\ UNCHANGED fileVars
    BY <1>3 DEF FilesChannelClosed
  <2> HIDE DEF hit
  <2> QED
    BY <1>0, <2>1, <2>2, TasksCut
<1>4. CASE Restarts
  <2> DEFINE hit == {t \in TaskIds : tasks[t].pc \in Running}
  <2>1. tasks' = [t \in TaskIds |-> IF t \in hit THEN Over("stopped") ELSE tasks[t]]
    BY <1>4 DEF Restarts
  <2>2. hit \in SUBSET TaskIds /\ UNCHANGED fileVars
    BY <1>4 DEF Restarts
  <2> HIDE DEF hit
  <2> QED
    BY <1>0, <2>1, <2>2, TasksCut
<1>5. ASSUME \/ \E d \in FileDevices, g \in Gens :
                   \/ Opens(d, g) \/ FallsSilent(d, g) \/ Closes(d, g) \/ WatchRefused(d, g)
                   \/ \E r \in Requests :
                         \/ \E n \in 0 .. MaxUpload + 1 : UploadStart(d, g, r, n)
                         \/ ChunkTooLarge(d, g, r) \/ ChunkExceeds(d, g, r) \/ ChunkWriteFails(d, g, r)
                         \/ ChunkWritten(d, g, r) \/ ChunkUnknown(d, g, r)
                         \/ UploadEnd(d, g, r) \/ UploadEndFails(d, g, r) \/ UploadCancel(d, g, r)
                         \/ WatchFile(d, g, r) \/ UnwatchFile(d, g, r)
             \/ \E k \in UploadKeys : UploadExpires(k)
             \/ \E t \in TaskIds : WatcherStops(t)
             \/ UNCHANGED vars
      PROVE  UNCHANGED <<tasks, fileVars>>
  <2>1. \A k \in UploadKeys : k = <<k[1], k[2]>>
    BY DEF UploadKeys
  <2>2. ASSUME NEW k \in UploadKeys, UploadExpires(k) PROVE Untouched
    BY <2>1, <2>2, UploadFrame
  <2>3. ASSUME NEW d \in FileDevices, NEW g \in Gens, NEW r \in Requests,
               \/ \E n \in 0 .. MaxUpload + 1 : UploadStart(d, g, r, n)
               \/ ChunkTooLarge(d, g, r) \/ ChunkExceeds(d, g, r) \/ ChunkWriteFails(d, g, r)
               \/ ChunkWritten(d, g, r) \/ ChunkUnknown(d, g, r)
               \/ UploadEnd(d, g, r) \/ UploadEndFails(d, g, r) \/ UploadCancel(d, g, r)
        PROVE  Untouched
    BY <2>3, UploadFrame
  <2>4. Untouched => UNCHANGED <<tasks, fileVars>>
    BY DEF Untouched
  <2>5. Apart => UNCHANGED <<tasks, fileVars>>
    BY DEF Apart
  <2>6. UNCHANGED vars => UNCHANGED <<tasks, fileVars>>
    BY DEF vars
  <2> QED
    BY <1>5, <2>2, <2>3, <2>4, <2>5, <2>6, ChannelFrame, WatchFrame
<1> QED
  BY <1>0, <1>1, <1>2, <1>3, <1>4, <1>5, TaskStepKeeps, FileStep DEF Next

\* The watchers.
LEMMA WatchNext == FileInv /\ [Next]_vars => WatchInv'
<1> USE DEF watchVars
<1> SUFFICES ASSUME FileInv, [Next]_vars PROVE WatchInv'
  OBVIOUS
<1>0. WatchInv
  BY DEF FileInv
<1>1. ASSUME \/ \E d \in FileDevices, g \in Gens :
                   \/ Opens(d, g) \/ FallsSilent(d, g) \/ Closes(d, g)
                   \/ \E t \in TaskIds : DownloadStream(d, g, t) \/ ReadFileStream(d, g, t)
                   \/ \E r \in Requests :
                         \/ \E n \in 0 .. MaxUpload + 1 : UploadStart(d, g, r, n)
                         \/ ChunkTooLarge(d, g, r) \/ ChunkExceeds(d, g, r) \/ ChunkWriteFails(d, g, r)
                         \/ ChunkWritten(d, g, r) \/ ChunkUnknown(d, g, r)
                         \/ UploadEnd(d, g, r) \/ UploadEndFails(d, g, r) \/ UploadCancel(d, g, r)
             \/ \E k \in UploadKeys : UploadExpires(k)
             \/ \E t \in TaskIds : TaskStep(t)
             \/ Grows \/ Truncated \/ UNCHANGED vars
      PROVE  UNCHANGED watchVars
  <2>1. \A k \in UploadKeys : k = <<k[1], k[2]>>
    BY DEF UploadKeys
  <2> QED
    BY <1>1, <2>1, ChannelFrame, StreamFrame, UploadFrame, ZenonT(60) DEF Untouched, Aside, vars
<1> QED
  BY <1>0, <1>1, WatchFileStep, WatchersStep DEF Next

\* The channels.
LEMMA LinkNext == FileInv /\ [Next]_vars => LinkInv'
<1> SUFFICES ASSUME FileInv, [Next]_vars PROVE LinkInv'
  OBVIOUS
<1>0. UploadInv /\ WatchInv /\ LinkInv
  BY DEF FileInv
<1> QED
  BY <1>0, ChannelStep, RequestStep, ClosedStep, AsideStep DEF Next

\* FileInv holds in every reachable state.
LEMMA FileAlways == Spec => []FileInv
<1>1. FileInv /\ [Next]_vars => FileInv'
  BY UploadNext, StreamNext, WatchNext, LinkNext DEF FileInv
<1> QED
  BY <1>1, FileInit, PTL DEF Spec

\* For any number of devices, requests and channels: an upload arrives whole or
\* not at all, and every error path deletes its temporary file
\* (daemon.rs 1763-1945).
THEOREM UploadsAlwaysSound == Spec => []UploadsSound
<1>1. FileInv => UploadsSound
  BY DEF FileInv, UploadInv, UploadsSound
<1> QED
  BY <1>1, FileAlways, PTL

\* For any number of devices, channels, streams and watchers: nothing outlives
\* the channels of its device, a running watcher has exactly one entry, and an
\* end frame is sent only after all that the start frame promised
\* (daemon.rs 1608-1643, 2074-2413).
THEOREM ChannelAlwaysSound == Spec => []ChannelSound
<1>1. FileInv => ChannelSound
  <2> SUFFICES ASSUME FileInv PROVE ChannelSound
    OBVIOUS
  <2>1. TypeOK
    <3>1. \A t \in TaskIds : tasks[t].pc \in TaskStates /\ tasks[t].want \in 0 .. MaxSize
                             /\ tasks[t].pos \in 0 .. MaxSize
      BY TaskFacts DEF FileInv, StreamInv
    <3> QED
      BY <3>1 DEF FileInv, UploadInv, UploadTypes, UploadRecords, StreamInv, WatchInv, LinkInv, TypeOK
  <2>2. StreamComplete
    BY DEF FileInv, StreamInv, Streaming, StreamComplete
  <2> QED
    BY <2>1, <2>2, WatchersCounted DEF FileInv, LinkInv, ChannelSound
<1> QED
  BY <1>1, FileAlways, PTL

=============================================================================
