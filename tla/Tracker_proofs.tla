---------------------------- MODULE Tracker_proofs ----------------------------
(***************************************************************************)
(* Proofs about Tracker for any hashes, messages, limits and bounds.  The  *)
(* invariant has a part for what each file holds (FilesInv), one for which *)
(* cache may touch which file (OneCachePerFile, ClearsWhatWasSent), one    *)
(* for the two numbers of a header (CountInv), one for where an accepted   *)
(* message is (KeptInv), and one for no message being twice (OnceInv).     *)
(***************************************************************************)
EXTENDS Tracker, SequenceTheorems, TLAPS

Elements(q) == {q[k] : k \in DOMAIN q}

-----------------------------------------------------------------------------
(* The content of a cache.                                                 *)

\* What the stores of Push and Clear do to the records and the count.
LEMMA CacheOps ==
    ASSUME NEW c \in Cache, NEW m \in Messages
    PROVE  /\ Pushed(c, m) \in Cache
           /\ Pushed(c, m).recs = Append(c.recs, m)
           /\ Pushed(c, m).count = c.count + 1
           /\ Len(Pushed(c, m).recs) = Len(c.recs) + 1
           /\ Elements(Pushed(c, m).recs) = Elements(c.recs) \cup {m}
           /\ Counted(c) \in Cache
           /\ Counted(c).recs = c.recs
           /\ Counted(c).count = c.count + 1
<1>1. Pushed(c, m) \in Cache /\ Pushed(c, m).recs = Append(c.recs, m)
      /\ Pushed(c, m).count = c.count + 1
  <2>1. Counted(c) = [recs |-> c.recs, count |-> c.count + 1]
    BY DEF Cache, Counted
  <2>2. Pushed(c, m) = [recs |-> Append(c.recs, m), count |-> c.count + 1]
    <3>1. Counted(c) \in Cache
      BY <2>1 DEF Cache
    <3>2. \A d \in Cache : \A q : [d EXCEPT !.recs = q] = [recs |-> q, count |-> d.count]
      BY DEF Cache
    <3> QED
      BY <2>1, <3>1, <3>2 DEF Pushed, Recorded
  <2> QED
    BY <2>2 DEF Cache
<1>2. Counted(c) \in Cache /\ Counted(c).recs = c.recs /\ Counted(c).count = c.count + 1
  BY DEF Cache, Counted
<1>3. Len(Append(c.recs, m)) = Len(c.recs) + 1
  BY AppendProperties DEF Cache
<1>4. Elements(Append(c.recs, m)) = Elements(c.recs) \cup {m}
  <2>1. c.recs \in Seq(Messages)
    BY DEF Cache
  <2>2. DOMAIN Append(c.recs, m) = 1..(Len(c.recs) + 1) /\ DOMAIN c.recs = 1..Len(c.recs)
    BY <2>1
  <2>3. \A k \in 1..Len(c.recs) : Append(c.recs, m)[k] = c.recs[k]
    BY <2>1
  <2>4. Append(c.recs, m)[Len(c.recs) + 1] = m
    BY <2>1
  <2>5. Len(c.recs) \in Nat
    BY <2>1
  <2> QED
    BY <2>2, <2>3, <2>4, <2>5 DEF Elements
<1> QED
  BY <1>1, <1>2, <1>3, <1>4

\* Push adds its message and nothing else.
LEMMA PushedAdds ==
    ASSUME NEW c \in Cache, NEW m \in Messages, NEW S, Elements(c.recs) \subseteq S, m \in S
    PROVE  Pushed(c, m) \in Cache /\ Elements(Pushed(c, m).recs) \subseteq S
<1>1. Pushed(c, m) \in Cache
  BY CacheOps
<1>2. Elements(Pushed(c, m).recs) = Elements(c.recs) \cup {m}
  BY CacheOps, Zenon
<1> QED
  BY <1>1, <1>2

\* What is left after Clear, and after its first store.
LEMMA ClearOps ==
    ASSUME NEW c \in Cache
    PROVE  /\ Cleared(c) \in Cache
           /\ Cleared(c).recs = <<>> /\ Cleared(c).count = 0
           /\ ZeroCount(c) \in Cache
           /\ ZeroCount(c).recs = c.recs /\ ZeroCount(c).count = 0
<1>1. ZeroCount(c) = [recs |-> c.recs, count |-> 0]
  BY DEF Cache, ZeroCount
<1>2. Cleared(c) = [recs |-> <<>>, count |-> 0]
  BY <1>1 DEF Cleared, ZeroSize
<1> QED
  BY <1>1, <1>2 DEF Cache

\* A new cache is empty.
LEMMA EmptyOps ==
    EmptyCache \in Cache /\ EmptyCache.recs = <<>> /\ EmptyCache.count = 0
  BY DEF EmptyCache, Cache

\* No element of an empty sequence.
LEMMA NoElements == Elements(<<>>) = {} /\ Len(<<>>) = 0
  BY DEF Elements

\* Load returns records of the file, and all of them when the count covers them.
LEMMA LoadedOps ==
    ASSUME NEW c \in Cache
    PROVE  /\ Loaded(c) \in Seq(Messages)
           /\ Elements(Loaded(c)) \subseteq Elements(c.recs)
           /\ Len(c.recs) <= c.count => Loaded(c) = c.recs
<1> DEFINE n == IF c.count < Len(c.recs) THEN c.count ELSE Len(c.recs)
<1>1. c.recs \in Seq(Messages) /\ c.count \in Nat /\ Len(c.recs) \in Nat
      /\ DOMAIN c.recs = 1..Len(c.recs)
  BY DEF Cache
<1>2. n \in Nat /\ n <= Len(c.recs) /\ Loaded(c) = SubSeq(c.recs, 1, n)
  BY <1>1 DEF Loaded
<1> HIDE DEF n
<1>3. /\ SubSeq(c.recs, 1, n) \in Seq(Messages)
      /\ Len(SubSeq(c.recs, 1, n)) = n
      /\ \A i \in 1..n : SubSeq(c.recs, 1, n)[i] = c.recs[i]
  BY <1>1, <1>2
<1>4. Elements(SubSeq(c.recs, 1, n)) \subseteq Elements(c.recs)
  BY <1>1, <1>2, <1>3 DEF Elements
<1>5. ASSUME Len(c.recs) <= c.count PROVE Loaded(c) = c.recs
  <2>1. n = Len(c.recs)
    BY <1>1, <1>5 DEF n
  <2> QED
    BY <2>1, <1>1, <1>2, SubSeqFull
<1> QED
  BY <1>2, <1>3, <1>4, <1>5

\* A file that is written is the one that changes.
LEMMA PutOps ==
    ASSUME files \in [Hashes -> [Indexes -> Cache \cup {NoFile}]],
           NEW h \in Hashes, NEW i \in Indexes, NEW g \in Cache \cup {NoFile},
           files' = [files EXCEPT ![h][i] = g]
    PROVE  /\ files' \in [Hashes -> [Indexes -> Cache \cup {NoFile}]]
           /\ files'[h][i] = g
           /\ \A e \in Hashes : \A j \in Indexes :
                  e # h \/ j # i => files'[e][j] = files[e][j]
  OBVIOUS

-----------------------------------------------------------------------------
(* The invariant.                                                          *)

Content(h, i) == files[h][i] # NoFile

\* Only flushed messages are in files; the caches in the map and the one being
\* uploaded have a file; what a server has received of an upload is delivered;
\* and nothing runs while the process is down.
FilesInv ==
    /\ \A h \in Hashes : \A i \in Indexes :
          Content(h, i) => Elements(files[h][i].recs) \subseteq flushed
    /\ lock = "flush" => message \in flushed
    /\ \A h \in Hashes : \A i \in trackers_cache[h] : Content(h, i)
    /\ Uploading => /\ Content(upload.hash, upload.index)
                    /\ upload.received => Sent \subseteq delivered
    /\ proc = "down" => upload = NoUpload /\ lock = "free"

\* The count and the records of a file differ only after a store was cut.
CountInv ==
    \A h \in Hashes : \A i \in Indexes :
        Content(h, i) =>
            /\ ~Happened({"clear_cut"}) => Len(files[h][i].recs) <= files[h][i].count
            /\ ~Happened({"clear_cut", "push_cut"}) =>
                   Len(files[h][i].recs) = files[h][i].count

\* An accepted message that no server has is a record of some file.
KeptInv ==
    \/ Happened({"clear_cut", "deleted"})
    \/ \A m \in accepted \ delivered : \E h \in Hashes : \E i \in Indexes :
          Content(h, i) /\ m \in Elements(files[h][i].recs)

UseInv == OneCachePerFile /\ ClearsWhatWasSent

USE TrackerAssumption, NoFileAssumption

\* The first state.
LEMMA InitInv == Init => TypeOK /\ FilesInv /\ UseInv /\ CountInv /\ KeptInv
                        /\ DeadlockNeedsCutStore
<1> SUFFICES ASSUME Init PROVE TypeOK /\ FilesInv /\ UseInv /\ CountInv /\ KeptInv
                               /\ DeadlockNeedsCutStore
  OBVIOUS
<1>1. TypeOK
  BY DEF Init, TypeOK, NoIndexes
<1>2. FilesInv /\ UseInv /\ CountInv
  BY DEF Init, FilesInv, UseInv, CountInv, OneCachePerFile, ClearsWhatWasSent, NoIndexes,
         Content, Uploading
<1>3. KeptInv /\ DeadlockNeedsCutStore
  BY DEF Init, KeptInv, DeadlockNeedsCutStore
<1> QED
  BY <1>1, <1>2, <1>3

\* The upload that StartUpload begins.
LEMMA StartOps ==
    ASSUME TypeOK, NEW h \in Hashes, NEW i \in Indexes, files'[h][i] \in Cache,
           StartUpload(h, i)
    PROVE  /\ trackers_cache' \in [Hashes -> SUBSET Indexes]
           /\ trackers_cache'[h] = trackers_cache[h] \ {i}
           /\ \A e \in Hashes : e # h => trackers_cache'[e] = trackers_cache[e]
           /\ tracker_cache_ids' = tracker_cache_ids
           /\ upload' \in Upload /\ upload' # NoUpload
           /\ upload'.hash = h /\ upload'.index = i /\ ~upload'.received
           /\ upload'.sent = Loaded(files'[h][i])
<1>1. Loaded(files'[h][i]) \in Seq(Messages)
  BY LoadedOps
<1>2. upload' \in Upload /\ upload'.hash = h /\ upload'.index = i /\ ~upload'.received
      /\ upload'.sent = Loaded(files'[h][i])
  BY <1>1 DEF StartUpload, Upload
<1>3. /\ trackers_cache' \in [Hashes -> SUBSET Indexes]
      /\ trackers_cache'[h] = trackers_cache[h] \ {i}
      /\ \A e \in Hashes : e # h => trackers_cache'[e] = trackers_cache[e]
      /\ tracker_cache_ids' = tracker_cache_ids
  BY DEF StartUpload, TypeOK
<1> QED
  BY <1>2, <1>3

\* The index at which a loop of FlushTracker stands has a file, one at which it may
\* create a cache is neither in the map nor being uploaded.
LEMMA FlushOps ==
    ASSUME TypeOK, FilesInv, UseInv, Flushing, NEW i \in Indexes
    PROVE  /\ message \in flushed => message \in Messages /\ Hash \in Hashes
           /\ message \in flushed
           /\ At(i) => i \in trackers_cache[Hash] /\ files[Hash][i] \in Cache
                       /\ ~(Uploading /\ upload.hash = Hash /\ upload.index = i)
           /\ NextFree(i) => i \notin tracker_cache_ids[Hash] /\ i \notin trackers_cache[Hash]
                             /\ ~(Uploading /\ upload.hash = Hash /\ upload.index = i)
           /\ Opened(files[Hash][i]) \in Cache
<1>1. message \in flushed
  BY DEF FilesInv, Flushing
<1>2. message \in Messages /\ Hash \in Hashes
  BY <1>1 DEF TypeOK, Hash
<1>3. ASSUME At(i) PROVE i \in trackers_cache[Hash] /\ files[Hash][i] \in Cache
                         /\ ~(Uploading /\ upload.hash = Hash /\ upload.index = i)
  BY <1>2, <1>3 DEF At, FilesInv, Content, TypeOK, UseInv, OneCachePerFile, Flushing
<1>4. ASSUME NextFree(i) PROVE i \notin tracker_cache_ids[Hash] /\ i \notin trackers_cache[Hash]
                             /\ ~(Uploading /\ upload.hash = Hash /\ upload.index = i)
  BY <1>2, <1>4 DEF NextFree, Free, UseInv, OneCachePerFile, Flushing
<1>5. Opened(files[Hash][i]) \in Cache
  BY <1>2, EmptyOps DEF Opened, TypeOK
<1> QED
  BY <1>1, <1>2, <1>3, <1>4, <1>5

\* The file being uploaded.
LEMMA UploadOps ==
    ASSUME TypeOK, FilesInv, UseInv, Uploading
    PROVE  /\ upload \in Upload /\ upload.hash \in Hashes /\ upload.index \in Indexes
           /\ files[upload.hash][upload.index] \in Cache
           /\ Sent = Elements(upload.sent)
           /\ upload.sent = Loaded(files[upload.hash][upload.index])
           /\ Sent \subseteq flushed
<1>1. upload \in Upload /\ upload.hash \in Hashes /\ upload.index \in Indexes
  BY DEF TypeOK, Uploading, Upload
<1>2. files[upload.hash][upload.index] \in Cache
  BY <1>1 DEF FilesInv, Content, TypeOK
<1>3. upload.sent = Loaded(files[upload.hash][upload.index])
  BY DEF UseInv, ClearsWhatWasSent
<1>4. Sent = Elements(upload.sent)
  BY DEF Sent, Elements
<1>5. Elements(files[upload.hash][upload.index].recs) \subseteq flushed
  BY <1>1, <1>2 DEF FilesInv, Content
<1> QED
  BY <1>1, <1>2, <1>3, <1>4, <1>5, LoadedOps

-----------------------------------------------------------------------------
(* Types.                                                                  *)

\* Every step keeps the types.
LEMMA NextType == TypeOK /\ FilesInv /\ UseInv /\ [Next]_vars => TypeOK'
<1> SUFFICES ASSUME TypeOK, FilesInv, UseInv, [Next]_vars PROVE TypeOK'
  OBVIOUS
<1>1. ASSUME NEW unread \in SUBSET Existing, Launch(unread) PROVE TypeOK'
  <2>1. trackers_cache' \in [Hashes -> SUBSET Indexes] /\ tracker_cache_ids' = trackers_cache'
    BY <1>1 DEF Launch
  <2>2. mishaps' \subseteq Mishaps /\ failures' \in Nat
    <3>1. CASE unread = {}
      BY <1>1, <3>1 DEF Launch, TypeOK
    <3>2. CASE unread # {}
      <4>1. failures' = failures + 1 /\ mishaps' = mishaps \cup {"unread"}
        BY <1>1, <3>2 DEF Launch, Fails
      <4> QED
        BY <4>1 DEF TypeOK, Mishaps
    <3> QED
      BY <3>1, <3>2
  <2> QED
    BY <1>1, <2>1, <2>2 DEF Launch, TypeOK, flush
<1>2. ASSUME NEW m \in Messages, FlushTracker(m) PROVE TypeOK'
  BY <1>2 DEF FlushTracker, TypeOK, maps
<1>3. CASE PassFull
  BY <1>3 DEF PassFull, TypeOK, maps, history, Indexes
<1>4. CASE UploadFull
  <2>1. PICK i \in Indexes : At(i) /\ files' = files /\ StartUpload(Hash, i) /\ walk' = i + 1
    BY <1>4 DEF UploadFull
  <2>2. Hash \in Hashes /\ files'[Hash][i] \in Cache
    BY <1>4, <2>1, FlushOps DEF UploadFull
  <2>3. trackers_cache' \in [Hashes -> SUBSET Indexes] /\ upload' \in Upload
        /\ tracker_cache_ids' = tracker_cache_ids
    BY <2>1, <2>2, StartOps
  <2> QED
    BY <1>4, <2>1, <2>3 DEF UploadFull, TypeOK, history, Indexes
<1>5. CASE PushTrue
  <2>1. PICK i \in Indexes :
            /\ At(i) /\ PutIn(i, Pushed(files[Hash][i], message))
            /\ message' = NoMessage /\ walk' = 0 /\ slot' = 0
            /\ lock' \in {"free", "dead"}
            /\ StartUpload(Hash, i) \/ UNCHANGED <<maps, upload>>
    BY <1>5 DEF PushTrue
  <2>2. message \in flushed /\ message \in Messages /\ Hash \in Hashes
        /\ files[Hash][i] \in Cache
    BY <1>5, <2>1, FlushOps DEF PushTrue
  <2>3. /\ files' \in [Hashes -> [Indexes -> Cache \cup {NoFile}]]
        /\ files'[Hash][i] \in Cache
    <3>1. Pushed(files[Hash][i], message) \in Cache
      BY <2>2, CacheOps
    <3> QED
      BY <2>1, <2>2, <3>1, PutOps DEF PutIn, TypeOK
  <2>4. trackers_cache' \in [Hashes -> SUBSET Indexes] /\ upload' \in Upload \cup {NoUpload}
        /\ tracker_cache_ids' = tracker_cache_ids
    BY <2>1, <2>2, <2>3, StartOps DEF TypeOK, maps
  <2> QED
    BY <1>5, <2>1, <2>2, <2>3, <2>4 DEF PushTrue, TypeOK
<1>6. CASE PushFalse
  BY <1>6 DEF PushFalse, Fails, TypeOK, maps, Indexes
<1>7. CASE PushStoredFalse
  <2>1. PICK i \in Indexes : At(i) /\ PutIn(i, Pushed(files[Hash][i], message))
                              /\ walk' = i + 1
    BY <1>7 DEF PushStoredFalse
  <2>2. message \in Messages /\ Hash \in Hashes /\ files[Hash][i] \in Cache
    BY <1>7, <2>1, FlushOps DEF PushStoredFalse
  <2>3. files' \in [Hashes -> [Indexes -> Cache \cup {NoFile}]]
    BY <2>1, <2>2, CacheOps, PutOps DEF PutIn, TypeOK
  <2>4. mishaps' \subseteq Mishaps
    BY <1>7 DEF PushStoredFalse, TypeOK, Mishaps
  <2> QED
    BY <1>7, <2>1, <2>3, <2>4 DEF PushStoredFalse, Fails, TypeOK, maps, Indexes
<1>8. CASE Refuse
  BY <1>8 DEF Refuse, Return, TypeOK, maps, history
<1>9. CASE CreateAndPush
  <2>1. PICK i \in Indexes : Register(i) /\ PutIn(i, Pushed(Opened(files[Hash][i]), message))
    BY <1>9 DEF CreateAndPush
  <2>2. message \in flushed /\ message \in Messages /\ Hash \in Hashes
        /\ Opened(files[Hash][i]) \in Cache
    BY <1>9, FlushOps DEF CreateAndPush
  <2>3. files' \in [Hashes -> [Indexes -> Cache \cup {NoFile}]]
    BY <2>1, <2>2, CacheOps, PutOps DEF PutIn, TypeOK
  <2>4. /\ trackers_cache' \in [Hashes -> SUBSET Indexes]
        /\ tracker_cache_ids' \in [Hashes -> SUBSET Indexes]
    BY <2>1, <2>2 DEF Register, TypeOK
  <2> QED
    BY <1>9, <2>2, <2>3, <2>4 DEF CreateAndPush, Return, TypeOK
<1>10. CASE CreateAndPushFalse
  <2>1. PICK i \in Indexes : Register(i) /\ PutIn(i, Opened(files[Hash][i]))
    BY <1>10 DEF CreateAndPushFalse
  <2>2. Hash \in Hashes /\ Opened(files[Hash][i]) \in Cache
    BY <1>10, FlushOps DEF CreateAndPushFalse
  <2>3. files' \in [Hashes -> [Indexes -> Cache \cup {NoFile}]]
    BY <2>1, <2>2, PutOps DEF PutIn, TypeOK
  <2>4. /\ trackers_cache' \in [Hashes -> SUBSET Indexes]
        /\ tracker_cache_ids' \in [Hashes -> SUBSET Indexes]
    BY <2>1, <2>2 DEF Register, TypeOK
  <2> QED
    BY <1>10, <2>3, <2>4 DEF CreateAndPushFalse, Fails, Return, TypeOK
<1>10a. CASE CreateAndPushStoredFalse
  <2>1. PICK i \in Indexes : Register(i) /\ PutIn(i, Pushed(Opened(files[Hash][i]), message))
    BY <1>10a DEF CreateAndPushStoredFalse
  <2>2. message \in Messages /\ Hash \in Hashes /\ Opened(files[Hash][i]) \in Cache
    BY <1>10a, FlushOps DEF CreateAndPushStoredFalse
  <2>3. files' \in [Hashes -> [Indexes -> Cache \cup {NoFile}]]
    BY <2>1, <2>2, CacheOps, PutOps DEF PutIn, TypeOK
  <2>4. /\ trackers_cache' \in [Hashes -> SUBSET Indexes]
        /\ tracker_cache_ids' \in [Hashes -> SUBSET Indexes]
    BY <2>1, <2>2 DEF Register, TypeOK
  <2>5. mishaps' \subseteq Mishaps
    BY <1>10a DEF CreateAndPushStoredFalse, TypeOK, Mishaps
  <2> QED
    BY <1>10a, <2>3, <2>4, <2>5 DEF CreateAndPushStoredFalse, Fails, Return, TypeOK
<1>11. CASE CreateFails
  <2>1. PICK i \in Indexes :
            /\ slot' = i + 1 /\ PutIn(i, NoFile)
            /\ mishaps' = mishaps \/ mishaps' = mishaps \cup {"deleted"}
    BY <1>11 DEF CreateFails
  <2>2. Hash \in Hashes
    BY <1>11, <2>1, FlushOps DEF CreateFails
  <2>3. files' \in [Hashes -> [Indexes -> Cache \cup {NoFile}]]
    BY <2>1, <2>2, PutOps DEF PutIn, TypeOK
  <2>4. mishaps' \subseteq Mishaps
    BY <2>1 DEF TypeOK, Mishaps
  <2> QED
    BY <1>11, <2>1, <2>3, <2>4 DEF CreateFails, Fails, TypeOK, maps, Indexes
<1>12. CASE CheckAndUpload
  <2>1. PICK c \in Hashes \X Indexes :
            c \in Pending /\ files' = files /\ StartUpload(c[1], c[2])
            /\ lock' \in {"free", "dead"}
    BY <1>12 DEF CheckAndUpload, Chosen
  <2>2. c[1] \in Hashes /\ c[2] \in Indexes /\ files'[c[1]][c[2]] \in Cache
    BY <2>1 DEF Pending, FilesInv, Content, TypeOK
  <2>3. trackers_cache' \in [Hashes -> SUBSET Indexes] /\ upload' \in Upload
        /\ tracker_cache_ids' = tracker_cache_ids
    BY <2>1, <2>2, StartOps
  <2> QED
    BY <1>12, <2>1, <2>3 DEF CheckAndUpload, TypeOK, flush, history
<1>13. CASE Receive
  <2>1. upload' \in Upload /\ Sent \subseteq flushed
    BY <1>13, UploadOps DEF Receive, Upload
  <2> QED
    BY <1>13, <2>1 DEF Receive, TypeOK, maps, flush
<1>14. CASE UploadSucceeded
  <2>1. files' \in [Hashes -> [Indexes -> Cache \cup {NoFile}]]
    BY <1>14, UploadOps, ClearOps, PutOps DEF UploadSucceeded, ClearUploaded, TypeOK
  <2>2. trackers_cache' \in [Hashes -> SUBSET Indexes]
    BY <1>14, UploadOps DEF UploadSucceeded, BackInMap, TypeOK
  <2> QED
    BY <1>14, <2>1, <2>2 DEF UploadSucceeded, TypeOK, flush, history
<1>15. CASE ClearThrows
  <2>1. files' \in [Hashes -> [Indexes -> Cache \cup {NoFile}]]
    BY <1>15, UploadOps, ClearOps, PutOps DEF ClearThrows, ClearUploaded, TypeOK
  <2>2. tracker_cache_ids' \in [Hashes -> SUBSET Indexes]
    BY <1>15, UploadOps DEF ClearThrows, TypeOK
  <2> QED
    BY <1>15, <2>1, <2>2 DEF ClearThrows, Fails, TypeOK, flush
<1>16. CASE UploadFailed
  <2>1. trackers_cache' \in [Hashes -> SUBSET Indexes]
        /\ latest_upload_failed' \in Hashes \X Indexes
    BY <1>16, UploadOps DEF UploadFailed, BackInMap, TypeOK
  <2>2. mishaps' \subseteq Mishaps
    BY <1>16 DEF UploadFailed, TypeOK, Mishaps
  <2> QED
    BY <1>16, <2>1, <2>2 DEF UploadFailed, TypeOK, flush
<1>17. ASSUME NEW what \in Mishaps, Down(what),
              files' \in [Hashes -> [Indexes -> Cache \cup {NoFile}]]
       PROVE  TypeOK'
  BY <1>17 DEF Down, TypeOK, NoIndexes
<1>18. CASE Crash
  BY <1>17, <1>18 DEF Crash, Mishaps, TypeOK
<1>19. CASE CrashInPush
  <2>1. PICK i \in Indexes : \/ At(i) /\ PutIn(i, Counted(files[Hash][i]))
                            \/ PutIn(i, Counted(Opened(files[Hash][i])))
    BY <1>19 DEF CrashInPush
  <2>2. message \in Messages /\ Hash \in Hashes
        /\ (At(i) => files[Hash][i] \in Cache) /\ Opened(files[Hash][i]) \in Cache
    BY <1>19, FlushOps DEF CrashInPush
  <2>3. files' \in [Hashes -> [Indexes -> Cache \cup {NoFile}]]
    BY <2>1, <2>2, CacheOps, PutOps DEF PutIn, TypeOK
  <2> QED
    BY <1>17, <1>19, <2>3 DEF CrashInPush, Mishaps
<1>20. CASE CrashInClear
  <2>1. files' \in [Hashes -> [Indexes -> Cache \cup {NoFile}]]
    BY <1>20, UploadOps, ClearOps, PutOps DEF CrashInClear, ClearUploaded, TypeOK
  <2> QED
    BY <1>17, <1>20, <2>1 DEF CrashInClear, Mishaps
<1>21. CASE UNCHANGED vars
  BY <1>21 DEF vars, TypeOK, maps, flush, history
<1> QED
  BY <1>1, <1>2, <1>3, <1>4, <1>5, <1>6, <1>7, <1>8, <1>9, <1>10, <1>10a, <1>11, <1>12, <1>13,
     <1>14, <1>15, <1>16, <1>18, <1>19, <1>20, <1>21 DEF Next, Start, FlushStep, Answer

-----------------------------------------------------------------------------
(* Files and the caches that use them.                                     *)

FlushedOnly == \A h \in Hashes : \A i \in Indexes :
                   Content(h, i) => Elements(files[h][i].recs) \subseteq flushed

\* A file that is given flushed messages only.
LEMMA PutFlushed ==
    ASSUME TypeOK, FilesInv, NEW h \in Hashes, NEW i \in Indexes, NEW g \in Cache,
           files' = [files EXCEPT ![h][i] = g],
           Elements(g.recs) \subseteq flushed, flushed' = flushed
    PROVE  /\ FlushedOnly'
           /\ \A e \in Hashes : \A j \in Indexes : Content(e, j) => Content(e, j)'
           /\ Content(h, i)'
           /\ files'[h][i] = g
           /\ \A e \in Hashes : \A j \in Indexes :
                  e # h \/ j # i => files'[e][j] = files[e][j]
<1>1. /\ files'[h][i] = g
      /\ \A e \in Hashes : \A j \in Indexes :
             e # h \/ j # i => files'[e][j] = files[e][j]
  BY PutOps DEF TypeOK
<1>2. g # NoFile
  OBVIOUS
<1>3. \A e \in Hashes : \A j \in Indexes :
         Content(e, j) => Elements(files[e][j].recs) \subseteq flushed
  BY DEF FilesInv
<1> QED
  BY <1>1, <1>2, <1>3 DEF FlushedOnly, Content

\* The content a cache is created with is that of its file, if there is one.
LEMMA OpenedFlushed ==
    ASSUME TypeOK, FilesInv, NEW h \in Hashes, NEW i \in Indexes
    PROVE  /\ Opened(files[h][i]) \in Cache
           /\ Elements(Opened(files[h][i]).recs) \subseteq flushed
<1>1. CASE files[h][i] = NoFile
  BY <1>1, EmptyOps, NoElements DEF Opened
<1>2. CASE files[h][i] # NoFile
  BY <1>2 DEF Opened, FilesInv, Content, TypeOK
<1> QED
  BY <1>1, <1>2

\* A started upload keeps FilesInv and UseInv: its cache was in the map, or has just
\* been pushed to.
LEMMA StartKeeps ==
    ASSUME TypeOK, FilesInv, UseInv, proc = "up", ~Uploading, FlushedOnly',
           NEW h \in Hashes, NEW i \in Indexes, i \in trackers_cache[h],
           StartUpload(h, i), files'[h][i] \in Cache,
           \A e \in Hashes : \A j \in Indexes : Content(e, j) => Content(e, j)',
           lock' # "flush" \/ message' \in flushed',
           proc' # "down"
    PROVE  FilesInv' /\ UseInv'
<1>1. /\ trackers_cache'[h] = trackers_cache[h] \ {i}
      /\ \A e \in Hashes : e # h => trackers_cache'[e] = trackers_cache[e]
      /\ tracker_cache_ids' = tracker_cache_ids
      /\ upload' # NoUpload /\ upload'.hash = h /\ upload'.index = i /\ ~upload'.received
      /\ upload'.sent = Loaded(files'[h][i])
  BY StartOps
<1>2. Content(h, i)'
  BY DEF Content
<1>3. \A e \in Hashes : trackers_cache'[e] \subseteq trackers_cache[e]
  BY <1>1
<1>4. \A e \in Hashes : \A j \in trackers_cache'[e] : Content(e, j)'
  BY <1>3 DEF FilesInv, TypeOK
<1>5. FilesInv'
  BY <1>1, <1>2, <1>4 DEF FilesInv, FlushedOnly, Content, Uploading
<1>6. OneCachePerFile'
  BY <1>1, <1>3 DEF UseInv, OneCachePerFile, Uploading
<1>7. ClearsWhatWasSent'
  BY <1>1 DEF ClearsWhatWasSent, Uploading
<1> QED
  BY <1>5, <1>6, <1>7 DEF UseInv

\* Steps that touch neither files nor caches nor the upload.
LEMMA SameKeeps ==
    ASSUME TypeOK, FilesInv, UseInv, proc = "up", proc' = "up",
           UNCHANGED <<files, trackers_cache, tracker_cache_ids, upload, delivered>>,
           flushed \subseteq flushed',
           lock' # "flush" \/ message' \in flushed'
    PROVE  FilesInv' /\ UseInv'
<1>1. FlushedOnly'
  BY DEF FlushedOnly, FilesInv, Content
<1>2. FilesInv'
  BY <1>1 DEF FlushedOnly, FilesInv, Content, Uploading, Sent
<1>3. UseInv'
  BY DEF UseInv, OneCachePerFile, ClearsWhatWasSent, Uploading
<1> QED
  BY <1>2, <1>3

\* A push, into a cache of the map or a new one, while the upload goes on.
LEMMA PushKeeps ==
    ASSUME TypeOK, FilesInv, UseInv, proc = "up", proc' = "up",
           NEW h \in Hashes, NEW i \in Indexes, NEW g \in Cache,
           files' = [files EXCEPT ![h][i] = g], Elements(g.recs) \subseteq flushed,
           ~(Uploading /\ upload.hash = h /\ upload.index = i),
           UNCHANGED <<upload, delivered, flushed>>,
           \A e \in Hashes : e # h => trackers_cache'[e] = trackers_cache[e]
                                     /\ tracker_cache_ids'[e] = tracker_cache_ids[e],
           trackers_cache'[h] \subseteq trackers_cache[h] \cup {i},
           tracker_cache_ids[h] \subseteq tracker_cache_ids'[h],
           trackers_cache'[h] \subseteq tracker_cache_ids'[h],
           lock' # "flush" \/ message' \in flushed'
    PROVE  FilesInv' /\ UseInv'
<1>1. /\ FlushedOnly'
      /\ \A e \in Hashes : \A j \in Indexes : Content(e, j) => Content(e, j)'
      /\ Content(h, i)'
      /\ \A e \in Hashes : \A j \in Indexes :
             e # h \/ j # i => files'[e][j] = files[e][j]
  <2>1. flushed' = flushed
    OBVIOUS
  <2>2. FlushedOnly'
    BY <2>1, PutFlushed
  <2>3. /\ files'[h][i] = g /\ g # NoFile
        /\ \A e \in Hashes : \A j \in Indexes :
               e # h \/ j # i => files'[e][j] = files[e][j]
    BY PutOps DEF TypeOK
  <2> QED
    BY <2>2, <2>3 DEF Content
<1>2. \A e \in Hashes : \A j \in trackers_cache'[e] : Content(e, j)'
  <2>1. TAKE e \in Hashes
  <2>2. TAKE j \in trackers_cache'[e]
  <2>3. CASE e = h /\ j = i
    BY <1>1, <2>3
  <2>4. CASE ~(e = h /\ j = i)
    <3>1. j \in trackers_cache[e] /\ j \in Indexes
      BY <2>2, <2>4 DEF TypeOK
    <3> QED
      BY <1>1, <3>1 DEF FilesInv
  <2> QED
    BY <2>3, <2>4
<1>3. ASSUME Uploading
      PROVE  /\ upload.hash \in Hashes /\ upload.index \in Indexes
             /\ files'[upload.hash][upload.index] = files[upload.hash][upload.index]
  BY <1>1, <1>3, UploadOps
<1>4. FilesInv'
  BY <1>1, <1>2, <1>3 DEF FlushedOnly, FilesInv, Content, Uploading, Sent
<1>5. OneCachePerFile'
  BY <1>3 DEF UseInv, OneCachePerFile, Uploading
<1>6. ClearsWhatWasSent'
  BY <1>3 DEF UseInv, ClearsWhatWasSent, Uploading
<1> QED
  BY <1>4, <1>5, <1>6 DEF UseInv

\* The end of an upload, answered or not; its file is g from then on.
LEMMA AnswerKeeps ==
    ASSUME TypeOK, FilesInv, UseInv, proc = "up", lock = "free", lock' = "free", Uploading,
           upload' = NoUpload, NEW g \in Cache,
           ClearUploaded(g), Elements(g.recs) \subseteq flushed, flushed' = flushed,
           proc' # "down",
           trackers_cache' = trackers_cache \/ BackInMap,
           tracker_cache_ids' = tracker_cache_ids
           \/ /\ trackers_cache' = trackers_cache
              /\ tracker_cache_ids' = [tracker_cache_ids EXCEPT ![upload.hash] = @ \ {upload.index}]
    PROVE  FilesInv' /\ UseInv'
<1>1. upload.hash \in Hashes /\ upload.index \in Indexes
  BY UploadOps
<1>2. /\ FlushedOnly'
      /\ \A e \in Hashes : \A j \in Indexes : Content(e, j) => Content(e, j)'
  BY <1>1, PutFlushed DEF ClearUploaded
<1>3. /\ upload.index \in tracker_cache_ids[upload.hash]
      /\ upload.index \notin trackers_cache[upload.hash]
      /\ \A e \in Hashes : trackers_cache[e] \subseteq tracker_cache_ids[e]
  BY DEF UseInv, OneCachePerFile
<1>4. \A e \in Hashes : \A j \in trackers_cache'[e] :
         j \in trackers_cache[e] \/ (e = upload.hash /\ j = upload.index)
  BY <1>1 DEF BackInMap, TypeOK
<1>5. \A e \in Hashes : \A j \in trackers_cache'[e] : j \in Indexes /\ Content(e, j)
  BY <1>1, <1>4 DEF FilesInv, TypeOK
<1>6. \A e \in Hashes : trackers_cache'[e] \subseteq tracker_cache_ids'[e]
  <2>1. CASE tracker_cache_ids' = tracker_cache_ids
    BY <1>3, <1>4, <2>1
  <2>2. CASE /\ trackers_cache' = trackers_cache
             /\ tracker_cache_ids' = [tracker_cache_ids EXCEPT ![upload.hash] = @ \ {upload.index}]
    BY <1>3, <2>2 DEF TypeOK
  <2> QED
    BY <2>1, <2>2
<1>7. FilesInv'
  BY <1>2, <1>5 DEF FilesInv, FlushedOnly, Content, Uploading
<1>8. UseInv'
  BY <1>6 DEF UseInv, OneCachePerFile, ClearsWhatWasSent, Uploading
<1> QED
  BY <1>7, <1>8

\* Every step keeps what the files hold and which cache may touch which.
LEMMA FilesNext == TypeOK /\ FilesInv /\ UseInv /\ [Next]_vars => FilesInv' /\ UseInv'
<1> SUFFICES ASSUME TypeOK, FilesInv, UseInv, [Next]_vars PROVE FilesInv' /\ UseInv'
  OBVIOUS
<1>1. ASSUME NEW unread \in SUBSET Existing, Launch(unread) PROVE FilesInv' /\ UseInv'
  <2>1. /\ files' = files /\ flushed' = flushed /\ lock' = "free" /\ proc' = "up"
        /\ upload' = NoUpload /\ tracker_cache_ids' = trackers_cache'
    BY <1>1 DEF Launch, FilesInv
  <2>2. \A h \in Hashes : \A i \in trackers_cache'[h] : <<h, i>> \in Existing
    BY <1>1 DEF Launch
  <2>3. \A h \in Hashes : \A i \in trackers_cache'[h] : Content(h, i)'
    BY <2>1, <2>2 DEF Existing, Content
  <2>4. FilesInv'
    BY <2>1, <2>3 DEF FilesInv, Content, Uploading
  <2> QED
    BY <2>1, <2>4 DEF UseInv, OneCachePerFile, ClearsWhatWasSent, Uploading
<1>2. ASSUME NEW m \in Messages, FlushTracker(m) PROVE FilesInv' /\ UseInv'
  BY <1>2, SameKeeps DEF FlushTracker, maps
<1>3. CASE PassFull
  BY <1>3, SameKeeps DEF PassFull, Flushing, maps, history, FilesInv
<1>4. CASE UploadFull
  <2>1. PICK i \in Indexes : At(i) /\ files' = files /\ StartUpload(Hash, i)
    BY <1>4 DEF UploadFull
  <2>2. Hash \in Hashes /\ files'[Hash][i] \in Cache /\ i \in trackers_cache[Hash]
        /\ message \in flushed
    BY <1>4, <2>1, FlushOps DEF UploadFull
  <2>3. flushed' = flushed /\ message' = message /\ proc = "up" /\ proc' # "down" /\ ~Uploading
    BY <1>4 DEF UploadFull, Flushing, history
  <2>4. FlushedOnly' /\ \A e \in Hashes : \A j \in Indexes : Content(e, j) => Content(e, j)'
    BY <2>1, <2>3 DEF FlushedOnly, FilesInv, Content
  <2> QED
    BY <2>1, <2>2, <2>3, <2>4, StartKeeps
<1>5. CASE PushTrue
  <2>1. PICK i \in Indexes :
            /\ At(i) /\ PutIn(i, Pushed(files[Hash][i], message))
            /\ lock' \in {"free", "dead"}
            /\ \/ ~Uploading /\ StartUpload(Hash, i)
               \/ UNCHANGED <<maps, upload>>
    BY <1>5 DEF PushTrue
  <2>2. message \in flushed /\ message \in Messages /\ Hash \in Hashes
        /\ files[Hash][i] \in Cache /\ i \in trackers_cache[Hash]
        /\ ~(Uploading /\ upload.hash = Hash /\ upload.index = i)
    BY <1>5, <2>1, FlushOps DEF PushTrue
  <2> DEFINE g == Pushed(files[Hash][i], message)
  <2>3. g \in Cache /\ Elements(g.recs) \subseteq flushed
    <3>1. Elements(files[Hash][i].recs) \subseteq flushed
      BY <2>2 DEF FilesInv, Content
    <3> QED
      BY <2>2, <3>1, PushedAdds
  <2>4. files' = [files EXCEPT ![Hash][i] = g]
    BY <2>1 DEF PutIn
  <2>5. flushed' = flushed /\ delivered' = delivered /\ proc = "up" /\ proc' = "up"
    BY <1>5 DEF PushTrue, Flushing
  <2> HIDE DEF g
  <2>6. CASE ~Uploading /\ StartUpload(Hash, i)
    <3>1. FlushedOnly' /\ files'[Hash][i] = g
          /\ \A e \in Hashes : \A j \in Indexes : Content(e, j) => Content(e, j)'
      <4>1. FlushedOnly'
        BY <2>2, <2>3, <2>4, <2>5, PutFlushed
      <4>2. files'[Hash][i] = g /\ \A e \in Hashes : \A j \in Indexes :
                e # Hash \/ j # i => files'[e][j] = files[e][j]
        BY <2>2, <2>3, <2>4, PutOps DEF TypeOK
      <4> QED
        BY <2>3, <4>1, <4>2 DEF Content
    <3> QED
      BY <2>1, <2>2, <2>3, <2>5, <2>6, <3>1, StartKeeps
  <2>7. CASE UNCHANGED <<maps, upload>>
    BY <2>1, <2>2, <2>3, <2>4, <2>5, <2>7, PushKeeps DEF maps, UseInv, OneCachePerFile
  <2> QED
    BY <2>1, <2>6, <2>7
<1>6. CASE PushFalse
  BY <1>6, SameKeeps DEF PushFalse, Flushing, maps, FilesInv
<1>7. CASE PushStoredFalse
  <2>1. PICK i \in Indexes : At(i) /\ PutIn(i, Pushed(files[Hash][i], message))
    BY <1>7 DEF PushStoredFalse
  <2>2. message \in flushed /\ message \in Messages /\ Hash \in Hashes
        /\ files[Hash][i] \in Cache
        /\ ~(Uploading /\ upload.hash = Hash /\ upload.index = i)
    BY <1>7, <2>1, FlushOps DEF PushStoredFalse
  <2> DEFINE g == Pushed(files[Hash][i], message)
  <2>3. g \in Cache /\ Elements(g.recs) \subseteq flushed
    <3>1. Elements(files[Hash][i].recs) \subseteq flushed
      BY <2>2 DEF FilesInv, Content
    <3> QED
      BY <2>2, <3>1, PushedAdds
  <2>4. files' = [files EXCEPT ![Hash][i] = g]
    BY <2>1 DEF PutIn
  <2> HIDE DEF g
  <2>5. proc = "up" /\ UNCHANGED <<proc, maps, upload, message, flushed, delivered>>
    BY <1>7 DEF PushStoredFalse, Flushing
  <2> QED
    BY <2>2, <2>3, <2>4, <2>5, PushKeeps DEF maps, UseInv, OneCachePerFile
<1>8. CASE Refuse
  BY <1>8, SameKeeps DEF Refuse, Return, Flushing, maps, history
<1>9. CASE CreateAndPush \/ CreateAndPushStoredFalse
  <2>1. PICK i \in Indexes :
            NextFree(i) /\ Register(i) /\ PutIn(i, Pushed(Opened(files[Hash][i]), message))
    BY <1>9 DEF CreateAndPush, CreateAndPushStoredFalse
  <2>2. message \in flushed /\ message \in Messages /\ Hash \in Hashes
        /\ ~(Uploading /\ upload.hash = Hash /\ upload.index = i)
    BY <1>9, <2>1, FlushOps DEF CreateAndPush, CreateAndPushStoredFalse
  <2> DEFINE g == Pushed(Opened(files[Hash][i]), message)
  <2>3. g \in Cache /\ Elements(g.recs) \subseteq flushed
    BY <2>2, OpenedFlushed, PushedAdds
  <2>4. files' = [files EXCEPT ![Hash][i] = g]
    BY <2>1 DEF PutIn
  <2> HIDE DEF g
  <2>5. proc = "up" /\ UNCHANGED <<proc, upload, flushed, delivered>> /\ lock' = "free"
    BY <1>9 DEF CreateAndPush, CreateAndPushStoredFalse, Return, Flushing
  <2>6. /\ trackers_cache'[Hash] = trackers_cache[Hash] \cup {i}
        /\ tracker_cache_ids'[Hash] = tracker_cache_ids[Hash] \cup {i}
        /\ \A e \in Hashes : e # Hash => trackers_cache'[e] = trackers_cache[e]
                                       /\ tracker_cache_ids'[e] = tracker_cache_ids[e]
    BY <2>1, <2>2 DEF Register, TypeOK
  <2> QED
    BY <2>2, <2>3, <2>4, <2>5, <2>6, PushKeeps DEF UseInv, OneCachePerFile
<1>10. CASE CreateAndPushFalse
  <2>1. PICK i \in Indexes : NextFree(i) /\ Register(i) /\ PutIn(i, Opened(files[Hash][i]))
    BY <1>10 DEF CreateAndPushFalse
  <2>2. Hash \in Hashes /\ ~(Uploading /\ upload.hash = Hash /\ upload.index = i)
    BY <1>10, <2>1, FlushOps DEF CreateAndPushFalse
  <2> DEFINE g == Opened(files[Hash][i])
  <2>3. g \in Cache /\ Elements(g.recs) \subseteq flushed
    BY <2>2, OpenedFlushed
  <2>4. files' = [files EXCEPT ![Hash][i] = g]
    BY <2>1 DEF PutIn
  <2> HIDE DEF g
  <2>5. proc = "up" /\ UNCHANGED <<proc, upload, flushed, delivered>> /\ lock' = "free"
    BY <1>10 DEF CreateAndPushFalse, Return, Flushing
  <2>6. /\ trackers_cache'[Hash] = trackers_cache[Hash] \cup {i}
        /\ tracker_cache_ids'[Hash] = tracker_cache_ids[Hash] \cup {i}
        /\ \A e \in Hashes : e # Hash => trackers_cache'[e] = trackers_cache[e]
                                       /\ tracker_cache_ids'[e] = tracker_cache_ids[e]
    BY <2>1, <2>2 DEF Register, TypeOK
  <2> QED
    BY <2>2, <2>3, <2>4, <2>5, <2>6, PushKeeps DEF UseInv, OneCachePerFile
<1>11. CASE CreateFails
  <2>1. PICK i \in Indexes : NextFree(i) /\ PutIn(i, NoFile)
    BY <1>11 DEF CreateFails
  <2>2. message \in flushed /\ Hash \in Hashes /\ i \notin trackers_cache[Hash]
        /\ ~(Uploading /\ upload.hash = Hash /\ upload.index = i)
    BY <1>11, <2>1, FlushOps DEF CreateFails
  <2>3. /\ files'[Hash][i] = NoFile
        /\ \A e \in Hashes : \A j \in Indexes :
               e # Hash \/ j # i => files'[e][j] = files[e][j]
    BY <2>1, <2>2, PutOps DEF PutIn, TypeOK
  <2>4. proc = "up"
        /\ UNCHANGED <<proc, lock, maps, upload, message, flushed, delivered>>
    BY <1>11 DEF CreateFails, Flushing
  <2>5. FlushedOnly'
    BY <2>3, <2>4 DEF FlushedOnly, FilesInv, Content
  <2>6. \A e \in Hashes : \A j \in trackers_cache'[e] : Content(e, j)'
    BY <2>2, <2>3, <2>4 DEF FilesInv, Content, TypeOK, maps
  <2>7. ASSUME Uploading
        PROVE  files'[upload.hash][upload.index] = files[upload.hash][upload.index]
    BY <2>2, <2>3, <2>7, UploadOps
  <2>8. FilesInv'
    BY <2>2, <2>4, <2>5, <2>6, <2>7 DEF FlushedOnly, FilesInv, Content, Uploading, Sent
  <2>9. UseInv'
    BY <2>4, <2>7 DEF UseInv, OneCachePerFile, ClearsWhatWasSent, Uploading, maps
  <2> QED
    BY <2>8, <2>9
<1>12. CASE CheckAndUpload
  <2>1. PICK c \in Hashes \X Indexes :
            c \in Pending /\ files' = files /\ StartUpload(c[1], c[2])
            /\ lock' \in {"free", "dead"}
    BY <1>12 DEF CheckAndUpload, Chosen
  <2>2. c[1] \in Hashes /\ c[2] \in Indexes /\ files'[c[1]][c[2]] \in Cache
        /\ c[2] \in trackers_cache[c[1]]
    BY <2>1 DEF Pending, FilesInv, Content, TypeOK
  <2>3. flushed' = flushed /\ proc = "up" /\ proc' = "up" /\ ~Uploading
    BY <1>12 DEF CheckAndUpload, history
  <2>4. FlushedOnly' /\ \A e \in Hashes : \A j \in Indexes : Content(e, j) => Content(e, j)'
    BY <2>1, <2>3 DEF FlushedOnly, FilesInv, Content
  <2> QED
    BY <2>1, <2>2, <2>3, <2>4, StartKeeps
<1>13. CASE Receive
  <2>1. upload' \in Upload /\ upload'.hash = upload.hash /\ upload'.index = upload.index
        /\ upload'.sent = upload.sent
    BY <1>13, UploadOps DEF Receive, Upload
  <2>2. Sent' = Sent /\ Sent \subseteq delivered'
    BY <1>13, <2>1 DEF Receive, Sent
  <2>3. Uploading /\ UNCHANGED <<proc, lock, files, maps, message, flushed>>
    BY <1>13 DEF Receive, flush
  <2>4. FilesInv'
    BY <2>1, <2>2, <2>3 DEF FilesInv, Content, Uploading, maps
  <2> QED
    BY <2>1, <2>3, <2>4 DEF UseInv, OneCachePerFile, ClearsWhatWasSent, Uploading, maps
<1>14. CASE UploadSucceeded
  <2> DEFINE g == Cleared(files[upload.hash][upload.index])
  <2>1. g \in Cache /\ Elements(g.recs) \subseteq flushed
    BY <1>14, UploadOps, ClearOps, NoElements DEF UploadSucceeded
  <2> QED
    BY <1>14, <2>1, AnswerKeeps DEF UploadSucceeded, history
<1>15. CASE ClearThrows
  <2> DEFINE g == Cleared(files[upload.hash][upload.index])
  <2>1. g \in Cache /\ Elements(g.recs) \subseteq flushed
    BY <1>15, UploadOps, ClearOps, NoElements DEF ClearThrows
  <2> QED
    BY <1>15, <2>1, AnswerKeeps DEF ClearThrows
<1>16. CASE UploadFailed
  <2> DEFINE g == files[upload.hash][upload.index]
  <2>1. g \in Cache /\ Elements(g.recs) \subseteq flushed /\ ClearUploaded(g)
    BY <1>16, UploadOps DEF UploadFailed, ClearUploaded, FilesInv, Content, TypeOK
  <2> QED
    BY <1>16, <2>1, AnswerKeeps DEF UploadFailed
<1>17. ASSUME NEW what \in Mishaps, Down(what), FlushedOnly' PROVE FilesInv' /\ UseInv'
  <2>1. FilesInv'
    BY <1>17 DEF Down, FilesInv, FlushedOnly, NoIndexes, Uploading
  <2> QED
    BY <1>17, <2>1 DEF Down, UseInv, OneCachePerFile, ClearsWhatWasSent, Uploading
<1>18. CASE Crash
  <2>1. FlushedOnly'
    BY <1>18 DEF Crash, Down, FlushedOnly, FilesInv, Content
  <2> QED
    BY <1>17, <1>18, <2>1 DEF Crash, Mishaps
<1>19. CASE CrashInPush
  <2>1. PICK i \in Indexes : \/ At(i) /\ PutIn(i, Counted(files[Hash][i]))
                            \/ PutIn(i, Counted(Opened(files[Hash][i])))
    BY <1>19 DEF CrashInPush
  <2>2. message \in Messages /\ Hash \in Hashes /\ (At(i) => files[Hash][i] \in Cache)
    BY <1>19, FlushOps DEF CrashInPush
  <2>3. PICK d \in Cache : PutIn(i, Counted(d)) /\ Elements(d.recs) \subseteq flushed
    <3>1. CASE At(i) /\ PutIn(i, Counted(files[Hash][i]))
      BY <2>2, <3>1 DEF FilesInv, Content
    <3>2. CASE PutIn(i, Counted(Opened(files[Hash][i])))
      BY <2>2, <3>2, OpenedFlushed
    <3> QED
      BY <2>1, <3>1, <3>2
  <2>4. Counted(d) \in Cache /\ Elements(Counted(d).recs) \subseteq flushed
    BY <2>2, <2>3, CacheOps
  <2>5. FlushedOnly'
    BY <1>19, <2>2, <2>3, <2>4, PutFlushed DEF CrashInPush, Down, PutIn
  <2> QED
    BY <1>17, <1>19, <2>5 DEF CrashInPush, Mishaps
<1>20. CASE CrashInClear
  <2> DEFINE g == ZeroCount(files[upload.hash][upload.index])
  <2>1. upload.hash \in Hashes /\ upload.index \in Indexes
        /\ g \in Cache /\ Elements(g.recs) \subseteq flushed
    BY <1>20, UploadOps, ClearOps DEF CrashInClear, FilesInv, Content
  <2>2. FlushedOnly'
    BY <1>20, <2>1, PutFlushed DEF CrashInClear, Down, ClearUploaded
  <2> QED
    BY <1>17, <1>20, <2>2 DEF CrashInClear, Mishaps
<1>21. CASE UNCHANGED vars
  BY <1>21 DEF vars, maps, flush, history, FilesInv, Content, UseInv, OneCachePerFile,
               ClearsWhatWasSent, Uploading, Sent
<1> QED
  BY <1>1, <1>2, <1>3, <1>4, <1>5, <1>6, <1>7, <1>8, <1>9, <1>10, <1>11, <1>12, <1>13,
     <1>14, <1>15, <1>16, <1>18, <1>19, <1>20, <1>21 DEF Next, Start, FlushStep, Answer

-----------------------------------------------------------------------------
(* The two numbers of a header, and where accepted messages are.           *)

Matches(f, cut) ==
    /\ "clear_cut" \notin cut => Len(f.recs) <= f.count
    /\ "clear_cut" \notin cut /\ "push_cut" \notin cut => Len(f.recs) = f.count

\* CountInv by the mishaps that are in it.
LEMMA CountIs ==
    CountInv <=> \A h \in Hashes : \A i \in Indexes :
                     Content(h, i) => Matches(files[h][i], mishaps)
  BY DEF CountInv, Matches, Happened

\* After a step that writes the file g, if any.
LEMMA CountPut ==
    ASSUME TypeOK, CountInv, mishaps \subseteq mishaps',
           NEW h \in Hashes, NEW i \in Indexes, NEW g \in Cache \cup {NoFile},
           files' = [files EXCEPT ![h][i] = g],
           g # NoFile => Matches(g, mishaps')
    PROVE  CountInv'
<1>1. /\ files'[h][i] = g
      /\ \A e \in Hashes : \A j \in Indexes :
             e # h \/ j # i => files'[e][j] = files[e][j]
  BY PutOps DEF TypeOK
<1>2. \A e \in Hashes : \A j \in Indexes :
         files'[e][j] # NoFile => Matches(files'[e][j], mishaps')
  BY <1>1, CountIs DEF Content, Matches
<1> QED
  BY <1>2 DEF CountInv, Content, Matches, Happened

\* An accepted message is still in a file when the file that is written keeps the
\* records that no server has.
LEMMA KeptPut ==
    ASSUME TypeOK, KeptInv, mishaps \subseteq mishaps', delivered \subseteq delivered',
           NEW h \in Hashes, NEW i \in Indexes, NEW g \in Cache,
           files' = [files EXCEPT ![h][i] = g],
           Content(h, i) => Elements(files[h][i].recs) \ delivered \subseteq Elements(g.recs),
           accepted' \subseteq accepted \cup Elements(g.recs)
    PROVE  KeptInv'
<1>1. /\ files'[h][i] = g /\ g # NoFile
      /\ \A e \in Hashes : \A j \in Indexes :
             e # h \/ j # i => files'[e][j] = files[e][j]
  BY PutOps DEF TypeOK
<1>2. CASE Happened({"clear_cut", "deleted"})
  BY <1>2 DEF KeptInv, Happened
<1>3. CASE ~Happened({"clear_cut", "deleted"})
  <2> SUFFICES ASSUME NEW m \in accepted' \ delivered'
               PROVE  \E e \in Hashes : \E j \in Indexes :
                          files'[e][j] # NoFile /\ m \in Elements(files'[e][j].recs)
    BY DEF KeptInv, Content
  <2>1. CASE m \in Elements(g.recs)
    BY <1>1, <2>1
  <2>2. CASE m \notin Elements(g.recs)
    <3>1. PICK e \in Hashes, j \in Indexes :
              Content(e, j) /\ m \in Elements(files[e][j].recs)
      BY <1>3, <2>2 DEF KeptInv
    <3>2. e # h \/ j # i
      BY <2>2, <3>1
    <3> QED
      BY <1>1, <3>1, <3>2 DEF Content
  <2> QED
    BY <2>1, <2>2
<1> QED
  BY <1>2, <1>3

\* Steps that touch no file.
LEMMA SameFiles ==
    ASSUME CountInv, KeptInv, files' = files, accepted' = accepted,
           mishaps \subseteq mishaps', delivered \subseteq delivered'
    PROVE  CountInv' /\ KeptInv'
<1>1. CountInv'
  BY DEF CountInv, Content, Happened
<1>2. KeptInv'
  BY DEF KeptInv, Content, Happened
<1> QED
  BY <1>1, <1>2

\* What Push adds, to a cache of the map or to a new one.
LEMMA PushedMatches ==
    ASSUME NEW c \in Cache, NEW m \in Messages, NEW cut, Matches(c, cut)
    PROVE  /\ Pushed(c, m) \in Cache /\ Matches(Pushed(c, m), cut)
           /\ Counted(c) \in Cache /\ Matches(Counted(c), cut \cup {"push_cut"})
           /\ Elements(c.recs) \subseteq Elements(Pushed(c, m).recs)
           /\ m \in Elements(Pushed(c, m).recs)
<1>1. /\ Pushed(c, m) \in Cache /\ Counted(c) \in Cache
      /\ Pushed(c, m).count = c.count + 1 /\ Len(Pushed(c, m).recs) = Len(c.recs) + 1
      /\ Counted(c).recs = c.recs /\ Counted(c).count = c.count + 1
  BY CacheOps
<1>2. Elements(Pushed(c, m).recs) = Elements(c.recs) \cup {m}
  BY CacheOps, Zenon
<1>3. c.count \in Nat /\ Len(c.recs) \in Nat
  BY DEF Cache
<1>4. Matches(Pushed(c, m), cut)
  BY <1>1, <1>3 DEF Matches
<1>5. Matches(Counted(c), cut \cup {"push_cut"})
  BY <1>1, <1>3 DEF Matches
<1> QED
  BY <1>1, <1>2, <1>4, <1>5

\* The file a cache is created on.
LEMMA OpenedMatches ==
    ASSUME TypeOK, CountInv, NEW h \in Hashes, NEW i \in Indexes
    PROVE  /\ Opened(files[h][i]) \in Cache
           /\ Matches(Opened(files[h][i]), mishaps)
           /\ Content(h, i) => Opened(files[h][i]) = files[h][i]
<1>1. CASE files[h][i] = NoFile
  BY <1>1, EmptyOps, NoElements DEF Opened, Matches, Content
<1>2. CASE files[h][i] # NoFile
  BY <1>2, CountIs DEF Opened, Content, TypeOK
<1> QED
  BY <1>1, <1>2

\* What a Clear removes, a server has; so its two stores lose nothing.
LEMMA ReceivedOps ==
    ASSUME TypeOK, FilesInv, UseInv, CountInv, Uploading, upload.received
    PROVE  "clear_cut" \in mishaps
           \/ Elements(files[upload.hash][upload.index].recs) \subseteq delivered
<1> SUFFICES ASSUME "clear_cut" \notin mishaps
             PROVE  Elements(files[upload.hash][upload.index].recs) \subseteq delivered
  OBVIOUS
<1> DEFINE f == files[upload.hash][upload.index]
<1>1. upload.hash \in Hashes /\ upload.index \in Indexes /\ f \in Cache
      /\ Sent = Elements(upload.sent) /\ upload.sent = Loaded(f)
  BY UploadOps
<1>2. Matches(f, mishaps)
  BY <1>1, CountIs DEF Content
<1>3. Loaded(f) = f.recs
  BY <1>1, <1>2, LoadedOps DEF Matches
<1>4. Sent \subseteq delivered
  BY DEF FilesInv
<1> QED
  BY <1>1, <1>3, <1>4

\* Every step keeps the counts and the accepted messages.
LEMMA KeptNext ==
    TypeOK /\ FilesInv /\ UseInv /\ CountInv /\ KeptInv /\ [Next]_vars
    => CountInv' /\ KeptInv'
<1> SUFFICES ASSUME TypeOK, FilesInv, UseInv, CountInv, KeptInv, [Next]_vars
             PROVE  CountInv' /\ KeptInv'
  OBVIOUS
<1>1. ASSUME NEW unread \in SUBSET Existing, Launch(unread) PROVE CountInv' /\ KeptInv'
  BY <1>1, SameFiles DEF Launch
<1>2. ASSUME NEW m \in Messages, FlushTracker(m) PROVE CountInv' /\ KeptInv'
  BY <1>2, SameFiles DEF FlushTracker
<1>3. CASE PassFull \/ UploadFull \/ PushFalse \/ Refuse
  BY <1>3, SameFiles DEF PassFull, UploadFull, PushFalse, Refuse, history
<1>4. CASE PushTrue \/ PushStoredFalse
  <2>1. PICK i \in Indexes : At(i) /\ PutIn(i, Pushed(files[Hash][i], message))
    BY <1>4 DEF PushTrue, PushStoredFalse
  <2>2. message \in Messages /\ Hash \in Hashes /\ files[Hash][i] \in Cache
    BY <1>4, <2>1, FlushOps DEF PushTrue, PushStoredFalse
  <2>3. /\ delivered' = delivered /\ accepted' \subseteq accepted \cup {message}
        /\ mishaps' = mishaps \/ mishaps' = mishaps \cup {"stored_refused"}
    BY <1>4 DEF PushTrue, PushStoredFalse
  <2> DEFINE g == Pushed(files[Hash][i], message)
  <2>4. Matches(files[Hash][i], mishaps)
    BY <2>2, CountIs DEF Content
  <2>5. g \in Cache /\ Matches(g, mishaps) /\ message \in Elements(g.recs)
        /\ Elements(files[Hash][i].recs) \subseteq Elements(g.recs)
    BY <2>2, <2>4, PushedMatches
  <2>6. Matches(g, mishaps')
    BY <2>3, <2>5 DEF Matches
  <2>7. files' = [files EXCEPT ![Hash][i] = g]
    BY <2>1 DEF PutIn
  <2> HIDE DEF g
  <2>8. CountInv'
    BY <2>2, <2>3, <2>5, <2>6, <2>7, CountPut
  <2>9. KeptInv'
    BY <2>2, <2>3, <2>5, <2>7, KeptPut
  <2> QED
    BY <2>8, <2>9
<1>5. CASE CreateAndPush \/ CreateAndPushStoredFalse
  <2>1. PICK i \in Indexes : PutIn(i, Pushed(Opened(files[Hash][i]), message))
    BY <1>5 DEF CreateAndPush, CreateAndPushStoredFalse
  <2>2. message \in Messages /\ Hash \in Hashes
    BY <1>5, <2>1, FlushOps DEF CreateAndPush, CreateAndPushStoredFalse
  <2>3. /\ delivered' = delivered /\ accepted' \subseteq accepted \cup {message}
        /\ mishaps' = mishaps \/ mishaps' = mishaps \cup {"stored_refused"}
    BY <1>5 DEF CreateAndPush, CreateAndPushStoredFalse
  <2> DEFINE o == Opened(files[Hash][i])
             g == Pushed(o, message)
  <2>4. o \in Cache /\ Matches(o, mishaps) /\ (Content(Hash, i) => o = files[Hash][i])
    BY <2>2, OpenedMatches
  <2> HIDE DEF o
  <2>5. g \in Cache /\ Matches(g, mishaps) /\ message \in Elements(g.recs)
        /\ Elements(o.recs) \subseteq Elements(g.recs)
    BY <2>2, <2>4, PushedMatches
  <2>6. Matches(g, mishaps')
    BY <2>3, <2>5 DEF Matches
  <2>7. files' = [files EXCEPT ![Hash][i] = g]
    BY <2>1 DEF PutIn, o
  <2> HIDE DEF g
  <2>8. CountInv'
    BY <2>2, <2>3, <2>5, <2>6, <2>7, CountPut
  <2>9. KeptInv'
    BY <2>2, <2>3, <2>4, <2>5, <2>7, KeptPut
  <2> QED
    BY <2>8, <2>9
<1>6. CASE CreateAndPushFalse
  <2>1. PICK i \in Indexes : PutIn(i, Opened(files[Hash][i]))
    BY <1>6 DEF CreateAndPushFalse
  <2>2. Hash \in Hashes
    BY <1>6, <2>1, FlushOps DEF CreateAndPushFalse
  <2>3. delivered' = delivered /\ accepted' = accepted /\ mishaps' = mishaps
    BY <1>6 DEF CreateAndPushFalse
  <2> DEFINE o == Opened(files[Hash][i])
  <2>4. o \in Cache /\ Matches(o, mishaps) /\ (Content(Hash, i) => o = files[Hash][i])
    BY <2>2, OpenedMatches
  <2>5. files' = [files EXCEPT ![Hash][i] = o]
    BY <2>1 DEF PutIn
  <2> HIDE DEF o
  <2>6. CountInv'
    BY <2>2, <2>3, <2>4, <2>5, CountPut
  <2>7. KeptInv'
    BY <2>2, <2>3, <2>4, <2>5, KeptPut
  <2> QED
    BY <2>6, <2>7
<1>7. CASE CreateFails
  <2>1. PICK i \in Indexes :
            /\ PutIn(i, NoFile)
            /\ mishaps' = IF files[Hash][i] = NoFile THEN mishaps
                                                     ELSE mishaps \cup {"deleted"}
    BY <1>7 DEF CreateFails
  <2>2. Hash \in Hashes
    BY <1>7, <2>1, FlushOps DEF CreateFails
  <2>3. delivered' = delivered /\ accepted' = accepted
    BY <1>7 DEF CreateFails
  <2>4. CASE files[Hash][i] = NoFile
    <3>1. files' = files
      BY <2>1, <2>2, <2>4 DEF PutIn, TypeOK
    <3> QED
      BY <2>1, <2>3, <2>4, <3>1, SameFiles
  <2>5. CASE files[Hash][i] # NoFile
    <3>1. CountInv'
      BY <2>1, <2>2, <2>5, CountPut DEF PutIn
    <3>2. KeptInv'
      BY <2>1, <2>5 DEF KeptInv, Happened
    <3> QED
      BY <3>1, <3>2
  <2> QED
    BY <2>4, <2>5
<1>8. CASE CheckAndUpload \/ Receive \/ UploadFailed \/ Crash
  BY <1>8, SameFiles DEF CheckAndUpload, Receive, UploadFailed, Crash, Down, history
<1>9. CASE UploadSucceeded \/ ClearThrows
  <2> DEFINE f == files[upload.hash][upload.index]
             g == Cleared(f)
  <2>1. /\ Uploading /\ upload.received /\ ClearUploaded(g)
        /\ mishaps' = mishaps /\ delivered' = delivered /\ accepted' = accepted
    BY <1>9 DEF UploadSucceeded, ClearThrows, history
  <2>2. upload.hash \in Hashes /\ upload.index \in Indexes /\ f \in Cache
    BY <2>1, UploadOps
  <2>3. g \in Cache /\ Matches(g, mishaps)
    BY <2>2, ClearOps, NoElements DEF Matches
  <2>4. files' = [files EXCEPT ![upload.hash][upload.index] = g]
    BY <2>1 DEF ClearUploaded
  <2> HIDE DEF g
  <2>5. CountInv'
    BY <2>1, <2>2, <2>3, <2>4, CountPut
  <2>6. CASE "clear_cut" \in mishaps
    BY <2>1, <2>5, <2>6 DEF KeptInv, Happened
  <2>7. CASE "clear_cut" \notin mishaps
    <3>1. Elements(f.recs) \ delivered \subseteq Elements(g.recs)
      BY <2>1, <2>7, ReceivedOps
    <3>2. KeptInv'
      BY <2>1, <2>2, <2>3, <2>4, <3>1, KeptPut
    <3> QED
      BY <2>5, <3>2
  <2> QED
    BY <2>6, <2>7
<1>10. CASE CrashInPush
  <2>1. PICK i \in Indexes : \/ At(i) /\ PutIn(i, Counted(files[Hash][i]))
                            \/ PutIn(i, Counted(Opened(files[Hash][i])))
    BY <1>10 DEF CrashInPush
  <2>2. message \in Messages /\ Hash \in Hashes /\ (At(i) => files[Hash][i] \in Cache)
    BY <1>10, FlushOps DEF CrashInPush
  <2>3. mishaps' = mishaps \cup {"push_cut"} /\ accepted' = accepted /\ delivered' = delivered
    BY <1>10 DEF CrashInPush, Down
  <2>4. PICK d \in Cache : /\ PutIn(i, Counted(d)) /\ Matches(d, mishaps)
                           /\ Content(Hash, i) => d = files[Hash][i]
    <3>1. CASE At(i) /\ PutIn(i, Counted(files[Hash][i]))
      BY <2>2, <3>1, CountIs DEF Content
    <3>2. CASE PutIn(i, Counted(Opened(files[Hash][i])))
      BY <2>2, <3>2, OpenedMatches
    <3> QED
      BY <2>1, <3>1, <3>2
  <2> DEFINE g == Counted(d)
  <2>5. g \in Cache /\ Matches(g, mishaps') /\ g.recs = d.recs
    BY <2>2, <2>3, <2>4, PushedMatches, CacheOps
  <2>6. files' = [files EXCEPT ![Hash][i] = g]
    BY <2>4 DEF PutIn
  <2> HIDE DEF g
  <2>7. CountInv'
    BY <2>2, <2>3, <2>5, <2>6, CountPut
  <2>8. KeptInv'
    BY <2>2, <2>3, <2>4, <2>5, <2>6, KeptPut
  <2> QED
    BY <2>7, <2>8
<1>11. CASE CrashInClear
  <2>1. "clear_cut" \in mishaps'
    BY <1>11 DEF CrashInClear, Down
  <2> QED
    BY <2>1 DEF CountInv, KeptInv, Happened
<1>12. CASE UNCHANGED vars
  BY <1>12, SameFiles DEF vars, history
<1> QED
  BY <1>1, <1>2, <1>3, <1>4, <1>5, <1>6, <1>7, <1>8, <1>9, <1>10, <1>11, <1>12
     DEF Next, Start, FlushStep, Answer

-----------------------------------------------------------------------------
(* The lock.                                                               *)

\* A cache that counts a record loads one, unless a store was cut.
LEMMA CountedLoads ==
    ASSUME TypeOK, CountInv, NEW h \in Hashes, NEW i \in Indexes, files[h][i] \in Cache,
           files[h][i].count > 0, FailsAtOnce(h, i)
    PROVE  h \in Malformed \/ Happened({"push_cut", "clear_cut"})
<1> SUFFICES ASSUME ~Happened({"push_cut", "clear_cut"}), Loaded(files[h][i]) = <<>>
             PROVE  FALSE
  BY DEF FailsAtOnce
<1>1. Len(files[h][i].recs) = files[h][i].count
  BY CountIs DEF Content, Matches, Happened
<1>2. Loaded(files[h][i]) = files[h][i].recs
  BY <1>1, LoadedOps DEF Cache
<1> QED
  BY <1>1, <1>2, NoElements

\* Every step keeps DeadlockNeedsCutStore.
LEMMA LockNext ==
    TypeOK /\ FilesInv /\ UseInv /\ CountInv /\ DeadlockNeedsCutStore /\ [Next]_vars
    => DeadlockNeedsCutStore'
<1> SUFFICES ASSUME TypeOK, FilesInv, UseInv, CountInv, DeadlockNeedsCutStore, [Next]_vars,
                    lock' = "dead"
             PROVE  upload'.hash \in Malformed \/ Happened({"push_cut", "clear_cut"})'
  BY DEF DeadlockNeedsCutStore
<1>1. ASSUME NEW unread \in SUBSET Existing, Launch(unread) PROVE FALSE
  BY <1>1 DEF Launch, FilesInv
<1>2. CASE UploadFull
  <2>1. PICK i \in Indexes : /\ At(i) /\ Full(i) /\ files' = files /\ StartUpload(Hash, i)
                             /\ lock' = IF FailsAtOnce(Hash, i) THEN "dead" ELSE lock
    BY <1>2 DEF UploadFull
  <2>2. Hash \in Hashes /\ files[Hash][i] \in Cache
    BY <1>2, <2>1, FlushOps DEF UploadFull
  <2>3. FailsAtOnce(Hash, i)
    BY <1>2, <2>1 DEF UploadFull, Flushing
  <2>4. files[Hash][i].count > 0
    BY <2>1, <2>2 DEF Full, Cache
  <2>5. upload'.hash = Hash /\ mishaps' = mishaps
    BY <1>2, <2>1, <2>2, StartOps DEF UploadFull, history
  <2> QED
    BY <2>2, <2>3, <2>4, <2>5, CountedLoads DEF Happened
<1>3. CASE PushTrue
  <2>1. PICK i \in Indexes :
            /\ At(i) /\ PutIn(i, Pushed(files[Hash][i], message))
            /\ StartUpload(Hash, i) /\ Hash \in Malformed
    BY <1>3 DEF PushTrue
  <2>2. message \in Messages /\ Hash \in Hashes /\ files[Hash][i] \in Cache
    BY <1>3, <2>1, FlushOps DEF PushTrue
  <2>3. Pushed(files[Hash][i], message) \in Cache
    BY <2>2, CacheOps
  <2>4. files'[Hash][i] \in Cache
    BY <2>1, <2>2, <2>3, PutOps DEF PutIn, TypeOK
  <2> QED
    BY <2>1, <2>2, <2>4, StartOps
<1>4. CASE CheckAndUpload
  <2>1. PICK c \in Hashes \X Indexes :
            /\ c \in Pending /\ files' = files /\ StartUpload(c[1], c[2])
            /\ FailsAtOnce(c[1], c[2])
    BY <1>4 DEF CheckAndUpload, Chosen
  <2>2. /\ c[1] \in Hashes /\ c[2] \in Indexes /\ files[c[1]][c[2]] \in Cache
        /\ files[c[1]][c[2]].count > 0
    BY <2>1 DEF Pending, FilesInv, Content, TypeOK
  <2>3. upload'.hash = c[1] /\ mishaps' = mishaps
    BY <1>4, <2>1, <2>2, StartOps DEF CheckAndUpload, history
  <2> QED
    BY <2>1, <2>2, <2>3, CountedLoads DEF Happened
<1>5. CASE Receive
  <2>1. upload'.hash = upload.hash /\ mishaps' = mishaps /\ lock = "dead"
    BY <1>5, UploadOps DEF Receive, Upload
  <2> QED
    BY <2>1 DEF DeadlockNeedsCutStore, Happened
<1>6. ASSUME NEW m \in Messages, FlushTracker(m) PROVE FALSE
  BY <1>6 DEF FlushTracker
<1>7. CASE PassFull \/ PushFalse \/ PushStoredFalse \/ CreateFails
  BY <1>7 DEF PassFull, PushFalse, PushStoredFalse, CreateFails, Flushing
<1>8. CASE Refuse \/ CreateAndPush \/ CreateAndPushFalse \/ CreateAndPushStoredFalse
  BY <1>8 DEF Refuse, CreateAndPush, CreateAndPushFalse, CreateAndPushStoredFalse, Return
<1>9. CASE Answer
  BY <1>9 DEF Answer, UploadSucceeded, ClearThrows, UploadFailed
<1>10. CASE Crash \/ CrashInPush \/ CrashInClear
  BY <1>10 DEF Crash, CrashInPush, CrashInClear, Down
<1>11. CASE UNCHANGED vars
  BY <1>11 DEF vars, history, DeadlockNeedsCutStore, Happened
<1> QED
  BY <1>1, <1>2, <1>3, <1>4, <1>5, <1>6, <1>7, <1>8, <1>9, <1>10, <1>11
     DEF Next, Start, FlushStep

-----------------------------------------------------------------------------
(* Theorems.                                                               *)

\* The three parts on which the others rest.
LEMMA Base == Spec => [](TypeOK /\ FilesInv /\ UseInv)
<1>1. Init => TypeOK /\ FilesInv /\ UseInv
  BY InitInv
<1>2. TypeOK /\ FilesInv /\ UseInv /\ [Next]_vars => (TypeOK /\ FilesInv /\ UseInv)'
  BY NextType, FilesNext
<1> QED
  BY <1>1, <1>2, PTL DEF Spec

\* Files hold flushed messages only, and everything has its type, whatever fails.
THEOREM TypeCorrect == Spec => []TypeOK
  BY Base, PTL

\* FlushTracker, CreateCache, the upload and its callback never have one file open
\* in two caches.
THEOREM OneCache == Spec => []OneCachePerFile
<1>1. UseInv => OneCachePerFile
  BY DEF UseInv
<1> QED
  BY <1>1, Base, PTL

\* The Clear of an upload's callback removes what was sent and nothing else.
THEOREM ClearedWasSent == Spec => []ClearsWhatWasSent
<1>1. UseInv => ClearsWhatWasSent
  BY DEF UseInv
<1> QED
  BY <1>1, Base, PTL

\* The counts and the accepted messages.
LEMMA KeptBase == Spec => [](TypeOK /\ CountInv /\ KeptInv)
<1>1. Init => CountInv /\ KeptInv
  BY InitInv
<1>2. TypeOK /\ FilesInv /\ UseInv /\ CountInv /\ KeptInv /\ [Next]_vars
      => CountInv' /\ KeptInv'
  BY KeptNext
<1> QED
  BY <1>1, <1>2, Base, PTL DEF Spec

\* What FlushTracker answered true for is in a file that Load returns it from until
\* a server has it; only a cut Clear or a deleted file loses it.
THEOREM Kept == Spec => []AcceptedIsKept
<1>1. TypeOK /\ CountInv /\ KeptInv => AcceptedIsKept
  <2> SUFFICES ASSUME TypeOK, CountInv, KeptInv, ~Happened({"clear_cut", "deleted"}),
                      NEW m \in accepted \ delivered
               PROVE  \E c \in Existing : \E k \in DOMAIN Loaded(files[c[1]][c[2]]) :
                          Loaded(files[c[1]][c[2]])[k] = m
    BY DEF AcceptedIsKept
  <2>1. PICK h \in Hashes, i \in Indexes :
            Content(h, i) /\ m \in Elements(files[h][i].recs)
    BY DEF KeptInv
  <2>2. files[h][i] \in Cache /\ Len(files[h][i].recs) <= files[h][i].count
    BY <2>1, CountIs DEF Content, Matches, Happened, TypeOK
  <2>3. Loaded(files[h][i]) = files[h][i].recs
    BY <2>2, LoadedOps
  <2>4. PICK k \in DOMAIN Loaded(files[h][i]) : Loaded(files[h][i])[k] = m
    BY <2>1, <2>3 DEF Elements
  <2>5. <<h, i>> \in Existing /\ <<h, i>>[1] = h /\ <<h, i>>[2] = i
    BY <2>1 DEF Existing, Content
  <2> QED
    BY <2>4, <2>5
<1> QED
  BY <1>1, KeptBase, PTL

\* A thread comes to wait for the lock it holds only through a malformed endpoint or
\* a cache whose count and records a cut store left apart.
THEOREM NoDeadlock == Spec => []DeadlockNeedsCutStore
<1>1. Init => DeadlockNeedsCutStore
  BY InitInv
<1>2. TypeOK /\ FilesInv /\ UseInv /\ CountInv /\ DeadlockNeedsCutStore /\ [Next]_vars
      => DeadlockNeedsCutStore'
  BY LockNext
<1> QED
  BY <1>1, <1>2, Base, KeptBase, PTL DEF Spec
-----------------------------------------------------------------------------
(* No message twice.  As long as nothing of Repeats happened, a message is  *)
(* a record of at most one file, a delivered one only of the file whose     *)
(* upload was received and will be cleared, and the message being flushed   *)
(* is still nowhere.                                                        *)

Repeats == {"answer_lost", "crash", "push_cut", "clear_cut", "stored_refused"}

Recs(h, i) == IF files[h][i] = NoFile THEN {} ELSE Elements(files[h][i].recs)

Apart ==
    \A h, e \in Hashes : \A i, j \in Indexes :
        Recs(h, i) \cap Recs(e, j) # {} => h = e /\ i = j

DeliveredIsUploaded ==
    \A h \in Hashes : \A i \in Indexes :
        Recs(h, i) \cap delivered # {} =>
            Uploading /\ upload.received /\ upload.hash = h /\ upload.index = i

FlushedIsNew ==
    lock = "flush" =>
        /\ message \notin delivered
        /\ \A h \in Hashes : \A i \in Indexes : message \notin Recs(h, i)

Once == twice = {} /\ Apart /\ DeliveredIsUploaded /\ FlushedIsNew

OnceInv == Happened(Repeats) \/ Once

\* No file and no delivery.
LEMMA OnceInit == Init => OnceInv
<1> SUFFICES ASSUME Init PROVE Once
  BY DEF OnceInv
<1>1. \A h \in Hashes : \A i \in Indexes : Recs(h, i) = {}
  BY DEF Init, Recs
<1> QED
  BY <1>1 DEF Init, Once, Apart, DeliveredIsUploaded, FlushedIsNew

\* The records after one file was written.
LEMMA RecsPut ==
    ASSUME TypeOK, NEW h \in Hashes, NEW i \in Indexes, NEW g \in Cache \cup {NoFile},
           files' = [files EXCEPT ![h][i] = g]
    PROVE  /\ Recs(h, i)' = IF g = NoFile THEN {} ELSE Elements(g.recs)
           /\ \A e \in Hashes : \A j \in Indexes :
                  e # h \/ j # i => Recs(e, j)' = Recs(e, j)
<1>1. files'[h][i] = g /\ \A e \in Hashes : \A j \in Indexes :
             e # h \/ j # i => files'[e][j] = files[e][j]
  BY PutOps DEF TypeOK
<1> QED
  BY <1>1 DEF Recs

\* A step that writes no record but the one being flushed, and clears no upload.
LEMMA OnceKeeps ==
    ASSUME Once, UNCHANGED <<delivered, twice>>,
           NEW h \in Hashes, NEW i \in Indexes, NEW N,
           Recs(h, i)' \subseteq Recs(h, i) \cup N,
           \A e \in Hashes : \A j \in Indexes :
               e # h \/ j # i => Recs(e, j)' = Recs(e, j),
           upload' = upload \/ ~Uploading,
           N = {} \/ (N = {message} /\ lock = "flush"),
           lock' = "flush" => lock = "flush" /\ message' = message /\ N = {}
    PROVE  Once'
<1> USE DEF Once
<1>1. \A e \in Hashes : \A j \in Indexes : N \cap Recs(e, j) = {} /\ N \cap delivered = {}
  BY DEF FlushedIsNew
<1>2. Apart'
  <2> SUFFICES ASSUME NEW d \in Hashes, NEW e \in Hashes, NEW k \in Indexes, NEW j \in Indexes,
                      NEW m, m \in Recs(d, k)', m \in Recs(e, j)'
               PROVE  d = e /\ k = j
    BY DEF Apart
  <2>1. CASE (d = h /\ k = i) /\ (e = h /\ j = i)
    BY <2>1
  <2>2. CASE (d = h /\ k = i) /\ ~(e = h /\ j = i)
    <3>1. m \in Recs(e, j) /\ m \in Recs(h, i)
      BY <1>1, <2>2
    <3> QED
      BY <2>2, <3>1 DEF Apart
  <2>3. CASE ~(d = h /\ k = i) /\ (e = h /\ j = i)
    <3>1. m \in Recs(d, k) /\ m \in Recs(h, i)
      BY <1>1, <2>3
    <3> QED
      BY <2>3, <3>1 DEF Apart
  <2>4. CASE ~(d = h /\ k = i) /\ ~(e = h /\ j = i)
    <3>1. m \in Recs(d, k) /\ m \in Recs(e, j)
      BY <2>4
    <3> QED
      BY <3>1 DEF Apart
  <2> QED
    BY <2>1, <2>2, <2>3, <2>4
<1>3. \A e \in Hashes : \A j \in Indexes :
          Recs(e, j)' \cap delivered # {} => Recs(e, j) \cap delivered # {}
  <2> SUFFICES ASSUME NEW e \in Hashes, NEW j \in Indexes, NEW m, m \in Recs(e, j)', m \in delivered
               PROVE  m \in Recs(e, j)
    OBVIOUS
  <2> QED
    BY <1>1
<1>4. DeliveredIsUploaded'
  BY <1>3 DEF DeliveredIsUploaded, Uploading
<1>5. FlushedIsNew'
  <2> SUFFICES ASSUME lock' = "flush", NEW e \in Hashes, NEW j \in Indexes
               PROVE  message' \notin delivered' /\ message' \notin Recs(e, j)'
    BY DEF FlushedIsNew
  <2> QED
    BY DEF FlushedIsNew
<1> QED
  BY <1>2, <1>4, <1>5

\* A step that writes no file.
LEMMA OnceQuiet ==
    ASSUME Once, UNCHANGED <<files, delivered, twice>>,
           \/ upload' = upload
           \/ ~Uploading
           \/ ~upload.received,
           lock' = "flush" => lock = "flush" /\ message' = message
    PROVE  Once'
<1>1. \A h \in Hashes : \A i \in Indexes : Recs(h, i)' = Recs(h, i)
  BY DEF Recs
<1> QED
  BY <1>1 DEF Once, Apart, DeliveredIsUploaded, FlushedIsNew, Uploading

\* A mishap of Repeats that has happened, has happened.
LEMMA RepeatsStay == Happened(Repeats) /\ [Next]_vars => Happened(Repeats)'
<1> SUFFICES ASSUME [Next]_vars PROVE mishaps \subseteq mishaps'
  BY DEF Happened
<1>1. ASSUME NEW unread \in SUBSET Existing, Launch(unread) PROVE mishaps \subseteq mishaps'
  BY <1>1 DEF Launch
<1>2. ASSUME NEW m \in Messages, FlushTracker(m) PROVE mishaps \subseteq mishaps'
  BY <1>2 DEF FlushTracker
<1>3. CASE FlushStep
  BY <1>3 DEF FlushStep, PassFull, UploadFull, PushTrue, PushFalse, PushStoredFalse, Refuse,
              CreateAndPush, CreateAndPushFalse, CreateAndPushStoredFalse, CreateFails, history
<1>4. CASE CheckAndUpload \/ Receive \/ Answer
  BY <1>4 DEF CheckAndUpload, Receive, Answer, UploadSucceeded, ClearThrows, UploadFailed, history
<1>5. CASE Crash \/ CrashInPush \/ CrashInClear
  BY <1>5 DEF Crash, CrashInPush, CrashInClear, Down
<1>6. CASE UNCHANGED vars
  BY <1>6 DEF vars, history
<1> QED
  BY <1>1, <1>2, <1>3, <1>4, <1>5, <1>6 DEF Next, Start

\* Every step keeps each message in one place until it is delivered.
LEMMA OnceNext == TypeOK /\ FilesInv /\ UseInv /\ OnceInv /\ [Next]_vars => OnceInv'
<1> SUFFICES ASSUME TypeOK, FilesInv, UseInv, Once, [Next]_vars, ~Happened(Repeats)'
             PROVE  Once'
  BY RepeatsStay DEF OnceInv
<1>0. ASSUME NEW x \in Repeats PROVE x \notin mishaps'
  BY DEF Happened
<1>1. ASSUME NEW unread \in SUBSET Existing, Launch(unread) PROVE Once'
  BY <1>1, OnceQuiet DEF Launch, flush, FilesInv
<1>2. ASSUME NEW m \in Messages, FlushTracker(m) PROVE Once'
  <2>1. /\ UNCHANGED <<files, delivered, twice, upload>> /\ m \notin flushed /\ message' = m
    BY <1>2 DEF FlushTracker
  <2>2. \A h \in Hashes : \A i \in Indexes :
            Recs(h, i)' = Recs(h, i) /\ Recs(h, i) \subseteq flushed
    BY <2>1 DEF Recs, FilesInv, Content
  <2>3. m \notin delivered
    BY <2>1 DEF TypeOK
  <2> QED
    BY <2>1, <2>2, <2>3 DEF Once, Apart, DeliveredIsUploaded, FlushedIsNew, Uploading
<1>3. CASE PassFull \/ UploadFull \/ PushFalse \/ Refuse
  BY <1>3, OnceQuiet DEF PassFull, UploadFull, PushFalse, Refuse, Return, Flushing, history
<1>4. CASE PushTrue
  <2>1. PICK i \in Indexes : /\ At(i) /\ PutIn(i, Pushed(files[Hash][i], message))
                             /\ lock' # "flush"
                             /\ upload' = upload \/ ~Uploading
    BY <1>4 DEF PushTrue
  <2>2. message \in Messages /\ Hash \in Hashes /\ files[Hash][i] \in Cache
    BY <1>4, <2>1, FlushOps DEF PushTrue
  <2>3. PICK h \in Hashes : h = Hash
    BY <2>2
  <2>4. PICK g : g = Pushed(files[h][i], message)
    OBVIOUS
  <2>5. g \in Cache /\ Elements(g.recs) = Elements(files[h][i].recs) \cup {message}
    BY <2>2, <2>3, <2>4, CacheOps
  <2>6. files' = [files EXCEPT ![h][i] = g]
    BY <2>1, <2>3, <2>4 DEF PutIn
  <2>7. /\ Recs(h, i)' = Elements(g.recs)
        /\ \A e \in Hashes : \A j \in Indexes : e # h \/ j # i => Recs(e, j)' = Recs(e, j)
    BY <2>5, <2>6, RecsPut
  <2>8. Recs(h, i) = Elements(files[h][i].recs)
    BY <2>2, <2>3 DEF Recs
  <2>9. delivered' = delivered /\ twice' = twice /\ lock = "flush"
    BY <1>4 DEF PushTrue, Flushing
  <2>10. PICK N : N = {message}
    OBVIOUS
  <2> QED
    BY <2>1, <2>5, <2>7, <2>8, <2>9, <2>10, OnceKeeps
<1>5. CASE PushStoredFalse \/ CreateAndPushStoredFalse
  BY <1>0, <1>5 DEF PushStoredFalse, CreateAndPushStoredFalse, Repeats
<1>6. CASE CreateAndPush \/ CreateAndPushFalse
  <2>1. PICK i \in Indexes : \/ PutIn(i, Pushed(Opened(files[Hash][i]), message))
                            \/ PutIn(i, Opened(files[Hash][i]))
    BY <1>6 DEF CreateAndPush, CreateAndPushFalse
  <2>2. /\ message \in Messages /\ Hash \in Hashes /\ Opened(files[Hash][i]) \in Cache
        /\ lock = "flush" /\ lock' = "free"
        /\ UNCHANGED <<delivered, twice, upload>>
    BY <1>6, FlushOps DEF CreateAndPush, CreateAndPushFalse, Return, Flushing
  <2>3. PICK h \in Hashes : h = Hash
    BY <2>2
  <2>4. PICK o \in Cache : o = Opened(files[h][i])
    BY <2>2, <2>3
  <2>5. Elements(o.recs) \subseteq Recs(h, i)
    BY <2>4, EmptyOps, NoElements DEF Opened, Recs
  <2>6. PICK g \in Cache : /\ files' = [files EXCEPT ![h][i] = g]
                           /\ Elements(g.recs) \subseteq Recs(h, i) \cup {message}
    <3>1. /\ Pushed(o, message) \in Cache
          /\ Elements(Pushed(o, message).recs) = Elements(o.recs) \cup {message}
      BY <2>2, CacheOps
    <3> QED
      BY <2>1, <2>3, <2>4, <2>5, <3>1 DEF PutIn
  <2>7. /\ Recs(h, i)' = Elements(g.recs)
        /\ \A e \in Hashes : \A j \in Indexes : e # h \/ j # i => Recs(e, j)' = Recs(e, j)
    BY <2>6, RecsPut
  <2>8. PICK N : N = {message}
    OBVIOUS
  <2> QED
    BY <2>2, <2>6, <2>7, <2>8, OnceKeeps
<1>7. CASE CreateFails
  <2>1. PICK i \in Indexes : PutIn(i, NoFile)
    BY <1>7 DEF CreateFails
  <2>2. Hash \in Hashes /\ UNCHANGED <<delivered, twice, upload, lock, message>> /\ lock = "flush"
    BY <1>7, <2>1, FlushOps DEF CreateFails, Flushing
  <2>3. PICK h \in Hashes : h = Hash
    BY <2>2
  <2>4. files' = [files EXCEPT ![h][i] = NoFile]
    BY <2>1, <2>3 DEF PutIn
  <2>5. /\ Recs(h, i)' = {}
        /\ \A e \in Hashes : \A j \in Indexes : e # h \/ j # i => Recs(e, j)' = Recs(e, j)
    BY <2>4, RecsPut
  <2>6. PICK N : N = {}
    OBVIOUS
  <2> QED
    BY <2>2, <2>5, <2>6, OnceKeeps
<1>8. CASE CheckAndUpload
  BY <1>8, OnceQuiet DEF CheckAndUpload, flush, history
<1>9. CASE UploadFailed
  <2>1. ~upload.received
    BY <1>0, <1>9 DEF UploadFailed, Repeats
  <2> QED
    BY <1>9, <2>1, OnceQuiet DEF UploadFailed, flush
<1>10. CASE Receive
  <2>1. /\ UNCHANGED <<files, lock, message>> /\ Uploading /\ ~upload.received
        /\ upload' = [upload EXCEPT !.received = TRUE]
        /\ delivered' = delivered \cup Sent /\ twice' = twice \cup (delivered \cap Sent)
    BY <1>10 DEF Receive, flush
  <2>2. /\ upload \in Upload /\ upload.hash \in Hashes /\ upload.index \in Indexes
        /\ files[upload.hash][upload.index] \in Cache
        /\ Sent = Elements(Loaded(files[upload.hash][upload.index]))
    BY <2>1, UploadOps
  <2>3. Sent \subseteq Recs(upload.hash, upload.index)
    <3>1. Sent \subseteq Elements(files[upload.hash][upload.index].recs)
      BY <2>2, LoadedOps
    <3> QED
      BY <2>2, <3>1 DEF Recs
  <2>4. \A h \in Hashes : \A i \in Indexes :
            Recs(h, i)' = Recs(h, i) /\ Recs(h, i) \cap delivered = {}
    BY <2>1 DEF Recs, Once, DeliveredIsUploaded
  <2>5. upload'.received /\ upload'.hash = upload.hash /\ upload'.index = upload.index
        /\ upload' # NoUpload
    <3>1. upload'.received /\ upload'.hash = upload.hash /\ upload'.index = upload.index
      BY <2>1, <2>2 DEF Upload
    <3>2. upload' \in Upload
      BY <2>1, <2>2 DEF Upload
    <3> QED
      BY <3>1, <3>2
  <2>6. twice' = {}
    BY <2>1, <2>2, <2>3, <2>4 DEF Once
  <2>7. Apart'
    BY <2>4 DEF Once, Apart
  <2>8. DeliveredIsUploaded'
    <3> SUFFICES ASSUME NEW h \in Hashes, NEW i \in Indexes, NEW m, m \in Recs(h, i), m \in Sent
                 PROVE  upload.hash = h /\ upload.index = i
      BY <2>1, <2>4, <2>5 DEF DeliveredIsUploaded, Uploading
    <3> QED
      BY <2>2, <2>3 DEF Once, Apart
  <2>9. FlushedIsNew'
    BY <2>1, <2>2, <2>3, <2>4 DEF Once, FlushedIsNew
  <2> QED
    BY <2>6, <2>7, <2>8, <2>9 DEF Once
<1>11. CASE UploadSucceeded \/ ClearThrows
  <2>1. /\ Uploading /\ ClearUploaded(Cleared(files[upload.hash][upload.index]))
        /\ lock' = "free" /\ delivered' = delivered /\ twice' = twice
    BY <1>11 DEF UploadSucceeded, ClearThrows, history
  <2>2. /\ upload.hash \in Hashes /\ upload.index \in Indexes
        /\ files[upload.hash][upload.index] \in Cache
    BY <2>1, UploadOps
  <2>3. PICK h \in Hashes, i \in Indexes : h = upload.hash /\ i = upload.index
    BY <2>2
  <2>4. PICK g : g = Cleared(files[h][i])
    OBVIOUS
  <2>5. g \in Cache /\ Elements(g.recs) = {}
    BY <2>2, <2>3, <2>4, ClearOps, NoElements
  <2>6. files' = [files EXCEPT ![h][i] = g]
    BY <2>1, <2>3, <2>4 DEF ClearUploaded
  <2>7. /\ Recs(h, i)' = {}
        /\ \A e \in Hashes : \A j \in Indexes : e # h \/ j # i => Recs(e, j)' = Recs(e, j)
    BY <2>5, <2>6, RecsPut
  <2>8. \A e \in Hashes : \A j \in Indexes : Recs(e, j)' \subseteq Recs(e, j)
    BY <2>7
  <2>9. Apart'
    BY <2>8 DEF Once, Apart
  <2>10. DeliveredIsUploaded'
    <3> SUFFICES ASSUME NEW e \in Hashes, NEW j \in Indexes
                 PROVE  Recs(e, j)' \cap delivered = {}
      BY <2>1 DEF DeliveredIsUploaded
    <3>1. CASE e = h /\ j = i
      BY <2>7, <3>1
    <3>2. CASE ~(e = h /\ j = i)
      BY <2>3, <2>7, <3>2 DEF Once, DeliveredIsUploaded
    <3> QED
      BY <3>1, <3>2
  <2> QED
    BY <2>1, <2>9, <2>10 DEF Once, FlushedIsNew
<1>12. CASE Crash \/ CrashInPush \/ CrashInClear
  BY <1>0, <1>12 DEF Crash, CrashInPush, CrashInClear, Down, Repeats
<1>13. CASE UNCHANGED vars
  BY <1>13, OnceQuiet DEF vars, flush, history
<1> QED
  BY <1>1, <1>2, <1>3, <1>4, <1>5, <1>6, <1>7, <1>8, <1>9, <1>10, <1>11, <1>12, <1>13
     DEF Next, Start, FlushStep, Answer

\* A server receives a message again only after a lost answer, an end of the process,
\* or a Push that stored its record and answered false.
THEOREM TwiceNeedsMishap == Spec => []TwiceOnlyAfterMishap
<1>1. OnceInv => TwiceOnlyAfterMishap
  BY DEF OnceInv, Once, TwiceOnlyAfterMishap, Repeats
<1> QED
  BY <1>1, Base, OnceInit, OnceNext, PTL DEF Spec
=============================================================================
